------------------------------- MODULE Tables ------------------------------
(***************************************************************************)
(* The two tables the editing handlers share, and the meaning of the SQL   *)
(* statements they run on them.  One statement is one atomic step; nothing *)
(* in the handlers joins two statements in a transaction.                  *)
(*                                                                         *)
(* No engine enforces the REFERENCES and ON DELETE CASCADE of the schema:  *)
(* SQLite does so only under PRAGMA foreign_keys, which store.Connect      *)
(* never issues; adaptSQL strips REFERENCES for MySQL (sqlite.go:197-198); *)
(* PostgreSQL refuses the schema (AUTOINCREMENT, 001:420).  So a row may   *)
(* refer to one that is gone, or that never was.                           *)
(***************************************************************************)
EXTENDS Integers, FiniteSets, Sequences

CONSTANTS
  Users,        \* user ids
  ProfileIds,   \* profile ids: random, so never used twice
  LinkIds,      \* link ids: random, so never used twice
  Unused,       \* the id has not been inserted yet
  Deleted,      \* the row with this id was deleted
  NoProfile,    \* the profile of a request that has none
  MaxBlind      \* bound: how often COUNT fails, for each parent row

NoRow == {Unused, Deleted}

LinkRow == [profile : ProfileIds, position : Nat, active : BOOLEAN]

ASSUME TablesAssumption ==
  /\ IsFiniteSet(LinkIds)
  /\ IsFiniteSet(ProfileIds)
  /\ Unused # Deleted
  /\ NoRow \cap ProfileIds = {}
  /\ Unused \notin LinkRow
  /\ Deleted \notin LinkRow

VARIABLES
  users,        \* users table: the ids of the rows
  profiles,     \* profiles table: id -> row, Unused or Deleted
  links         \* links table: id -> row, Unused or Deleted

ProfileExists(p) == profiles[p] \notin NoRow

LinkExists(l) == links[l] \notin NoRow

\* SELECT COUNT( * ) FROM profiles WHERE id = ? AND user_id = ?
userOwnsProfile(u, p) == ProfileExists(p) /\ profiles[p].owner = u

\* The links of a profile, in no order.
LinksOf(p) == {l \in LinkIds : LinkExists(l) /\ links[l].profile = p}

\* The profiles of a user.
ProfilesOf(u) == {p \in ProfileIds : ProfileExists(p) /\ profiles[p].owner = u}

----------------------------------------------------------------------------
\* No link outlives its profile: "cascade will delete related data"
\* (profile_handlers.go:367).
NoOrphanLinks == \A l \in LinkIds : LinkExists(l) => ProfileExists(links[l].profile)

\* No profile outlives its user: "cascade will delete related data"
\* (admin_handlers.go:149).
NoOrphanProfiles == \A p \in ProfileIds : ProfileExists(p) => profiles[p].owner \in users
============================================================================
