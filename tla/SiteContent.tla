----------------------------- MODULE SiteContent ----------------------------
(***************************************************************************)
(* Link editing, profile editing and the removal of users on the same      *)
(* tables.  A deleted user's token stays valid until it expires            *)
(* (ValidateToken only checks the signature), so the requests of a user    *)
(* who is gone still arrive.                                               *)
(*                                                                         *)
(* AdminRoutes says whether DELETE /api/admin/users/{id} can be reached.   *)
(* The router wraps it in RequireAdmin without RequireAuth, which answers  *)
(* 401 to everyone, so the server as shipped has AdminRoutes = FALSE; TRUE *)
(* is the handler on its own, as its tests call it.                        *)
(***************************************************************************)
EXTENDS LinkHandlers, ProfileHandlers

CONSTANT AdminRoutes   \* can the admin endpoints be reached?

ASSUME SiteAssumption == AdminRoutes \in BOOLEAN

VARIABLE late   \* ghost: requests about Watched in flight since it was deleted

vars == <<users, profiles, links, job, stale, blind, calm, pjob, pblind, raced, late>>

\* DELETE /api/admin/users/{id}, sent by user a.
DeleteUser(a, u) ==
  /\ AdminRoutes
  /\ a # u
  /\ users' = users \ {u}
  /\ UNCHANGED <<profiles, links, jobVars, pjobVars, late>>

EditLinks ==
  /\ \E r \in Requests : LinkStep(r)
  /\ late' = {r \in late : job'[r].pc # "idle"}
  /\ UNCHANGED pjobVars

EditProfiles ==
  /\ \E q \in ProfileRequests : ProfileStep(q)
  /\ late' = IF profiles[Watched] # Deleted /\ profiles'[Watched] = Deleted
             THEN {r \in Requests : job[r].profile = Watched}
             ELSE late
  /\ UNCHANGED jobVars

\* The process dies: both kinds of request are lost together.
Crash ==
  /\ job' = [r \in Requests |-> Idle]
  /\ stale' = {}
  /\ calm' = (calm /\ \A r \in Requests : job[r].pc \notin {"renumber", "reorder"})
  /\ pjob' = [q \in ProfileRequests |-> IdleProfileJob]
  /\ raced' = {}
  /\ late' = {}
  /\ UNCHANGED <<users, profiles, links, blind, pblind>>

Init ==
  /\ LinkInit
  /\ ProfileInit
  /\ users = Users
  /\ late = {}

Next ==
  \/ EditLinks
  \/ EditProfiles
  \/ \E a \in users, u \in users : DeleteUser(a, u)
  \/ Crash

Spec == Init /\ [][Next]_vars

----------------------------------------------------------------------------
\* The links of a deleted profile stay (they violate NoOrphanLinks), and while the
\* requests in flight at the deletion go on, they may be added to, switched or
\* deleted.  After that no request does any of this any more, whoever sends it:
\* each one starts with the owner check, which a deleted profile fails.  (Their
\* positions may still change: a reorder checks its first id only.)
DeletedProfileIsClosed ==
  [][(profiles[Watched] = Deleted /\ late = {}) =>
       /\ LinksOf(Watched)' = LinksOf(Watched)
       /\ \A l \in LinksOf(Watched) : links'[l].active = links[l].active]_vars
============================================================================
