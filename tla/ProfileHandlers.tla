--------------------------- MODULE ProfileHandlers --------------------------
(***************************************************************************)
(* The profile editing endpoints of                                        *)
(* src/src/server/handler/profile_handlers.go, one goroutine per request,  *)
(* one step per SQL statement.  A slug is a sequence: a name followed by   *)
(* the number of each "-copy" suffix (0 for "-copy", n for "-copy-n").     *)
(*                                                                         *)
(* VerifyDomain changes nothing here: no endpoint ever stores a custom     *)
(* domain, so it always stops at "no custom domain set".                   *)
(***************************************************************************)
EXTENDS Tables

CONSTANTS
  ProfileRequests,   \* requests that can be in flight together
  MaxProfiles,       \* setting max_profiles_per_user (default 5)
  Names,             \* slugs without a copy suffix
  NoUser,            \* the user of an idle job
  WatchedUser        \* any user: the one whose limit ProfileQuota follows

ProfileRow == [owner : Users, slug : Seq(Names \cup Nat), public : BOOLEAN]

ASSUME ProfileAssumption ==
  /\ IsFiniteSet(ProfileRequests)
  /\ ProfileRequests # {}
  /\ MaxProfiles \in Nat \ {0}
  /\ MaxBlind \in Nat
  /\ WatchedUser \in Users
  /\ NoUser \notin Users
  /\ NoRow \cap ProfileRow = {}

VARIABLES
  pjob,      \* what each request is doing
  pblind,    \* ghost: creations let through by a failed COUNT, by user
  raced      \* ghost: creations whose slug another one has taken since the
             \* check, or whose check failed

pjobVars == <<pjob, pblind, raced>>
profileVars == <<users, profiles, links, pjobVars>>

\* "update" writes back the is_public it read, "set" the one it was asked for.
ProfileSteps == {"idle", "count", "slug", "dupcount", "dupslug", "insert",
                 "update", "set", "delete"}

ProfileJob == [pc : ProfileSteps, user : Users \cup {NoUser},
               profile : ProfileIds \cup {NoProfile},
               slug : Seq(Names \cup Nat), copy : Nat, public : BOOLEAN]

IdleProfileJob == [pc |-> "idle", user |-> NoUser, profile |-> NoProfile,
                   slug |-> <<>>, copy |-> 0, public |-> FALSE]

PAt(q, pc) == pjob[q].pc = pc

PFinish(q) == pjob' = [pjob EXCEPT ![q] = IdleProfileJob]

\* A request arrives, and its first statement is read or done.
PReceive(q, pc, u, p, slug, public) ==
  /\ PAt(q, "idle")
  /\ pjob' = [pjob EXCEPT ![q] = [pc |-> pc, user |-> u, profile |-> p, slug |-> slug,
                                  copy |-> 0, public |-> public]]
  /\ UNCHANGED <<users, profiles, links, pblind, raced>>

\* Creations by u that have passed the limit check.
Admitted(u) == {q \in ProfileRequests :
                  pjob[q].user = u /\ pjob[q].pc \in {"slug", "dupslug", "insert"}}

ProfileInit ==
  /\ profiles = [p \in ProfileIds |-> Unused]
  /\ pjob = [q \in ProfileRequests |-> IdleProfileJob]
  /\ pblind = [u \in Users |-> 0]
  /\ raced = {}

----------------------------------------------------------------------------
(***************************************************************************)
(* POST /api/profiles and POST /api/profiles/{id}/duplicate                *)
(***************************************************************************)
ReceiveCreateProfile(q, u, name, public) ==
  PReceive(q, "count", u, NoProfile, <<name>>, public)

\* getProfileByID and the owner check; the whole row is copied.
ReceiveDuplicate(q, u, p) ==
  /\ userOwnsProfile(u, p)
  /\ PReceive(q, "dupcount", u, NoProfile, profiles[p].slug, profiles[p].public)

\* Mutant: one profile too many.
ProfileLimitReachedOffByOne(u) == Cardinality(ProfilesOf(u)) > MaxProfiles

\* Does the count refuse one more profile?  (A setting that cannot be read is
\* taken for 5, the value it is seeded with.)
ProfileLimitReached(u) == Cardinality(ProfilesOf(u)) >= MaxProfiles

\* The step that follows the limit check.
Admit(q) == pjob' = [pjob EXCEPT ![q].pc = IF @ = "count" THEN "slug" ELSE "dupslug"]

CountProfiles(q) ==
  /\ pjob[q].pc \in {"count", "dupcount"}
  /\ IF ProfileLimitReached(pjob[q].user) THEN PFinish(q) ELSE Admit(q)
  /\ UNCHANGED <<users, profiles, links, pblind, raced>>

\* currentCount, _ := getProfileCount: an error reads as no profiles at all.
CountProfilesFails(q) ==
  /\ pjob[q].pc \in {"count", "dupcount"}
  /\ pblind[pjob[q].user] < MaxBlind
  /\ Admit(q)
  /\ pblind' = [pblind EXCEPT ![pjob[q].user] = @ + 1]
  /\ UNCHANGED <<users, profiles, links, raced>>

\* Mutant: only the public profiles are looked at.
slugExistsPublic(s) ==
  \E p \in ProfileIds : ProfileExists(p) /\ profiles[p].public /\ profiles[p].slug = s

slugExists(s) == \E p \in ProfileIds : ProfileExists(p) /\ profiles[p].slug = s

\* A failed query reads as "free".
SlugQuery(s) == IF slugExists(s) THEN BOOLEAN ELSE {FALSE}

\* q goes on with the slug s, which is free or was taken for free.
RaceFrom(q, s) == raced' = IF slugExists(s) THEN raced \cup {q} ELSE raced

CheckSlug(q) ==
  /\ PAt(q, "slug")
  /\ \E taken \in SlugQuery(pjob[q].slug) :
       IF taken THEN PFinish(q) /\ UNCHANGED raced
       ELSE pjob' = [pjob EXCEPT ![q].pc = "insert"] /\ RaceFrom(q, pjob[q].slug)
  /\ UNCHANGED <<users, profiles, links, pblind>>

\* "-copy" for n = 0, "-copy-n" after that.
CopySlug(s, n) == Append(s, n)

\* One round of the loop that looks for a free copy suffix.
NextCopySlug(q) ==
  LET candidate == CopySlug(pjob[q].slug, pjob[q].copy) IN
  /\ PAt(q, "dupslug")
  /\ \E taken \in SlugQuery(candidate) :
       IF taken THEN pjob' = [pjob EXCEPT ![q].copy = @ + 1] /\ UNCHANGED raced
       ELSE /\ pjob' = [pjob EXCEPT ![q] = [pc |-> "insert", user |-> pjob[q].user,
                                            profile |-> NoProfile, slug |-> candidate,
                                            copy |-> pjob[q].copy, public |-> pjob[q].public]]
            /\ RaceFrom(q, candidate)
  /\ UNCHANGED <<users, profiles, links, pblind>>

\* slug is UNIQUE: the index refuses a slug that is stored already.
SlugInsertable(s) == \A p \in ProfileIds : ProfileExists(p) => profiles[p].slug # s

\* The creations that passed the check with the slug of q.
Rivals(q) == {r \in ProfileRequests : PAt(r, "insert") /\ pjob[r].slug = pjob[q].slug}

InsertProfile(q, p) ==
  /\ PAt(q, "insert")
  /\ profiles[p] = Unused
  /\ SlugInsertable(pjob[q].slug)
  /\ profiles' = [profiles EXCEPT ![p] = [owner |-> pjob[q].user, slug |-> pjob[q].slug,
                                          public |-> pjob[q].public]]
  /\ PFinish(q)
  /\ raced' = (raced \cup Rivals(q)) \ {q}
  /\ UNCHANGED <<users, links, pblind>>

\* The profile is invalid (400), or the INSERT fails (500).
InsertProfileRefused(q) ==
  /\ PAt(q, "insert")
  /\ PFinish(q)
  /\ raced' = raced \ {q}
  /\ UNCHANGED <<users, profiles, links, pblind>>

----------------------------------------------------------------------------
(***************************************************************************)
(* PUT /api/profiles/{id}: read the row, change the copy, write it back.   *)
(***************************************************************************)

\* is_public of the copy when the body does not name it.
KeptPublic(p) == profiles[p].public

ReceiveUpdateProfile(q, u, p) ==
  /\ userOwnsProfile(u, p)
  /\ PReceive(q, "update", NoUser, p, <<>>, KeptPublic(p))

ReceiveSetPublic(q, u, p, asked) ==
  /\ userOwnsProfile(u, p)
  /\ PReceive(q, "set", NoUser, p, <<>>, asked)

WriteProfile(q) ==
  LET p == pjob[q].profile IN
  /\ pjob[q].pc \in {"update", "set"}
  /\ profiles' = IF ProfileExists(p) THEN [profiles EXCEPT ![p].public = pjob[q].public]
                 ELSE profiles
  /\ PFinish(q)
  /\ UNCHANGED <<users, links, pblind, raced>>

\* The copy is invalid, or the UPDATE fails: nothing is written.
WriteProfileRefused(q) ==
  /\ pjob[q].pc \in {"update", "set"}
  /\ PFinish(q)
  /\ UNCHANGED <<users, profiles, links, pblind, raced>>

----------------------------------------------------------------------------
(***************************************************************************)
(* DELETE /api/profiles/{id}                                               *)
(***************************************************************************)
ReceiveDeleteProfile(q, u, p) ==
  /\ userOwnsProfile(u, p)
  /\ PReceive(q, "delete", NoUser, p, <<>>, FALSE)

DeleteProfileRow(q) ==
  LET p == pjob[q].profile IN
  /\ PAt(q, "delete")
  /\ profiles' = [profiles EXCEPT ![p] = Deleted]
  /\ PFinish(q)
  /\ UNCHANGED <<users, links, pblind, raced>>

DeleteProfileRefused(q) ==
  /\ PAt(q, "delete")
  /\ PFinish(q)
  /\ UNCHANGED <<users, profiles, links, pblind, raced>>

----------------------------------------------------------------------------
\* The process dies: every request in flight is lost, the tables stay.
ProfileCrash ==
  /\ pjob' = [q \in ProfileRequests |-> IdleProfileJob]
  /\ raced' = {}
  /\ UNCHANGED <<users, profiles, links, pblind>>

ProfileStep(q) ==
  \/ \E u \in Users, name \in Names, public \in BOOLEAN :
       ReceiveCreateProfile(q, u, name, public)
  \/ CountProfiles(q) \/ CountProfilesFails(q)
  \/ CheckSlug(q) \/ NextCopySlug(q)
  \/ InsertProfileRefused(q)
  \/ \E p \in ProfileIds : InsertProfile(q, p)
  \/ \E u \in Users, p \in ProfileIds :
       \/ ReceiveDuplicate(q, u, p)
       \/ ReceiveUpdateProfile(q, u, p)
       \/ \E asked \in BOOLEAN : ReceiveSetPublic(q, u, p, asked)
       \/ ReceiveDeleteProfile(q, u, p)
  \/ WriteProfile(q) \/ WriteProfileRefused(q)
  \/ DeleteProfileRow(q) \/ DeleteProfileRefused(q)

ProfileNext == (\E q \in ProfileRequests : ProfileStep(q)) \/ ProfileCrash

----------------------------------------------------------------------------
(***************************************************************************)
(* The component on its own: no links, and the users do not change.        *)
(***************************************************************************)
ProfileAlone ==
  /\ ProfileInit
  /\ users = Users
  /\ links = [l \in LinkIds |-> Unused]

ProfileSpec == ProfileAlone /\ [][ProfileNext]_profileVars

----------------------------------------------------------------------------
\* The types of the profiles table and of the jobs.
ProfileTypeOK ==
  /\ profiles \in [ProfileIds -> ProfileRow \cup NoRow]
  /\ pjob \in [ProfileRequests -> ProfileJob]
  /\ pblind \in [Users -> Nat]
  /\ raced \in SUBSET ProfileRequests

\* Both ways to create a profile implement the abstract limit check.
ProfileQuota ==
  INSTANCE Quota WITH Rows <- ProfileIds, Requests <- ProfileRequests,
    Limit <- MaxProfiles, rows <- ProfilesOf(WatchedUser),
    pending <- Admitted(WatchedUser), blind <- pblind[WatchedUser]

ProfileQuotaImplemented == ProfileQuota!Spec

\* A slug that a creation or a duplication found free is still free when it
\* comes to its INSERT, unless another request took that very slug since: the
\* UNIQUE index, whose refusal is answered 500 and not 409, is met only by a
\* request that was overtaken or whose check failed (CreateProfile, lines 162-227;
\* DuplicateProfile, lines 426-476).
FreeSlugHolds ==
  \A q \in ProfileRequests : (PAt(q, "insert") /\ q \notin raced) => SlugInsertable(pjob[q].slug)
============================================================================
