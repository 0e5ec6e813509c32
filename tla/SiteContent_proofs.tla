-------------------------- MODULE SiteContent_proofs -------------------------
(***************************************************************************)
(* The profile handlers on their own: types, the slugs found free, and the *)
(* bound on the overshoot of max_profiles_per_user by creations and        *)
(* duplications together.  Then links, profiles and users on the same      *)
(* tables: what holds of each of them while the others change their rows.  *)
(* For any number of users, profiles, links and overlapping requests.      *)
(***************************************************************************)
EXTENDS SiteContent, FiniteSetTheorems, SequenceTheorems, TLAPS

\* The theorems about the abstract limit, for the watched user.
Abstract ==
  INSTANCE Quota_proofs WITH Rows <- ProfileIds, Requests <- ProfileRequests,
    Limit <- MaxProfiles, rows <- ProfilesOf(WatchedUser),
    pending <- Admitted(WatchedUser), blind <- pblind[WatchedUser]

CreateSteps == {"count", "slug", "dupcount", "dupslug", "insert"}

\* A request that creates a profile knows for whom, one that changes a profile
\* knows which.
ProfileJobsComplete ==
  \A q \in ProfileRequests :
    /\ pjob[q].pc \in CreateSteps => pjob[q].user \in Users
    /\ pjob[q].pc \in {"update", "set", "delete"} => pjob[q].profile \in ProfileIds

ProfileInv == ProfileTypeOK /\ ProfileJobsComplete

----------------------------------------------------------------------------
LEMMA IdleProfileIsJob == IdleProfileJob \in ProfileJob /\ IdleProfileJob.pc = "idle"
<1>1. <<>> \in Seq(Names \cup Nat)
  BY EmptySeq
<1> QED
  BY <1>1 DEF IdleProfileJob, ProfileJob, ProfileSteps

LEMMA ProfileJobFields ==
  ASSUME NEW j \in ProfileJob
  PROVE  /\ j.pc \in ProfileSteps /\ j.user \in Users \cup {NoUser}
         /\ j.profile \in ProfileIds \cup {NoProfile} /\ j.slug \in Seq(Names \cup Nat)
         /\ j.copy \in Nat /\ j.public \in BOOLEAN
  BY DEF ProfileJob

\* A new job of one request keeps the jobs well typed and complete.
LEMMA NewProfileJob ==
  ASSUME ProfileInv, NEW q \in ProfileRequests, NEW j \in ProfileJob,
         j.pc \in CreateSteps => j.user \in Users,
         j.pc \in {"update", "set", "delete"} => j.profile \in ProfileIds,
         pjob' = [pjob EXCEPT ![q] = j]
  PROVE  /\ pjob' \in [ProfileRequests -> ProfileJob] /\ ProfileJobsComplete'
         /\ \A x \in ProfileRequests : pjob'[x] = IF x = q THEN j ELSE pjob[x]
<1>1. pjob \in [ProfileRequests -> ProfileJob]
  BY DEF ProfileInv, ProfileTypeOK
<1>2. /\ pjob' \in [ProfileRequests -> ProfileJob]
      /\ \A x \in ProfileRequests : pjob'[x] = IF x = q THEN j ELSE pjob[x]
  BY <1>1
<1> QED
  BY <1>2 DEF ProfileInv, ProfileJobsComplete

LEMMA FinishProfileJob ==
  ASSUME ProfileInv, NEW q \in ProfileRequests, PFinish(q)
  PROVE  /\ pjob' \in [ProfileRequests -> ProfileJob] /\ ProfileJobsComplete'
         /\ \A x \in ProfileRequests : pjob'[x] = IF x = q THEN IdleProfileJob ELSE pjob[x]
  BY IdleProfileIsJob, NewProfileJob DEF PFinish, CreateSteps

\* A creation that goes on for the same user.
LEMMA GoOnProfileJob ==
  ASSUME ProfileInv, NEW q \in ProfileRequests, pjob[q].pc \in CreateSteps,
         NEW j \in ProfileJob, j.pc \in CreateSteps, j.user = pjob[q].user,
         pjob' = [pjob EXCEPT ![q] = j]
  PROVE  /\ pjob' \in [ProfileRequests -> ProfileJob] /\ ProfileJobsComplete'
         /\ \A x \in ProfileRequests : pjob'[x] = IF x = q THEN j ELSE pjob[x]
<1>1. j.user \in Users /\ j.pc \notin {"update", "set", "delete"}
  BY DEF ProfileInv, ProfileJobsComplete, CreateSteps
<1> QED
  BY <1>1, NewProfileJob

\* The admitted creations after a new job of one request.
LEMMA AdmittedAfter ==
  ASSUME NEW q \in ProfileRequests, NEW j, NEW u,
         \A x \in ProfileRequests : pjob'[x] = IF x = q THEN j ELSE pjob[x]
  PROVE  Admitted(u)' = IF j.user = u /\ j.pc \in {"slug", "dupslug", "insert"}
                        THEN Admitted(u) \cup {q} ELSE Admitted(u) \ {q}
  BY DEF Admitted

\* The limit of a user, from one state to the next.
LEMMA SameProfileCount ==
  ASSUME NEW S
  PROVE  Abstract!Cardinality(S) = Cardinality(S) /\ Cardinality(S) = Cardinality(S)
  BY DEF Abstract!Cardinality, Cardinality, Abstract!IsFiniteSet, IsFiniteSet

\* Nothing new for the watched user: creations give up, or nobody does.
LEMMA QuietProfileStep ==
  ASSUME ProfilesOf(WatchedUser)' = ProfilesOf(WatchedUser),
         pblind'[WatchedUser] = pblind[WatchedUser],
         Admitted(WatchedUser)' \subseteq Admitted(WatchedUser)
  PROVE  Abstract!Next
<1>1. PICK R \in SUBSET ProfileRequests : Admitted(WatchedUser)' = Admitted(WatchedUser) \ R
  <2>1. Admitted(WatchedUser) \ Admitted(WatchedUser)' \subseteq ProfileRequests
    BY DEF Admitted
  <2> QED
    BY <2>1
<1>2. Abstract!Abandon(R)
  BY <1>1 DEF Abstract!Abandon
<1> QED
  BY <1>2 DEF Abstract!Next

LEMMA SameProfiles ==
  ASSUME profiles' = profiles
  PROVE  \A u : ProfilesOf(u)' = ProfilesOf(u)
  BY DEF ProfilesOf, ProfileExists

----------------------------------------------------------------------------
(***************************************************************************)
(* Each step keeps the invariant and is an abstract step.                  *)
(***************************************************************************)
LEMMA ReceiveStep ==
  ASSUME ProfileInv, NEW q \in ProfileRequests,
         NEW pc \in {"count", "dupcount", "update", "set", "delete"},
         NEW u \in Users \cup {NoUser}, NEW p \in ProfileIds \cup {NoProfile},
         NEW slug \in Seq(Names \cup Nat), NEW public \in BOOLEAN,
         pc \in {"count", "dupcount"} => u \in Users,
         pc \notin {"count", "dupcount"} => p \in ProfileIds,
         PReceive(q, pc, u, p, slug, public)
  PROVE  ProfileInv' /\ Abstract!Next
<1> DEFINE j == [pc |-> pc, user |-> u, profile |-> p, slug |-> slug, copy |-> 0,
                 public |-> public]
<1>1. /\ pjob[q].pc = "idle" /\ profiles' = profiles /\ pblind' = pblind
      /\ raced' = raced /\ pjob' = [pjob EXCEPT ![q] = j]
  BY DEF PReceive, PAt
<1>2. j \in ProfileJob /\ j.pc = pc /\ j.user = u /\ j.profile = p
  BY DEF ProfileJob, ProfileSteps
<1> HIDE DEF j
<1>3. /\ pjob' \in [ProfileRequests -> ProfileJob] /\ ProfileJobsComplete'
      /\ \A x \in ProfileRequests : pjob'[x] = IF x = q THEN j ELSE pjob[x]
  BY <1>1, <1>2, NewProfileJob DEF CreateSteps
<1>4. ProfileInv'
  BY <1>1, <1>3, SameProfiles DEF ProfileInv, ProfileTypeOK
<1>5. Admitted(WatchedUser)' \subseteq Admitted(WatchedUser)
  BY <1>2, <1>3, AdmittedAfter
<1> QED
  BY <1>1, <1>4, <1>5, SameProfiles, QuietProfileStep

\* A request ends without a change of the tables.
LEMMA FinishStep ==
  ASSUME ProfileInv, NEW q \in ProfileRequests, PFinish(q), profiles' = profiles,
         pblind' = pblind, raced' \in SUBSET ProfileRequests
  PROVE  ProfileInv' /\ Abstract!Next
<1>1. ProfileInv'
  BY FinishProfileJob, SameProfiles DEF ProfileInv, ProfileTypeOK
<1>2. Admitted(WatchedUser)' \subseteq Admitted(WatchedUser)
  BY FinishProfileJob, IdleProfileIsJob, AdmittedAfter
<1> QED
  BY <1>1, <1>2, SameProfiles, QuietProfileStep

\* The step after the limit check, whether or not the COUNT was read.
LEMMA AdmitJob ==
  ASSUME ProfileInv, NEW q \in ProfileRequests, pjob[q].pc \in {"count", "dupcount"}, Admit(q)
  PROVE  /\ pjob' \in [ProfileRequests -> ProfileJob] /\ ProfileJobsComplete'
         /\ q \notin Admitted(WatchedUser)
         /\ Admitted(WatchedUser)' = IF pjob[q].user = WatchedUser
                                     THEN Admitted(WatchedUser) \cup {q}
                                     ELSE Admitted(WatchedUser)
<1> DEFINE pc == IF pjob[q].pc = "count" THEN "slug" ELSE "dupslug"
           j == [pjob[q] EXCEPT !.pc = pc]
<1>0. pjob[q] \in ProfileJob
  BY DEF ProfileInv, ProfileTypeOK
<1>1. pjob' = [pjob EXCEPT ![q] = j]
  BY Zenon DEF Admit
<1>2. j \in ProfileJob /\ j.pc \in {"slug", "dupslug"} /\ j.user = pjob[q].user
  BY <1>0 DEF ProfileJob, ProfileSteps
<1> HIDE DEF j, pc
<1>3. /\ pjob' \in [ProfileRequests -> ProfileJob] /\ ProfileJobsComplete'
      /\ \A x \in ProfileRequests : pjob'[x] = IF x = q THEN j ELSE pjob[x]
  BY <1>1, <1>2, GoOnProfileJob DEF CreateSteps
<1>4. q \notin Admitted(WatchedUser)
  BY DEF Admitted
<1> QED
  BY <1>2, <1>3, <1>4, AdmittedAfter

LEMMA CountStep ==
  ASSUME ProfileInv, NEW q \in ProfileRequests, CountProfiles(q) \/ CountProfilesFails(q)
  PROVE  ProfileInv' /\ Abstract!Next
<1>1. /\ pjob[q].pc \in {"count", "dupcount"} /\ profiles' = profiles
      /\ raced' \in SUBSET ProfileRequests
  BY DEF CountProfiles, CountProfilesFails, ProfileInv, ProfileTypeOK
<1>2. pblind \in [Users -> Nat] /\ pjob[q].user \in Users /\ WatchedUser \in Users
  BY <1>1, ProfileAssumption, TablesAssumption
     DEF ProfileInv, ProfileTypeOK, ProfileJobsComplete, CreateSteps
<1>3. CASE PFinish(q) /\ pblind' = pblind
  BY <1>1, <1>3, FinishStep
<1>4. CASE Admit(q) /\ ~ProfileLimitReached(pjob[q].user) /\ pblind' = pblind
  <2>1. ProfileInv'
    BY <1>1, <1>4, AdmitJob, SameProfiles DEF ProfileInv, ProfileTypeOK
  <2>2. CASE pjob[q].user # WatchedUser
    BY <1>1, <1>4, <2>1, <2>2, AdmitJob, SameProfiles, QuietProfileStep
  <2>3. CASE pjob[q].user = WatchedUser
    <3>1. Cardinality(ProfilesOf(WatchedUser)) \in Nat
      BY FS_Subset, FS_CardinalityType, ProfileAssumption, TablesAssumption
         DEF ProfilesOf
    <3>2. Cardinality(ProfilesOf(WatchedUser)) < MaxProfiles
      BY <1>4, <2>3, <3>1, ProfileAssumption, TablesAssumption, SameProfileCount
         DEF ProfileLimitReached
    <3>3. Abstract!Check(q)
      BY <1>1, <1>4, <2>3, <3>2, AdmitJob, SameProfiles, SameProfileCount
         DEF Abstract!Check, Abstract!HasRoom
    <3> QED
      BY <2>1, <3>3 DEF Abstract!Next
  <2> QED
    BY <2>2, <2>3
<1>5. CASE Admit(q) /\ pblind' = [pblind EXCEPT ![pjob[q].user] = @ + 1]
  <2>1. ProfileInv'
    <3>1. pblind' \in [Users -> Nat]
      BY <1>2, <1>5
    <3> QED
      BY <1>1, <1>5, <3>1, AdmitJob, SameProfiles DEF ProfileInv, ProfileTypeOK
  <2>2. CASE pjob[q].user # WatchedUser
    <3>1. pblind'[WatchedUser] = pblind[WatchedUser]
      BY <1>2, <1>5, <2>2
    <3> QED
      BY <1>1, <1>5, <2>1, <2>2, <3>1, AdmitJob, SameProfiles, QuietProfileStep
  <2>3. CASE pjob[q].user = WatchedUser
    <3>1. pblind'[WatchedUser] = pblind[WatchedUser] + 1
      BY <1>2, <1>5, <2>3
    <3>2. Abstract!BlindCheck(q)
      BY <1>1, <1>5, <2>3, <3>1, AdmitJob, SameProfiles DEF Abstract!BlindCheck
    <3> QED
      BY <2>1, <3>2 DEF Abstract!Next
  <2> QED
    BY <2>2, <2>3
<1> QED
  BY <1>3, <1>4, <1>5 DEF CountProfiles, CountProfilesFails

\* An admitted creation looks for a free slug.
LEMMA SlugStep ==
  ASSUME ProfileInv, NEW q \in ProfileRequests, CheckSlug(q) \/ NextCopySlug(q)
  PROVE  ProfileInv' /\ Abstract!Next
<1>1. /\ pjob[q].pc \in {"slug", "dupslug"} /\ profiles' = profiles /\ pblind' = pblind
      /\ pjob[q] \in ProfileJob /\ raced' \in SUBSET ProfileRequests
  BY DEF CheckSlug, NextCopySlug, RaceFrom, PAt, ProfileInv, ProfileTypeOK
<1>2. ASSUME NEW j \in ProfileJob, j.pc \in {"dupslug", "insert"}, j.user = pjob[q].user,
             pjob' = [pjob EXCEPT ![q] = j]
      PROVE  ProfileInv' /\ Abstract!Next
  <2>1. /\ pjob' \in [ProfileRequests -> ProfileJob] /\ ProfileJobsComplete'
        /\ \A x \in ProfileRequests : pjob'[x] = IF x = q THEN j ELSE pjob[x]
    BY <1>1, <1>2, GoOnProfileJob DEF CreateSteps
  <2>2. Admitted(WatchedUser)' \subseteq Admitted(WatchedUser)
    BY <1>1, <1>2, <2>1 DEF Admitted
  <2>3. ProfileInv'
    BY <1>1, <2>1, SameProfiles DEF ProfileInv, ProfileTypeOK
  <2> QED
    BY <1>1, <2>2, <2>3, SameProfiles, QuietProfileStep
<1>3. CASE PFinish(q)
  BY <1>1, <1>3, FinishStep
<1>4. CASE pjob' = [pjob EXCEPT ![q].pc = "insert"]
  <2> DEFINE j == [pjob[q] EXCEPT !.pc = "insert"]
  <2>1. j \in ProfileJob /\ j.pc = "insert" /\ j.user = pjob[q].user
    BY <1>1 DEF ProfileJob, ProfileSteps
  <2>2. pjob' = [pjob EXCEPT ![q] = j]
    BY <1>4, Zenon
  <2> HIDE DEF j
  <2> QED
    BY <1>2, <2>1, <2>2
<1>5. CASE pjob[q].pc = "dupslug" /\ pjob' = [pjob EXCEPT ![q].copy = @ + 1]
  <2>0. PICK n \in Nat : n = pjob[q].copy + 1
    BY <1>1 DEF ProfileJob
  <2> DEFINE j == [pjob[q] EXCEPT !.copy = n]
  <2>1. j \in ProfileJob /\ j.pc = "dupslug" /\ j.user = pjob[q].user
    BY <1>1, <1>5 DEF ProfileJob
  <2>2. pjob' = [pjob EXCEPT ![q] = j]
    BY <1>5, <2>0, Zenon
  <2> HIDE DEF j
  <2> QED
    BY <1>2, <2>1, <2>2
<1>6. CASE pjob' = [pjob EXCEPT ![q] = [pc |-> "insert", user |-> pjob[q].user,
                      profile |-> NoProfile, slug |-> CopySlug(pjob[q].slug, pjob[q].copy),
                      copy |-> pjob[q].copy, public |-> pjob[q].public]]
  <2> DEFINE slug == CopySlug(pjob[q].slug, pjob[q].copy)
             j == [pc |-> "insert", user |-> pjob[q].user, profile |-> NoProfile,
                   slug |-> slug, copy |-> pjob[q].copy, public |-> pjob[q].public]
  <2>1. slug \in Seq(Names \cup Nat)
    BY <1>1, ProfileJobFields DEF CopySlug
  <2> HIDE DEF slug
  <2>2. j \in ProfileJob /\ j.pc = "insert" /\ j.user = pjob[q].user
    BY <1>1, <2>1, ProfileJobFields DEF ProfileJob, ProfileSteps
  <2>3. pjob' = [pjob EXCEPT ![q] = j]
    BY <1>6 DEF slug
  <2> HIDE DEF j
  <2> QED
    BY <1>2, <2>2, <2>3
<1>7. CASE CheckSlug(q)
  BY <1>3, <1>4, <1>7 DEF CheckSlug
<1>8. CASE NextCopySlug(q)
  BY <1>5, <1>6, <1>8 DEF NextCopySlug, PAt
<1> QED
  BY <1>7, <1>8

\* The INSERT is the abstract insert.
LEMMA InsertStep ==
  ASSUME ProfileInv, NEW q \in ProfileRequests, NEW p \in ProfileIds, InsertProfile(q, p)
  PROVE  ProfileInv' /\ Abstract!Next
<1> DEFINE row == [owner |-> pjob[q].user, slug |-> pjob[q].slug, public |-> pjob[q].public]
<1>1. /\ pjob[q].pc = "insert" /\ profiles[p] = Unused /\ PFinish(q) /\ pblind' = pblind
      /\ raced' \in SUBSET ProfileRequests /\ profiles' = [profiles EXCEPT ![p] = row]
  BY DEF InsertProfile, PAt, Rivals, ProfileInv, ProfileTypeOK
<1>2. /\ pjob[q].user \in Users /\ profiles \in [ProfileIds -> ProfileRow \cup NoRow]
      /\ pjob[q].slug \in Seq(Names \cup Nat) /\ pjob[q].public \in BOOLEAN
  BY <1>1, ProfileJobFields
     DEF ProfileInv, ProfileTypeOK, ProfileJobsComplete, CreateSteps
<1>3. row \in ProfileRow /\ row.owner = pjob[q].user /\ row.slug = pjob[q].slug
  BY <1>2 DEF ProfileRow
<1> HIDE DEF row
<1>4. row \notin NoRow /\ profiles[p] \in NoRow
  BY <1>1, <1>3, ProfileAssumption, TablesAssumption DEF NoRow
<1>5. /\ profiles' \in [ProfileIds -> ProfileRow \cup NoRow]
      /\ \A x \in ProfileIds : profiles'[x] = IF x = p THEN row ELSE profiles[x]
  BY <1>1, <1>2, <1>3
<1>7. ProfileInv'
  BY <1>1, <1>5, FinishProfileJob DEF ProfileInv, ProfileTypeOK
<1>8. /\ p \notin ProfilesOf(WatchedUser)
      /\ ProfilesOf(WatchedUser)' = IF pjob[q].user = WatchedUser
                                    THEN ProfilesOf(WatchedUser) \cup {p}
                                    ELSE ProfilesOf(WatchedUser)
  BY <1>3, <1>4, <1>5 DEF ProfilesOf, ProfileExists
<1>9. Admitted(WatchedUser)' = Admitted(WatchedUser) \ {q}
  BY <1>1, FinishProfileJob, IdleProfileIsJob, AdmittedAfter
<1>10. CASE pjob[q].user = WatchedUser
  <2>1. q \in Admitted(WatchedUser)
    BY <1>1, <1>10 DEF Admitted
  <2>2. Abstract!Insert(q, p)
    BY <1>1, <1>8, <1>9, <1>10, <2>1 DEF Abstract!Insert
  <2> QED
    BY <1>7, <2>2 DEF Abstract!Next
<1>11. CASE pjob[q].user # WatchedUser
  BY <1>1, <1>7, <1>8, <1>9, <1>11, QuietProfileStep
<1> QED
  BY <1>10, <1>11

\* The UPDATE of a profile changes neither its user nor its slug.
LEMMA WriteEffect ==
  ASSUME ProfileInv, NEW q \in ProfileRequests, WriteProfile(q)
  PROVE  /\ profiles' \in [ProfileIds -> ProfileRow \cup NoRow]
         /\ \A x \in ProfileIds :
              /\ ProfileExists(x)' <=> ProfileExists(x)
              /\ ProfileExists(x) => /\ profiles'[x].owner = profiles[x].owner
                                       /\ profiles'[x].slug = profiles[x].slug
<1>0. PICK p : p = pjob[q].profile
  OBVIOUS
<1>1. /\ pjob[q].pc \in {"update", "set"}
      /\ profiles' = IF ProfileExists(p) THEN [profiles EXCEPT ![p].public = pjob[q].public]
                     ELSE profiles
  BY <1>0 DEF WriteProfile
<1>2. CASE ~ProfileExists(p)
  BY <1>1, <1>2 DEF ProfileExists, ProfileInv, ProfileTypeOK
<1>3. CASE ProfileExists(p)
  <2>1. /\ p \in ProfileIds /\ profiles \in [ProfileIds -> ProfileRow \cup NoRow]
        /\ pjob[q].public \in BOOLEAN
    BY <1>0, <1>1, ProfileJobFields DEF ProfileInv, ProfileTypeOK, ProfileJobsComplete
  <2> DEFINE row == [profiles[p] EXCEPT !.public = pjob[q].public]
  <2>2. profiles[p] \in ProfileRow
    BY <1>3, <2>1 DEF ProfileExists
  <2>3. row \in ProfileRow /\ row.owner = profiles[p].owner /\ row.slug = profiles[p].slug
    BY <2>1, <2>2 DEF ProfileRow
  <2>4. profiles' = [profiles EXCEPT ![p] = row]
    BY <1>1, <1>3, Zenon
  <2> HIDE DEF row
  <2>5. row \notin NoRow
    BY <2>3, ProfileAssumption, TablesAssumption
  <2>6. /\ profiles' \in [ProfileIds -> ProfileRow \cup NoRow]
        /\ \A x \in ProfileIds : profiles'[x] = IF x = p THEN row ELSE profiles[x]
    BY <2>1, <2>3, <2>4
  <2> QED
    BY <1>3, <2>3, <2>5, <2>6 DEF ProfileExists
<1> QED
  BY <1>2, <1>3

\* The UPDATE keeps every profile's owner and slug.
LEMMA WriteStep ==
  ASSUME ProfileInv, NEW q \in ProfileRequests, WriteProfile(q)
  PROVE  ProfileInv' /\ Abstract!Next
<1>1. PFinish(q) /\ pblind' = pblind /\ raced' = raced
  BY DEF WriteProfile
<1>3. ProfilesOf(WatchedUser)' = ProfilesOf(WatchedUser)
  BY WriteEffect DEF ProfilesOf
<1>4. Admitted(WatchedUser)' \subseteq Admitted(WatchedUser)
  BY <1>1, FinishProfileJob, IdleProfileIsJob, AdmittedAfter
<1>5. ProfileInv'
  BY <1>1, WriteEffect, FinishProfileJob DEF ProfileInv, ProfileTypeOK
<1> QED
  BY <1>1, <1>3, <1>4, <1>5, QuietProfileStep

\* The DELETE is the abstract removal of one row.
LEMMA DeleteStep ==
  ASSUME ProfileInv, NEW q \in ProfileRequests, DeleteProfileRow(q)
  PROVE  ProfileInv' /\ Abstract!Next
<1>0. PICK p : p = pjob[q].profile
  OBVIOUS
<1>1. /\ PFinish(q) /\ pblind' = pblind /\ raced' = raced /\ pjob[q].pc = "delete"
      /\ profiles' = [profiles EXCEPT ![p] = Deleted]
  BY <1>0 DEF DeleteProfileRow, PAt
<1>2. p \in ProfileIds /\ profiles \in [ProfileIds -> ProfileRow \cup NoRow]
  BY <1>0, <1>1 DEF ProfileInv, ProfileTypeOK, ProfileJobsComplete
<1>3. /\ profiles' \in [ProfileIds -> ProfileRow \cup NoRow]
      /\ \A x \in ProfileIds : profiles'[x] = IF x = p THEN Deleted ELSE profiles[x]
  BY <1>1, <1>2 DEF NoRow
<1>4. ProfilesOf(WatchedUser)' = ProfilesOf(WatchedUser) \ {p}
  BY <1>3 DEF ProfilesOf, ProfileExists, NoRow
<1>5. Admitted(WatchedUser)' = Admitted(WatchedUser)
  <2>1. Admitted(WatchedUser)' = Admitted(WatchedUser) \ {q}
    BY <1>1, FinishProfileJob, IdleProfileIsJob, AdmittedAfter
  <2>2. q \notin Admitted(WatchedUser)
    BY <1>1 DEF Admitted
  <2> QED
    BY <2>1, <2>2
<1>6. ProfileInv'
  BY <1>1, <1>3, FinishProfileJob DEF ProfileInv, ProfileTypeOK
<1>7. Abstract!Remove({p})
  BY <1>1, <1>4, <1>5 DEF Abstract!Remove
<1> QED
  BY <1>2, <1>6, <1>7 DEF Abstract!Next

\* A crash gives up every creation.
LEMMA ProfileCrashStep == ASSUME ProfileInv, ProfileCrash PROVE ProfileInv' /\ Abstract!Next
<1>1. /\ pjob' = [q \in ProfileRequests |-> IdleProfileJob]
      /\ profiles' = profiles /\ pblind' = pblind /\ raced' = {}
  BY DEF ProfileCrash
<1>2. \A q \in ProfileRequests : pjob'[q] = IdleProfileJob
  BY <1>1
<1>3. Admitted(WatchedUser)' = {}
  BY <1>2, IdleProfileIsJob DEF Admitted
<1>4. ProfileInv'
  BY <1>1, <1>2, IdleProfileIsJob, SameProfiles
     DEF ProfileInv, ProfileTypeOK, ProfileJobsComplete, CreateSteps
<1> QED
  BY <1>1, <1>3, <1>4, SameProfiles, QuietProfileStep

LEMMA ProfileNextStep == ASSUME ProfileInv, [ProfileNext]_profileVars PROVE ProfileInv' /\ Abstract!Next
<1>1. ASSUME NEW q \in ProfileRequests, NEW u \in Users, NEW name \in Names,
             NEW public \in BOOLEAN, ReceiveCreateProfile(q, u, name, public)
      PROVE  ProfileInv' /\ Abstract!Next
  <2>1. <<name>> \in Seq(Names \cup Nat)
    OBVIOUS
  <2> QED
    BY <1>1, <2>1, ReceiveStep DEF ReceiveCreateProfile
<1>2. ASSUME NEW q \in ProfileRequests, NEW u \in Users, NEW p \in ProfileIds,
             \/ ReceiveDuplicate(q, u, p) \/ ReceiveUpdateProfile(q, u, p)
             \/ \E asked \in BOOLEAN : ReceiveSetPublic(q, u, p, asked)
             \/ ReceiveDeleteProfile(q, u, p)
      PROVE  ProfileInv' /\ Abstract!Next
  <2>1. /\ profiles[p].slug \in Seq(Names \cup Nat) /\ profiles[p].public \in BOOLEAN
        /\ <<>> \in Seq(Names \cup Nat)
    <3>1. profiles[p] \in ProfileRow
      BY <1>2 DEF ReceiveDuplicate, ReceiveUpdateProfile, ReceiveSetPublic,
                  ReceiveDeleteProfile, userOwnsProfile, ProfileExists, ProfileInv,
                  ProfileTypeOK
    <3> QED
      BY <3>1, EmptySeq DEF ProfileRow
  <2>2. CASE ReceiveDuplicate(q, u, p)
    BY <2>1, <2>2, ReceiveStep DEF ReceiveDuplicate
  <2>3. CASE ReceiveUpdateProfile(q, u, p)
    BY <2>1, <2>3, ReceiveStep DEF ReceiveUpdateProfile, KeptPublic
  <2>4. ASSUME NEW asked \in BOOLEAN, ReceiveSetPublic(q, u, p, asked)
        PROVE  ProfileInv' /\ Abstract!Next
    BY <2>1, <2>4, ReceiveStep DEF ReceiveSetPublic
  <2>5. CASE ReceiveDeleteProfile(q, u, p)
    BY <2>1, <2>5, ReceiveStep DEF ReceiveDeleteProfile
  <2> QED
    BY <1>2, <2>2, <2>3, <2>4, <2>5
<1>3. ASSUME NEW q \in ProfileRequests,
             InsertProfileRefused(q) \/ WriteProfileRefused(q) \/ DeleteProfileRefused(q)
      PROVE  ProfileInv' /\ Abstract!Next
  <2>1. raced' \in SUBSET ProfileRequests
    BY <1>3 DEF InsertProfileRefused, WriteProfileRefused, DeleteProfileRefused, ProfileInv,
                ProfileTypeOK
  <2> QED
    BY <1>3, <2>1, FinishStep
       DEF InsertProfileRefused, WriteProfileRefused, DeleteProfileRefused
<1>4. ASSUME NEW q \in ProfileRequests,
             \/ CountProfiles(q) \/ CountProfilesFails(q) \/ CheckSlug(q) \/ NextCopySlug(q)
             \/ WriteProfile(q) \/ DeleteProfileRow(q)
             \/ \E p \in ProfileIds : InsertProfile(q, p)
      PROVE  ProfileInv' /\ Abstract!Next
  BY <1>4, CountStep, SlugStep, WriteStep, DeleteStep, InsertStep
<1>5. CASE UNCHANGED profileVars
  <2>1. profiles' = profiles /\ pjob' = pjob /\ pblind' = pblind /\ raced' = raced
    BY <1>5 DEF profileVars, pjobVars
  <2>2. Admitted(WatchedUser)' = Admitted(WatchedUser)
    BY <2>1 DEF Admitted
  <2>3. ProfileInv'
    BY <2>1, SameProfiles DEF ProfileInv, ProfileTypeOK, ProfileJobsComplete
  <2> QED
    BY <2>1, <2>2, <2>3, SameProfiles, QuietProfileStep
<1> QED
  BY <1>1, <1>2, <1>3, <1>4, <1>5, ProfileCrashStep DEF ProfileNext, ProfileStep

LEMMA ProfileInitStep == ASSUME ProfileInit PROVE ProfileInv /\ Abstract!Init
<1>1. /\ profiles = [p \in ProfileIds |-> Unused] /\ pblind = [u \in Users |-> 0]
      /\ pjob = [q \in ProfileRequests |-> IdleProfileJob] /\ raced = {}
  BY DEF ProfileInit
<1>2. ProfilesOf(WatchedUser) = {}
  BY <1>1 DEF ProfilesOf, ProfileExists, NoRow
<1>3. Admitted(WatchedUser) = {} /\ pblind[WatchedUser] = 0
  BY <1>1, IdleProfileIsJob, ProfileAssumption, TablesAssumption DEF Admitted
<1>4. ProfileTypeOK /\ ProfileJobsComplete
  BY <1>1, IdleProfileIsJob DEF ProfileTypeOK, ProfileJobsComplete, CreateSteps, NoRow
<1> QED
  BY <1>2, <1>3, <1>4 DEF ProfileInv, Abstract!Init

----------------------------------------------------------------------------
LEMMA AlwaysProfileInv == ProfileSpec => []ProfileInv
  BY ProfileInitStep, ProfileNextStep, PTL DEF ProfileSpec, ProfileAlone

\* The profiles table and the jobs of its handlers keep their types.
THEOREM ProfileTypes == ProfileSpec => []ProfileTypeOK
  BY AlwaysProfileInv, PTL DEF ProfileInv

\* A step of q that adds no row keeps the free slugs, if the one it brings q
\* with to the INSERT is free.
LEMMA SlugsKept ==
  ASSUME FreeSlugHolds, NEW q \in ProfileRequests,
         \A x \in ProfileRequests \ {q} : pjob'[x] = pjob[x] /\ (x \in raced => x \in raced'),
         \A p \in ProfileIds : ProfileExists(p)' =>
            ProfileExists(p) /\ profiles'[p].slug = profiles[p].slug,
         (pjob'[q].pc = "insert" /\ q \notin raced') =>
            \A p \in ProfileIds : ProfileExists(p)' => profiles'[p].slug # pjob'[q].slug
  PROVE  FreeSlugHolds'
<1> SUFFICES ASSUME NEW x \in ProfileRequests, pjob'[x].pc = "insert", x \notin raced'
             PROVE  \A p \in ProfileIds : ProfileExists(p)' => profiles'[p].slug # pjob'[x].slug
  BY DEF FreeSlugHolds, PAt, SlugInsertable
<1>1. CASE x = q
  BY <1>1
<1>2. CASE x # q
  <2>1. pjob'[x] = pjob[x] /\ x \notin raced
    BY <1>2
  <2>2. \A p \in ProfileIds : ProfileExists(p) => profiles[p].slug # pjob[x].slug
    BY <2>1 DEF FreeSlugHolds, PAt, SlugInsertable
  <2> QED
    BY <2>1, <2>2
<1> QED
  BY <1>1, <1>2

\* The step that finds a slug free, or takes it for free.
LEMMA FoundFree ==
  ASSUME ProfileInv, FreeSlugHolds, NEW q \in ProfileRequests, CheckSlug(q) \/ NextCopySlug(q)
  PROVE  FreeSlugHolds'
<1>1. pjob \in [ProfileRequests -> ProfileJob] /\ profiles' = profiles
  BY DEF CheckSlug, NextCopySlug, ProfileInv, ProfileTypeOK
<1>2. PICK s : \/ pjob'[q].pc # "insert" /\ raced' = raced
               \/ pjob'[q].pc = "insert" /\ pjob'[q].slug = s /\ RaceFrom(q, s)
  <2>1. ASSUME PFinish(q) PROVE pjob'[q].pc # "insert"
    BY <1>1, <2>1, IdleProfileIsJob DEF PFinish
  <2>2. CASE CheckSlug(q)
    <3>1. ASSUME pjob' = [pjob EXCEPT ![q].pc = "insert"]
          PROVE  pjob'[q].pc = "insert" /\ pjob'[q].slug = pjob[q].slug
      BY <1>1, <3>1 DEF ProfileJob
    <3>2. \/ pjob'[q].pc # "insert" /\ raced' = raced
          \/ /\ pjob'[q].pc = "insert" /\ pjob'[q].slug = pjob[q].slug
             /\ RaceFrom(q, pjob[q].slug)
      BY <2>1, <2>2, <3>1 DEF CheckSlug
    <3> QED
      BY <3>2
  <2>3. CASE NextCopySlug(q)
    <3> DEFINE c == CopySlug(pjob[q].slug, pjob[q].copy)
               j == [pc |-> "insert", user |-> pjob[q].user, profile |-> NoProfile,
                     slug |-> c, copy |-> pjob[q].copy, public |-> pjob[q].public]
    <3>0. pjob[q].pc = "dupslug"
      BY <2>3 DEF NextCopySlug, PAt
    <3>1. ASSUME pjob' = [pjob EXCEPT ![q].copy = @ + 1] PROVE pjob'[q].pc # "insert"
      BY <1>1, <3>0, <3>1 DEF ProfileJob
    <3>2. j.pc = "insert" /\ j.slug = c
      OBVIOUS
    <3>3. \/ pjob' = [pjob EXCEPT ![q].copy = @ + 1] /\ raced' = raced
          \/ pjob' = [pjob EXCEPT ![q] = j] /\ RaceFrom(q, c)
      BY <2>3 DEF NextCopySlug
    <3> HIDE DEF j, c
    <3>4. ASSUME pjob' = [pjob EXCEPT ![q] = j] PROVE pjob'[q] = j
      BY <1>1, <3>4
    <3> QED
      BY <3>1, <3>2, <3>3, <3>4
  <2> QED
    BY <2>2, <2>3
<1>3. \A x \in ProfileRequests \ {q} : pjob'[x] = pjob[x]
  <2>1. \E j : pjob' = [pjob EXCEPT ![q] = j]
    BY Zenon DEF CheckSlug, NextCopySlug, PFinish
  <2> QED
    BY <1>1, <2>1
<1>4. \A x \in raced : x \in raced'
  BY <1>2 DEF RaceFrom
<1>5. (pjob'[q].pc = "insert" /\ q \notin raced') =>
         \A p \in ProfileIds : ProfileExists(p)' => profiles'[p].slug # pjob'[q].slug
  BY <1>1, <1>2 DEF RaceFrom, slugExists, ProfileExists
<1>6. \A p \in ProfileIds : ProfileExists(p)' =>
         ProfileExists(p) /\ profiles'[p].slug = profiles[p].slug
  BY <1>1 DEF ProfileExists
<1> QED
  BY <1>3, <1>4, <1>5, <1>6, SlugsKept

\* The INSERT overtakes the creations that wait to insert the same slug.
LEMMA InsertKeepsFree ==
  ASSUME ProfileInv, FreeSlugHolds, NEW q \in ProfileRequests, NEW p \in ProfileIds,
         InsertProfile(q, p)
  PROVE  FreeSlugHolds'
<1>1. /\ raced' = (raced \cup Rivals(q)) \ {q}
      /\ \E row : row.slug = pjob[q].slug /\ profiles' = [profiles EXCEPT ![p] = row]
  BY DEF InsertProfile
<1>2. PICK row : row.slug = pjob[q].slug /\ profiles' = [profiles EXCEPT ![p] = row]
  BY <1>1
<1>3. \A x \in ProfileIds : profiles'[x] = IF x = p THEN row ELSE profiles[x]
  BY <1>2 DEF ProfileInv, ProfileTypeOK
<1>4. \A x \in ProfileRequests : pjob'[x] = IF x = q THEN IdleProfileJob ELSE pjob[x]
  BY FinishProfileJob DEF InsertProfile
<1> SUFFICES ASSUME NEW x \in ProfileRequests, pjob'[x].pc = "insert", x \notin raced',
                    NEW y \in ProfileIds, ProfileExists(y)'
             PROVE  profiles'[y].slug # pjob'[x].slug
  BY DEF FreeSlugHolds, PAt, SlugInsertable
<1>5. x # q /\ pjob'[x] = pjob[x]
  BY <1>4, IdleProfileIsJob
<1>6. x \notin raced /\ pjob[x].slug # pjob[q].slug
  BY <1>1, <1>5 DEF Rivals, PAt
<1>7. CASE y = p
  BY <1>2, <1>3, <1>5, <1>6, <1>7
<1>8. CASE y # p
  <2>1. profiles'[y] = profiles[y]
    BY <1>3, <1>8
  <2>2. ProfileExists(y)
    BY <2>1 DEF ProfileExists
  <2> QED
    BY <1>5, <1>6, <2>1, <2>2 DEF FreeSlugHolds, PAt, SlugInsertable
<1> QED
  BY <1>7, <1>8

\* Every other step of a request leaves the slugs of the table alone, or takes
\* one away.
LEMMA OtherStepKeepsFree ==
  ASSUME ProfileInv, FreeSlugHolds, NEW q \in ProfileRequests, NEW j, j.pc # "insert",
         pjob' = [pjob EXCEPT ![q] = j], \A x \in raced \ {q} : x \in raced',
         \/ profiles' = profiles \/ WriteProfile(q) \/ DeleteProfileRow(q)
  PROVE  FreeSlugHolds'
<1>1. pjob'[q] = j /\ \A x \in ProfileRequests \ {q} : pjob'[x] = pjob[x]
  BY DEF ProfileInv, ProfileTypeOK
<1>2. \A p \in ProfileIds : ProfileExists(p)' =>
         ProfileExists(p) /\ profiles'[p].slug = profiles[p].slug
  <2>1. CASE profiles' = profiles
    BY <2>1 DEF ProfileExists
  <2>2. CASE WriteProfile(q)
    BY <2>2, WriteEffect
  <2>3. CASE DeleteProfileRow(q)
    <3>1. \A p \in ProfileIds : profiles'[p] = profiles[p] \/ profiles'[p] = Deleted
      BY <2>3 DEF DeleteProfileRow, ProfileInv, ProfileTypeOK
    <3> QED
      BY <3>1 DEF ProfileExists, NoRow
  <2> QED
    BY <2>1, <2>2, <2>3
<1> QED
  BY <1>1, <1>2, SlugsKept

LEMMA ProfileStepKeepsFree ==
  ASSUME ProfileInv, FreeSlugHolds, NEW q \in ProfileRequests, ProfileStep(q)
  PROVE  FreeSlugHolds'
<1>1. ASSUME NEW pc \in {"count", "dupcount", "update", "set", "delete"}, NEW u, NEW p, NEW slug,
             NEW public, PReceive(q, pc, u, p, slug, public)
      PROVE  FreeSlugHolds'
  <2> DEFINE j == [pc |-> pc, user |-> u, profile |-> p, slug |-> slug, copy |-> 0,
                   public |-> public]
  <2>1. j.pc # "insert"
    OBVIOUS
  <2>2. pjob' = [pjob EXCEPT ![q] = j] /\ profiles' = profiles /\ raced' = raced
    BY <1>1 DEF PReceive
  <2> HIDE DEF j
  <2> QED
    BY <2>1, <2>2, OtherStepKeepsFree
<1>2. CASE \/ \E u \in Users, name \in Names, public \in BOOLEAN :
                ReceiveCreateProfile(q, u, name, public)
           \/ \E u \in Users, p \in ProfileIds :
                \/ ReceiveDuplicate(q, u, p) \/ ReceiveUpdateProfile(q, u, p)
                \/ \E asked \in BOOLEAN : ReceiveSetPublic(q, u, p, asked)
                \/ ReceiveDeleteProfile(q, u, p)
  BY <1>1, <1>2 DEF ReceiveCreateProfile, ReceiveDuplicate, ReceiveUpdateProfile,
                    ReceiveSetPublic, ReceiveDeleteProfile
<1>3. ASSUME PFinish(q), \A x \in raced \ {q} : x \in raced',
             \/ profiles' = profiles \/ WriteProfile(q) \/ DeleteProfileRow(q)
      PROVE  FreeSlugHolds'
  BY <1>3, IdleProfileIsJob, OtherStepKeepsFree DEF PFinish
<1>4. CASE CountProfiles(q) \/ CountProfilesFails(q)
  <2>1. profiles' = profiles /\ raced' = raced /\ (PFinish(q) \/ Admit(q))
    BY <1>4 DEF CountProfiles, CountProfilesFails
  <2>2. CASE PFinish(q)
    BY <1>3, <2>1, <2>2
  <2>3. CASE Admit(q)
    <3> DEFINE pc == IF pjob[q].pc = "count" THEN "slug" ELSE "dupslug"
               j == [pjob[q] EXCEPT !.pc = pc]
    <3>1. pjob' = [pjob EXCEPT ![q] = j]
      BY <2>3, Zenon DEF Admit
    <3>2. j.pc # "insert"
      BY DEF ProfileInv, ProfileTypeOK, ProfileJob
    <3> HIDE DEF j, pc
    <3> QED
      BY <2>1, <3>1, <3>2, OtherStepKeepsFree
  <2> QED
    BY <2>1, <2>2, <2>3
<1>5. CASE InsertProfileRefused(q) \/ WriteProfileRefused(q) \/ DeleteProfileRefused(q)
  BY <1>3, <1>5 DEF InsertProfileRefused, WriteProfileRefused, DeleteProfileRefused
<1>6. CASE WriteProfile(q)
  <2>1. PFinish(q) /\ raced' = raced
    BY <1>6 DEF WriteProfile
  <2> QED
    BY <1>3, <1>6, <2>1
<1>7. CASE DeleteProfileRow(q)
  <2>1. PFinish(q) /\ raced' = raced
    BY <1>7 DEF DeleteProfileRow
  <2> QED
    BY <1>3, <1>7, <2>1
<1>8. CASE CheckSlug(q) \/ NextCopySlug(q) \/ \E p \in ProfileIds : InsertProfile(q, p)
  BY <1>8, FoundFree, InsertKeepsFree
<1> QED
  BY <1>2, <1>4, <1>5, <1>6, <1>7, <1>8 DEF ProfileStep

LEMMA NoCreationIsFree ==
  ASSUME \A q \in ProfileRequests : pjob[q] = IdleProfileJob PROVE FreeSlugHolds
  BY IdleProfileIsJob DEF FreeSlugHolds, PAt

LEMMA ProfileNextKeepsFree ==
  ASSUME ProfileInv, FreeSlugHolds, [ProfileNext]_profileVars PROVE FreeSlugHolds'
<1>1. CASE ProfileCrash
  <2>1. \A q \in ProfileRequests : pjob'[q] = IdleProfileJob
    BY <1>1 DEF ProfileCrash
  <2> QED
    BY <2>1, IdleProfileIsJob DEF FreeSlugHolds, PAt
<1>2. CASE UNCHANGED profileVars
  BY <1>2 DEF profileVars, pjobVars, FreeSlugHolds, PAt, SlugInsertable, ProfileExists
<1> QED
  BY <1>1, <1>2, ProfileStepKeepsFree DEF ProfileNext

\* However creations, duplications and deletions interleave, a slug that was
\* found free is refused by the index only after another request took it.
THEOREM FreeSlugsHold == ProfileSpec => []FreeSlugHolds
<1>1. ProfileAlone => FreeSlugHolds
  BY NoCreationIsFree DEF ProfileAlone, ProfileInit
<1> QED
  BY <1>1, AlwaysProfileInv, ProfileNextKeepsFree, PTL DEF ProfileSpec

----------------------------------------------------------------------------
\* The abstract limit is the one the component names.
LEMMA WatchedUserLimit == ASSUME Abstract!Next PROVE ProfileQuota!Next
<1>1. \A S : ProfileQuota!Cardinality(S) = Abstract!Cardinality(S)
  BY DEF ProfileQuota!Cardinality, Abstract!Cardinality, ProfileQuota!IsFiniteSet,
         Abstract!IsFiniteSet
<1>2. ASSUME NEW q \in ProfileRequests, Abstract!Check(q) PROVE ProfileQuota!Check(q)
  BY <1>1, <1>2 DEF Abstract!Check, Abstract!HasRoom, ProfileQuota!Check,
                    ProfileQuota!HasRoom
<1>3. ASSUME NEW q \in ProfileRequests, Abstract!BlindCheck(q) PROVE ProfileQuota!BlindCheck(q)
  BY <1>3 DEF Abstract!BlindCheck, ProfileQuota!BlindCheck
<1>4. ASSUME NEW q \in ProfileRequests, NEW p \in ProfileIds, Abstract!Insert(q, p)
      PROVE  ProfileQuota!Insert(q, p)
  BY <1>4 DEF Abstract!Insert, ProfileQuota!Insert
<1>5. ASSUME NEW R \in SUBSET ProfileRequests, Abstract!Abandon(R)
      PROVE  ProfileQuota!Abandon(R)
  BY <1>5 DEF Abstract!Abandon, ProfileQuota!Abandon
<1>6. ASSUME NEW X \in SUBSET ProfileIds, Abstract!Remove(X) PROVE ProfileQuota!Remove(X)
  BY <1>6 DEF Abstract!Remove, ProfileQuota!Remove
<1> QED
  BY <1>2, <1>3, <1>4, <1>5, <1>6 DEF Abstract!Next, ProfileQuota!Next

\* Creations and duplications together implement the abstract count-then-insert
\* limit, for whichever user is watched.
THEOREM ProfileQuotaRefinement == ProfileSpec => ProfileQuotaImplemented
<1>1. ProfileAlone => ProfileQuota!Init
  BY ProfileInitStep DEF ProfileAlone, Abstract!Init, ProfileQuota!Init
<1>2. ProfileInv /\ [ProfileNext]_profileVars => ProfileQuota!Next
  <2> SUFFICES ASSUME ProfileInv, [ProfileNext]_profileVars PROVE ProfileQuota!Next
    OBVIOUS
  <2>1. Abstract!Next
    BY ProfileNextStep
  <2> QED
    BY <2>1, WatchedUserLimit
<1> QED
  BY <1>1, <1>2, AlwaysProfileInv, PTL
     DEF ProfileSpec, ProfileQuotaImplemented, ProfileQuota!Spec

\* The bound, with the creations that passed the check as part of the sum.
ProfileLimitOvershootBounded ==
  Cardinality(ProfilesOf(WatchedUser)) + Cardinality(Admitted(WatchedUser))
    <= MaxProfiles + (Cardinality(ProfileRequests) - 1) + pblind[WatchedUser]

\* What the abstract limit promises, for profiles.
LEMMA AbstractBound == Abstract!Spec => []ProfileLimitOvershootBounded
<1>1. Abstract!QuotaAssumption
  BY ProfileAssumption, TablesAssumption
     DEF Abstract!QuotaAssumption, IsFiniteSet, Abstract!IsFiniteSet
<1>2. Abstract!Spec => []Abstract!OvershootBounded
  BY <1>1, Abstract!QuotaBound
<1>3. Abstract!OvershootBounded => ProfileLimitOvershootBounded
  BY SameProfileCount DEF Abstract!OvershootBounded, ProfileLimitOvershootBounded
<1> QED
  BY <1>2, <1>3, PTL

\* No user ever has more than max_profiles_per_user by more than the creations
\* and duplications that run beside the last one and those whose COUNT failed:
\* what the abstract limit promises, carried over by the refinement.
THEOREM ProfileLimitBound == ProfileSpec => []ProfileLimitOvershootBounded
<1>1. ProfileAlone => Abstract!Init
  BY ProfileInitStep DEF ProfileAlone
<1>2. ProfileInv /\ [ProfileNext]_profileVars => Abstract!Next
  BY ProfileNextStep
<1>3. ProfileSpec => Abstract!Spec
  BY <1>1, <1>2, AlwaysProfileInv, PTL DEF ProfileSpec, Abstract!Spec
<1> QED
  BY <1>3, AbstractBound, PTL

----------------------------------------------------------------------------
(***************************************************************************)
(* The link handlers on their own.                                         *)
(***************************************************************************)

\* The steps at which a job has its profile, and those at which its list of
\* links is not empty.
ListSteps == {"toggle", "update", "set", "delete", "renumber", "reorder"}

\* What TypeOK does not say: a request that is busy knows its profile, and the
\* loops and the writers have a link to go on with.
LinkJobsComplete ==
  \A r \in Requests :
    /\ job[r].pc # "idle" => job[r].profile \in ProfileIds
    /\ job[r].pc \in ListSteps => job[r].ids # <<>>

LinkInv == TypeOK /\ LinkJobsComplete

LEMMA IdleLinkJob == Idle \in Job
  BY DEF Idle, Job, Steps

\* A job with another step, profile, list, position or flag is a job.
LEMMA LinkJobFields ==
  ASSUME NEW j \in Job
  PROVE  /\ j.pc \in Steps /\ j.profile \in ProfileIds \cup {NoProfile}
         /\ j.ids \in Seq(LinkIds) /\ j.pos \in Nat /\ j.active \in BOOLEAN
  BY DEF Job

\* Finish(r) keeps the jobs well typed and complete.
LEMMA FinishKeepsJobs ==
  ASSUME LinkInv, NEW r \in Requests, Finish(r)
  PROVE  job' \in [Requests -> Job] /\ LinkJobsComplete'
  BY IdleLinkJob DEF LinkInv, TypeOK, LinkJobsComplete, Finish, Idle, ListSteps

\* So does giving one request a complete job.
LEMMA NewJobKeepsJobs ==
  ASSUME LinkInv, NEW r \in Requests, NEW j \in Job,
         j.pc # "idle" => j.profile \in ProfileIds,
         j.pc \in ListSteps => j.ids # <<>>,
         job' = [job EXCEPT ![r] = j]
  PROVE  job' \in [Requests -> Job] /\ LinkJobsComplete'
<1>1. job \in [Requests -> Job]
  BY DEF LinkInv, TypeOK
<1>2. job' \in [Requests -> Job]
  BY <1>1
<1>3. \A q \in Requests : job'[q] = IF q = r THEN j ELSE job[q]
  BY <1>1
<1> QED
  BY <1>2, <1>3 DEF LinkInv, LinkJobsComplete

\* A request that arrives keeps the jobs well typed and complete.
LEMMA ReceiveKeepsJobs ==
  ASSUME LinkInv, NEW r \in Requests, NEW pc \in Steps, NEW p \in ProfileIds,
         NEW ids \in Seq(LinkIds), NEW active \in BOOLEAN,
         pc \in ListSteps => ids # <<>>,
         Receive(r, pc, p, ids, active)
  PROVE  job' \in [Requests -> Job] /\ LinkJobsComplete'
<1> DEFINE j == [pc |-> pc, profile |-> p, ids |-> ids, pos |-> 0, active |-> active]
<1>1. j \in Job
  BY DEF Job
<1>2. job' = [job EXCEPT ![r] = j]
  BY DEF Receive
<1>3. j.pc = pc /\ j.ids = ids /\ j.profile = p
  OBVIOUS
<1> HIDE DEF j
<1> QED
  BY <1>1, <1>2, <1>3, NewJobKeepsJobs

\* A busy request that goes on keeps the jobs well typed and complete.
LEMMA GoOnKeepsJobs ==
  ASSUME LinkInv, NEW r \in Requests, job[r].pc # "idle",
         NEW pc \in Steps, NEW ids \in Seq(LinkIds), NEW n \in Nat,
         pc \in ListSteps => ids # <<>>,
         GoOn(r, pc, ids, n)
  PROVE  job' \in [Requests -> Job] /\ LinkJobsComplete'
<1> DEFINE j == [pc |-> pc, profile |-> job[r].profile, ids |-> ids, pos |-> n,
                 active |-> job[r].active]
<1>1. job[r].profile \in ProfileIds /\ job[r].active \in BOOLEAN
  BY LinkJobFields DEF LinkInv, TypeOK, LinkJobsComplete
<1>2. j \in Job
  BY <1>1 DEF Job
<1>3. job' = [job EXCEPT ![r] = j]
  BY DEF GoOn
<1>4. j.pc = pc /\ j.ids = ids /\ j.profile \in ProfileIds
  BY <1>1
<1> HIDE DEF j
<1> QED
  BY <1>2, <1>3, <1>4, NewJobKeepsJobs

\* What is left of a list of more than one link.
LEMMA RestOfList ==
  ASSUME NEW s \in Seq(LinkIds), s # <<>>, Len(s) # 1
  PROVE  Tail(s) \in Seq(LinkIds) /\ Tail(s) # <<>>
<1>1. Len(s) \in Nat /\ Len(s) > 0
  OBVIOUS
<1>2. Tail(s) \in Seq(LinkIds) /\ Len(Tail(s)) = Len(s) - 1
  BY HeadTailProperties
<1>3. Len(Tail(s)) > 0
  BY <1>1, <1>2
<1>4. Len(<<>>) = 0
  OBVIOUS
<1> QED
  BY <1>2, <1>3, <1>4

\* A list of a profile's links in some order is a sequence of links.
LEMMA InOrderIsSeq ==
  ASSUME NEW p, NEW s \in InOrder(p)
  PROVE  s \in Seq(LinkIds)
<1>1. LinksOf(p) \in SUBSET LinkIds
  BY DEF LinksOf
<1>2. Cardinality(LinksOf(p)) \in Nat
  BY <1>1, FS_Subset, FS_CardinalityType, LinkAssumption, TablesAssumption
<1> QED
  BY <1>1, <1>2 DEF InOrder

LEMMA NextPositionIsNat ==
  ASSUME TypeOK, NEW p \in ProfileIds, NEW n \in NextPosition(p)
  PROVE  n \in Nat
  BY DEF NextPosition, TypeOK, LinksOf, LinkExists, LinkRow, NoRow

\* An existing link's row is a row of the table.
LEMMA RowOfLink ==
  ASSUME TypeOK, NEW l \in LinkIds, LinkExists(l)
  PROVE  links[l] \in LinkRow /\ links[l].profile \in ProfileIds
                              /\ links[l].position \in Nat /\ links[l].active \in BOOLEAN
  BY DEF TypeOK, LinkExists, LinkRow, NoRow

\* The loops and the writers: the rest of the list is a list of links.
LEMMA NextIdKeepsJobs ==
  ASSUME LinkInv, NEW r \in Requests, job[r].pc \in {"renumber", "reorder"}, NextId(r)
  PROVE  job' \in [Requests -> Job] /\ LinkJobsComplete'
<1>1. CASE Len(job[r].ids) = 1
  BY <1>1, FinishKeepsJobs DEF NextId
<1>2. CASE Len(job[r].ids) # 1
  <2>1. /\ job[r] \in Job /\ job[r].ids \in Seq(LinkIds) /\ job[r].ids # <<>>
        /\ job[r].pos \in Nat /\ job[r].pc \in Steps
    BY DEF LinkInv, TypeOK, LinkJobsComplete, Job, ListSteps
  <2>2. Tail(job[r].ids) \in Seq(LinkIds) /\ Tail(job[r].ids) # <<>>
    BY <1>2, <2>1, RestOfList
  <2>3. job[r].pos + 1 \in Nat
    BY <2>1
  <2>4. GoOn(r, job[r].pc, Tail(job[r].ids), job[r].pos + 1)
    BY <1>2 DEF NextId
  <2> QED
    BY <2>1, <2>2, <2>3, <2>4, GoOnKeepsJobs
<1> QED
  BY <1>1, <1>2

\* The link a busy request is at.
LEMMA HeadLink ==
  ASSUME LinkInv, NEW r \in Requests, job[r].pc \in ListSteps
  PROVE  Head(job[r].ids) \in LinkIds
<1>1. job[r].ids \in Seq(LinkIds) /\ job[r].ids # <<>>
  BY DEF LinkInv, TypeOK, LinkJobsComplete, Job
<1> QED
  BY <1>1

\* Moving a link keeps the table well typed.
LEMMA MoveLinkKeepsRows ==
  ASSUME LinkInv, NEW r \in Requests, job[r].pc \in {"renumber", "reorder"}, MoveLink(r)
  PROVE  links' \in [LinkIds -> LinkRow \cup NoRow]
<1>1. Head(job[r].ids) \in LinkIds
  BY HeadLink DEF ListSteps
<1>2. job[r].pos \in Nat
  BY LinkJobFields DEF LinkInv, TypeOK
<1> QED
  BY <1>1, <1>2, RowOfLink DEF LinkInv, TypeOK, MoveLink, LinkRow

\* The requests that read an order are requests.
LEMMA ReadersAreRequests ==
  /\ \A p : OrderReaders(p) \in SUBSET Requests
  /\ \A l : CopyHolders(l) \in SUBSET Requests
  BY DEF OrderReaders, JobsAt, CopyHolders

\* The steps of a request are steps.
LEMMA StepNames ==
  /\ {"idle", "count", "position", "insert", "select"} \subseteq Steps \ ListSteps
  /\ ListSteps \subseteq Steps
  BY DEF Steps, ListSteps

\* Every step of a request keeps the types.
LEMMA LinkStepKeepsTypes ==
  ASSUME LinkInv, NEW r \in Requests, LinkStep(r)
  PROVE  LinkInv'
<1>a. /\ job' \in [Requests -> Job] /\ LinkJobsComplete'
      /\ links' = links /\ calm' \in BOOLEAN
      /\ stale' \in SUBSET Requests /\ blind' \in [ProfileIds -> Nat]
      => LinkInv'
  BY DEF LinkInv, TypeOK
<1>b. links \in [LinkIds -> LinkRow \cup NoRow] /\ calm \in BOOLEAN
      /\ stale \in SUBSET Requests /\ blind \in [ProfileIds -> Nat]
  BY DEF LinkInv, TypeOK
<1>c. <<>> \in Seq(LinkIds) /\ \A l \in LinkIds : <<l>> \in Seq(LinkIds) /\ <<l>> # <<>>
  OBVIOUS
<1>1. ASSUME NEW u \in Users, NEW p \in ProfileIds, ReceiveCreate(r, u, p) PROVE LinkInv'
  <2>1. Receive(r, "count", p, <<>>, FALSE) /\ UNCHANGED <<links, stale, blind, calm>>
    BY <1>1 DEF ReceiveCreate
  <2> QED
    BY <1>a, <1>b, <1>c, <2>1, StepNames, ReceiveKeepsJobs
<1>2. CASE CountLinks(r)
  <2>1. job[r].pc = "count" /\ UNCHANGED <<links, stale, blind, calm>>
    BY <1>2 DEF CountLinks, At
  <2>2. CASE Finish(r)
    BY <1>a, <1>b, <2>1, <2>2, FinishKeepsJobs
  <2>3. CASE GoOn(r, "position", <<>>, 0)
    BY <1>a, <1>b, <1>c, <2>1, <2>3, StepNames, GoOnKeepsJobs
  <2> QED
    BY <1>2, <2>2, <2>3 DEF CountLinks
<1>3. CASE CountLinksFails(r)
  <2>1. /\ job[r].pc = "count" /\ GoOn(r, "position", <<>>, 0)
        /\ UNCHANGED <<links, stale, calm>>
    BY <1>3 DEF CountLinksFails, At
  <2>2. blind' = [blind EXCEPT ![job[r].profile] = blind[job[r].profile] + 1]
    BY <1>3 DEF CountLinksFails
  <2>3. job[r].profile \in ProfileIds
    BY <2>1 DEF LinkInv, LinkJobsComplete
  <2>4. blind' \in [ProfileIds -> Nat]
    BY <1>b, <2>2, <2>3
  <2> QED
    BY <1>a, <1>b, <1>c, <2>1, <2>4, StepNames, GoOnKeepsJobs
<1>4. CASE ReadNextPosition(r)
  <2>1. /\ job[r].pc = "position" /\ job[r].profile \in ProfileIds
        /\ stale' = stale \ {r} /\ UNCHANGED <<links, blind, calm>>
    BY <1>4 DEF ReadNextPosition, At, LinkInv, LinkJobsComplete
  <2>2. PICK n \in NextPosition(job[r].profile) : GoOn(r, "insert", <<>>, n)
    BY <1>4 DEF ReadNextPosition
  <2>3. n \in Nat
    BY <2>1, NextPositionIsNat DEF LinkInv
  <2> QED
    BY <1>a, <1>b, <1>c, <2>1, <2>2, <2>3, StepNames, GoOnKeepsJobs
<1>5. CASE ReadNextPositionFails(r)
  <2>1. /\ job[r].pc = "position" /\ GoOn(r, "insert", <<>>, 1)
        /\ stale' = stale \cup {r} /\ UNCHANGED <<links, blind, calm>>
    BY <1>5 DEF ReadNextPositionFails, At
  <2> QED
    BY <1>a, <1>b, <1>c, <2>1, StepNames, GoOnKeepsJobs
<1>6. ASSUME NEW l \in LinkIds, InsertLink(r, l) PROVE LinkInv'
  <2>1. [profile |-> job[r].profile, position |-> job[r].pos, active |-> TRUE] \in LinkRow
    BY <1>6, LinkJobFields
       DEF InsertLink, At, LinkInv, TypeOK, LinkJobsComplete, LinkRow
  <2>2. links' \in [LinkIds -> LinkRow \cup NoRow]
    BY <1>6, <2>1 DEF InsertLink, At, LinkInv, TypeOK
  <2>3. stale' \in SUBSET Requests /\ calm' \in BOOLEAN /\ blind' = blind
    BY <1>6, ReadersAreRequests DEF InsertLink, OvertakeOrder, LinkInv, TypeOK
  <2>4. Finish(r)
    BY <1>6 DEF InsertLink
  <2> QED
    BY <2>2, <2>3, <2>4, FinishKeepsJobs DEF LinkInv, TypeOK
<1>7. CASE CreateRefused(r)
  BY <1>7, FinishKeepsJobs DEF CreateRefused, LinkInv, TypeOK, At
<1>8. ASSUME NEW u \in Users, NEW l \in LinkIds, ReceiveToggle(r, u, l)
      PROVE  LinkInv'
  <2>1. /\ Receive(r, "toggle", links[l].profile, <<l>>, ToggledCopy(l)) /\ LinkExists(l)
        /\ UNCHANGED <<links, stale, blind, calm>>
    BY <1>8 DEF ReceiveToggle, OwnedLink
  <2>2. links[l].profile \in ProfileIds /\ ToggledCopy(l) \in BOOLEAN
    BY <2>1, RowOfLink DEF LinkInv, ToggledCopy
  <2>3. "toggle" \in Steps
    BY DEF Steps
  <2> QED
    BY <1>a, <1>b, <1>c, <2>1, <2>2, <2>3, ReceiveKeepsJobs
<1>9. ASSUME NEW u \in Users, NEW l \in LinkIds, ReceiveUpdate(r, u, l)
      PROVE  LinkInv'
  <2>1. /\ Receive(r, "update", links[l].profile, <<l>>, links[l].active) /\ LinkExists(l)
        /\ UNCHANGED <<links, stale, blind, calm>>
    BY <1>9 DEF ReceiveUpdate, OwnedLink
  <2>2. links[l].profile \in ProfileIds /\ links[l].active \in BOOLEAN
    BY <2>1, RowOfLink DEF LinkInv
  <2>3. "update" \in Steps
    BY DEF Steps
  <2> QED
    BY <1>a, <1>b, <1>c, <2>1, <2>2, <2>3, ReceiveKeepsJobs
<1>10. ASSUME NEW u \in Users, NEW l \in LinkIds, NEW asked \in BOOLEAN, ReceiveSet(r, u, l, asked)
      PROVE  LinkInv'
  <2>1. /\ Receive(r, "set", links[l].profile, <<l>>, asked) /\ LinkExists(l)
        /\ UNCHANGED <<links, stale, blind, calm>>
    BY <1>10 DEF ReceiveSet, OwnedLink
  <2>2. links[l].profile \in ProfileIds /\ asked \in BOOLEAN
    BY <2>1, RowOfLink DEF LinkInv
  <2>3. "set" \in Steps
    BY DEF Steps
  <2> QED
    BY <1>a, <1>b, <1>c, <2>1, <2>2, <2>3, ReceiveKeepsJobs
<1>11. ASSUME NEW u \in Users, NEW l \in LinkIds, ReceiveDelete(r, u, l)
      PROVE  LinkInv'
  <2>1. /\ Receive(r, "delete", links[l].profile, <<l>>, FALSE) /\ LinkExists(l)
        /\ UNCHANGED <<links, stale, blind, calm>>
    BY <1>11 DEF ReceiveDelete, OwnedLink
  <2>2. links[l].profile \in ProfileIds /\ FALSE \in BOOLEAN
    BY <2>1, RowOfLink DEF LinkInv
  <2>3. "delete" \in Steps
    BY DEF Steps
  <2> QED
    BY <1>a, <1>b, <1>c, <2>1, <2>2, <2>3, ReceiveKeepsJobs
<1>12. CASE WriteCopy(r)
  <2>1. Head(job[r].ids) \in LinkIds /\ job[r].active \in BOOLEAN
    BY <1>12, HeadLink, LinkJobFields DEF WriteCopy, ListSteps, LinkInv, TypeOK
  <2>2. links' \in [LinkIds -> LinkRow \cup NoRow]
    BY <1>12, <2>1, RowOfLink DEF WriteCopy, LinkInv, TypeOK, LinkRow
  <2>3. stale' \in SUBSET Requests /\ calm' = calm /\ blind' = blind /\ Finish(r)
    BY <1>12, ReadersAreRequests DEF WriteCopy, LinkInv, TypeOK
  <2> QED
    BY <2>2, <2>3, FinishKeepsJobs DEF LinkInv, TypeOK
<1>13. CASE CopyRefused(r)
  BY <1>13, FinishKeepsJobs DEF CopyRefused, LinkInv, TypeOK, At
<1>14. CASE DeleteLinkRow(r)
  <2>1. job[r].pc = "delete" /\ GoOn(r, "select", <<>>, 0)
    BY <1>14 DEF DeleteLinkRow, At
  <2>2. job' \in [Requests -> Job] /\ LinkJobsComplete'
    BY <1>c, <2>1, StepNames, GoOnKeepsJobs
  <2>3. links' \in [LinkIds -> LinkRow \cup NoRow]
    BY <1>14, <1>b DEF DeleteLinkRow, NoRow
  <2>4. stale' \in SUBSET Requests /\ calm' = calm /\ blind' = blind
    BY <1>14, <1>b, ReadersAreRequests DEF DeleteLinkRow, OvertakeOrder
  <2> QED
    BY <1>b, <2>2, <2>3, <2>4 DEF LinkInv, TypeOK
<1>15. CASE DeleteRefused(r)
  BY <1>15, FinishKeepsJobs DEF DeleteRefused, LinkInv, TypeOK, At
<1>16. CASE SelectForRenumber(r)
  <2>1. PICK s \in InOrder(job[r].profile) :
          IF s = <<>> THEN Finish(r) ELSE GoOn(r, "renumber", s, 0)
    BY <1>16 DEF SelectForRenumber
  <2>2. /\ job[r].pc = "select" /\ stale' = stale \ {r}
        /\ UNCHANGED <<links, blind, calm>>
    BY <1>16 DEF SelectForRenumber, At
  <2>3. job' \in [Requests -> Job] /\ LinkJobsComplete'
    <3>1. CASE s = <<>>
      BY <2>1, <3>1, FinishKeepsJobs
    <3>2. CASE s # <<>>
      <4>1. s \in Seq(LinkIds) /\ GoOn(r, "renumber", s, 0)
        BY <2>1, <3>2, InOrderIsSeq
      <4> QED
        BY <2>2, <3>2, <4>1, GoOnKeepsJobs DEF Steps
    <3> QED
      BY <3>1, <3>2
  <2> QED
    BY <1>a, <1>b, <2>2, <2>3
<1>17. CASE SelectFails(r)
  BY <1>17, FinishKeepsJobs DEF SelectFails, LinkInv, TypeOK, At
<1>18. CASE Renumber(r)
  BY <1>18, NextIdKeepsJobs, MoveLinkKeepsRows, ReadersAreRequests
     DEF Renumber, LinkInv, TypeOK, At
<1>19. CASE RenumberFails(r)
  BY <1>19, NextIdKeepsJobs DEF RenumberFails, LinkInv, TypeOK, At
<1>20. ASSUME NEW u \in Users, NEW ids \in LinkIdLists, ReceiveReorder(r, u, ids)
       PROVE  LinkInv'
  <2>1. PICK n \in 1 .. MaxReorder : ids \in [1 .. n -> LinkIds]
    BY DEF LinkIdLists
  <2>2. n \in Nat \ {0} /\ ids \in Seq(LinkIds) /\ Len(ids) = n
    BY <2>1, LinkAssumption, TablesAssumption
  <2>3. ids # <<>> /\ ids[1] \in LinkIds
    BY <2>1, <2>2
  <2>4. /\ Receive(r, "reorder", links[ids[1]].profile, ids, FALSE) /\ LinkExists(ids[1])
        /\ UNCHANGED <<links, stale, blind>> /\ calm' \in BOOLEAN
    BY <1>20, <1>b DEF ReceiveReorder, OwnedLink
  <2>5. links[ids[1]].profile \in ProfileIds
    BY <2>3, <2>4, RowOfLink DEF LinkInv
  <2>6. "reorder" \in Steps
    BY DEF Steps
  <2> QED
    BY <1>a, <1>b, <2>2, <2>3, <2>4, <2>5, <2>6, ReceiveKeepsJobs
<1>21. CASE WriteReorder(r)
  BY <1>21, NextIdKeepsJobs, MoveLinkKeepsRows, ReadersAreRequests
     DEF WriteReorder, LinkInv, TypeOK, At
<1>22. CASE ReorderRefused(r)
  BY <1>22, FinishKeepsJobs DEF ReorderRefused, LinkInv, TypeOK, At
<1> QED
  BY <1>1, <1>2, <1>3, <1>4, <1>5, <1>6, <1>7, <1>8, <1>9, <1>10, <1>11, <1>12, <1>13,
     <1>14, <1>15, <1>16, <1>17, <1>18, <1>19, <1>20, <1>21, <1>22 DEF LinkStep

\* A crash keeps the types: every request is idle again.
LEMMA LinkCrashKeepsTypes ==
  ASSUME LinkInv, LinkCrash
  PROVE  LinkInv'
<1>1. job' = [r \in Requests |-> Idle] /\ stale' = {} /\ UNCHANGED <<links, blind>>
      /\ calm' \in BOOLEAN
  BY DEF LinkCrash, LinkInv, TypeOK
<1>2. job' \in [Requests -> Job]
  BY <1>1, IdleLinkJob
<1>3. Idle.pc = "idle" /\ "idle" \notin ListSteps
  BY DEF Idle, ListSteps
<1>4. LinkJobsComplete'
  BY <1>1, <1>3 DEF LinkJobsComplete
<1> QED
  BY <1>1, <1>2, <1>4 DEF LinkInv, TypeOK

\* The initial states are well typed.
LEMMA LinkInitTypes == LinkInit => LinkInv
<1> SUFFICES ASSUME LinkInit PROVE LinkInv
  OBVIOUS
<1>1. links = [l \in LinkIds |-> Unused] /\ job = [r \in Requests |-> Idle] /\ stale = {}
      /\ blind = [p \in ProfileIds |-> 0] /\ calm = TRUE
  BY DEF LinkInit
<1>2. Idle.pc = "idle" /\ "idle" \notin ListSteps
  BY DEF Idle, ListSteps
<1> QED
  BY <1>1, <1>2, IdleLinkJob DEF LinkInv, TypeOK, LinkJobsComplete, NoRow

\* A step of the component, or none, keeps the types.
LEMMA LinkNextKeepsTypes == LinkInv /\ [LinkNext]_linkVars => LinkInv'
<1> SUFFICES ASSUME LinkInv, [LinkNext]_linkVars PROVE LinkInv'
  OBVIOUS
<1>1. ASSUME NEW r \in Requests, LinkStep(r) PROVE LinkInv'
  BY <1>1, LinkStepKeepsTypes
<1>2. CASE LinkCrash
  BY <1>2, LinkCrashKeepsTypes
<1>3. CASE UNCHANGED linkVars
  BY <1>3 DEF linkVars, owners, jobVars, LinkInv, TypeOK, LinkJobsComplete
<1> QED
  BY <1>1, <1>2, <1>3 DEF LinkNext

\* The types and the completeness of the jobs hold in every state.
LEMMA AlwaysLinkInv == LinkSpec => []LinkInv
<1> QED
  BY LinkInitTypes, LinkNextKeepsTypes, PTL DEF LinkSpec, LinkAlone

\* The links table and the jobs of link_handlers.go keep their types, for any
\* number of requests: no position is negative, no request forgets its link.
THEOREM LinkTypes == LinkSpec => []TypeOK
<1>1. LinkInv => TypeOK
  BY DEF LinkInv
<1> QED
  BY <1>1, AlwaysLinkInv, PTL

----------------------------------------------------------------------------
(***************************************************************************)
(* CreateLink's "count, then insert" implements the abstract limit of      *)
(* module Quota, and so overshoots max_links_per_profile by a bounded      *)
(* number of links only, for any number of overlapping requests.           *)
(***************************************************************************)

\* The creations for profile p that passed the check and have not inserted.
Pending(p) == JobsAt(p, {"position", "insert"})

\* The limit of profile p.
Q(p) ==
  INSTANCE Quota WITH Rows <- LinkIds, Limit <- MaxLinks,
    rows <- LinksOf(p), pending <- Pending(p), blind <- blind[p]

----------------------------------------------------------------------------
\* What a new job of request r does to the pending creations of profile p.
LEMMA PendingAfter ==
  ASSUME LinkInv, NEW r \in Requests, NEW j, NEW p,
         job' = [job EXCEPT ![r] = j]
  PROVE  Pending(p)' = IF j.profile = p /\ j.pc \in {"position", "insert"}
                       THEN Pending(p) \cup {r} ELSE Pending(p) \ {r}
<1>1. \A q \in Requests : job'[q] = IF q = r THEN j ELSE job[q]
  BY DEF LinkInv, TypeOK
<1> QED
  BY <1>1 DEF Pending, JobsAt

\* A request that ends leaves the pending creations.
LEMMA PendingAfterFinish ==
  ASSUME LinkInv, NEW r \in Requests, NEW p, Finish(r)
  PROVE  Pending(p)' = Pending(p) \ {r}
<1>1. job' = [job EXCEPT ![r] = Idle] /\ Idle.pc = "idle"
  BY DEF Finish, Idle
<1> QED
  BY <1>1, PendingAfter

\* A request that goes on joins them at two of the steps.
LEMMA PendingAfterGoOn ==
  ASSUME LinkInv, NEW r \in Requests, NEW p, NEW pc, NEW ids, NEW n, GoOn(r, pc, ids, n)
  PROVE  Pending(p)' = IF job[r].profile = p /\ pc \in {"position", "insert"}
                       THEN Pending(p) \cup {r} ELSE Pending(p) \ {r}
<1> DEFINE j == [pc |-> pc, profile |-> job[r].profile, ids |-> ids, pos |-> n,
                 active |-> job[r].active]
<1>1. job' = [job EXCEPT ![r] = j] /\ j.pc = pc /\ j.profile = job[r].profile
  BY DEF GoOn
<1> HIDE DEF j
<1> QED
  BY <1>1, PendingAfter

\* A request that arrives is not among them yet.
LEMMA PendingAfterReceive ==
  ASSUME LinkInv, NEW r \in Requests, NEW p, NEW pc, NEW q, NEW ids, NEW active,
         pc \notin {"position", "insert"}, Receive(r, pc, q, ids, active)
  PROVE  Pending(p)' = Pending(p) \ {r}
<1> DEFINE j == [pc |-> pc, profile |-> q, ids |-> ids, pos |-> 0, active |-> active]
<1>1. job' = [job EXCEPT ![r] = j] /\ j.pc = pc
  BY DEF Receive
<1> HIDE DEF j
<1> QED
  BY <1>1, PendingAfter

\* A statement that keeps the rows' profiles keeps every profile's links.
LEMMA SameLinks ==
  ASSUME NEW p,
         \A l \in LinkIds : /\ links'[l] \in NoRow <=> links[l] \in NoRow
                            /\ links[l] \notin NoRow => links'[l].profile = links[l].profile
  PROVE  LinksOf(p)' = LinksOf(p)
  BY DEF LinksOf, LinkExists

\* A row with another position or flag is a row of the same profile.
LEMMA RowChange ==
  ASSUME NEW row \in LinkRow, NEW n \in Nat, NEW b \in BOOLEAN
  PROVE  /\ [row EXCEPT !.position = n] \in LinkRow
         /\ [row EXCEPT !.position = n].profile = row.profile
         /\ [row EXCEPT !.active = b] \in LinkRow
         /\ [row EXCEPT !.active = b].profile = row.profile
  BY DEF LinkRow

\* UPDATE of the position keeps every profile's links.
LEMMA MoveKeepsLinks ==
  ASSUME LinkInv, NEW r \in Requests, job[r].pc \in {"renumber", "reorder"}, MoveLink(r),
         NEW p
  PROVE  LinksOf(p)' = LinksOf(p)
<1> DEFINE l == Head(job[r].ids)
<1>1. l \in LinkIds
  BY HeadLink DEF ListSteps
<1>2. CASE ~LinkExists(l)
  <2>1. links' = links
    BY <1>2 DEF MoveLink
  <2> QED
    BY <2>1 DEF LinksOf, LinkExists
<1>3. CASE LinkExists(l)
  <2>1. links' = [links EXCEPT ![l].position = job[r].pos]
    BY <1>3 DEF MoveLink
  <2>2. links[l] \in LinkRow /\ job[r].pos \in Nat /\ links \in [LinkIds -> LinkRow \cup NoRow]
    BY <1>1, <1>3, RowOfLink, LinkJobFields DEF LinkInv, TypeOK
  <2> DEFINE row == [links[l] EXCEPT !.position = job[r].pos]
  <2>a. links' = [links EXCEPT ![l] = row]
    BY <2>1, Zenon
  <2>b. row \in LinkRow /\ row.profile = links[l].profile
    BY <2>2, RowChange
  <2> HIDE DEF row
  <2>3. links'[l] \in LinkRow /\ links'[l].profile = links[l].profile
    BY <1>1, <2>a, <2>b, <2>2
  <2>4. \A k \in LinkIds : k # l => links'[k] = links[k]
    BY <1>1, <2>a, <2>2
  <2>5. links'[l] \notin NoRow
    BY <2>3, LinkAssumption, TablesAssumption DEF NoRow
  <2> HIDE DEF l
  <2> QED
    BY <1>1, <1>3, <2>3, <2>4, <2>5, SameLinks DEF LinkExists
<1> QED
  BY <1>2, <1>3

\* So does the UPDATE of the flag.
LEMMA WriteCopyKeepsLinks ==
  ASSUME LinkInv, NEW r \in Requests, WriteCopy(r), NEW p
  PROVE  LinksOf(p)' = LinksOf(p)
<1> DEFINE l == Head(job[r].ids)
<1>1. l \in LinkIds
  BY HeadLink DEF ListSteps, WriteCopy
<1>2. CASE ~LinkExists(l)
  <2>1. links' = links
    BY <1>2 DEF WriteCopy
  <2> QED
    BY <2>1 DEF LinksOf, LinkExists
<1>3. CASE LinkExists(l)
  <2>1. links' = [links EXCEPT ![l].active = job[r].active]
    BY <1>3 DEF WriteCopy
  <2>2. links[l] \in LinkRow /\ job[r].active \in BOOLEAN
        /\ links \in [LinkIds -> LinkRow \cup NoRow]
    BY <1>1, <1>3, RowOfLink, LinkJobFields DEF LinkInv, TypeOK
  <2> DEFINE row == [links[l] EXCEPT !.active = job[r].active]
  <2>a. links' = [links EXCEPT ![l] = row]
    BY <2>1, Zenon
  <2>b. row \in LinkRow /\ row.profile = links[l].profile
    BY <2>2, RowChange
  <2> HIDE DEF row
  <2>3. links'[l] \in LinkRow /\ links'[l].profile = links[l].profile
    BY <1>1, <2>a, <2>b, <2>2
  <2>4. \A k \in LinkIds : k # l => links'[k] = links[k]
    BY <1>1, <2>a, <2>2
  <2>5. links'[l] \notin NoRow
    BY <2>3, LinkAssumption, TablesAssumption DEF NoRow
  <2> HIDE DEF l
  <2> QED
    BY <1>1, <1>3, <2>3, <2>4, <2>5, SameLinks DEF LinkExists
<1> QED
  BY <1>2, <1>3

----------------------------------------------------------------------------
\* Nothing new for profile p: some creations give up, or nobody does.
LEMMA QuietLinkStep ==
  ASSUME NEW p, LinksOf(p)' = LinksOf(p), blind'[p] = blind[p],
         Pending(p)' \in SUBSET Pending(p)
  PROVE  Q(p)!Next
<1> DEFINE R == Pending(p) \ Pending(p)'
<1>1. R \in SUBSET Requests
  BY DEF Pending, JobsAt
<1>2. Pending(p)' = Pending(p) \ R
  OBVIOUS
<1>3. Q(p)!Abandon(R)
  BY <1>2 DEF Q!Abandon
<1> HIDE DEF R
<1> QED
  BY <1>1, <1>3 DEF Q!Next

\* A statement that leaves the links table alone.
LEMMA QuietLinks == ASSUME NEW p, links' = links PROVE LinksOf(p)' = LinksOf(p)
  BY DEF LinksOf, LinkExists

\* The instance counts as this module does.
LEMMA SameLinkCount == ASSUME NEW p, NEW S PROVE Q(p)!Cardinality(S) = Cardinality(S)
  BY DEF Q!Cardinality, Cardinality, Q!IsFiniteSet, IsFiniteSet

\* CountLinks passes, or refuses: the abstract check.
LEMMA CountIsCheck ==
  ASSUME LinkInv, NEW r \in Requests, NEW p \in ProfileIds, CountLinks(r)
  PROVE  Q(p)!Next
<1>1. /\ job[r].pc = "count" /\ links' = links /\ blind' = blind
  BY DEF CountLinks, At
<1>2. LinksOf(p)' = LinksOf(p) /\ r \notin Pending(p)
  BY <1>1, QuietLinks DEF Pending, JobsAt
<1>3. CASE LimitReached(job[r].profile)
  <2>1. Pending(p)' = Pending(p) \ {r}
    BY <1>3, PendingAfterFinish DEF CountLinks
  <2> QED
    BY <1>1, <1>2, <2>1, QuietLinkStep
<1>4. CASE ~LimitReached(job[r].profile)
  <2>1. GoOn(r, "position", <<>>, 0)
    BY <1>4 DEF CountLinks
  <2>2. CASE job[r].profile # p
    <3>1. Pending(p)' = Pending(p) \ {r}
      BY <2>1, <2>2, PendingAfterGoOn
    <3> QED
      BY <1>1, <1>2, <3>1, QuietLinkStep
  <2>3. CASE job[r].profile = p
    <3>1. Pending(p)' = Pending(p) \cup {r}
      BY <2>1, <2>3, PendingAfterGoOn
    <3>2. Cardinality(LinksOf(p)) \in Nat
      BY FS_Subset, FS_CardinalityType, LinkAssumption, TablesAssumption DEF LinksOf
    <3>3. Cardinality(LinksOf(p)) < MaxLinks
      BY <1>4, <2>3, <3>2, LinkAssumption, TablesAssumption DEF LimitReached
    <3>4. Q(p)!Check(r)
      BY <1>1, <1>2, <3>1, <3>3, SameLinkCount DEF Q!Check, Q!HasRoom
    <3> QED
      BY <3>4 DEF Q!Next
  <2> QED
    BY <2>2, <2>3
<1> QED
  BY <1>3, <1>4

\* A failed COUNT is the abstract blind check.
LEMMA CountFailureIsBlindCheck ==
  ASSUME LinkInv, NEW r \in Requests, NEW p \in ProfileIds, CountLinksFails(r)
  PROVE  Q(p)!Next
<1>1. /\ job[r].pc = "count" /\ links' = links /\ GoOn(r, "position", <<>>, 0)
      /\ blind' = [blind EXCEPT ![job[r].profile] = blind[job[r].profile] + 1]
  BY DEF CountLinksFails, At
<1>2. LinksOf(p)' = LinksOf(p) /\ r \notin Pending(p)
  BY <1>1, QuietLinks DEF Pending, JobsAt
<1>3. blind \in [ProfileIds -> Nat]
  BY DEF LinkInv, TypeOK
<1>4. CASE job[r].profile # p
  <2>1. Pending(p)' = Pending(p) \ {r} /\ blind'[p] = blind[p]
    BY <1>1, <1>3, <1>4, PendingAfterGoOn
  <2> QED
    BY <1>2, <2>1, QuietLinkStep
<1>5. CASE job[r].profile = p
  <2>1. Pending(p)' = Pending(p) \cup {r} /\ blind'[p] = blind[p] + 1
    BY <1>1, <1>3, <1>5, PendingAfterGoOn
  <2>2. Q(p)!BlindCheck(r)
    BY <1>2, <2>1 DEF Q!BlindCheck
  <2> QED
    BY <2>2 DEF Q!Next
<1> QED
  BY <1>4, <1>5

\* The INSERT is the abstract insert.
LEMMA InsertIsInsert ==
  ASSUME LinkInv, NEW r \in Requests, NEW l \in LinkIds, NEW p \in ProfileIds,
         InsertLink(r, l)
  PROVE  Q(p)!Next
<1> DEFINE q == job[r].profile
           row == [profile |-> q, position |-> job[r].pos, active |-> TRUE]
<1>1. /\ job[r].pc = "insert" /\ links[l] = Unused /\ blind' = blind /\ Finish(r)
      /\ links' = [links EXCEPT ![l] = row]
  BY DEF InsertLink, At
<1>2. q \in ProfileIds /\ links \in [LinkIds -> LinkRow \cup NoRow] /\ job[r].pos \in Nat
  BY <1>1, LinkJobFields DEF LinkInv, TypeOK, LinkJobsComplete
<1>3. row \in LinkRow /\ row.profile = q
  BY <1>2 DEF LinkRow
<1>4. row \notin NoRow /\ links[l] \in NoRow
  BY <1>1, <1>3, LinkAssumption, TablesAssumption DEF NoRow
<1>5. Pending(p)' = Pending(p) \ {r}
  BY <1>1, PendingAfterFinish
<1>6. r \in Pending(q)
  BY <1>1 DEF Pending, JobsAt
<1> HIDE DEF row
<1>7. l \notin LinksOf(p) /\ LinksOf(p)' = IF p = q THEN LinksOf(p) \cup {l} ELSE LinksOf(p)
  BY <1>1, <1>2, <1>3, <1>4 DEF LinksOf, LinkExists
<1> HIDE DEF q
<1>8. CASE p = q
  <2>1. Q(p)!Insert(r, l)
    BY <1>1, <1>5, <1>6, <1>7, <1>8 DEF Q!Insert
  <2> QED
    BY <2>1 DEF Q!Next
<1>9. CASE p # q
  BY <1>1, <1>5, <1>7, <1>9, QuietLinkStep
<1> QED
  BY <1>8, <1>9

\* The DELETE is the abstract removal of one row.
LEMMA DeleteIsRemove ==
  ASSUME LinkInv, NEW r \in Requests, NEW p \in ProfileIds, DeleteLinkRow(r)
  PROVE  Q(p)!Next
<1> DEFINE l == Head(job[r].ids)
<1>1. /\ job[r].pc = "delete" /\ GoOn(r, "select", <<>>, 0) /\ blind' = blind
      /\ links' = [links EXCEPT ![l] = IF LinkExists(l) THEN Deleted ELSE links[l]]
  BY DEF DeleteLinkRow, At
<1>2. l \in LinkIds /\ links \in [LinkIds -> LinkRow \cup NoRow]
  BY <1>1, HeadLink DEF ListSteps, LinkInv, TypeOK
<1>3. Pending(p)' = Pending(p)
  <2>1. r \notin Pending(p)
    BY <1>1 DEF Pending, JobsAt
  <2>2. GoOn(r, "select", <<>>, 0)
    BY <1>1
  <2>3. Pending(p)' = Pending(p) \ {r}
    BY <2>2, PendingAfterGoOn
  <2> QED
    BY <2>1, <2>3
<1> HIDE DEF l
<1>4. LinksOf(p)' = LinksOf(p) \ {l}
  BY <1>1, <1>2 DEF LinksOf, LinkExists, NoRow
<1>5. Q(p)!Remove({l})
  BY <1>1, <1>3, <1>4 DEF Q!Remove
<1> QED
  BY <1>2, <1>5 DEF Q!Next

\* Every step of a request is an abstract step of every profile's limit.
LEMMA StepIsQuotaStep ==
  ASSUME LinkInv, NEW r \in Requests, NEW p \in ProfileIds, LinkStep(r)
  PROVE  Q(p)!Next
<1>1. ASSUME Pending(p)' = Pending(p) \ {r}, LinksOf(p)' = LinksOf(p), blind' = blind
      PROVE  Q(p)!Next
  BY <1>1, QuietLinkStep
<1>2. ASSUME NEW u \in Users, NEW q \in ProfileIds, ReceiveCreate(r, u, q) PROVE Q(p)!Next
  BY <1>1, <1>2, PendingAfterReceive, QuietLinks DEF ReceiveCreate
<1>3. CASE CountLinks(r) \/ CountLinksFails(r)
  BY <1>3, CountIsCheck, CountFailureIsBlindCheck
<1>4. CASE ReadNextPosition(r) \/ ReadNextPositionFails(r)
  <2>1. job[r].pc = "position" /\ links' = links /\ blind' = blind
    BY <1>4 DEF ReadNextPosition, ReadNextPositionFails, At
  <2>2. \E n : GoOn(r, "insert", <<>>, n)
    BY <1>4 DEF ReadNextPosition, ReadNextPositionFails
  <2>3. Pending(p)' \in SUBSET Pending(p)
    <3>1. job[r].profile = p => r \in Pending(p)
      BY <2>1 DEF Pending, JobsAt
    <3> QED
      BY <2>2, <3>1, PendingAfterGoOn
  <2> QED
    BY <2>1, <2>3, QuietLinks, QuietLinkStep
<1>5. ASSUME NEW l \in LinkIds, InsertLink(r, l) PROVE Q(p)!Next
  BY <1>5, InsertIsInsert
<1>6. CASE \/ CreateRefused(r) \/ CopyRefused(r) \/ DeleteRefused(r)
           \/ SelectFails(r) \/ ReorderRefused(r)
  BY <1>1, <1>6, PendingAfterFinish, QuietLinks
     DEF CreateRefused, CopyRefused, DeleteRefused, SelectFails, ReorderRefused
<1>7. ASSUME NEW u \in Users, NEW l \in LinkIds,
             \/ ReceiveToggle(r, u, l) \/ ReceiveUpdate(r, u, l) \/ ReceiveDelete(r, u, l)
             \/ \E asked \in BOOLEAN : ReceiveSet(r, u, l, asked)
      PROVE  Q(p)!Next
  <2>1. links' = links /\ blind' = blind
    BY <1>7 DEF ReceiveToggle, ReceiveUpdate, ReceiveDelete, ReceiveSet
  <2>2. PICK pc, ids, active :
          pc \notin {"position", "insert"} /\ Receive(r, pc, links[l].profile, ids, active)
    BY <1>7 DEF ReceiveToggle, ReceiveUpdate, ReceiveDelete, ReceiveSet
  <2> QED
    BY <1>1, <2>1, <2>2, PendingAfterReceive, QuietLinks
<1>8. CASE WriteCopy(r)
  BY <1>1, <1>8, PendingAfterFinish, WriteCopyKeepsLinks DEF WriteCopy
<1>9. CASE DeleteLinkRow(r)
  BY <1>9, DeleteIsRemove
<1>10. CASE SelectForRenumber(r)
  <2>1. PICK s : Finish(r) \/ GoOn(r, "renumber", s, 0)
    BY <1>10 DEF SelectForRenumber
  <2>2. Pending(p)' = Pending(p) \ {r}
    BY <2>1, PendingAfterFinish, PendingAfterGoOn
  <2> QED
    BY <1>1, <1>10, <2>2, QuietLinks DEF SelectForRenumber
<1>11. CASE Renumber(r) \/ RenumberFails(r) \/ WriteReorder(r)
  <2>1. job[r].pc \in {"renumber", "reorder"} /\ NextId(r) /\ blind' = blind
    BY <1>11 DEF Renumber, RenumberFails, WriteReorder, At
  <2>2. Pending(p)' = Pending(p) \ {r}
    BY <2>1, PendingAfterFinish, PendingAfterGoOn DEF NextId
  <2>3. MoveLink(r) \/ links' = links
    BY <1>11 DEF Renumber, RenumberFails, WriteReorder
  <2> QED
    BY <1>1, <2>1, <2>2, <2>3, MoveKeepsLinks, QuietLinks
<1>12. ASSUME NEW u \in Users, NEW ids \in LinkIdLists, ReceiveReorder(r, u, ids)
       PROVE  Q(p)!Next
  BY <1>1, <1>12, PendingAfterReceive, QuietLinks DEF ReceiveReorder
<1> QED
  BY <1>2, <1>3, <1>4, <1>5, <1>6, <1>7, <1>8, <1>9, <1>10, <1>11, <1>12 DEF LinkStep

\* A crash gives up every pending creation.
LEMMA CrashIsAbandon == ASSUME LinkCrash, NEW p \in ProfileIds PROVE Q(p)!Next
<1>1. job' = [r \in Requests |-> Idle] /\ links' = links /\ blind' = blind
  BY DEF LinkCrash
<1>2. Idle.pc = "idle"
  BY DEF Idle
<1>3. Pending(p)' = {}
  BY <1>1, <1>2 DEF Pending, JobsAt
<1> QED
  BY <1>1, <1>3, QuietLinks, QuietLinkStep

\* Every step of the component is an abstract step of every limit, or leaves
\* it alone.
LEMMA NextIsQuotaNext ==
  ASSUME LinkInv, [LinkNext]_linkVars, NEW p \in ProfileIds
  PROVE  Q(p)!Next
<1>1. ASSUME NEW r \in Requests, LinkStep(r) PROVE Q(p)!Next
  BY <1>1, StepIsQuotaStep
<1>2. CASE UNCHANGED linkVars
  <2>1. links' = links /\ blind' = blind /\ job' = job
    BY <1>2 DEF linkVars, jobVars
  <2>2. Pending(p)' = Pending(p)
    BY <2>1 DEF Pending, JobsAt
  <2> QED
    BY <2>1, <2>2, QuietLinks, QuietLinkStep
<1> QED
  BY <1>1, <1>2, CrashIsAbandon DEF LinkNext

\* No link and no pending creation at the start.
LEMMA InitIsQuotaInit == ASSUME LinkInit, NEW p \in ProfileIds PROVE Q(p)!Init
<1>1. links = [l \in LinkIds |-> Unused] /\ job = [r \in Requests |-> Idle]
      /\ blind = [q \in ProfileIds |-> 0]
  BY DEF LinkInit
<1>2. LinksOf(p) = {} /\ blind[p] = 0
  BY <1>1 DEF LinksOf, LinkExists, NoRow
<1>3. Pending(p) = {}
  BY <1>1 DEF Pending, JobsAt, Idle
<1> QED
  BY <1>2, <1>3 DEF Q!Init

----------------------------------------------------------------------------
\* The limit of the watched profile is the one the component names.
LEMMA WatchedLimit == ASSUME Q(Watched)!Next PROVE LinkQuota!Next
<1>1. \A S : LinkQuota!Cardinality(S) = Cardinality(S)
  BY DEF LinkQuota!Cardinality, Cardinality, LinkQuota!IsFiniteSet, IsFiniteSet
<1>2. ASSUME NEW r \in Requests, Q(Watched)!Check(r) PROVE LinkQuota!Check(r)
  BY <1>1, <1>2, SameLinkCount DEF Q!Check, Q!HasRoom, LinkQuota!Check,
                                    LinkQuota!HasRoom, Pending
<1>3. ASSUME NEW r \in Requests, Q(Watched)!BlindCheck(r) PROVE LinkQuota!BlindCheck(r)
  BY <1>3 DEF Q!BlindCheck, LinkQuota!BlindCheck, Pending
<1>4. ASSUME NEW r \in Requests, NEW l \in LinkIds, Q(Watched)!Insert(r, l)
      PROVE  LinkQuota!Insert(r, l)
  BY <1>4 DEF Q!Insert, LinkQuota!Insert, Pending
<1>5. ASSUME NEW R \in SUBSET Requests, Q(Watched)!Abandon(R) PROVE LinkQuota!Abandon(R)
  BY <1>5 DEF Q!Abandon, LinkQuota!Abandon, Pending
<1>6. ASSUME NEW X \in SUBSET LinkIds, Q(Watched)!Remove(X) PROVE LinkQuota!Remove(X)
  BY <1>6 DEF Q!Remove, LinkQuota!Remove, Pending
<1> QED
  BY <1>2, <1>3, <1>4, <1>5, <1>6 DEF Q!Next, LinkQuota!Next

\* CreateLink, with everything that runs beside it, implements the abstract
\* count-then-insert limit, for whichever profile is watched.
THEOREM LinkQuotaRefinement == LinkSpec => LinkQuotaImplemented
<1>1. LinkAlone => LinkQuota!Init
  BY InitIsQuotaInit, LinkAssumption, TablesAssumption
     DEF LinkAlone, Q!Init, LinkQuota!Init, Pending
<1>2. LinkInv /\ [LinkNext]_linkVars => LinkQuota!Next
  <2> SUFFICES ASSUME LinkInv, [LinkNext]_linkVars PROVE LinkQuota!Next
    OBVIOUS
  <2>1. Q(Watched)!Next
    BY NextIsQuotaNext, LinkAssumption, TablesAssumption
  <2> QED
    BY <2>1, WatchedLimit
<1> QED
  BY <1>1, <1>2, AlwaysLinkInv, PTL DEF LinkSpec, LinkQuotaImplemented, LinkQuota!Spec

----------------------------------------------------------------------------
\* The bound for one profile.
BoundOf(p) ==
  Cardinality(LinksOf(p)) + Cardinality(Pending(p))
    <= MaxLinks + (Cardinality(Requests) - 1) + blind[p]

\* What is counted is finite.
LEMMA Counts ==
  ASSUME LinkInv, NEW p \in ProfileIds
  PROVE  /\ IsFiniteSet(LinksOf(p)) /\ Cardinality(LinksOf(p)) \in Nat
         /\ IsFiniteSet(Pending(p)) /\ Cardinality(Pending(p)) \in Nat
         /\ Cardinality(Pending(p)) <= Cardinality(Requests)
         /\ Cardinality(Requests) \in Nat /\ MaxLinks \in Nat /\ blind[p] \in Nat
<1>1. LinksOf(p) \subseteq LinkIds /\ Pending(p) \subseteq Requests
  BY DEF LinksOf, Pending, JobsAt
<1> QED
  BY <1>1, FS_Subset, FS_CardinalityType, LinkAssumption, TablesAssumption
     DEF LinkInv, TypeOK

\* An abstract step keeps the bound.
LEMMA QuotaStepKeepsBound ==
  ASSUME LinkInv, LinkInv', NEW p \in ProfileIds, Q(p)!Next, BoundOf(p)
  PROVE  BoundOf(p)'
<1> USE Counts
<1>0. /\ Cardinality(Pending(p))' \in Nat /\ Cardinality(LinksOf(p))' \in Nat
      /\ Cardinality(Pending(p))' <= Cardinality(Requests)
  <2>1. LinksOf(p)' \subseteq LinkIds /\ Pending(p)' \subseteq Requests
    BY DEF LinksOf, Pending, JobsAt
  <2> QED
    BY <2>1, FS_Subset, FS_CardinalityType, LinkAssumption, TablesAssumption
<1>1. ASSUME NEW r \in Requests, Q(p)!Check(r) PROVE BoundOf(p)'
  <2>1. /\ Cardinality(LinksOf(p)) < MaxLinks /\ LinksOf(p)' = LinksOf(p)
        /\ blind'[p] = blind[p]
    BY <1>1, SameLinkCount DEF Q!Check, Q!HasRoom
  <2> QED
    BY <1>0, <2>1 DEF BoundOf
<1>2. ASSUME NEW r \in Requests, Q(p)!BlindCheck(r) PROVE BoundOf(p)'
  <2>1. /\ r \notin Pending(p) /\ Pending(p)' = Pending(p) \cup {r}
        /\ LinksOf(p)' = LinksOf(p) /\ blind'[p] = blind[p] + 1
    BY <1>2 DEF Q!BlindCheck
  <2>2. Cardinality(Pending(p)') = Cardinality(Pending(p)) + 1
    BY <2>1, FS_AddElement
  <2> QED
    BY <2>1, <2>2 DEF BoundOf
<1>3. ASSUME NEW r \in Requests, NEW l \in LinkIds, Q(p)!Insert(r, l) PROVE BoundOf(p)'
  <2>1. /\ r \in Pending(p) /\ Pending(p)' = Pending(p) \ {r}
        /\ l \notin LinksOf(p) /\ LinksOf(p)' = LinksOf(p) \cup {l} /\ blind'[p] = blind[p]
    BY <1>3 DEF Q!Insert
  <2>2. Cardinality(Pending(p)') = Cardinality(Pending(p)) - 1
    BY <2>1, FS_RemoveElement
  <2>3. Cardinality(LinksOf(p)') = Cardinality(LinksOf(p)) + 1
    BY <2>1, FS_AddElement
  <2> QED
    BY <2>1, <2>2, <2>3 DEF BoundOf
<1>4. ASSUME NEW R \in SUBSET Requests, Q(p)!Abandon(R) PROVE BoundOf(p)'
  <2>1. Pending(p)' = Pending(p) \ R /\ LinksOf(p)' = LinksOf(p) /\ blind'[p] = blind[p]
    BY <1>4 DEF Q!Abandon
  <2>2. Cardinality(Pending(p)') <= Cardinality(Pending(p))
    BY <2>1, FS_Subset
  <2> QED
    BY <1>0, <2>1, <2>2 DEF BoundOf
<1>5. ASSUME NEW X \in SUBSET LinkIds, Q(p)!Remove(X) PROVE BoundOf(p)'
  <2>1. LinksOf(p)' = LinksOf(p) \ X /\ Pending(p)' = Pending(p) /\ blind'[p] = blind[p]
    BY <1>5 DEF Q!Remove
  <2>2. Cardinality(LinksOf(p)') <= Cardinality(LinksOf(p))
    BY <2>1, FS_Subset
  <2> QED
    BY <1>0, <2>1, <2>2 DEF BoundOf
<1> QED
  BY <1>1, <1>2, <1>3, <1>4, <1>5 DEF Q!Next

\* Nothing is overshot at the start.
LEMMA InitBound ==
  ASSUME LinkInv, LinkInit, NEW p \in ProfileIds
  PROVE  BoundOf(p)
<1>1. LinksOf(p) = {} /\ Pending(p) = {} /\ blind[p] = 0
  BY InitIsQuotaInit DEF Q!Init
<1>2. Cardinality(Requests) > 0
  BY FS_EmptySet, FS_CardinalityType, LinkAssumption, TablesAssumption
<1> QED
  BY <1>1, <1>2, FS_EmptySet, Counts DEF BoundOf

\* No profile ever exceeds max_links_per_profile by more than the creations
\* that run beside the last one and those whose COUNT failed.
THEOREM LinkLimitBound == LinkSpec => []LinkLimitOvershootBounded
<1> DEFINE Bounds == \A p \in ProfileIds : BoundOf(p)
<1>1. LinkInv /\ LinkInit => Bounds
  BY InitBound
<1>2. LinkInv /\ LinkInv' /\ Bounds /\ [LinkNext]_linkVars => Bounds'
  <2> SUFFICES ASSUME LinkInv, LinkInv', Bounds, [LinkNext]_linkVars, NEW p \in ProfileIds
               PROVE  BoundOf(p)'
    OBVIOUS
  <2> QED
    BY NextIsQuotaNext, QuotaStepKeepsBound
<1>3. Bounds => LinkLimitOvershootBounded
  BY DEF BoundOf, LinkLimitOvershootBounded, Pending
<1> QED
  BY <1>1, <1>2, <1>3, LinkInitTypes, AlwaysLinkInv, PTL DEF LinkSpec, LinkAlone
----------------------------------------------------------------------------
(***************************************************************************)
(* What a request that nothing has overtaken knows of the links, and what  *)
(* follows for their order and their flags.                                *)
(***************************************************************************)

\* The links that a loop has still to write, and those it has written.
Listed(j) == {j.ids[i] : i \in DOMAIN j.ids}
Done(j) == LinksOf(j.profile) \ Listed(j)

\* A request about one link knows the link's profile, for good.
HasLink(j) ==
  j.pc \in {"toggle", "update", "set", "delete"} =>
    \E l \in LinkIds :
      j.ids = <<l>> /\ links[l] # Unused /\ (LinkExists(l) => links[l].profile = j.profile)

\* A loop lists links of its profile, each once, and has numbered all others
\* from 0 on.
Numbered(j) ==
  /\ \A i, k \in DOMAIN j.ids : i # k => j.ids[i] # j.ids[k]
  /\ Listed(j) \subseteq LinksOf(j.profile)
  /\ {links[l].position : l \in Done(j)} = 0 .. (j.pos - 1)
  /\ \A k, l \in Done(j) : k # l => links[k].position # links[l].position

\* A renumbering has the rest of its links in the order of their positions.
Renumbering(j) ==
  /\ Numbered(j)
  /\ Cardinality(LinksOf(j.profile)) = j.pos + Len(j.ids)
  /\ \A i, k \in DOMAIN j.ids :
       i < k => links[j.ids[i]].position <= links[j.ids[k]].position

\* What a request has read is still so.
Fresh(j) ==
  /\ j.pc = "toggle" /\ LinkExists(Head(j.ids)) => j.active = ~links[Head(j.ids)].active
  /\ j.pc = "update" /\ LinkExists(Head(j.ids)) => j.active = links[Head(j.ids)].active
  /\ j.pc = "insert" => \A l \in LinksOf(j.profile) : links[l].position < j.pos
  /\ j.pc = "renumber" => Renumbering(j)
  /\ j.pc = "reorder" /\ calm => Numbered(j)

\* The order of a profile that no reorder is writing.
CalmOrder ==
  calm => \A p \in ProfileIds :
    JobsAt(p, {"reorder"}) = {} =>
      \A k, l \in LinksOf(p) : k # l => links[k].position # links[l].position

OrderInv ==
  /\ LinkInv
  /\ \A r \in Requests : HasLink(job[r]) /\ (r \notin stale => Fresh(job[r]))
  /\ CalmOrder

\* A statement leaves the links that exist, or existed, in their profiles; it
\* leaves the flag of the link a request holds; it leaves a profile's order.
IdsLast ==
  \A l \in LinkIds :
    links[l] # Unused =>
      /\ links'[l] # Unused
      /\ LinkExists(l)' => LinkExists(l) /\ links'[l].profile = links[l].profile

FlagKept(j) ==
  \A l \in LinkIds :
    j.ids = <<l>> /\ links[l] # Unused /\ LinkExists(l)' => links'[l].active = links[l].active

OrderKept(p) ==
  LinksOf(p)' = LinksOf(p) /\ \A l \in LinksOf(p) : links'[l].position = links[l].position

LEMMA HasLinkKept ==
  ASSUME NEW j, HasLink(j), IdsLast
  PROVE  HasLink(j)'
  BY DEF HasLink, IdsLast

\* The flag that a request about a link has read.
LEMMA FlagStaysFresh ==
  ASSUME NEW j, HasLink(j), Fresh(j), IdsLast, j.pc \in {"toggle", "update"} => FlagKept(j)
  PROVE  /\ j.pc = "toggle" /\ LinkExists(Head(j.ids))' => j.active = ~links'[Head(j.ids)].active
         /\ j.pc = "update" /\ LinkExists(Head(j.ids))' => j.active = links'[Head(j.ids)].active
<1>1. CASE j.pc \in {"toggle", "update"}
  <2>1. PICK l \in LinkIds : j.ids = <<l>> /\ links[l] # Unused
    BY <1>1 DEF HasLink
  <2>2. Head(j.ids) = l
    BY <2>1
  <2> QED
    BY <2>1, <2>2 DEF Fresh, FlagKept, IdsLast
<1> QED
  BY <1>1

LEMMA FreshKept ==
  ASSUME NEW j, \A i \in DOMAIN j.ids : j.ids[i] \in LinkIds, HasLink(j), Fresh(j), IdsLast,
         j.pc \in {"toggle", "update"} => FlagKept(j),
         j.pc \in {"insert", "renumber", "reorder"} => OrderKept(j.profile),
         calm' => calm
  PROVE  Fresh(j)'
<1>1. /\ j.pc = "toggle" /\ LinkExists(Head(j.ids))' => j.active = ~links'[Head(j.ids)].active
      /\ j.pc = "update" /\ LinkExists(Head(j.ids))' => j.active = links'[Head(j.ids)].active
  BY FlagStaysFresh
<1>2. j.pc = "insert" => \A l \in LinksOf(j.profile)' : links'[l].position < j.pos
  BY DEF Fresh, OrderKept
<1>3. j.pc \in {"renumber", "reorder"} /\ Numbered(j) => Numbered(j)'
  <2> SUFFICES ASSUME OrderKept(j.profile), Numbered(j) PROVE Numbered(j)'
    OBVIOUS
  <2>1. Done(j)' = Done(j) /\ Listed(j)' = Listed(j) /\ Done(j) \subseteq LinksOf(j.profile)
    BY DEF Done, Listed, OrderKept
  <2>2. \A l \in Done(j) : links'[l].position = links[l].position
    BY <2>1 DEF OrderKept
  <2>3. {links'[l].position : l \in Done(j)'} = {links[l].position : l \in Done(j)}
    BY <2>1, <2>2
  <2> QED
    BY <2>1, <2>2, <2>3 DEF Numbered, OrderKept
<1>4. j.pc = "renumber" /\ Renumbering(j) => Renumbering(j)'
  <2> SUFFICES ASSUME j.pc = "renumber", Renumbering(j)
               PROVE  Renumbering(j)'
    OBVIOUS
  <2>1. Numbered(j) /\ OrderKept(j.profile)
    BY DEF Renumbering
  <2>2. \A i \in DOMAIN j.ids : links'[j.ids[i]].position = links[j.ids[i]].position
    BY <2>1 DEF Numbered, Listed, OrderKept
  <2>3. Numbered(j)'
    BY <1>3, <2>1
  <2>4. Cardinality(LinksOf(j.profile)') = j.pos + Len(j.ids)
    BY <2>1 DEF Renumbering, OrderKept
  <2>5. \A i, k \in DOMAIN j.ids :
          i < k => links'[j.ids[i]].position <= links'[j.ids[k]].position
    BY <2>2 DEF Renumbering
  <2> QED
    BY <2>3, <2>4, <2>5 DEF Renumbering
<1>6. j.pc = "renumber" => Renumbering(j)'
  BY <1>4 DEF Fresh
<1>7. j.pc = "reorder" /\ calm' => Numbered(j)'
  BY <1>3 DEF Fresh
<1> QED
  BY <1>1, <1>2, <1>6, <1>7 DEF Fresh

\* A request lists ids of links.
LEMMA ListedAreLinks ==
  ASSUME LinkInv, NEW r \in Requests
  PROVE  \A i \in DOMAIN job[r].ids : job[r].ids[i] \in LinkIds
<1>1. job[r].ids \in Seq(LinkIds)
  BY LinkJobFields DEF LinkInv, TypeOK
<1> QED
  BY <1>1

\* A step of request r: the others keep what they know, or are stale.
LEMMA OrderStep ==
  ASSUME OrderInv, LinkInv', NEW r \in Requests,
         \A q \in Requests \ {r} : job'[q] = job[q],
         IdsLast, calm' => calm,
         HasLink(job[r])', r \notin stale' => Fresh(job[r])',
         \A q \in Requests \ {r} : q \notin stale' =>
           /\ q \notin stale
           /\ job[q].pc \in {"toggle", "update"} => FlagKept(job[q])
           /\ job[q].pc \in {"insert", "renumber", "reorder"} => OrderKept(job[q].profile),
         CalmOrder'
  PROVE  OrderInv'
<1>1. ASSUME NEW q \in Requests \ {r}
      PROVE  HasLink(job[q])' /\ (q \notin stale' => Fresh(job[q])')
  <2>1. PICK j : j = job[q]
    OBVIOUS
  <2>2. job'[q] = j /\ HasLink(j) /\ (q \notin stale => Fresh(j))
    BY <2>1 DEF OrderInv
  <2>3. HasLink(j)'
    BY <2>2, HasLinkKept
  <2>4. \A i \in DOMAIN j.ids : j.ids[i] \in LinkIds
    BY <2>1, ListedAreLinks DEF OrderInv
  <2>5. q \notin stale' => Fresh(j)'
    BY <2>1, <2>2, <2>4, FreshKept
  <2>6. HasLink(job[q])'
    BY <2>2, <2>3 DEF HasLink
  <2>7. Fresh(j)' => Fresh(job[q])'
    BY <2>2 DEF Fresh, Renumbering, Numbered, Listed, Done
  <2> QED
    BY <2>5, <2>6, <2>7
<1> QED
  BY <1>1 DEF OrderInv

\* The tables do not change.
LEMMA QuietOrderStep ==
  ASSUME OrderInv, LinkInv', NEW r \in Requests,
         \A q \in Requests \ {r} : job'[q] = job[q],
         links' = links, stale \ {r} \subseteq stale', calm' => calm,
         HasLink(job[r])', r \notin stale' => Fresh(job[r])',
         job[r].pc = "reorder" => ~calm'
  PROVE  OrderInv'
<1>1. IdsLast /\ (\A j : FlagKept(j)) /\ \A p : OrderKept(p)
  BY DEF IdsLast, FlagKept, OrderKept, LinkExists, LinksOf
<1>2. CalmOrder'
  <2>1. calm' => \A p : JobsAt(p, {"reorder"}) \subseteq JobsAt(p, {"reorder"})'
    BY DEF JobsAt
  <2> QED
    BY <1>1, <2>1 DEF OrderInv, CalmOrder, OrderKept
<1>3. \A q \in Requests \ {r} : q \notin stale' => q \notin stale
  OBVIOUS
<1> QED
  BY <1>1, <1>2, <1>3, OrderStep

\* What the job of r is after it ends, goes on or begins.
LEMMA JobAfterFinish ==
  ASSUME LinkInv, NEW r \in Requests, Finish(r)
  PROVE  job'[r] = Idle /\ \A q \in Requests \ {r} : job'[q] = job[q]
  BY DEF LinkInv, TypeOK, Finish

LEMMA JobAfterGoOn ==
  ASSUME LinkInv, NEW r \in Requests, NEW pc, NEW ids, NEW n, GoOn(r, pc, ids, n)
  PROVE  /\ \A q \in Requests \ {r} : job'[q] = job[q]
         /\ job'[r].pc = pc /\ job'[r].profile = job[r].profile /\ job'[r].ids = ids
         /\ job'[r].pos = n
  BY DEF LinkInv, TypeOK, GoOn

LEMMA JobAfterReceive ==
  ASSUME LinkInv, NEW r \in Requests, NEW pc, NEW p, NEW ids, NEW active,
         Receive(r, pc, p, ids, active)
  PROVE  /\ \A q \in Requests \ {r} : job'[q] = job[q]
         /\ job[r].pc = "idle"
         /\ job'[r].pc = pc /\ job'[r].profile = p /\ job'[r].ids = ids
         /\ job'[r].pos = 0 /\ job'[r].active = active
  BY DEF LinkInv, TypeOK, Receive, At

\* An idle request has read nothing that could get old.
LEMMA IdleHasRead ==
  ASSUME NEW r, job'[r] = Idle
  PROVE  HasLink(job[r])' /\ Fresh(job[r])'
<1>1. job'[r].pc = "idle"
  BY DEF Idle
<1> QED
  BY <1>1 DEF HasLink, Fresh

\* A request ends and leaves the tables alone; only a reorder leaves its order
\* half written.
LEMMA EndKeepsOrder ==
  ASSUME OrderInv, LinkInv', NEW r \in Requests, Finish(r),
         links' = links, stale \ {r} \subseteq stale', calm' => calm,
         job[r].pc = "reorder" => ~calm'
  PROVE  OrderInv'
<1>1. job'[r] = Idle /\ \A q \in Requests \ {r} : job'[q] = job[q]
  BY JobAfterFinish DEF OrderInv
<1> QED
  BY <1>1, IdleHasRead, QuietOrderStep

\* A request goes on to a step for which it has read nothing.
LEMMA CountKeepsOrder ==
  ASSUME OrderInv, LinkInv', NEW r \in Requests,
         CountLinks(r) \/ CountLinksFails(r) \/ \E u \in Users, p \in ProfileIds : ReceiveCreate(r, u, p)
  PROVE  OrderInv'
<1>0. LinkInv
  BY DEF OrderInv
<1>1. links' = links /\ stale' = stale /\ calm' = calm /\ job[r].pc # "reorder"
  BY DEF CountLinks, CountLinksFails, ReceiveCreate, Receive, At
<1>2. CASE Finish(r)
  BY <1>1, <1>2, EndKeepsOrder
<1>3. CASE \/ GoOn(r, "position", <<>>, 0)
           \/ \E p \in ProfileIds : Receive(r, "count", p, <<>>, FALSE)
  <2>1. job'[r].pc \in {"position", "count"} /\ \A q \in Requests \ {r} : job'[q] = job[q]
    BY <1>0, <1>3, JobAfterGoOn, JobAfterReceive
  <2>2. HasLink(job[r])' /\ Fresh(job[r])'
    BY <2>1 DEF HasLink, Fresh
  <2> QED
    BY <1>1, <2>1, <2>2, QuietOrderStep
<1> QED
  BY <1>2, <1>3 DEF CountLinks, CountLinksFails, ReceiveCreate

\* The position after the last is free.
LEMMA PositionKeepsOrder ==
  ASSUME OrderInv, LinkInv', NEW r \in Requests,
         ReadNextPosition(r) \/ ReadNextPositionFails(r)
  PROVE  OrderInv'
<1>0. LinkInv /\ job[r].pc = "position" /\ job[r].profile \in ProfileIds
  BY
     DEF OrderInv, ReadNextPosition, ReadNextPositionFails, At, LinkInv, LinkJobsComplete
<1>1. links' = links /\ calm' = calm /\ stale \ {r} \subseteq stale'
  BY DEF ReadNextPosition, ReadNextPositionFails
<1>2. PICK n : GoOn(r, "insert", <<>>, n) /\ (r \notin stale' => n \in NextPosition(job[r].profile))
  BY DEF ReadNextPosition, ReadNextPositionFails
<1>3. \A q \in Requests \ {r} : job'[q] = job[q]
  BY <1>0, <1>2, JobAfterGoOn
<1>4. job'[r].pc = "insert" /\ job'[r].profile = job[r].profile /\ job'[r].pos = n
  BY <1>0, <1>2, JobAfterGoOn
<1>5. r \notin stale' => \A l \in LinksOf(job[r].profile) : links[l].position < n
  <2> SUFFICES ASSUME n \in NextPosition(job[r].profile), NEW l \in LinksOf(job[r].profile)
               PROVE  links[l].position < n
    BY <1>2
  <2>1. PICK k \in LinksOf(job[r].profile) :
          n = links[k].position + 1 /\ links[l].position <= links[k].position
    BY DEF NextPosition
  <2>2. links[k].position \in Nat /\ links[l].position \in Nat
    BY <1>0, RowOfLink DEF LinkInv, LinksOf
  <2> QED
    BY <2>1, <2>2
<1>6. HasLink(job[r])' /\ (r \notin stale' => Fresh(job[r])')
  BY <1>1, <1>4, <1>5 DEF HasLink, Fresh, LinksOf, LinkExists
<1> QED
  BY <1>0, <1>1, <1>3, <1>6, QuietOrderStep

\* The copy a handler keeps is of a link of the profile it knows, with the flag
\* it found.
LEMMA CopyKeepsOrder ==
  ASSUME OrderInv, LinkInv', NEW r \in Requests, NEW u \in Users, NEW l \in LinkIds,
         \/ ReceiveToggle(r, u, l) \/ ReceiveUpdate(r, u, l) \/ ReceiveDelete(r, u, l)
         \/ \E asked \in BOOLEAN : ReceiveSet(r, u, l, asked)
  PROVE  OrderInv'
<1>0. LinkInv /\ links[l] # Unused /\ LinkExists(l)
  BY
     DEF OrderInv, OwnedLink, LinkExists, NoRow, ReceiveToggle, ReceiveUpdate, ReceiveDelete,
         ReceiveSet
<1>1. links' = links /\ calm' = calm /\ stale' = stale /\ job[r].pc = "idle"
  BY DEF ReceiveToggle, ReceiveUpdate, ReceiveDelete, ReceiveSet, Receive, At
<1>2. ASSUME NEW pc \in {"toggle", "update", "set", "delete"}, NEW active,
             Receive(r, pc, links[l].profile, <<l>>, active),
             pc = "toggle" => active = ~links[l].active,
             pc = "update" => active = links[l].active
      PROVE  OrderInv'
  <2>1. /\ job'[r].pc = pc /\ job'[r].profile = links[l].profile /\ job'[r].ids = <<l>>
        /\ job'[r].active = active /\ \A q \in Requests \ {r} : job'[q] = job[q]
    BY <1>0, <1>2, JobAfterReceive
  <2>2. HasLink(job[r])'
    BY <1>0, <1>1, <2>1 DEF HasLink, LinkExists
  <2>3. Fresh(job[r])'
    BY <1>1, <1>2, <2>1 DEF Fresh, LinkExists
  <2> QED
    BY <1>1, <2>1, <2>2, <2>3, QuietOrderStep
<1>3. CASE ReceiveToggle(r, u, l)
  BY <1>2, <1>3 DEF ReceiveToggle, ToggledCopy
<1>4. CASE ReceiveUpdate(r, u, l)
  BY <1>2, <1>4 DEF ReceiveUpdate
<1>5. CASE ReceiveDelete(r, u, l)
  BY <1>2, <1>5 DEF ReceiveDelete
<1>6. ASSUME NEW asked \in BOOLEAN, ReceiveSet(r, u, l, asked)
      PROVE  OrderInv'
  BY <1>2, <1>6 DEF ReceiveSet
<1> QED
  BY <1>3, <1>4, <1>5, <1>6

\* An ORDER BY returns every link of the profile once.
LEMMA InOrderIsAll ==
  ASSUME NEW p, NEW s \in InOrder(p)
  PROVE  /\ DOMAIN s = 1 .. Cardinality(LinksOf(p)) /\ Len(s) = Cardinality(LinksOf(p))
         /\ \A i, k \in DOMAIN s : i # k => s[i] # s[k]
         /\ \A i, k \in DOMAIN s : i < k => links[s[i]].position <= links[s[k]].position
         /\ {s[i] : i \in DOMAIN s} = LinksOf(p)
<1> DEFINE n == Cardinality(LinksOf(p))
<1>1. IsFiniteSet(LinksOf(p)) /\ n \in Nat
  <2>1. LinksOf(p) \subseteq LinkIds
    BY DEF LinksOf
  <2> QED
    BY <2>1, FS_Subset, FS_CardinalityType, LinkAssumption, TablesAssumption
<1> HIDE DEF n
<1>2. /\ s \in [1 .. n -> LinksOf(p)]
      /\ \A i, k \in DOMAIN s : i < k => /\ s[i] # s[k]
                                         /\ links[s[i]].position <= links[s[k]].position
  BY DEF InOrder, n
<1>3. \A i, k \in 1 .. n : i # k => s[i] # s[k]
  BY <1>2
<1>4. s \in Injection(1 .. n, LinksOf(p))
  BY <1>2, <1>3 DEF Injection, IsInjective
<1>5. Cardinality(1 .. n) = Cardinality(LinksOf(p))
  BY <1>1, FS_Interval DEF n
<1>6. s \in Surjection(1 .. n, LinksOf(p))
  BY <1>1, <1>4, <1>5, FS_Injection
<1>7. {s[i] : i \in DOMAIN s} = LinksOf(p)
  BY <1>2, <1>6 DEF Surjection
<1>8. Len(s) = n
  BY <1>1, <1>2, LenProperties
<1> QED
  BY <1>1, <1>2, <1>3, <1>7, <1>8 DEF n

\* A loop that lists all links of its profile has numbered none.
LEMMA NothingNumbered ==
  ASSUME NEW j, j.pos = 0, \A i, k \in DOMAIN j.ids : i # k => j.ids[i] # j.ids[k],
         Listed(j) = LinksOf(j.profile)
  PROVE  Numbered(j)
<1>1. Done(j) = {}
  BY DEF Done
<1>2. 0 .. (j.pos - 1) = {}
  OBVIOUS
<1> QED
  BY <1>1, <1>2 DEF Numbered

LEMMA SelectKeepsOrder ==
  ASSUME OrderInv, LinkInv', NEW r \in Requests, SelectForRenumber(r)
  PROVE  OrderInv'
<1>0. LinkInv
  BY DEF OrderInv
<1>1. links' = links /\ calm' = calm /\ stale' = stale \ {r} /\ job[r].pc = "select"
  BY DEF SelectForRenumber, At
<1>2. PICK s \in InOrder(job[r].profile) : Finish(r) \/ GoOn(r, "renumber", s, 0)
  BY DEF SelectForRenumber
<1>3. CASE Finish(r)
  BY <1>1, <1>3, EndKeepsOrder
<1>4. CASE GoOn(r, "renumber", s, 0)
  <2>1. PICK j : j = job'[r]
    OBVIOUS
  <2>2. /\ \A q \in Requests \ {r} : job'[q] = job[q]
        /\ j.pc = "renumber" /\ j.profile = job[r].profile /\ j.ids = s /\ j.pos = 0
    BY <1>0, <1>4, <2>1, JobAfterGoOn
  <2>3. /\ Cardinality(LinksOf(j.profile)) \in Nat
        /\ Len(j.ids) = Cardinality(LinksOf(j.profile))
        /\ \A i, k \in DOMAIN j.ids : i # k => j.ids[i] # j.ids[k]
        /\ \A i, k \in DOMAIN j.ids : i < k => links[j.ids[i]].position <= links[j.ids[k]].position
        /\ Listed(j) = LinksOf(j.profile)
    <3>1. LinksOf(j.profile) \subseteq LinkIds
      BY DEF LinksOf
    <3>2. Cardinality(LinksOf(j.profile)) \in Nat
      BY <3>1, FS_Subset, FS_CardinalityType, LinkAssumption, TablesAssumption
    <3> QED
      BY <2>2, <3>2, InOrderIsAll DEF Listed
  <2>4. Numbered(j)
    BY <2>2, <2>3, NothingNumbered
  <2>5. Fresh(j) /\ HasLink(j)
    <3>1. Renumbering(j)
      BY <2>2, <2>3, <2>4 DEF Renumbering
    <3> QED
      BY <2>2, <3>1 DEF Fresh, HasLink
  <2>6. \A i \in DOMAIN j.ids : j.ids[i] \in LinkIds
    BY <2>3 DEF Listed, LinksOf
  <2>7. (IdsLast /\ \A k : FlagKept(k)) /\ \A p : OrderKept(p)
    BY <1>1 DEF IdsLast, FlagKept, OrderKept, LinkExists, LinksOf
  <2>8. Fresh(j)' /\ HasLink(j)'
    BY <1>1, <2>5, <2>7, <2>6, FreshKept, HasLinkKept
  <2>9. Fresh(job[r])' /\ HasLink(job[r])'
    BY <2>1, <2>8 DEF Fresh, HasLink, Renumbering, Numbered, Listed, Done
  <2> QED
    BY <1>1, <2>2, <2>9, QuietOrderStep
<1> QED
  BY <1>2, <1>3, <1>4

LEMMA ReceiveReorderKeepsOrder ==
  ASSUME OrderInv, LinkInv', NEW r \in Requests, NEW u \in Users, NEW ids \in LinkIdLists,
         ReceiveReorder(r, u, ids)
  PROVE  OrderInv'
<1>0. LinkInv
  BY DEF OrderInv
<1>a. PICK p : p = links[ids[1]].profile
  OBVIOUS
<1>1. /\ links' = links /\ stale' = stale
      /\ calm' = (calm /\ Lists(ids, LinksOf(p)))
      /\ Receive(r, "reorder", p, ids, FALSE)
  BY <1>a DEF ReceiveReorder
<1>2. PICK j : j = job'[r]
  OBVIOUS
<1>3. /\ \A q \in Requests \ {r} : job'[q] = job[q]
      /\ job[r].pc = "idle" /\ j.pc = "reorder" /\ j.profile = p /\ j.ids = ids /\ j.pos = 0
  BY <1>0, <1>1, <1>2 DEF Receive, At, LinkInv, TypeOK
<1>4. calm' => Numbered(j)
  <2>1. calm' => \A i, k \in DOMAIN ids : i # k => ids[i] # ids[k]
    BY <1>1 DEF Lists
  <2>2. calm' => Listed(j) = LinksOf(j.profile)
    BY <1>1, <1>3 DEF Listed, Lists
  <2> QED
    BY <1>3, <2>1, <2>2, NothingNumbered
<1>5. calm' => Numbered(j)'
  BY <1>1, <1>4 DEF Numbered, Done, Listed, LinksOf, LinkExists
<1>6. Fresh(j)' /\ HasLink(j)'
  BY <1>3, <1>5 DEF Fresh, HasLink
<1>7. Fresh(job[r])' /\ HasLink(job[r])'
  BY <1>2, <1>6 DEF Fresh, HasLink, Renumbering, Numbered, Listed, Done
<1> QED
  BY <1>1, <1>3, <1>7, QuietOrderStep

\* Which of the other requests have not become stale when profile p's order
\* changed.
LEMMA OthersNotOvertaken ==
  ASSUME NEW r, NEW p, NEW q \in Requests \ {r}, OrderReaders(p) \ {r} \subseteq stale',
         q \notin stale', job[q].pc \in {"insert", "renumber", "reorder"}
  PROVE  job[q].profile # p
  BY DEF OrderReaders, JobsAt

\* Positions stay distinct where the order stays, if no reorder ends there.
LEMMA DistinctElsewhere ==
  ASSUME CalmOrder, NEW p, calm' => calm,
         \A q \in ProfileIds \ {p} :
           OrderKept(q) /\ (JobsAt(q, {"reorder"})' = {} => JobsAt(q, {"reorder"}) = {}),
         calm' /\ JobsAt(p, {"reorder"})' = {} =>
           \A k, l \in LinksOf(p)' : k # l => links'[k].position # links'[l].position
  PROVE  CalmOrder'
<1> SUFFICES ASSUME calm', NEW q \in ProfileIds, JobsAt(q, {"reorder"})' = {}, q # p
             PROVE  \A k, l \in LinksOf(q)' : k # l => links'[k].position # links'[l].position
  BY DEF CalmOrder
<1>1. OrderKept(q) /\ \A k, l \in LinksOf(q) : k # l => links[k].position # links[l].position
  BY DEF CalmOrder
<1> QED
  BY <1>1 DEF OrderKept

\* The new link comes after all others.
LEMMA InsertKeepsOrder ==
  ASSUME OrderInv, LinkInv', NEW r \in Requests, NEW l \in LinkIds, InsertLink(r, l)
  PROVE  OrderInv'
<1>0. LinkInv /\ TypeOK /\ job[r].pc = "insert"
  BY DEF OrderInv, LinkInv, InsertLink, At
<1>1. PICK p \in ProfileIds : p = job[r].profile
  BY <1>0 DEF LinkInv, LinkJobsComplete
<1>2. PICK row : row = [profile |-> p, position |-> job[r].pos, active |-> TRUE]
  OBVIOUS
<1>3. /\ links[l] = Unused /\ links' = [links EXCEPT ![l] = row] /\ Finish(r)
      /\ stale' = (stale \cup OrderReaders(p)) \ {r} /\ calm' = (calm /\ r \notin stale)
  BY <1>1, <1>2 DEF InsertLink, OvertakeOrder
<1>4. row \in LinkRow /\ row.profile = p /\ row.position = job[r].pos
  BY <1>0, <1>1, <1>2, LinkJobFields DEF TypeOK, LinkRow
<1>5. /\ links'[l] = row /\ (\A k \in LinkIds \ {l} : links'[k] = links[k])
      /\ ~LinkExists(l) /\ LinkExists(l)'
  BY <1>0, <1>3, <1>4, LinkAssumption, TablesAssumption DEF TypeOK, LinkExists, NoRow
<1>6. IdsLast
  BY <1>3, <1>5 DEF IdsLast, LinkExists
<1>7. \A q \in ProfileIds \ {p} : OrderKept(q)
  BY <1>4, <1>5 DEF OrderKept, LinksOf, LinkExists
<1>8. LinksOf(p)' = LinksOf(p) \cup {l} /\ \A k \in LinksOf(p) : links'[k] = links[k] /\ k # l
  BY <1>4, <1>5 DEF LinksOf, LinkExists
<1>9. job'[r] = Idle /\ \A q \in Requests \ {r} : job'[q] = job[q]
  BY <1>0, <1>3, JobAfterFinish
<1>10. ASSUME NEW q \in Requests \ {r}, q \notin stale'
       PROVE  /\ q \notin stale /\ FlagKept(job[q])
              /\ job[q].pc \in {"insert", "renumber", "reorder"} => OrderKept(job[q].profile)
  <2>1. q \notin stale
    BY <1>3, <1>10
  <2>2. FlagKept(job[q])
    BY <1>3, <1>5 DEF FlagKept
  <2>3. ASSUME job[q].pc \in {"insert", "renumber", "reorder"}
        PROVE  OrderKept(job[q].profile)
    <3>1. OrderReaders(p) \ {r} \subseteq stale'
      BY <1>3
    <3>2. job[q].profile # p
      BY <1>10, <2>3, <3>1, OthersNotOvertaken
    <3>3. job[q].profile \in ProfileIds
      BY <1>0, <2>3 DEF LinkInv, LinkJobsComplete
    <3> QED
      BY <1>7, <3>2, <3>3
  <2> QED
    BY <2>1, <2>2, <2>3
<1>11. CalmOrder'
  <2>1. \A q \in ProfileIds : JobsAt(q, {"reorder"})' = {} => JobsAt(q, {"reorder"}) = {}
    BY <1>0, <1>9 DEF JobsAt
  <2>2. ASSUME NEW k \in LinksOf(p)', NEW m \in LinksOf(p)', calm', k # m,
               JobsAt(p, {"reorder"})' = {}
        PROVE  links'[k].position # links'[m].position
    <3>1. calm /\ Fresh(job[r]) /\ JobsAt(p, {"reorder"}) = {}
      BY <1>3, <2>1, <2>2 DEF OrderInv
    <3>2. \A n \in LinksOf(p) : links[n].position < job[r].pos /\ links[n].position \in Nat
      BY <1>0, <1>1, <3>1, RowOfLink DEF Fresh, LinksOf
    <3>3. job[r].pos \in Nat
      BY <1>0, LinkJobFields DEF TypeOK
    <3>4. CASE k = l \/ m = l
      BY <1>4, <1>5, <1>8, <2>2, <3>2, <3>3, <3>4
    <3>5. CASE k # l /\ m # l
      <4>1. k \in LinksOf(p) /\ m \in LinksOf(p)
        BY <1>8, <2>2, <3>5
      <4>2. links[k].position # links[m].position
        BY <2>2, <3>1, <4>1 DEF OrderInv, CalmOrder
      <4> QED
        BY <1>8, <4>1, <4>2
    <3> QED
      BY <3>4, <3>5
  <2> QED
    BY <1>3, <1>7, <2>1, <2>2, DistinctElsewhere DEF OrderInv
<1> QED
  BY <1>3, <1>6, <1>9, <1>10, <1>11, IdleHasRead, OrderStep

\* The flag of one link changes; the copies of it are stale.
LEMMA WriteCopyKeepsOrder ==
  ASSUME OrderInv, LinkInv', NEW r \in Requests, WriteCopy(r)
  PROVE  OrderInv'
<1>0. LinkInv /\ TypeOK /\ job[r].pc \in {"toggle", "update", "set"} /\ Finish(r) /\ calm' = calm
  BY DEF OrderInv, LinkInv, WriteCopy
<1>1. PICK l \in LinkIds : l = Head(job[r].ids)
  BY <1>0, HeadLink DEF ListSteps
<1>2. CASE ~LinkExists(l)
  <2>1. links' = links /\ stale' = stale \ {r}
    BY <1>1, <1>2 DEF WriteCopy
  <2> QED
    BY <1>0, <2>1, EndKeepsOrder
<1>3. CASE LinkExists(l)
  <2>1. links[l] \in LinkRow /\ job[r].active \in BOOLEAN /\ links \in [LinkIds -> LinkRow \cup NoRow]
    BY <1>0, <1>1, <1>3, RowOfLink, LinkJobFields DEF TypeOK
  <2>2. PICK row : row = [links[l] EXCEPT !.active = job[r].active]
    OBVIOUS
  <2>3. /\ row \in LinkRow /\ row.profile = links[l].profile
        /\ row.position = links[l].position
    BY <2>1, <2>2 DEF LinkRow
  <2>4. links' = [links EXCEPT ![l] = row] /\ stale' = (stale \cup CopyHolders(l)) \ {r}
    BY <1>1, <1>3, <2>1, <2>2 DEF WriteCopy
  <2>5. /\ links'[l] = row /\ LinkExists(l)'
        /\ \A k \in LinkIds \ {l} : links'[k] = links[k]
    BY <2>1, <2>3, <2>4, LinkAssumption, TablesAssumption DEF LinkExists, NoRow
  <2>6. IdsLast
    BY <1>3, <2>3, <2>5 DEF IdsLast, LinkExists, NoRow
  <2>7. \A p : OrderKept(p)
    BY <1>3, <2>3, <2>5 DEF OrderKept, LinksOf, LinkExists
  <2>8. job'[r] = Idle /\ \A q \in Requests \ {r} : job'[q] = job[q]
    BY <1>0, JobAfterFinish
  <2>9. ASSUME NEW q \in Requests \ {r}, q \notin stale'
        PROVE  q \notin stale /\ (job[q].pc \in {"toggle", "update"} => FlagKept(job[q]))
    <3>1. q \notin stale /\ q \notin CopyHolders(l)
      BY <2>4, <2>9
    <3>2. job[q].pc \in {"toggle", "update"} => job[q].ids # <<l>>
      BY <3>1 DEF CopyHolders
    <3> QED
      BY <2>5, <3>1, <3>2 DEF FlagKept
  <2>10. CalmOrder'
    <3>1. \A p : JobsAt(p, {"reorder"})' = {} => JobsAt(p, {"reorder"}) = {}
      BY <1>0, <2>8 DEF JobsAt
    <3> QED
      BY <1>0, <2>7, <3>1 DEF OrderInv, CalmOrder, OrderKept
  <2> QED
    BY <1>0, <2>6, <2>7, <2>8, <2>9, <2>10, IdleHasRead, OrderStep
<1> QED
  BY <1>2, <1>3

\* The row is gone; who had read its profile's order is stale.
LEMMA DeleteKeepsOrder ==
  ASSUME OrderInv, LinkInv', NEW r \in Requests, DeleteLinkRow(r)
  PROVE  OrderInv'
<1>0. LinkInv /\ TypeOK /\ job[r].pc = "delete" /\ GoOn(r, "select", <<>>, 0) /\ calm' = calm
  BY DEF OrderInv, LinkInv, DeleteLinkRow, At
<1>1. PICK l \in LinkIds : job[r].ids = <<l>> /\ (LinkExists(l) => links[l].profile = job[r].profile)
  BY <1>0 DEF OrderInv, HasLink
<1>2. /\ \A q \in Requests \ {r} : job'[q] = job[q]
      /\ job'[r].pc = "select"
  BY <1>0, JobAfterGoOn
<1>3. HasLink(job[r])' /\ Fresh(job[r])'
  BY <1>2 DEF HasLink, Fresh
<1>4. Head(job[r].ids) = l
  BY <1>1
<1>5. CASE ~LinkExists(l)
  <2>1. links' = links /\ stale' = stale
    BY <1>0, <1>4, <1>5 DEF DeleteLinkRow, TypeOK
  <2> QED
    BY <1>0, <1>2, <1>3, <2>1, QuietOrderStep
<1>6. CASE LinkExists(l)
  <2>1. PICK p \in ProfileIds : p = job[r].profile
    BY <1>0 DEF LinkInv, LinkJobsComplete
  <2>2. /\ links' = [links EXCEPT ![l] = Deleted]
        /\ stale' = (stale \cup OrderReaders(p)) \ {r}
    BY <1>4, <1>6, <2>1 DEF DeleteLinkRow, OvertakeOrder
  <2>3. /\ links'[l] = Deleted /\ ~LinkExists(l)' /\ Deleted # Unused
        /\ \A k \in LinkIds \ {l} : links'[k] = links[k]
    BY <1>0, <2>2, LinkAssumption, TablesAssumption DEF TypeOK, LinkExists, NoRow
  <2>4. IdsLast /\ \A j : FlagKept(j)
    BY <2>3 DEF IdsLast, FlagKept, LinkExists
  <2>5. \A q \in ProfileIds \ {p} : OrderKept(q)
    BY <1>1, <1>6, <2>1, <2>3 DEF OrderKept, LinksOf, LinkExists
  <2>6. \A k \in LinksOf(p)' : k \in LinksOf(p) /\ links'[k].position = links[k].position
    BY <2>3 DEF LinksOf, LinkExists
  <2>7. ASSUME NEW q \in Requests \ {r}, q \notin stale'
        PROVE  /\ q \notin stale
               /\ job[q].pc \in {"insert", "renumber", "reorder"} => OrderKept(job[q].profile)
    <3>1. q \notin stale /\ OrderReaders(p) \ {r} \subseteq stale'
      BY <2>2, <2>7
    <3>2. ASSUME job[q].pc \in {"insert", "renumber", "reorder"}
          PROVE  OrderKept(job[q].profile)
      <4>1. job[q].profile # p
        BY <2>7, <3>1, <3>2, OthersNotOvertaken
      <4>2. job[q].profile \in ProfileIds
        BY <1>0, <3>2 DEF LinkInv, LinkJobsComplete
      <4> QED
        BY <2>5, <4>1, <4>2
    <3> QED
      BY <3>1, <3>2
  <2>8. CalmOrder'
    <3>1. \A q \in ProfileIds : JobsAt(q, {"reorder"})' = {} => JobsAt(q, {"reorder"}) = {}
      BY <1>0, <1>2 DEF JobsAt
    <3>2. calm' /\ JobsAt(p, {"reorder"})' = {} =>
            \A k, m \in LinksOf(p)' : k # m => links'[k].position # links'[m].position
      BY <1>0, <2>6, <3>1 DEF OrderInv, CalmOrder
    <3> QED
      BY <1>0, <2>5, <3>1, <3>2, DistinctElsewhere DEF OrderInv
  <2> QED
    BY <1>0, <1>2, <1>3, <2>4, <2>7, <2>8, OrderStep
<1> QED
  BY <1>5, <1>6

\* A request that gives up leaves the tables as they are.
LEMMA RefusalKeepsOrder ==
  ASSUME OrderInv, LinkInv', NEW r \in Requests,
         \/ CreateRefused(r) \/ CopyRefused(r) \/ DeleteRefused(r) \/ SelectFails(r)
         \/ ReorderRefused(r)
  PROVE  OrderInv'
<1>1. /\ Finish(r) /\ links' = links /\ stale \ {r} \subseteq stale' /\ (calm' => calm)
      /\ job[r].pc = "reorder" => ~calm'
  BY
     DEF CreateRefused, CopyRefused, DeleteRefused, SelectFails, ReorderRefused, At
<1> QED
  BY <1>1, EndKeepsOrder

\* Moving a link changes its position and nothing else.
LEMMA MoveEffect ==
  ASSUME LinkInv, NEW r \in Requests, job[r].pc \in {"renumber", "reorder"}, MoveLink(r)
  PROVE  /\ IdsLast /\ \A j : FlagKept(j)
         /\ MovedProfile(r) \in ProfileIds
         /\ \A q : LinksOf(q)' = LinksOf(q)
         /\ \A q : q # MovedProfile(r) => OrderKept(q)
         /\ \A k \in LinkIds \ {Head(job[r].ids)} : links'[k] = links[k]
         /\ LinkExists(Head(job[r].ids)) =>
              /\ MovedProfile(r) = links[Head(job[r].ids)].profile
              /\ links'[Head(job[r].ids)].position = job[r].pos
<1>1. PICK l \in LinkIds : l = Head(job[r].ids)
  BY HeadLink DEF ListSteps
<1>2. TypeOK /\ job[r].pos \in Nat /\ job[r].profile \in ProfileIds
  BY LinkJobFields DEF LinkInv, TypeOK, LinkJobsComplete
<1>3. CASE ~LinkExists(l)
  <2>1. links' = links /\ MovedProfile(r) = job[r].profile
    BY <1>1, <1>3 DEF MoveLink, MovedProfile
  <2> QED
    BY <1>1, <1>2, <1>3, <2>1 DEF IdsLast, FlagKept, OrderKept, LinksOf, LinkExists
<1>4. CASE LinkExists(l)
  <2>1. /\ links[l] \in LinkRow /\ links[l].profile \in ProfileIds
        /\ links \in [LinkIds -> LinkRow \cup NoRow]
    BY <1>2, <1>4, RowOfLink DEF TypeOK
  <2>2. PICK row : row = [links[l] EXCEPT !.position = job[r].pos]
    OBVIOUS
  <2>3. /\ row \in LinkRow /\ row.profile = links[l].profile /\ row.active = links[l].active
        /\ row.position = job[r].pos
    BY <1>2, <2>1, <2>2 DEF LinkRow
  <2>4. links' = [links EXCEPT ![l] = row]
    BY <1>1, <1>4, <2>1, <2>2 DEF MoveLink
  <2>5. /\ links'[l] = row /\ LinkExists(l)'
        /\ \A k \in LinkIds \ {l} : links'[k] = links[k]
    BY <2>1, <2>3, <2>4, LinkAssumption, TablesAssumption DEF LinkExists, NoRow
  <2>6. MovedProfile(r) = links[l].profile
    BY <1>1, <1>4 DEF MovedProfile
  <2>7. \A q : LinksOf(q)' = LinksOf(q)
    BY <1>4, <2>3, <2>5 DEF LinksOf, LinkExists
  <2>8. \A q : q # links[l].profile => OrderKept(q)
    BY <2>5, <2>7 DEF OrderKept, LinksOf
  <2>9. IdsLast /\ \A j : FlagKept(j)
    BY <1>4, <2>3, <2>5 DEF IdsLast, FlagKept, LinkExists, NoRow
  <2> QED
    BY <1>1, <2>1, <2>3, <2>5, <2>6, <2>7, <2>8, <2>9
<1> QED
  BY <1>3, <1>4

\* One turn of a loop numbers one more link.
LEMMA TurnKeepsNumbered ==
  ASSUME NEW j, NEW i, NEW h \in LinkIds, Numbered(j),
         j.ids \in Seq(LinkIds), j.ids # <<>>, h = Head(j.ids), j.pos \in Nat,
         i.profile = j.profile, i.ids = Tail(j.ids), i.pos = j.pos + 1,
         LinksOf(j.profile)' = LinksOf(j.profile),
         links'[h].position = j.pos,
         \A k \in LinkIds \ {h} : links'[k] = links[k]
  PROVE  /\ Numbered(i)' /\ Done(i)' = Done(j) \cup {h} /\ h \in Listed(j)
         /\ Listed(i) = Listed(j) \ {h} /\ h \in LinksOf(j.profile)
<1>1. /\ Len(j.ids) \in Nat \ {0} /\ DOMAIN j.ids = 1 .. Len(j.ids) /\ h = j.ids[1]
      /\ DOMAIN i.ids = 1 .. (Len(j.ids) - 1)
      /\ \A n \in DOMAIN i.ids : n + 1 \in DOMAIN j.ids /\ i.ids[n] = j.ids[n + 1]
  OBVIOUS
<1>2. \A n, k \in DOMAIN j.ids : n # k => j.ids[n] # j.ids[k]
  BY DEF Numbered
<1>3. ASSUME NEW n \in DOMAIN i.ids, NEW k \in DOMAIN i.ids, n # k
      PROVE  i.ids[n] # i.ids[k]
  <2>1. n \in Nat /\ k \in Nat /\ n + 1 # k + 1
    BY <1>1, <1>3
  <2>2. n + 1 \in DOMAIN j.ids /\ k + 1 \in DOMAIN j.ids
    BY <1>1
  <2>3. i.ids[n] = j.ids[n + 1] /\ i.ids[k] = j.ids[k + 1]
    BY <1>1
  <2> QED
    BY <1>2, <2>1, <2>2, <2>3, Zenon
<1>4. Listed(i) = Listed(j) \ {h} /\ h \in Listed(j)
  <2>1. h \in Listed(j)
    BY <1>1 DEF Listed
  <2>2. ASSUME NEW x \in Listed(i) PROVE x \in Listed(j) /\ x # h
    <3>1. PICK n \in DOMAIN i.ids : x = i.ids[n]
      BY <2>2 DEF Listed
    <3>2. x = j.ids[n + 1] /\ n + 1 \in DOMAIN j.ids /\ 1 \in DOMAIN j.ids /\ n + 1 # 1
      BY <1>1, <3>1
    <3> QED
      BY <1>1, <1>2, <3>2 DEF Listed
  <2>3. ASSUME NEW x \in Listed(j), x # h PROVE x \in Listed(i)
    <3>1. PICK n \in DOMAIN j.ids : x = j.ids[n]
      BY <2>3 DEF Listed
    <3>2. n - 1 \in DOMAIN i.ids /\ i.ids[n - 1] = x
      BY <1>1, <2>3, <3>1
    <3> QED
      BY <3>2 DEF Listed
  <2> QED
    BY <2>1, <2>2, <2>3
<1>5. Listed(i)' = Listed(i)
  BY DEF Listed
<1>6. h \in LinksOf(j.profile) /\ Listed(i)' \subseteq LinksOf(i.profile)'
  BY <1>4, <1>5 DEF Numbered
<1>7. Done(i)' = Done(j) \cup {h} /\ h \notin Done(j)
  <2>1. Done(i)' = LinksOf(j.profile) \ Listed(i)
    BY <1>5 DEF Done
  <2> QED
    BY <1>4, <1>6, <2>1 DEF Done
<1>8. \A k \in Done(j) : links'[k] = links[k] /\ links[k].position \in 0 .. (j.pos - 1)
  <2>1. Done(j) \subseteq LinkIds
    BY DEF Done, LinksOf
  <2> QED
    BY <1>7, <2>1 DEF Numbered
<1>9. {links'[k].position : k \in Done(i)'} = 0 .. (i.pos - 1)
  <2>1. {links'[k].position : k \in Done(j)} = 0 .. (j.pos - 1)
    <3>1. {links'[k].position : k \in Done(j)} = {links[k].position : k \in Done(j)}
      BY <1>8
    <3> QED
      BY <3>1 DEF Numbered
  <2>2. {links'[k].position : k \in Done(i)'} = {links'[k].position : k \in Done(j)} \cup {j.pos}
    BY <1>7
  <2>3. (0 .. (j.pos - 1)) \cup {j.pos} = 0 .. (i.pos - 1)
    OBVIOUS
  <2> QED
    BY <2>1, <2>2, <2>3
<1>10. \A k, m \in Done(i)' : k # m => links'[k].position # links'[m].position
  <2>1. \A k, m \in Done(j) : k # m => links[k].position # links[m].position
    BY DEF Numbered
  <2>2. \A k \in Done(j) : links'[k].position # j.pos
    BY <1>8
  <2> QED
    BY <1>7, <1>8, <2>1, <2>2
<1>11. Numbered(i)'
  BY <1>3, <1>6, <1>9, <1>10 DEF Numbered
<1> QED
  BY <1>4, <1>6, <1>7, <1>11

\* The links a renumbering has not yet come to lie above the position it
\* writes next.
LEMMA RestLiesAbove ==
  ASSUME NEW j, NEW h, Numbered(j), j.ids \in Seq(LinkIds), j.ids # <<>>, h = Head(j.ids),
         j.pos \in Nat, \A k \in LinksOf(j.profile) : links[k].position \in Nat,
         \A n, k \in DOMAIN j.ids : n < k => links[j.ids[n]].position <= links[j.ids[k]].position,
         \A k, m \in LinksOf(j.profile) : k # m => links[k].position # links[m].position
  PROVE  \A k \in Listed(j) \ {h} : links[k].position > j.pos
<1>1. /\ Len(j.ids) \in Nat \ {0} /\ DOMAIN j.ids = 1 .. Len(j.ids) /\ h = j.ids[1]
  OBVIOUS
<1>2. h \in Listed(j) /\ h \in LinksOf(j.profile) /\ Listed(j) \subseteq LinksOf(j.profile)
  BY <1>1 DEF Listed, Numbered
<1>3. links[h].position \notin 0 .. (j.pos - 1)
  <2> SUFFICES ASSUME links[h].position \in 0 .. (j.pos - 1) PROVE FALSE
    OBVIOUS
  <2>1. PICK k \in Done(j) : links[k].position = links[h].position
    BY DEF Numbered
  <2> QED
    BY <1>2, <2>1 DEF Done
<1>4. links[h].position >= j.pos
  BY <1>2, <1>3
<1> SUFFICES ASSUME NEW k \in Listed(j), k # h PROVE links[k].position > j.pos
  OBVIOUS
<1>5. PICK n \in DOMAIN j.ids : k = j.ids[n]
  BY DEF Listed
<1>6. links[h].position <= links[k].position
  BY <1>1, <1>5
<1>7. links[h].position # links[k].position
  BY <1>2
<1> QED
  BY <1>2, <1>4, <1>6, <1>7

\* What the turn of a loop leaves, when nothing has overtaken it: the rest of
\* the list, and in the end all links of the profile numbered from 0 on.
LEMMA FreshTurn ==
  ASSUME OrderInv, NEW r \in Requests, job[r].pc \in {"renumber", "reorder"}, MoveLink(r),
         NEW j, j = job[r], Numbered(j),
         NEW i, i.profile = j.profile, i.ids = Tail(j.ids), i.pos = j.pos + 1
  PROVE  /\ MovedProfile(r) = j.profile /\ LinksOf(j.profile)' = LinksOf(j.profile)
         /\ Numbered(i)' /\ Listed(i) = Listed(j) \ {Head(j.ids)}
         /\ Done(i)' = Done(j) \cup {Head(j.ids)}
         /\ \A k \in Listed(i) : links'[k] = links[k]
         /\ links'[Head(j.ids)].position = j.pos
         /\ Len(j.ids) = 1 => Done(i)' = LinksOf(j.profile)
<1>1. LinkInv /\ j \in Job /\ j.ids \in Seq(LinkIds) /\ j.ids # <<>> /\ j.pos \in Nat
  BY LinkJobFields DEF OrderInv, LinkInv, TypeOK, LinkJobsComplete, ListSteps
<1>2. PICK h \in LinkIds : h = Head(j.ids)
  BY <1>1
<1>3. h = j.ids[1] /\ 1 \in DOMAIN j.ids /\ Listed(j) \subseteq LinksOf(j.profile)
  BY <1>1, <1>2 DEF Numbered
<1>4. h \in LinksOf(j.profile) /\ LinkExists(h) /\ links[h].profile = j.profile
  BY <1>3 DEF Listed, LinksOf
<1>5. /\ MovedProfile(r) = j.profile /\ LinksOf(j.profile)' = LinksOf(j.profile)
      /\ links'[h].position = j.pos
      /\ \A k \in LinkIds \ {h} : links'[k] = links[k]
  BY <1>1, <1>2, <1>4, MoveEffect
<1>7. /\ Numbered(i)' /\ Done(i)' = Done(j) \cup {h} /\ h \in Listed(j)
      /\ Listed(i) = Listed(j) \ {h} /\ h \in LinksOf(j.profile)
  BY <1>1, <1>2, <1>5, TurnKeepsNumbered
<1>8. Listed(i) \subseteq LinkIds \ {h}
  BY <1>3, <1>7 DEF LinksOf
<1>9. Len(j.ids) = 1 => Done(i)' = LinksOf(j.profile)
  <2> SUFFICES ASSUME Len(j.ids) = 1 PROVE Done(i)' = LinksOf(j.profile)
    OBVIOUS
  <2>1. DOMAIN j.ids = {1}
    BY <1>1
  <2>2. Listed(j) = {h}
    BY <1>3, <2>1 DEF Listed
  <2> QED
    BY <1>4, <1>7, <2>2 DEF Done
<1> QED
  BY <1>2, <1>5, <1>7, <1>8, <1>9

LEMMA RenumberKeepsFresh ==
  ASSUME OrderInv, LinkInv', NEW r \in Requests, Renumber(r), NEW j, j = job[r], r \notin stale,
         NEW i, i.profile = j.profile, i.ids = Tail(j.ids), i.pos = j.pos + 1, i.pc = j.pc,
         Len(j.ids) # 1
  PROVE  Fresh(i)'
<1>1. job[r].pc = "renumber" /\ MoveLink(r)
  BY DEF Renumber, At
<1>2. /\ Numbered(j) /\ Cardinality(LinksOf(j.profile)) = j.pos + Len(j.ids)
      /\ \A n, k \in DOMAIN j.ids : n < k => links[j.ids[n]].position <= links[j.ids[k]].position
  <2>1. Renumbering(j)
    BY <1>1 DEF OrderInv, Fresh
  <2> QED
    BY <2>1 DEF Renumbering
<1>3. /\ Numbered(i)' /\ LinksOf(j.profile)' = LinksOf(j.profile)
      /\ \A k \in Listed(i) : links'[k] = links[k]
  BY <1>1, <1>2, FreshTurn
<1>4. j.ids \in Seq(LinkIds) /\ j.ids # <<>> /\ j.pos \in Nat
  BY <1>1, LinkJobFields DEF OrderInv, LinkInv, TypeOK, LinkJobsComplete, ListSteps
<1>5. i.profile = j.profile /\ i.ids = Tail(j.ids) /\ i.pos = j.pos + 1 /\ i.pc = "renumber"
  BY <1>1
<1>6. /\ Len(i.ids) = Len(j.ids) - 1 /\ Len(j.ids) \in Nat
      /\ \A n \in DOMAIN i.ids : /\ n \in Nat /\ n + 1 \in DOMAIN j.ids
                                 /\ i.ids[n] = j.ids[n + 1]
  BY <1>4, <1>5
<1>7. Cardinality(LinksOf(i.profile)') = i.pos + Len(i.ids)
  BY <1>2, <1>3, <1>4, <1>5, <1>6
<1>8. ASSUME NEW n \in DOMAIN i.ids, NEW k \in DOMAIN i.ids, n < k
      PROVE  links'[i.ids[n]].position <= links'[i.ids[k]].position
  <2>1. links[j.ids[n + 1]].position <= links[j.ids[k + 1]].position
    <3>1. n \in Nat /\ k \in Nat /\ n + 1 \in DOMAIN j.ids /\ k + 1 \in DOMAIN j.ids
      BY <1>6
    <3>2. n + 1 < k + 1
      BY <1>8, <3>1
    <3> QED
      BY <1>2, <3>1, <3>2, Zenon
  <2>2. links'[i.ids[n]] = links[i.ids[n]] /\ links'[i.ids[k]] = links[i.ids[k]]
    BY <1>3 DEF Listed
  <2> QED
    BY <1>6, <2>1, <2>2
<1>9. Renumbering(i)'
  BY <1>3, <1>7, <1>8 DEF Renumbering
<1> QED
  BY <1>5, <1>9 DEF Fresh

\* The loop's own profile is in order again when the loop ends; a renumbering
\* keeps it in order all along.
LEMMA TurnKeepsDistinct ==
  ASSUME OrderInv, LinkInv', NEW r \in Requests, Renumber(r) \/ WriteReorder(r),
         NEW p, p = job[r].profile, calm', JobsAt(p, {"reorder"})' = {},
         NEW k \in LinksOf(p)', NEW m \in LinksOf(p)', k # m
  PROVE  links'[k].position # links'[m].position
<1>1. /\ LinkInv /\ MoveLink(r) /\ NextId(r) /\ calm /\ r \notin stale
      /\ job[r].pc \in {"renumber", "reorder"}
  BY DEF OrderInv, Renumber, WriteReorder, At
<1>2. PICK j : j = job[r]
  OBVIOUS
<1>3. PICK i : i.profile = j.profile /\ i.ids = Tail(j.ids) /\ i.pos = j.pos + 1
  <2>1. PICK rest : rest = [profile |-> j.profile, ids |-> Tail(j.ids), pos |-> j.pos + 1]
    OBVIOUS
  <2>2. rest.profile = j.profile /\ rest.ids = Tail(j.ids) /\ rest.pos = j.pos + 1
    BY <2>1
  <2> QED
    BY <2>2
<1>4. j.ids \in Seq(LinkIds) /\ j.ids # <<>> /\ j.pos \in Nat /\ j.profile \in ProfileIds
  BY <1>1, <1>2, LinkJobFields DEF LinkInv, TypeOK, LinkJobsComplete, ListSteps
<1>5. Fresh(j) /\ Numbered(j) /\ (j.pc = "renumber" => Renumbering(j))
  <2>1. Fresh(j) /\ j.pc \in {"renumber", "reorder"}
    BY <1>1, <1>2 DEF OrderInv
  <2> QED
    BY <1>1, <2>1 DEF Fresh, Renumbering
<1>6. /\ Numbered(i)' /\ Listed(i) = Listed(j) \ {Head(j.ids)}
      /\ LinksOf(p)' = LinksOf(p)
      /\ Done(i)' = Done(j) \cup {Head(j.ids)}
      /\ \A n \in Listed(i) : links'[n] = links[n]
      /\ Len(j.ids) = 1 => Done(i)' = LinksOf(p)
  BY <1>1, <1>2, <1>3, <1>5, FreshTurn
<1>7. \A a, b \in Done(i)' : a # b => links'[a].position # links'[b].position
  BY <1>6 DEF Numbered
<1>8. CASE Len(j.ids) = 1
  BY <1>6, <1>7, <1>8
<1>9. CASE Len(j.ids) # 1
  <2>1. job'[r].pc = j.pc /\ job'[r].profile = p
    BY <1>1, <1>2, <1>9, JobAfterGoOn DEF NextId
  <2>2. j.pc = "renumber"
    BY <1>1, <1>2, <2>1 DEF JobsAt
  <2>3. JobsAt(p, {"reorder"}) = {}
    <3>1. \A q \in Requests \ {r} : job'[q] = job[q]
      BY <1>1, <1>2, <1>9, JobAfterGoOn DEF NextId
    <3> QED
      BY <1>2, <2>2, <3>1 DEF JobsAt
  <2>4. \A a, b \in LinksOf(p) : a # b => links[a].position # links[b].position
    BY <1>1, <1>2, <1>4, <2>3 DEF OrderInv, CalmOrder
  <2>5. \A a \in LinksOf(p) : links[a].position \in Nat
    BY <1>1, RowOfLink DEF LinkInv, LinksOf
  <2>6. \A n, a \in DOMAIN j.ids : n < a => links[j.ids[n]].position <= links[j.ids[a]].position
    BY <1>5, <2>2 DEF Renumbering
  <2>7. \A a \in Listed(i) : links[a].position > j.pos
    BY <1>2, <1>4, <1>5, <1>6, <2>4, <2>5, <2>6, RestLiesAbove
  <2>8. \A a \in Done(i)' : links'[a].position \in 0 .. j.pos
    <3>1. i.pos - 1 = j.pos
      BY <1>3, <1>4
    <3> QED
      BY <1>6, <3>1 DEF Numbered
  <2>9. Listed(i) \subseteq LinksOf(p) /\ LinksOf(p) \subseteq Listed(i) \cup Done(i)'
    BY <1>2, <1>5, <1>6 DEF Numbered, Done
  <2>10. \A a \in Listed(i), b \in Done(i)' : links'[a].position # links'[b].position
    BY <1>4, <1>6, <2>5, <2>7, <2>8, <2>9
  <2>11. \A a, b \in Listed(i) : a # b => links'[a].position # links'[b].position
    BY <1>6, <2>4, <2>9
  <2> QED
    BY <1>6, <1>7, <2>9, <2>10, <2>11
<1> QED
  BY <1>8, <1>9

LEMMA TurnKeepsOrder ==
  ASSUME OrderInv, LinkInv', NEW r \in Requests, Renumber(r) \/ WriteReorder(r)
  PROVE  OrderInv'
<1>1. /\ LinkInv /\ MoveLink(r) /\ NextId(r) /\ job[r].pc \in {"renumber", "reorder"}
      /\ calm' = (calm /\ r \notin stale)
      /\ stale' = (stale \cup (OrderReaders(MovedProfile(r)) \ {r}))
                    \ (IF Len(job[r].ids) = 1 THEN {r} ELSE {})
  BY DEF OrderInv, Renumber, WriteReorder, At
<1>2. PICK j : j = job[r]
  OBVIOUS
<1>3. PICK i : i = [pc |-> j.pc, profile |-> j.profile, ids |-> Tail(j.ids),
                    pos |-> j.pos + 1, active |-> j.active]
  OBVIOUS
<1>4. /\ \A q \in Requests \ {r} : job'[q] = job[q]
      /\ job'[r] = IF Len(j.ids) = 1 THEN Idle ELSE i
  BY <1>1, <1>2, <1>3 DEF NextId, Finish, GoOn, LinkInv, TypeOK
<1>10. i.pc = j.pc /\ i.profile = j.profile /\ i.ids = Tail(j.ids) /\ i.pos = j.pos + 1
  BY <1>3
<1>5. /\ IdsLast /\ (\A a : FlagKept(a)) /\ MovedProfile(r) \in ProfileIds
      /\ \A q : q # MovedProfile(r) => OrderKept(q)
  BY <1>1, MoveEffect
<1>6. calm' => calm
  BY <1>1
<1>7. ASSUME NEW q \in Requests \ {r}, q \notin stale'
      PROVE  /\ q \notin stale
             /\ job[q].pc \in {"insert", "renumber", "reorder"} => OrderKept(job[q].profile)
  <2>1. q \notin stale /\ q \notin OrderReaders(MovedProfile(r))
    BY <1>1, <1>7
  <2>2. job[q].pc \in {"insert", "renumber", "reorder"} => job[q].profile # MovedProfile(r)
    BY <2>1 DEF OrderReaders, JobsAt
  <2> QED
    BY <1>5, <2>1, <2>2
<1>8. HasLink(job[r])' /\ (r \notin stale' => Fresh(job[r])')
  <2>1. CASE Len(j.ids) = 1
    BY <1>4, <2>1, IdleHasRead
  <2>2. CASE Len(j.ids) # 1
    <3>1. job'[r] = i /\ i.pc = j.pc /\ (r \notin stale' => r \notin stale)
      BY <1>1, <1>2, <1>4, <1>10, <2>2
    <3>2. HasLink(job[r])'
      BY <1>1, <1>2, <3>1 DEF HasLink
    <3>3. r \notin stale' => Fresh(i)'
      <4>1. CASE Renumber(r)
        BY <1>2, <1>10, <2>2, <3>1, <4>1, RenumberKeepsFresh
      <4>2. CASE WriteReorder(r)
        <5>1. j.pc = "reorder"
          BY <1>2, <4>2 DEF WriteReorder, At
        <5>2. calm' => Fresh(j)
          BY <1>1, <1>2 DEF OrderInv
        <5>3. calm' => Numbered(j)
          BY <1>6, <5>1, <5>2 DEF Fresh
        <5>4. calm' => Numbered(i)'
          BY <1>1, <1>2, <1>10, <5>3, FreshTurn
        <5> QED
          BY <3>1, <5>1, <5>4 DEF Fresh
      <4> QED
        BY <4>1, <4>2
    <3>4. Fresh(i)' => Fresh(job[r])'
      BY <3>1 DEF Fresh, Renumbering, Numbered, Listed, Done
    <3> QED
      BY <3>2, <3>3, <3>4
  <2> QED
    BY <2>1, <2>2
<1>9. CalmOrder'
  <2> SUFFICES ASSUME calm' PROVE CalmOrder'
    BY DEF CalmOrder
  <2>1. PICK p : p = job[r].profile
    OBVIOUS
  <2>2. MovedProfile(r) = p
    <3>1. Numbered(j)
      BY <1>1, <1>2 DEF OrderInv, Fresh, Renumbering
    <3> QED
      BY <1>1, <1>2, <1>10, <2>1, <3>1, FreshTurn
  <2>3. \A q \in ProfileIds \ {p} :
          OrderKept(q) /\ (JobsAt(q, {"reorder"})' = {} => JobsAt(q, {"reorder"}) = {})
    <3>1. \A q \in ProfileIds \ {p} : JobsAt(q, {"reorder"}) \subseteq JobsAt(q, {"reorder"})'
      BY <1>4, <2>1 DEF JobsAt
    <3> QED
      BY <1>5, <2>2, <3>1
  <2>4. JobsAt(p, {"reorder"})' = {} =>
          \A k, m \in LinksOf(p)' : k # m => links'[k].position # links'[m].position
    BY <2>1, TurnKeepsDistinct
  <2> QED
    BY <1>6, <2>3, <2>4, DistinctElsewhere DEF OrderInv
<1> QED
  BY <1>4, <1>5, <1>6, <1>7, <1>8, <1>9, OrderStep

\* A write of the loop that fails leaves the loop with positions it does not know.
LEMMA FailedTurnKeepsOrder ==
  ASSUME OrderInv, LinkInv', NEW r \in Requests, RenumberFails(r)
  PROVE  OrderInv'
<1>1. /\ LinkInv /\ NextId(r) /\ job[r].pc = "renumber" /\ calm' = FALSE /\ links' = links
      /\ stale' = IF Len(job[r].ids) = 1 THEN stale \ {r} ELSE stale \cup {r}
  BY DEF OrderInv, RenumberFails, At
<1>2. CASE Len(job[r].ids) = 1
  BY <1>1, <1>2, EndKeepsOrder DEF NextId
<1>3. CASE Len(job[r].ids) # 1
  <2>1. job'[r].pc = "renumber" /\ \A q \in Requests \ {r} : job'[q] = job[q]
    BY <1>1, <1>3, JobAfterGoOn DEF NextId
  <2>2. HasLink(job[r])' /\ r \in stale'
    BY <1>1, <1>3, <2>1 DEF HasLink
  <2> QED
    BY <1>1, <1>3, <2>1, <2>2, QuietOrderStep
<1> QED
  BY <1>2, <1>3

\* Nobody remembers anything after a crash.
LEMMA CrashKeepsOrder ==
  ASSUME OrderInv, LinkInv', job' = [r \in Requests |-> Idle], links' = links,
         calm' => calm /\ \A r \in Requests : job[r].pc # "reorder"
  PROVE  OrderInv'
<1>1. /\ \A r \in Requests : job'[r] = Idle
      /\ links' = links
      /\ calm' => calm /\ \A r \in Requests : job[r].pc # "reorder"
  OBVIOUS
<1>2. \A r \in Requests : HasLink(job[r])' /\ Fresh(job[r])'
  BY <1>1, IdleHasRead
<1>3. CalmOrder'
  <2> SUFFICES ASSUME calm', NEW p \in ProfileIds
               PROVE  \A k, l \in LinksOf(p)' : k # l => links'[k].position # links'[l].position
    BY DEF CalmOrder
  <2>1. JobsAt(p, {"reorder"}) = {} /\ LinksOf(p)' = LinksOf(p)
    BY <1>1 DEF JobsAt, LinksOf, LinkExists
  <2> QED
    BY <1>1, <2>1 DEF OrderInv, CalmOrder
<1> QED
  BY <1>2, <1>3 DEF OrderInv

LEMMA InitOrder ==
  ASSUME LinkInit
  PROVE  OrderInv
<1>1. LinkInv
  BY LinkInitTypes
<1>2. (\A r \in Requests : job[r].pc = "idle") /\ \A p : LinksOf(p) = {}
  BY DEF LinkInit, Idle, LinksOf, LinkExists, NoRow
<1>3. \A r \in Requests : HasLink(job[r]) /\ Fresh(job[r])
  BY <1>2 DEF HasLink, Fresh
<1>4. CalmOrder
  BY <1>2 DEF CalmOrder
<1> QED
  BY <1>1, <1>3, <1>4 DEF OrderInv

LEMMA LinkStepKeepsOrder ==
  ASSUME OrderInv, LinkInv', NEW r \in Requests, LinkStep(r)
  PROVE  OrderInv'
<1>1. CASE \/ CountLinks(r) \/ CountLinksFails(r)
           \/ \E u \in Users, p \in ProfileIds : ReceiveCreate(r, u, p)
  BY <1>1, CountKeepsOrder
<1>2. CASE ReadNextPosition(r) \/ ReadNextPositionFails(r)
  BY <1>2, PositionKeepsOrder
<1>3. CASE \E l \in LinkIds : InsertLink(r, l)
  BY <1>3, InsertKeepsOrder
<1>4. CASE \E u \in Users, l \in LinkIds :
             \/ ReceiveToggle(r, u, l) \/ ReceiveUpdate(r, u, l)
             \/ \E asked \in BOOLEAN : ReceiveSet(r, u, l, asked)
             \/ ReceiveDelete(r, u, l)
  BY <1>4, CopyKeepsOrder
<1>5. CASE WriteCopy(r)
  BY <1>5, WriteCopyKeepsOrder
<1>6. CASE DeleteLinkRow(r)
  BY <1>6, DeleteKeepsOrder
<1>7. CASE \/ CreateRefused(r) \/ CopyRefused(r) \/ DeleteRefused(r) \/ SelectFails(r)
           \/ ReorderRefused(r)
  BY <1>7, RefusalKeepsOrder
<1>8. CASE SelectForRenumber(r)
  BY <1>8, SelectKeepsOrder
<1>9. CASE Renumber(r) \/ WriteReorder(r)
  BY <1>9, TurnKeepsOrder
<1>10. CASE RenumberFails(r)
  BY <1>10, FailedTurnKeepsOrder
<1>11. CASE \E u \in Users, ids \in LinkIdLists : ReceiveReorder(r, u, ids)
  BY <1>11, ReceiveReorderKeepsOrder
<1> QED
  BY <1>1, <1>2, <1>3, <1>4, <1>5, <1>6, <1>7, <1>8, <1>9, <1>10, <1>11
     DEF LinkStep

\* Nothing moves.
LEMMA StutterKeepsOrder ==
  ASSUME OrderInv, LinkInv', links' = links, job' = job, stale' = stale, calm' = calm
  PROVE  OrderInv'
<1>1. (IdsLast /\ \A j : FlagKept(j)) /\ \A p : OrderKept(p)
  BY DEF IdsLast, FlagKept, OrderKept, LinkExists, LinksOf
<1>2. ASSUME NEW r \in Requests
      PROVE  HasLink(job[r])' /\ (r \notin stale' => Fresh(job[r])')
  <2>1. PICK j : j = job[r] /\ j = job'[r]
    OBVIOUS
  <2>2. HasLink(j) /\ (r \notin stale => Fresh(j))
    BY <2>1 DEF OrderInv
  <2>3. \A i \in DOMAIN j.ids : j.ids[i] \in LinkIds
    BY <2>1, ListedAreLinks DEF OrderInv
  <2>4. HasLink(j)' /\ (r \notin stale => Fresh(j)')
    BY <1>1, <2>2, <2>3, HasLinkKept, FreshKept
  <2> QED
    BY <2>1, <2>4 DEF HasLink, Fresh, Renumbering, Numbered, Listed, Done
<1>3. CalmOrder'
  BY DEF OrderInv, CalmOrder, JobsAt, LinksOf, LinkExists
<1> QED
  BY <1>2, <1>3 DEF OrderInv

LEMMA NextKeepsOrder ==
  ASSUME OrderInv, [LinkNext]_linkVars
  PROVE  OrderInv'
<1>1. LinkInv'
  BY LinkNextKeepsTypes DEF OrderInv
<1>2. CASE \E r \in Requests : LinkStep(r)
  BY <1>1, <1>2, LinkStepKeepsOrder
<1>3. CASE LinkCrash
  <2>1. /\ job' = [r \in Requests |-> Idle] /\ links' = links
        /\ calm' => calm /\ \A r \in Requests : job[r].pc # "reorder"
    BY <1>3 DEF LinkCrash
  <2> QED
    BY <1>1, <2>1, CrashKeepsOrder
<1>4. CASE UNCHANGED linkVars
  <2>1. links' = links /\ job' = job /\ stale' = stale /\ calm' = calm
    BY <1>4 DEF linkVars, jobVars
  <2> QED
    BY <1>1, <2>1, StutterKeepsOrder
<1> QED
  BY <1>2, <1>3, <1>4 DEF LinkNext

LEMMA AlwaysOrderInv == LinkSpec => []OrderInv
  BY InitOrder, NextKeepsOrder, PTL DEF LinkSpec, LinkAlone

\* The turn of a renumbering is in order, and the last one leaves no gap.
TurnIsDense(r) ==
  (Renumber(r) /\ r \notin stale) =>
    LET ids == job[r].ids
        p == job[r].profile
    IN /\ \A i \in DOMAIN ids :
            LinkExists(ids[i]) => links[ids[1]].position <= links[ids[i]].position
       /\ Len(ids) = 1 => {links'[l].position : l \in LinksOf(p)}
                            = 0 .. (Cardinality(LinksOf(p)) - 1)

\* A copy that nothing has overtaken is written over the flag it was made from.
CopyIsFresh(r, l) ==
  (WriteCopy(r) /\ job[r].ids = <<l>> /\ LinkExists(l) /\ r \notin stale)
    => /\ job[r].pc = "toggle" => links'[l].active = ~links[l].active
       /\ job[r].pc = "update" => links'[l].active = links[l].active

LEMMA OrderIsDistinct ==
  ASSUME OrderInv
  PROVE  PositionsDistinctWhenCalm
<1> SUFFICES ASSUME calm, NEW k \in LinkIds, NEW l \in LinkIds,
                    LinkExists(k), LinkExists(l), k # l, links[k].profile = links[l].profile,
                    JobsAt(links[k].profile, {"reorder"}) = {}
             PROVE  links[k].position # links[l].position
  BY DEF PositionsDistinctWhenCalm
<1>1. PICK p \in ProfileIds : p = links[k].profile
  BY RowOfLink DEF OrderInv, LinkInv
<1>2. k \in LinksOf(p) /\ l \in LinksOf(p)
  BY <1>1 DEF LinksOf
<1> QED
  BY <1>1, <1>2 DEF OrderInv, CalmOrder

LEMMA OrderedTurn ==
  ASSUME OrderInv, NEW r \in Requests
  PROVE  TurnIsDense(r)
<1> SUFFICES ASSUME Renumber(r), r \notin stale PROVE TurnIsDense(r)
  BY DEF TurnIsDense
<1>1. job[r].pc = "renumber" /\ MoveLink(r)
  BY DEF Renumber, At
<1>2. PICK j : j = job[r]
  OBVIOUS
<1>3. /\ Numbered(j) /\ Cardinality(LinksOf(j.profile)) = j.pos + Len(j.ids)
      /\ \A n, k \in DOMAIN j.ids : n < k => links[j.ids[n]].position <= links[j.ids[k]].position
  BY <1>1, <1>2 DEF OrderInv, Fresh, Renumbering
<1>4. j.ids \in Seq(LinkIds) /\ j.ids # <<>> /\ j.pos \in Nat /\ LinkInv
  BY <1>1, <1>2, LinkJobFields
     DEF OrderInv, LinkInv, TypeOK, LinkJobsComplete, ListSteps
<1>5. \A i \in DOMAIN j.ids : links[j.ids[1]].position <= links[j.ids[i]].position
  <2>1. 1 \in DOMAIN j.ids /\ \A i \in DOMAIN j.ids : i = 1 \/ 1 < i
    BY <1>4
  <2>2. \A i \in DOMAIN j.ids : j.ids[i] \in LinksOf(j.profile)
    BY <1>3 DEF Numbered, Listed
  <2>3. links[j.ids[1]].position \in Nat
    BY <1>4, <2>1, <2>2, RowOfLink DEF LinkInv, LinksOf
  <2> QED
    BY <1>3, <2>1, <2>3
<1>6. ASSUME Len(j.ids) = 1
      PROVE  {links'[l].position : l \in LinksOf(j.profile)}
               = 0 .. (Cardinality(LinksOf(j.profile)) - 1)
  <2>1. PICK i : i.profile = j.profile /\ i.ids = Tail(j.ids) /\ i.pos = j.pos + 1
    <3>1. PICK rest : rest = [profile |-> j.profile, ids |-> Tail(j.ids), pos |-> j.pos + 1]
      OBVIOUS
    <3>2. rest.profile = j.profile /\ rest.ids = Tail(j.ids) /\ rest.pos = j.pos + 1
      BY <3>1
    <3> QED
      BY <3>2
  <2>2. Numbered(i)' /\ Done(i)' = LinksOf(j.profile)
    BY <1>1, <1>2, <1>3, <1>6, <2>1, FreshTurn
  <2>3. {links'[l].position : l \in LinksOf(j.profile)} = 0 .. (i.pos - 1)
    BY <2>2 DEF Numbered
  <2>4. Cardinality(LinksOf(j.profile)) = i.pos
    BY <1>3, <1>4, <1>6, <2>1
  <2> QED
    BY <2>3, <2>4
<1> QED
  BY <1>2, <1>5, <1>6 DEF TurnIsDense

LEMMA FreshCopy ==
  ASSUME OrderInv, NEW r \in Requests, NEW l \in LinkIds
  PROVE  CopyIsFresh(r, l)
<1> SUFFICES ASSUME WriteCopy(r), job[r].ids = <<l>>, LinkExists(l), r \notin stale
             PROVE  /\ job[r].pc = "toggle" => links'[l].active = ~links[l].active
                    /\ job[r].pc = "update" => links'[l].active = links[l].active
  BY DEF CopyIsFresh
<1>1. Head(job[r].ids) = l
  OBVIOUS
<1>2. /\ job[r].pc = "toggle" => job[r].active = ~links[l].active
      /\ job[r].pc = "update" => job[r].active = links[l].active
  BY <1>1 DEF OrderInv, Fresh
<1>3. links[l] \in LinkRow /\ links \in [LinkIds -> LinkRow \cup NoRow]
  BY RowOfLink DEF OrderInv, LinkInv, TypeOK
<1>4. links'[l].active = job[r].active
  BY <1>1, <1>3 DEF WriteCopy, LinkRow
<1> QED
  BY <1>2, <1>4

\* As long as nothing was overtaken, lost or partial, no two links of a profile
\* share a position, whatever CreateLink, DeleteLink and ReorderLinks run beside
\* each other: the race window is exactly the one the ghosts name.
THEOREM PositionsAreDistinct == LinkSpec => []PositionsDistinctWhenCalm
  BY OrderIsDistinct, AlwaysOrderInv, PTL

\* A renumbering that nothing has overtaken takes the links by position and
\* leaves them numbered 0, 1, ..., n-1, each number once.
THEOREM RenumberLeavesNoGap == LinkSpec => RenumberIsDense
<1>1. OrderInv /\ [LinkNext]_linkVars => [\A r \in Requests : TurnIsDense(r)]_linkVars
  BY OrderedTurn
<1>2. LinkSpec => [][\A r \in Requests : TurnIsDense(r)]_linkVars
  BY <1>1, AlwaysOrderInv, PTL DEF LinkSpec
<1> QED
  BY <1>2 DEF RenumberIsDense, TurnIsDense

\* ToggleLink and UpdateLink write back a copy: unless another write of the link
\* fell between, a toggle inverts the stored flag and an update keeps it.
THEOREM NoUpdateIsLost == LinkSpec => NoLostUpdateWhenFresh
<1>1. OrderInv /\ [LinkNext]_linkVars
        => [\A r \in Requests : \A l \in LinkIds : CopyIsFresh(r, l)]_linkVars
  BY FreshCopy
<1>2. LinkSpec => [][\A r \in Requests : \A l \in LinkIds : CopyIsFresh(r, l)]_linkVars
  BY <1>1, AlwaysOrderInv, PTL DEF LinkSpec
<1> QED
  BY <1>2 DEF NoLostUpdateWhenFresh, CopyIsFresh

----------------------------------------------------------------------------
(***************************************************************************)
(* Links, profiles and users on the same tables.  A step of one component  *)
(* leaves the rows of the others alone: nothing cascades.                  *)
(***************************************************************************)

\* Both components, and the users' ids.
SiteInv == LinkInv /\ ProfileInv /\ users \in SUBSET Users

\* A link request never writes the tables of users and profiles.
LEMMA LinkStepKeepsOwners ==
  ASSUME NEW r \in Requests, LinkStep(r)
  PROVE  users' = users /\ profiles' = profiles
<1>1. owners' = owners
  BY DEF LinkStep, ReceiveCreate, CountLinks, CountLinksFails, ReadNextPosition,
         ReadNextPositionFails, InsertLink, CreateRefused, ReceiveToggle,
         ReceiveUpdate, ReceiveSet, ReceiveDelete, WriteCopy, CopyRefused,
         DeleteLinkRow, DeleteRefused, SelectForRenumber, SelectFails, Renumber,
         RenumberFails, ReceiveReorder, WriteReorder, ReorderRefused
<1> QED
  BY <1>1 DEF owners

\* While the links and their requests stay as they are, so does each limit.
LEMMA LinksStay ==
  ASSUME LinkInv, links' = links, job' = job, stale' = stale, blind' = blind, calm' = calm
  PROVE  LinkInv' /\ \A p \in ProfileIds : Q(p)!Next
<1>1. LinkInv'
  BY DEF LinkInv, TypeOK, LinkJobsComplete
<1>2. ASSUME NEW p \in ProfileIds PROVE Q(p)!Next
  <2>1. Pending(p)' = Pending(p)
    BY DEF Pending, JobsAt
  <2> QED
    BY <2>1, QuietLinks, QuietLinkStep
<1> QED
  BY <1>1, <1>2

\* A profile request never writes the tables of users and links.
LEMMA ProfileStepKeepsOthers ==
  ASSUME NEW q \in ProfileRequests, ProfileStep(q)
  PROVE  users' = users /\ links' = links
BY DEF ProfileStep, ReceiveCreateProfile, CountProfiles, CountProfilesFails, CheckSlug,
       NextCopySlug, InsertProfile, InsertProfileRefused, ReceiveDuplicate,
       ReceiveUpdateProfile, ReceiveSetPublic, ReceiveDeleteProfile, WriteProfile,
       WriteProfileRefused, DeleteProfileRow, DeleteProfileRefused, PReceive

----------------------------------------------------------------------------
\* What a step of the composition has to do: keep the invariant, and be a step or
\* a stutter of every limit.
StepDone ==
  /\ SiteInv'
  /\ \A p \in ProfileIds : Q(p)!Next
  /\ Abstract!Next

\* A request about links: the profiles and the users stay as they are.
LEMMA EditLinksStep ==
  ASSUME SiteInv, NEW r \in Requests, LinkStep(r), UNCHANGED pjobVars
  PROVE  StepDone
<1>1. /\ users' = users /\ profiles' = profiles
      /\ pjob' = pjob /\ pblind' = pblind /\ raced' = raced
  BY LinkStepKeepsOwners DEF pjobVars
<1>2. LinkInv' /\ \A p \in ProfileIds : Q(p)!Next
  BY LinkStepKeepsTypes, StepIsQuotaStep DEF SiteInv
<1>3. ProfileInv'
  BY <1>1 DEF SiteInv, ProfileInv, ProfileTypeOK, ProfileJobsComplete
<1>4. SiteInv'
  BY <1>1, <1>2, <1>3 DEF SiteInv
<1>5. Abstract!Next
  <2>1. Admitted(WatchedUser)' = Admitted(WatchedUser)
    BY <1>1 DEF Admitted
  <2> QED
    BY <1>1, <2>1, SameProfiles, QuietProfileStep
<1> QED
  BY <1>2, <1>4, <1>5 DEF StepDone

\* A request about profiles: the links stay, also those of a deleted profile.
LEMMA EditProfilesStep ==
  ASSUME SiteInv, NEW q \in ProfileRequests, ProfileStep(q), UNCHANGED jobVars
  PROVE  StepDone
<1>1. users' = users /\ links' = links
  BY ProfileStepKeepsOthers
<1>2. ProfileInv' /\ Abstract!Next
  BY ProfileNextStep DEF SiteInv, ProfileNext
<1>3. LinkInv' /\ \A p \in ProfileIds : Q(p)!Next
  BY <1>1, LinksStay DEF SiteInv, jobVars
<1>4. SiteInv'
  BY <1>1, <1>2, <1>3 DEF SiteInv
<1> QED
  BY <1>2, <1>3, <1>4 DEF StepDone

\* An administrator deletes a user: the user's profiles stay.
LEMMA DeleteUserStep ==
  ASSUME SiteInv, NEW a, NEW u, DeleteUser(a, u)
  PROVE  StepDone
<1>1. /\ users' = users \ {u} /\ profiles' = profiles /\ links' = links
      /\ job' = job /\ stale' = stale /\ blind' = blind /\ calm' = calm
      /\ pjob' = pjob /\ pblind' = pblind /\ raced' = raced
  BY DEF DeleteUser, jobVars, pjobVars
<1>2. LinkInv' /\ \A p \in ProfileIds : Q(p)!Next
  BY <1>1, LinksStay DEF SiteInv
<1>3. ProfileInv'
  BY <1>1 DEF SiteInv, ProfileInv, ProfileTypeOK, ProfileJobsComplete
<1>4. SiteInv'
  BY <1>1, <1>2, <1>3 DEF SiteInv
<1>5. Abstract!Next
  <2>1. Admitted(WatchedUser)' = Admitted(WatchedUser)
    BY <1>1 DEF Admitted
  <2> QED
    BY <1>1, <2>1, SameProfiles, QuietProfileStep
<1> QED
  BY <1>2, <1>4, <1>5 DEF StepDone

\* Nothing moves in the tables, and creations give up or go on.
LEMMA TablesStay ==
  ASSUME SiteInv, users' = users, profiles' = profiles, links' = links,
         blind' = blind, pblind' = pblind, LinkInv', ProfileInv',
         \A p : Pending(p)' \subseteq Pending(p),
         Admitted(WatchedUser)' \subseteq Admitted(WatchedUser)
  PROVE  StepDone
<1>1. SiteInv'
  BY DEF SiteInv
<1>2. \A p \in ProfileIds : Q(p)!Next
  BY QuietLinks, QuietLinkStep
<1>3. Abstract!Next
  BY SameProfiles, QuietProfileStep
<1> QED
  BY <1>1, <1>2, <1>3 DEF StepDone

\* The process dies, and both kinds of request with it.
LEMMA SiteCrashStep ==
  ASSUME SiteInv, Crash
  PROVE  StepDone
<1>1. /\ job' = [r \in Requests |-> Idle] /\ stale' = {} /\ calm' \in BOOLEAN
      /\ pjob' = [q \in ProfileRequests |-> IdleProfileJob]
      /\ raced' = {} /\ UNCHANGED <<users, profiles, links, blind, pblind>>
  BY DEF Crash, SiteInv, LinkInv, TypeOK
<1>2. Idle.pc = "idle" /\ "idle" \notin ListSteps \cup {"position", "insert"}
  BY DEF Idle, ListSteps
<1>3. LinkInv'
  <2>1. LinkJobsComplete'
    BY <1>1, <1>2 DEF LinkJobsComplete
  <2> QED
    BY <1>1, <2>1, IdleLinkJob DEF SiteInv, LinkInv, TypeOK
<1>4. ProfileInv'
  <2>1. \A q \in ProfileRequests : pjob'[q] = IdleProfileJob
    BY <1>1
  <2> QED
    BY <1>1, <2>1, IdleProfileIsJob, SameProfiles
       DEF SiteInv, ProfileInv, ProfileTypeOK, ProfileJobsComplete, CreateSteps
<1>5. \A p : Pending(p)' = {}
  BY <1>1, <1>2 DEF Pending, JobsAt
<1>6. Admitted(WatchedUser)' = {}
  BY <1>1, IdleProfileIsJob DEF Admitted
<1> QED
  BY <1>1, <1>3, <1>4, <1>5, <1>6, TablesStay

LEMMA SiteStutter ==
  ASSUME SiteInv, UNCHANGED vars
  PROVE  StepDone
<1>1. /\ users' = users /\ profiles' = profiles /\ links' = links /\ job' = job
      /\ stale' = stale /\ blind' = blind /\ calm' = calm /\ pjob' = pjob /\ pblind' = pblind
      /\ raced' = raced
  BY DEF vars, pjobVars
<1>2. LinkInv'
  BY <1>1 DEF SiteInv, LinkInv, TypeOK, LinkJobsComplete
<1>3. ProfileInv'
  BY <1>1, SameProfiles DEF SiteInv, ProfileInv, ProfileTypeOK, ProfileJobsComplete
<1>4. \A p : Pending(p)' = Pending(p)
  BY <1>1 DEF Pending, JobsAt
<1>5. Admitted(WatchedUser)' = Admitted(WatchedUser)
  BY <1>1 DEF Admitted
<1> QED
  BY <1>1, <1>2, <1>3, <1>4, <1>5, TablesStay

LEMMA SiteStep ==
  ASSUME SiteInv, [Next]_vars
  PROVE  StepDone
<1>1. CASE EditLinks
  BY <1>1, EditLinksStep DEF EditLinks
<1>2. CASE EditProfiles
  BY <1>2, EditProfilesStep DEF EditProfiles
<1>3. CASE \E a \in users, u \in users : DeleteUser(a, u)
  BY <1>3, DeleteUserStep
<1> QED
  BY <1>1, <1>2, <1>3, SiteCrashStep, SiteStutter DEF Next

LEMMA SiteInitial ==
  ASSUME Init
  PROVE  /\ SiteInv
         /\ \A p \in ProfileIds : Q(p)!Init /\ BoundOf(p)
         /\ Abstract!Init
<1>1. LinkInit /\ ProfileInit /\ users = Users
  BY DEF Init
<1>2. LinkInv /\ ProfileInv /\ Abstract!Init /\ \A p \in ProfileIds : Q(p)!Init
  BY <1>1, LinkInitTypes, ProfileInitStep, InitIsQuotaInit
<1> QED
  BY <1>1, <1>2, InitBound DEF SiteInv

----------------------------------------------------------------------------
LEMMA AlwaysSiteInv == Spec => []SiteInv
<1>1. Init => SiteInv
  BY SiteInitial
<1>2. SiteInv /\ [Next]_vars => SiteInv'
  BY SiteStep DEF StepDone
<1> QED
  BY <1>1, <1>2, PTL DEF Spec

\* A slug that was found free is refused only after it was taken, while users are
\* deleted and links are edited beside the creations.
THEOREM FreeSlugsHoldOnTheSite == Spec => []FreeSlugHolds
<1>1. Init => FreeSlugHolds
  BY NoCreationIsFree DEF Init, ProfileInit
<1>2. SiteInv /\ FreeSlugHolds /\ [Next]_vars => FreeSlugHolds'
  <2> SUFFICES ASSUME SiteInv, FreeSlugHolds, [Next]_vars PROVE FreeSlugHolds'
    OBVIOUS
  <2>1. CASE EditProfiles
    BY <2>1, ProfileStepKeepsFree DEF EditProfiles, SiteInv
  <2>2. CASE Crash
    <3>1. \A q \in ProfileRequests : pjob'[q] = IdleProfileJob
      BY <2>2 DEF Crash
    <3> QED
      BY <3>1, IdleProfileIsJob DEF FreeSlugHolds, PAt
  <2>3. ASSUME profiles' = profiles, pjob' = pjob, raced' = raced PROVE FreeSlugHolds'
    BY <2>3 DEF FreeSlugHolds, PAt, SlugInsertable, ProfileExists
  <2>4. CASE EditLinks
    BY <2>3, <2>4, LinkStepKeepsOwners DEF EditLinks, pjobVars
  <2> QED
    BY <2>1, <2>2, <2>3, <2>4 DEF Next, DeleteUser, vars, pjobVars
<1> QED
  BY <1>1, <1>2, AlwaysSiteInv, PTL DEF Spec

\* The check of max_links_per_profile keeps its contract while profiles and
\* users are deleted between its count and its INSERT.
THEOREM LinkQuotaOnTheSite == Spec => LinkQuotaImplemented
<1>1. Init => LinkQuota!Init
  BY SiteInitial, LinkAssumption, TablesAssumption DEF Q!Init, LinkQuota!Init, Pending
<1>2. SiteInv /\ [Next]_vars => LinkQuota!Next
  BY SiteStep, WatchedLimit, LinkAssumption, TablesAssumption DEF StepDone
<1>3. Spec => LinkQuota!Spec
  BY <1>1, <1>2, AlwaysSiteInv, PTL DEF Spec, LinkQuota!Spec
<1> QED
  BY <1>3 DEF LinkQuotaImplemented

\* So does the check of max_profiles_per_user.
THEOREM ProfileQuotaOnTheSite == Spec => ProfileQuotaImplemented
<1>1. Init => ProfileQuota!Init
  BY SiteInitial DEF Abstract!Init, ProfileQuota!Init
<1>2. SiteInv /\ [Next]_vars => ProfileQuota!Next
  BY SiteStep, WatchedUserLimit DEF StepDone
<1>3. Spec => ProfileQuota!Spec
  BY <1>1, <1>2, AlwaysSiteInv, PTL DEF Spec, ProfileQuota!Spec
<1> QED
  BY <1>3 DEF ProfileQuotaImplemented

\* Both limits are overshot by no more than the creations that overlap and those
\* whose COUNT failed, whatever is deleted beside them.
THEOREM LimitsOnTheSite ==
  Spec => [](LinkLimitOvershootBounded /\ ProfileLimitOvershootBounded)
<1> DEFINE Bounds == \A p \in ProfileIds : BoundOf(p)
<1>1. Init => Bounds
  BY SiteInitial
<1>2. SiteInv /\ SiteInv' /\ Bounds /\ [Next]_vars => Bounds'
  <2> SUFFICES ASSUME SiteInv, SiteInv', Bounds, [Next]_vars, NEW p \in ProfileIds
               PROVE  BoundOf(p)'
    OBVIOUS
  <2> QED
    BY SiteStep, QuotaStepKeepsBound DEF StepDone, SiteInv
<1>3. Bounds => LinkLimitOvershootBounded
  BY DEF BoundOf, LinkLimitOvershootBounded, Pending
<1>4. Init => Abstract!Init
  BY SiteInitial
<1>5. SiteInv /\ [Next]_vars => Abstract!Next
  BY SiteStep DEF StepDone
<1>6. Spec => Abstract!Spec
  BY <1>4, <1>5, AlwaysSiteInv, PTL DEF Spec, Abstract!Spec
<1> QED
  BY <1>1, <1>2, <1>3, <1>6, AbstractBound, AlwaysSiteInv, PTL DEF Spec

----------------------------------------------------------------------------
(***************************************************************************)
(* What the requests know of the links holds beside deleted profiles and   *)
(* deleted users too.                                                      *)
(***************************************************************************)
LEMMA SiteKeepsOrder ==
  ASSUME SiteInv, OrderInv, [Next]_vars
  PROVE  OrderInv'
<1>1. LinkInv'
  BY SiteStep DEF StepDone, SiteInv
<1>2. CASE EditLinks
  BY <1>1, <1>2, LinkStepKeepsOrder DEF EditLinks
<1>3. CASE EditProfiles
  <2>1. links' = links /\ job' = job /\ stale' = stale /\ calm' = calm
    BY <1>3, ProfileStepKeepsOthers DEF EditProfiles, jobVars
  <2> QED
    BY <1>1, <2>1, StutterKeepsOrder
<1>4. ASSUME NEW a, NEW u, DeleteUser(a, u) PROVE OrderInv'
  <2>1. links' = links /\ job' = job /\ stale' = stale /\ calm' = calm
    BY <1>4 DEF DeleteUser, jobVars
  <2> QED
    BY <1>1, <2>1, StutterKeepsOrder
<1>5. CASE Crash
  <2>1. /\ job' = [r \in Requests |-> Idle] /\ links' = links
        /\ calm' => calm /\ \A r \in Requests : job[r].pc # "reorder"
    BY <1>5 DEF Crash
  <2> QED
    BY <1>1, <2>1, CrashKeepsOrder
<1>6. CASE UNCHANGED vars
  <2>1. links' = links /\ job' = job /\ stale' = stale /\ calm' = calm
    BY <1>6 DEF vars
  <2> QED
    BY <1>1, <2>1, StutterKeepsOrder
<1> QED
  BY <1>2, <1>3, <1>4, <1>5, <1>6 DEF Next

LEMMA AlwaysSiteOrder == Spec => []OrderInv
<1>1. Init => OrderInv
  BY InitOrder DEF Init
<1>2. SiteInv /\ OrderInv /\ [Next]_vars => OrderInv'
  BY SiteKeepsOrder
<1> QED
  BY <1>1, <1>2, AlwaysSiteInv, PTL DEF Spec

\* DeleteProfile and DeleteUser take the profile away under the loops that number
\* its links; still no two links of it share a position while all is calm.
THEOREM PositionsOnTheSite == Spec => []PositionsDistinctWhenCalm
  BY OrderIsDistinct, AlwaysSiteOrder, PTL

\* A renumbering that outlives its profile ends without a gap too.
THEOREM RenumberingOnTheSite == Spec => RenumberIsDense
<1>1. OrderInv /\ [Next]_vars => [\A r \in Requests : TurnIsDense(r)]_linkVars
  BY OrderedTurn
<1>2. Spec => [][\A r \in Requests : TurnIsDense(r)]_linkVars
  BY <1>1, AlwaysSiteOrder, PTL DEF Spec
<1> QED
  BY <1>2 DEF RenumberIsDense, TurnIsDense

\* A toggle or an update loses no change on the site either, whether or not the
\* profile is still there when it writes.
THEOREM UpdatesOnTheSite == Spec => NoLostUpdateWhenFresh
<1>1. OrderInv /\ [Next]_vars
        => [\A r \in Requests : \A l \in LinkIds : CopyIsFresh(r, l)]_linkVars
  BY FreshCopy
<1>2. Spec => [][\A r \in Requests : \A l \in LinkIds : CopyIsFresh(r, l)]_linkVars
  BY <1>1, AlwaysSiteOrder, PTL DEF Spec
<1> QED
  BY <1>2 DEF NoLostUpdateWhenFresh, CopyIsFresh

----------------------------------------------------------------------------
(***************************************************************************)
(* Which links a deleted profile can still get or lose.                    *)
(***************************************************************************)

\* A request about the watched profile is in flight, and counted as late once the
\* profile is gone.
LateKnown ==
  \A r \in Requests :
    job[r].profile = Watched =>
      job[r].pc # "idle" /\ (profiles[Watched] = Deleted => r \in late)

LEMMA IdleKnowsNoProfile == Idle.pc = "idle" /\ Idle.profile # Watched
  BY LinkAssumption DEF Idle

\* A request ends, goes on with its profile, or begins with one that exists.
LEMMA NextJob ==
  ASSUME LinkInv, NEW r \in Requests, LinkStep(r)
  PROVE  /\ \A q \in Requests \ {r} : job'[q] = job[q]
         /\ \/ job'[r] = Idle
            \/ /\ job'[r].pc # "idle" /\ job[r].pc # "idle"
               /\ job'[r].profile = job[r].profile
            \/ job'[r].pc # "idle" /\ ProfileExists(job'[r].profile)
<1>1. ASSUME Finish(r)
      PROVE  job'[r] = Idle /\ \A q \in Requests \ {r} : job'[q] = job[q]
  BY <1>1, JobAfterFinish
<1>2. ASSUME NEW pc \in Steps \ {"idle"}, NEW ids, NEW pos, GoOn(r, pc, ids, pos)
      PROVE  /\ \A q \in Requests \ {r} : job'[q] = job[q]
             /\ job'[r].pc # "idle" /\ job'[r].profile = job[r].profile
  BY <1>2, JobAfterGoOn
<1>3. ASSUME NEW pc \in Steps \ {"idle"}, NEW p, ProfileExists(p), NEW ids, NEW active,
             Receive(r, pc, p, ids, active)
      PROVE  /\ \A q \in Requests \ {r} : job'[q] = job[q]
             /\ job'[r].pc # "idle" /\ ProfileExists(job'[r].profile)
  BY <1>3, JobAfterReceive
<1>4. CASE NextId(r) /\ job[r].pc \in {"renumber", "reorder"}
  BY <1>1, <1>2, <1>4 DEF NextId, Steps
<1>5. CASE \E u \in Users, p \in ProfileIds : ReceiveCreate(r, u, p)
  BY <1>3, <1>5 DEF ReceiveCreate, userOwnsProfile, Steps
<1>6. CASE \E u \in Users, l \in LinkIds :
             \/ ReceiveToggle(r, u, l) \/ ReceiveUpdate(r, u, l)
             \/ \E asked \in BOOLEAN : ReceiveSet(r, u, l, asked)
             \/ ReceiveDelete(r, u, l)
  BY <1>3, <1>6 DEF ReceiveToggle, ReceiveUpdate, ReceiveSet, ReceiveDelete, OwnedLink,
                    userOwnsProfile, Steps
<1>7. CASE \E u \in Users, ids \in LinkIdLists : ReceiveReorder(r, u, ids)
  BY <1>3, <1>7 DEF ReceiveReorder, OwnedLink, userOwnsProfile, Steps
<1>8. CASE CountLinks(r) \/ CountLinksFails(r) \/ ReadNextPosition(r)
           \/ ReadNextPositionFails(r) \/ DeleteLinkRow(r) \/ SelectForRenumber(r)
  <2>1. job[r].pc # "idle"
    BY <1>8 DEF CountLinks, CountLinksFails, ReadNextPosition, ReadNextPositionFails,
                DeleteLinkRow, SelectForRenumber, At
  <2>2. Finish(r) \/ \E pc \in Steps \ {"idle"} : \E ids, pos : GoOn(r, pc, ids, pos)
    BY <1>8 DEF CountLinks, CountLinksFails, ReadNextPosition, ReadNextPositionFails,
                DeleteLinkRow, SelectForRenumber, Steps
  <2> QED
    BY <1>1, <1>2, <2>1, <2>2
<1>9. CASE \/ \E l \in LinkIds : InsertLink(r, l)
           \/ CreateRefused(r) \/ WriteCopy(r) \/ CopyRefused(r) \/ DeleteRefused(r)
           \/ SelectFails(r) \/ ReorderRefused(r)
  BY <1>1, <1>9 DEF InsertLink, CreateRefused, WriteCopy, CopyRefused, DeleteRefused,
                    SelectFails, ReorderRefused
<1>10. CASE Renumber(r) \/ RenumberFails(r) \/ WriteReorder(r)
  BY <1>4, <1>10 DEF Renumber, RenumberFails, WriteReorder, At
<1> QED
  BY <1>5, <1>6, <1>7, <1>8, <1>9, <1>10 DEF LinkStep

LEMMA SiteKeepsLate ==
  ASSUME SiteInv, LateKnown, [Next]_vars
  PROVE  LateKnown'
<1> SUFFICES ASSUME NEW q \in Requests, job'[q].profile = Watched
             PROVE  job'[q].pc # "idle" /\ (profiles'[Watched] = Deleted => q \in late')
  BY DEF LateKnown
<1>1. CASE EditLinks
  <2>1. PICK r \in Requests : LinkStep(r)
    BY <1>1 DEF EditLinks
  <2>2. profiles' = profiles /\ late' = {x \in late : job'[x].pc # "idle"}
    BY <1>1, <2>1, LinkStepKeepsOwners DEF EditLinks
  <2>3. ProfileExists(Watched) => profiles[Watched] # Deleted
    BY DEF ProfileExists, NoRow
  <2>4. CASE q # r
    <3>1. job'[q] = job[q]
      BY <2>1, <2>4, NextJob DEF SiteInv
    <3> QED
      BY <2>2, <3>1 DEF LateKnown
  <2>5. CASE q = r
    <3>1. \/ job'[q].pc # "idle" /\ job[q].profile = Watched
          \/ job'[q].pc # "idle" /\ ProfileExists(Watched)
      BY <2>1, <2>5, NextJob, IdleKnowsNoProfile DEF SiteInv
    <3> QED
      BY <2>2, <2>3, <3>1 DEF LateKnown
  <2> QED
    BY <2>4, <2>5
<1>2. CASE EditProfiles
  <2>1. /\ job' = job
        /\ late' = IF profiles[Watched] # Deleted /\ profiles'[Watched] = Deleted
                   THEN {r \in Requests : job[r].profile = Watched} ELSE late
    BY <1>2 DEF EditProfiles, jobVars
  <2> QED
    BY <2>1 DEF LateKnown
<1>3. CASE Crash
  <2>1. job'[q] = Idle
    BY <1>3 DEF Crash
  <2> QED
    BY <2>1, IdleKnowsNoProfile
<1>4. CASE job' = job /\ profiles' = profiles /\ late' = late
  BY <1>4 DEF LateKnown
<1> QED
  BY <1>1, <1>2, <1>3, <1>4 DEF Next, DeleteUser, jobVars, vars

\* What DeletedProfileIsClosed says of one step.
NothingGained ==
  (profiles[Watched] = Deleted /\ late = {}) =>
    /\ LinksOf(Watched)' = LinksOf(Watched)
    /\ \A l \in LinksOf(Watched) : links'[l].active = links[l].active

\* A request about another profile leaves the links of the watched one.
LEMMA OthersLeaveLinks ==
  ASSUME OrderInv, NEW r \in Requests, LinkStep(r), job[r].profile # Watched
  PROVE  /\ LinksOf(Watched)' = LinksOf(Watched)
         /\ \A l \in LinksOf(Watched) : links'[l].active = links[l].active
<1>0. LinkInv /\ links \in [LinkIds -> LinkRow \cup NoRow]
  BY DEF OrderInv, LinkInv, TypeOK
<1>1. CASE links' = links
  BY <1>1, QuietLinks
<1>2. ASSUME NEW l \in LinkIds, InsertLink(r, l)
      PROVE  /\ LinksOf(Watched)' = LinksOf(Watched)
             /\ \A k \in LinksOf(Watched) : links'[k].active = links[k].active
  <2>1. PICK row : row.profile # Watched /\ links' = [links EXCEPT ![l] = row]
    <3>1. PICK row : row = [profile |-> job[r].profile, position |-> job[r].pos, active |-> TRUE]
      OBVIOUS
    <3>2. row.profile # Watched
      BY <3>1
    <3> QED
      BY <1>2, <3>1, <3>2 DEF InsertLink
  <2>2. l \notin LinksOf(Watched)
    BY <1>2 DEF InsertLink, LinksOf, LinkExists, NoRow
  <2>3. \A k \in LinkIds : links'[k] = IF k = l THEN row ELSE links[k]
    BY <1>0, <2>1
  <2> QED
    BY <2>1, <2>2, <2>3 DEF LinksOf, LinkExists
<1>3. CASE WriteCopy(r) \/ DeleteLinkRow(r)
  <2>1. PICK l \in LinkIds :
          job[r].ids = <<l>> /\ (LinkExists(l) => links[l].profile = job[r].profile)
    BY <1>3 DEF OrderInv, HasLink, WriteCopy, DeleteLinkRow, At
  <2>2. Head(job[r].ids) = l /\ l \notin LinksOf(Watched)
    <3>1. Head(job[r].ids) = l
      BY <2>1
    <3>2. l \notin LinksOf(Watched)
      BY <2>1 DEF LinksOf
    <3> QED
      BY <3>1, <3>2
  <2>3. CASE ~LinkExists(l)
    <3>1. links' = links
      BY <1>0, <1>3, <2>2, <2>3 DEF WriteCopy, DeleteLinkRow
    <3> QED
      BY <3>1, QuietLinks
  <2>4. CASE LinkExists(l)
    <3>1. PICK row : /\ links' = [links EXCEPT ![l] = row]
                     /\ row = Deleted \/ row.profile = links[l].profile
      <4>1. CASE DeleteLinkRow(r)
        BY <2>2, <2>4, <4>1 DEF DeleteLinkRow
      <4>2. CASE WriteCopy(r)
        <5>1. PICK row : row = [links[l] EXCEPT !.active = job[r].active]
          OBVIOUS
        <5>2. links[l] \in LinkRow
          BY <1>0, <2>4 DEF LinkExists
        <5>3. row.profile = links[l].profile
          BY <5>1, <5>2 DEF LinkRow
        <5>4. links' = [links EXCEPT ![l] = row]
          BY <2>2, <2>4, <4>2, <5>1, Zenon DEF WriteCopy
        <5> QED
          BY <5>3, <5>4
      <4> QED
        BY <1>3, <4>1, <4>2
    <3>2. \A k \in LinkIds : links'[k] = IF k = l THEN row ELSE links[k]
      BY <1>0, <3>1
    <3>3. links[l].profile # Watched
      BY <2>2, <2>4 DEF LinksOf
    <3> QED
      BY <2>2, <3>1, <3>2, <3>3 DEF LinksOf, LinkExists, NoRow
  <2> QED
    BY <2>3, <2>4
<1>4. CASE Renumber(r) \/ WriteReorder(r)
  <2>1. job[r].pc \in {"renumber", "reorder"} /\ MoveLink(r)
    BY <1>4 DEF Renumber, WriteReorder, At
  <2>2. (\A j : FlagKept(j)) /\ LinksOf(Watched)' = LinksOf(Watched)
    BY <1>0, <2>1, MoveEffect
  <2>3. ASSUME NEW l \in LinksOf(Watched) PROVE links'[l].active = links[l].active
    <3>1. PICK j : j = [ids |-> <<l>>]
      OBVIOUS
    <3>2. j.ids = <<l>> /\ FlagKept(j)
      BY <2>2, <3>1
    <3>3. l \in LinkIds /\ links[l] # Unused /\ LinkExists(l)'
      BY <2>2 DEF LinksOf, LinkExists, NoRow
    <3> QED
      BY <3>2, <3>3 DEF FlagKept
  <2> QED
    BY <2>2, <2>3
<1>5. CASE ~\/ \E l \in LinkIds : InsertLink(r, l)
            \/ WriteCopy(r) \/ DeleteLinkRow(r) \/ Renumber(r) \/ WriteReorder(r)
  <2>1. links' = links
    BY <1>5 DEF LinkStep, ReceiveCreate, CountLinks, CountLinksFails,
         ReadNextPosition, ReadNextPositionFails, CreateRefused, ReceiveToggle,
         ReceiveUpdate, ReceiveSet, ReceiveDelete, CopyRefused, DeleteRefused,
         SelectForRenumber, SelectFails, RenumberFails, ReceiveReorder,
         ReorderRefused
  <2> QED
    BY <1>1, <2>1
<1> QED
  BY <1>2, <1>3, <1>4, <1>5

LEMMA StepGainsNothing ==
  ASSUME OrderInv, LateKnown, [Next]_vars
  PROVE  NothingGained
<1>1. CASE links' = links
  BY <1>1, QuietLinks DEF NothingGained
<1>2. CASE EditLinks
  <2> SUFFICES ASSUME profiles[Watched] = Deleted, late = {} PROVE NothingGained
    BY DEF NothingGained
  <2>1. PICK r \in Requests : LinkStep(r)
    BY <1>2 DEF EditLinks
  <2>2. job[r].profile # Watched
    BY DEF LateKnown
  <2> QED
    BY <2>1, <2>2, OthersLeaveLinks DEF NothingGained
<1>3. CASE EditProfiles
  BY <1>1, <1>3, ProfileStepKeepsOthers DEF EditProfiles
<1> QED
  BY <1>1, <1>2, <1>3 DEF Next, DeleteUser, Crash, vars

\* Once the requests that were in flight when a profile was deleted are over, its
\* links are neither added to nor switched nor deleted, for any number of users
\* and requests.
THEOREM DeletedProfilesAreClosed == Spec => DeletedProfileIsClosed
<1>1. Init => LateKnown
  <2> SUFFICES ASSUME Init PROVE LateKnown
    OBVIOUS
  <2>1. \A r \in Requests : job[r] = Idle
    BY DEF Init, LinkInit
  <2> QED
    BY <2>1, IdleKnowsNoProfile DEF LateKnown
<1>2. SiteInv /\ LateKnown /\ [Next]_vars => LateKnown'
  BY SiteKeepsLate
<1>3. OrderInv /\ LateKnown /\ [Next]_vars => [NothingGained]_vars
  BY StepGainsNothing
<1>4. Spec => [][NothingGained]_vars
  BY <1>1, <1>2, <1>3, AlwaysSiteInv, AlwaysSiteOrder, PTL DEF Spec
<1> QED
  BY <1>4 DEF DeletedProfileIsClosed, NothingGained
=============================================================================
