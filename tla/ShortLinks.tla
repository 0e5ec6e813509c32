----------------------------- MODULE ShortLinks -----------------------------
(***************************************************************************)
(* Short links: POST, DELETE and GET /api/v1/shortlinks, the redirect      *)
(* /s/{code} (src/src/server/handler/shortlink.go) and the scheduled       *)
(* removal of the expired ones (src/src/scheduler/tasks.go).               *)
(***************************************************************************)
EXTENDS Serving

CONSTANTS
  ShortIds,   \* ids of rows; random, never used twice
  Codes,      \* short codes
  Never       \* the expiry of a link that has none

ASSUME ShortLinksAssumption == IsFiniteSet(ShortIds) /\ Never \notin Nat

VARIABLES
  shortlinks,  \* the rows of the table
  unusedIds,
  followed     \* ghost: how many visitors each row has sent on

shortVars == <<shortlinks, unusedIds, followed>>

ShortRow == [id : ShortIds, code : Codes, owner : Users,
             expires : Nat \cup {Never}, clicks : Nat]

ShortInit ==
  /\ \E id \in ShortIds, c \in Codes, u \in Users, e \in {0, Never} :
       /\ shortlinks = {[id |-> id, code |-> c, owner |-> u, expires |-> e, clicks |-> 0]}
       /\ unusedIds = ShortIds \ {id}
  /\ followed = [id \in ShortIds |-> 0]

\* GetShortlinkByCode: no row or one, because short_code is UNIQUE.
ByCode(c) == {s \in shortlinks : s.code = c}

\* "time.Now().After(*shortlink.ExpiresAt)"
Expired(s) == s.expires # Never /\ now > s.expires

----------------------------------------------------------------------------
(***************************************************************************)
(* HandleCreateShortlink                                                   *)
(***************************************************************************)

\* Six random characters, which nothing compares with those in use.
generateShortCode == Codes

\* The user's own code is looked up first (a lookup that fails reads as "free").
\* The user's id is stored as profile_id, and nothing enforces that it refers to
\* a profile.  "hours" counts in the unit of "now".
HandleCreateShortlink(r, u, c, hours, own) ==
  /\ IF own THEN ByCode(c) = {} ELSE c \in generateShortCode
  /\ Receive(r, [pc |-> "create", user |-> u, code |-> c, hours |-> hours])
  /\ UNCHANGED shortVars

LookupFails(r, u, c, hours) ==
  /\ Fails
  /\ Arrive(r, [pc |-> "create", user |-> u, code |-> c, hours |-> hours])
  /\ UNCHANGED shortVars

\* short_code is UNIQUE.
CodeFree(c) == ByCode(c) = {}

CreateShortlink(r, id) ==
  /\ At(r, "create")
  /\ id \in unusedIds
  /\ CodeFree(job[r].code)
  /\ shortlinks' = shortlinks \cup
       {[id |-> id, code |-> job[r].code, owner |-> job[r].user, clicks |-> 0,
         expires |-> IF job[r].hours = 0 THEN Never ELSE now + job[r].hours]}
  /\ unusedIds' = unusedIds \ {id}
  /\ Finish(r) /\ Works
  /\ UNCHANGED followed

CreateShortlinkFails(r) ==
  /\ At(r, "create")
  /\ (Works /\ ~CodeFree(job[r].code)) \/ Fails
  /\ Finish(r)
  /\ UNCHANGED shortVars

----------------------------------------------------------------------------
(***************************************************************************)
(* HandleRedirectShortlink                                                 *)
(***************************************************************************)
HandleRedirectShortlink(r, s) ==
  /\ s \in shortlinks
  /\ ~Expired(s)
  /\ Receive(r, [pc |-> "follow", id |-> s.id, code |-> s.code])
  /\ followed' = [followed EXCEPT ![s.id] = @ + 1]
  /\ UNCHANGED <<shortlinks, unusedIds>>

\* Mutant: the click is counted for whatever row has the code now.
ClickedByCode(j) == ByCode(j.code)

\* The row that was read, if it is still there.
ClickedRow(j) == {s \in shortlinks : s.id = j.id}

\* Then the visitor is sent on, counted or not.
IncrementShortlinkClickCount(r) ==
  /\ At(r, "follow")
  /\ shortlinks' = {IF s \in ClickedRow(job[r]) THEN [s EXCEPT !.clicks = @ + 1] ELSE s :
                      s \in shortlinks}
  /\ Finish(r) /\ Works
  /\ UNCHANGED <<unusedIds, followed>>

IncrementShortlinkFails(r) ==
  /\ At(r, "follow")
  /\ Finish(r) /\ Fails
  /\ UNCHANGED shortVars

----------------------------------------------------------------------------
(***************************************************************************)
(* HandleDeleteShortlink, and the task database_cleanup                    *)
(***************************************************************************)
HandleDeleteShortlink(r, u, s) ==
  /\ s \in shortlinks
  /\ s.owner = u
  /\ Receive(r, [pc |-> "unlink", user |-> u, id |-> s.id, code |-> s.code])
  /\ UNCHANGED shortVars

\* Mutant: the row is deleted by its code.
DeletedByCode(j) == ByCode(j.code)

DeletedRow(j) == {s \in shortlinks : s.id = j.id}

DeleteShortlink(r) ==
  /\ At(r, "unlink")
  /\ (Works /\ shortlinks' = shortlinks \ DeletedRow(job[r])) \/ (Fails /\ UNCHANGED shortlinks)
  /\ Finish(r)
  /\ UNCHANGED <<unusedIds, followed>>

\* Once a day.  A failure is only logged.
DeleteExpiredShortlinks ==
  /\ \E s \in shortlinks : Expired(s)
  /\ shortlinks' = {s \in shortlinks : ~Expired(s)}
  /\ Works
  /\ UNCHANGED <<job, served, now, unusedIds, followed>>

\* GET /api/v1/shortlinks and GET /api/v1/shortlinks/{code} change nothing; the
\* second reads the code from the query, finds none and answers 400.
ReadShortlinks(r) == At(r, "idle") /\ UNCHANGED <<job, served, now, failures, shortVars>>

ShortStep(r) ==
  \/ \E u \in Users, c \in Codes, hours \in {0, 1} :
       \/ \E own \in BOOLEAN : HandleCreateShortlink(r, u, c, hours, own)
       \/ LookupFails(r, u, c, hours)
  \/ \E id \in ShortIds : CreateShortlink(r, id)
  \/ CreateShortlinkFails(r)
  \/ \E s \in shortlinks : HandleRedirectShortlink(r, s)
  \/ IncrementShortlinkClickCount(r)
  \/ IncrementShortlinkFails(r)
  \/ \E u \in Users, s \in shortlinks : HandleDeleteShortlink(r, u, s)
  \/ DeleteShortlink(r)
  \/ ReadShortlinks(r)

----------------------------------------------------------------------------
\* A short link goes when it has expired or when its own owner deletes it;
\* never when an earlier link of the same code is deleted a second time.
OnlyOwnersDelete ==
  [][\A s \in shortlinks :
       (\A t \in shortlinks' : t.id # s.id) =>
         Expired(s) \/ \E r \in Requests : At(r, "unlink") /\ job[r].id = s.id
                                             /\ job[r].user = s.owner]_shortlinks

\* The clicks of a link are the visitors it sent on, but for those being sent
\* and those whose statement failed; never those of another link.
ClicksAreFollowers ==
  \A s \in shortlinks :
    LET following == {r \in Requests : At(r, "follow") /\ job[r].id = s.id}
    IN /\ s.clicks + Cardinality(following) <= followed[s.id]
       /\ followed[s.id] <= s.clicks + Cardinality(following) + failures
============================================================================
