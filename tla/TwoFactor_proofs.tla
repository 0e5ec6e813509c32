-------------------------- MODULE TwoFactor_proofs --------------------------
(***************************************************************************)
(* 2FA and its backup codes come apart only in the ways that are named, a  *)
(* code is accepted no more often than there are requests, and the answers *)
(* to enabling and disabling hold: for any number of requests, setups and  *)
(* codes, and however many statements fail.                                *)
(***************************************************************************)
EXTENDS TwoFactor, FiniteSetTheorems, TLAPS

\* The requests whose batch is not stored yet.
Making == {r \in Requests : job[r].pc \in {"enable", "store", "regenerate"}}

\* The batches that no request can have seen: not generated, or not stored.
Untouched == fresh \cup {job[r].batch : r \in Making}

\* The requests that matched code x and have not marked it yet.
Matched(x) == {r \in Requests : job[r].pc = "mark" /\ <<job[r].batch, job[r].code>> = x}

\* A request that makes or matches codes has a batch.
JobsComplete ==
  \A r \in Requests : job[r].pc \in {"enable", "store", "regenerate", "mark"}
                        => job[r].batch \in Batches

\* Each setup is made by one request, and until it is stored its codes are
\* neither rows nor accepted nor matched.
BatchesInv ==
  /\ \A r \in Making : job[r].batch \notin fresh
  /\ \A r, q \in Making : job[r].batch = job[q].batch => r = q
  /\ \A x \in Batches \X Codes :
       x[1] \in Untouched => x \notin rows /\ uses[x] = 0 /\ Matched(x) = {}

\* An unmarked code was never accepted; a code that is accepted again was
\* matched before, and those matches are part of the sum.
UsesInv ==
  \A x \in Batches \X Codes :
    /\ x \in rows \ marked => uses[x] = 0
    /\ uses[x] + Cardinality(Matched(x)) <= Cardinality(Requests)

\* A request that no other has met is the only one to change 2FA, and the
\* secret is still what it wrote.
AloneInv ==
  \A r \in Changing \ overlapped :
    /\ Changing = {r}
    /\ job[r].pc = "store" => secret = job[r].batch
    /\ job[r].pc = "delete" => secret = NoBatch

TwoFactorInv ==
  TypeOK /\ JobsComplete /\ BatchesInv /\ UsesInv /\ AloneInv

\* As long as the secret and the codes have had no way to come apart, no change
\* under way has met another.
HalvesInv ==
  /\ apart \in BOOLEAN
  /\ ~apart => Changing \cap overlapped = {}
  /\ CodesGoWithSecret

----------------------------------------------------------------------------
LEMMA IdleIsJob == Idle \in Job /\ Idle.pc = "idle" /\ Idle.code \in Codes
  BY TwoFactorAssumption DEF Idle, Job

\* A new job of one request, of the right type and complete.
LEMMA NewJob ==
  ASSUME TypeOK, JobsComplete, NEW r \in Requests, NEW j \in Job,
         j.pc \in {"enable", "store", "regenerate", "mark"} => j.batch \in Batches,
         job' = [job EXCEPT ![r] = j]
  PROVE  /\ job' \in [Requests -> Job] /\ JobsComplete'
         /\ \A q \in Requests : job'[q] = IF q = r THEN j ELSE job[q]
<1>1. job \in [Requests -> Job]
  BY DEF TypeOK
<1>2. job' \in [Requests -> Job] /\ \A q \in Requests : job'[q] = IF q = r THEN j ELSE job[q]
  BY <1>1
<1> QED
  BY <1>2 DEF JobsComplete

\* A job that goes on with its batch.
LEMMA NextStep ==
  ASSUME TypeOK, NEW r \in Requests, NEW pc \in {"store", "delete"},
         job' = [job EXCEPT ![r].pc = pc]
  PROVE  \E j \in Job : /\ j.pc = pc /\ j.batch = job[r].batch
                        /\ job' = [job EXCEPT ![r] = j]
<1> DEFINE j == [job[r] EXCEPT !.pc = pc]
<1>1. job[r] \in Job
  BY DEF TypeOK
<1>2. j \in Job /\ j.pc = pc /\ j.batch = job[r].batch
  BY <1>1 DEF Job
<1>3. job' = [job EXCEPT ![r] = j]
  BY Zenon
<1> QED
  BY <1>2, <1>3

\* What matched a code, before and after one request gets a new job.
LEMMA MatchedAfter ==
  ASSUME NEW r \in Requests, NEW j, NEW x,
         \A q \in Requests : job'[q] = IF q = r THEN j ELSE job[q]
  PROVE  Matched(x)' = IF j.pc = "mark" /\ <<j.batch, j.code>> = x
                       THEN Matched(x) \cup {r} ELSE Matched(x) \ {r}
  BY DEF Matched

LEMMA MatchedFinite ==
  ASSUME NEW x
  PROVE  /\ IsFiniteSet(Matched(x)) /\ Cardinality(Matched(x)) \in Nat
         /\ Cardinality(Matched(x)) <= Cardinality(Requests)
         /\ Cardinality(Requests) \in Nat
<1>1. Matched(x) \subseteq Requests
  BY DEF Matched
<1> QED
  BY <1>1, FS_Subset, FS_CardinalityType, TwoFactorAssumption

\* Matches that end leave the bound as it is.
LEMMA FewerMatches ==
  ASSUME UsesInv, uses' = uses, TypeOK, NEW x \in Batches \X Codes,
         Matched(x)' \subseteq Matched(x)
  PROVE  uses'[x] + Cardinality(Matched(x)') <= Cardinality(Requests)
<1>1. /\ Cardinality(Matched(x)') \in Nat
      /\ Cardinality(Matched(x)') <= Cardinality(Matched(x))
  BY MatchedFinite, FS_Subset, FS_CardinalityType
<1>2. uses[x] \in Nat /\ uses[x] + Cardinality(Matched(x)) <= Cardinality(Requests)
  BY DEF TypeOK, UsesInv
<1> QED
  BY <1>1, <1>2, MatchedFinite

----------------------------------------------------------------------------
\* Starting a change of 2FA: two that overlap know of each other.
LEMMA StartKeepsAlone ==
  ASSUME TwoFactorInv, NEW r \in Requests, NEW pc \in {"enable", "regenerate", "disable"},
         NEW b, Start(r, pc, b), \A q \in Requests : job'[q].pc = IF q = r THEN pc ELSE job[q].pc
  PROVE  AloneInv'
<1>1. Changing' = Changing \cup {r}
  BY DEF Changing
<1>2. CASE Changing = {}
  BY <1>1, <1>2 DEF AloneInv
<1>3. CASE Changing # {}
  BY <1>1, <1>3 DEF AloneInv, Start
<1> QED
  BY <1>2, <1>3

\* A change that goes on or ends, when what it leaves is right for itself.
LEMMA ChangeKeepsAlone ==
  ASSUME TwoFactorInv, NEW r \in Changing, NEW j, overlapped' = overlapped,
         \A q \in Requests : job'[q] = IF q = r THEN j ELSE job[q],
         j.pc # "mark",
         j.pc = "store" => secret' = j.batch, j.pc = "delete" => secret' = NoBatch
  PROVE  AloneInv'
<1> SUFFICES ASSUME NEW q \in Changing' \ overlapped
             PROVE  /\ Changing' = {q}
                    /\ job'[q].pc = "store" => secret' = job'[q].batch
                    /\ job'[q].pc = "delete" => secret' = NoBatch
  BY DEF AloneInv
<1>1. Changing' \subseteq Changing /\ r \in Requests
  BY DEF Changing
<1>2. Changing = {q} /\ q = r
  BY <1>1 DEF TwoFactorInv, AloneInv
<1> QED
  BY <1>1, <1>2

\* Requests about a code change nothing for those that change 2FA.
LEMMA OtherKeepsAlone ==
  ASSUME TwoFactorInv, NEW r \in Requests, NEW j, overlapped' = overlapped, secret' = secret,
         \A q \in Requests : job'[q] = IF q = r THEN j ELSE job[q],
         job[r].pc \in {"idle", "mark"}, j.pc \in {"idle", "mark"}
  PROVE  AloneInv'
<1>1. Changing' = Changing /\ \A q \in Changing : job'[q] = job[q]
  BY DEF Changing
<1> QED
  BY <1>1 DEF TwoFactorInv, AloneInv

----------------------------------------------------------------------------
\* A setup is generated for one request.
LEMMA GenerateKeeps ==
  ASSUME TwoFactorInv, NEW r \in Requests, NEW b \in Batches,
         ReceiveVerify(r, b) \/ ReceiveRegenerate(r, b)
  PROVE  TwoFactorInv'
<1> USE DEF TwoFactorInv
<1>0. PICK pc \in {"enable", "regenerate"} : Start(r, pc, b)
  BY DEF ReceiveVerify, ReceiveRegenerate
<1> DEFINE j == [pc |-> pc, batch |-> b, code |-> Idle.code]
<1>1. /\ b \in fresh /\ fresh' = fresh \ {b} /\ job[r].pc = "idle"
      /\ UNCHANGED <<secret, rows, marked, told, uses, failures>>
      /\ job' = [job EXCEPT ![r] = j]
  BY <1>0 DEF Start, ReceiveVerify, ReceiveRegenerate
<1>2. j \in Job /\ j.pc = pc /\ j.batch = b
  BY IdleIsJob DEF Job
<1> HIDE DEF j
<1>3. /\ job' \in [Requests -> Job] /\ JobsComplete'
      /\ \A q \in Requests : job'[q] = IF q = r THEN j ELSE job[q]
  BY <1>1, <1>2, NewJob
<1>4. TypeOK'
  <2>1. overlapped' \in SUBSET Requests
    BY <1>0 DEF Start, Changing, TypeOK
  <2> QED
    BY <1>1, <1>3, <2>1 DEF TypeOK
<1>6. \A x \in Batches \X Codes : Matched(x)' = Matched(x)
  <2>1. \A x \in Batches \X Codes : r \notin Matched(x)
    BY <1>1 DEF Matched
  <2> QED
    BY <1>2, <1>3, <2>1, MatchedAfter
<1>7. BatchesInv'
  <2>1. Making' = Making \cup {r} /\ Untouched' = Untouched
    BY <1>1, <1>2, <1>3 DEF Making, Untouched
  <2>2. \A q \in Making : job[q].batch # b /\ q # r /\ job'[q] = job[q]
    BY <1>1, <1>3 DEF BatchesInv, Making
  <2> QED
    BY <1>1, <1>2, <1>3, <1>6, <2>1, <2>2 DEF BatchesInv
<1>8. UsesInv'
  BY <1>1, <1>6 DEF UsesInv
<1>9. AloneInv'
  BY <1>0, <1>2, <1>3, StartKeepsAlone
<1> QED
  BY <1>3, <1>4, <1>7, <1>8, <1>9

\* So does starting to disable.
LEMMA ReceiveDisableKeeps ==
  ASSUME TwoFactorInv, NEW r \in Requests, ReceiveDisable(r)
  PROVE  TwoFactorInv'
<1> USE DEF TwoFactorInv
<1> DEFINE j == [pc |-> "disable", batch |-> NoBatch, code |-> Idle.code]
<1>1. /\ job[r].pc = "idle" /\ Start(r, "disable", NoBatch)
      /\ UNCHANGED <<secret, rows, marked, told, fresh, uses, failures>>
      /\ job' = [job EXCEPT ![r] = j]
  BY DEF Start, ReceiveDisable
<1>2. j \in Job /\ j.pc = "disable"
  BY IdleIsJob DEF Job
<1> HIDE DEF j
<1>3. /\ job' \in [Requests -> Job] /\ JobsComplete'
      /\ \A q \in Requests : job'[q] = IF q = r THEN j ELSE job[q]
  BY <1>1, <1>2, NewJob
<1>4. TypeOK'
  <2>1. overlapped' \in SUBSET Requests
    BY <1>1 DEF Start, Changing, TypeOK
  <2> QED
    BY <1>1, <1>3, <2>1 DEF TypeOK
<1>6. \A x \in Batches \X Codes : Matched(x)' = Matched(x)
  <2>1. \A x \in Batches \X Codes : r \notin Matched(x)
    BY <1>1 DEF Matched
  <2> QED
    BY <1>2, <1>3, <2>1, MatchedAfter
<1>7. BatchesInv'
  <2>1. Making' = Making /\ \A q \in Making : job'[q] = job[q]
    BY <1>1, <1>2, <1>3 DEF Making
  <2> QED
    BY <1>1, <1>6, <2>1 DEF BatchesInv, Untouched
<1>8. UsesInv'
  BY <1>1, <1>6 DEF UsesInv
<1>9. AloneInv'
  BY <1>1, <1>2, <1>3, StartKeepsAlone
<1> QED
  BY <1>3, <1>4, <1>7, <1>8, <1>9

\* Writing or clearing the secret, between the two statements of a change.
LEMMA SecretStepKeeps ==
  ASSUME TwoFactorInv, NEW r \in Requests, UpdateSecret(r) \/ ClearSecret(r)
  PROVE  TwoFactorInv'
<1> USE DEF TwoFactorInv
<1>1. /\ UNCHANGED <<rows, marked, told, fresh, uses, overlapped, failures>>
      /\ \/ /\ job[r].pc = "enable" /\ secret' = job[r].batch
            /\ job' = [job EXCEPT ![r].pc = "store"]
         \/ /\ job[r].pc = "disable" /\ secret' = NoBatch
            /\ job' = [job EXCEPT ![r].pc = "delete"]
  BY DEF UpdateSecret, ClearSecret, ClearedSecret
<1>2. PICK j \in Job : /\ job' = [job EXCEPT ![r] = j] /\ j.batch = job[r].batch
                       /\ \/ job[r].pc = "enable" /\ j.pc = "store"
                          \/ job[r].pc = "disable" /\ j.pc = "delete"
  BY <1>1, NextStep
<1>3. /\ job' \in [Requests -> Job] /\ JobsComplete'
      /\ \A q \in Requests : job'[q] = IF q = r THEN j ELSE job[q]
  BY <1>2, NewJob DEF JobsComplete
<1>4. TypeOK'
  <2>1. secret' \in Batches \cup {NoBatch}
    BY <1>1 DEF JobsComplete
  <2> QED
    BY <1>1, <1>3, <2>1 DEF TypeOK
<1>6. \A x \in Batches \X Codes : Matched(x)' = Matched(x)
  <2>1. j.pc # "mark" /\ \A x \in Batches \X Codes : r \notin Matched(x)
    BY <1>2 DEF Matched
  <2>2. \A x : Matched(x)' = IF j.pc = "mark" /\ <<j.batch, j.code>> = x
                            THEN Matched(x) \cup {r} ELSE Matched(x) \ {r}
    BY <1>3, MatchedAfter
  <2> QED
    BY <2>1, <2>2, Zenon
<1>7. BatchesInv'
  <2>1. Making' = Making /\ \A q \in Making : job'[q].batch = job[q].batch
    BY <1>2, <1>3 DEF Making
  <2> QED
    BY <1>1, <1>6, <2>1 DEF BatchesInv, Untouched
<1>8. UsesInv'
  BY <1>1, <1>6 DEF UsesInv
<1>9. AloneInv'
  <2>1. r \in Changing /\ j.pc # "mark"
    BY <1>2 DEF Changing
  <2>2. j.pc = "store" => secret' = j.batch
    BY <1>1, <1>2
  <2>3. j.pc = "delete" => secret' = NoBatch
    BY <1>1, <1>2
  <2> QED
    BY <1>1, <1>3, <2>1, <2>2, <2>3, ChangeKeepsAlone
<1> QED
  BY <1>3, <1>4, <1>7, <1>8, <1>9

\* A request ends, with the tables as they are, or all rows replaced by codes
\* nobody has seen, or by none.
LEMMA EndKeeps ==
  ASSUME TwoFactorInv, NEW r \in Requests, job[r].pc # "idle", Finish(r),
         UNCHANGED <<secret, fresh, uses, overlapped>>,
         told' \in {"on", "off", "unknown"}, failures' \in Nat, marked' \in SUBSET rows',
         \/ rows' = rows /\ marked' = marked
         \/ rows' = {}
         \/ r \in Making /\ rows' = CodesOf(job[r].batch)
  PROVE  TwoFactorInv'
<1> USE DEF TwoFactorInv
<1>1. job' = [job EXCEPT ![r] = Idle]
  BY DEF Finish
<1>3. /\ job' \in [Requests -> Job] /\ JobsComplete'
      /\ \A q \in Requests : job'[q] = IF q = r THEN Idle ELSE job[q]
  BY <1>1, IdleIsJob, NewJob
<1>4. r \in Making => job[r].batch \in Batches
  BY DEF Making, JobsComplete
<1>5. TypeOK'
  BY <1>3, <1>4 DEF TypeOK, CodesOf
<1>6. \A x \in Batches \X Codes : Matched(x)' \subseteq Matched(x)
  BY <1>3, IdleIsJob, MatchedAfter
<1>7. BatchesInv'
  <2>1. Making' = Making \ {r} /\ \A q \in Making' : job'[q] = job[q]
    BY <1>3, IdleIsJob DEF Making
  <2>2. Untouched' \subseteq Untouched
    BY <2>1 DEF Untouched
  <2>3. r \in Making => job[r].batch \notin Untouched'
    BY <2>1 DEF BatchesInv, Untouched
  <2>4. ASSUME NEW x \in Batches \X Codes, x[1] \in Untouched'
        PROVE  x \notin rows' /\ uses'[x] = 0 /\ Matched(x)' = {}
    <3>1. x \notin rows /\ uses[x] = 0 /\ Matched(x) = {}
      BY <2>2, <2>4 DEF BatchesInv
    <3>2. x \notin rows'
      BY <2>3, <2>4, <3>1 DEF CodesOf
    <3> QED
      BY <1>6, <3>1, <3>2
  <2> QED
    BY <2>1, <2>4 DEF BatchesInv
<1>8. UsesInv'
  <2>1. ASSUME NEW x \in Batches \X Codes, x \in rows' \ marked' PROVE uses'[x] = 0
    <3>1. CASE rows' = rows /\ marked' = marked
      BY <2>1, <3>1 DEF UsesInv
    <3>2. CASE r \in Making /\ rows' = CodesOf(job[r].batch)
      <4>1. x[1] \in Untouched
        BY <2>1, <3>2 DEF CodesOf, Untouched
      <4> QED
        BY <4>1 DEF BatchesInv
    <3> QED
      BY <2>1, <3>1, <3>2
  <2> QED
    BY <1>6, <2>1, FewerMatches DEF UsesInv
<1>9. AloneInv'
  <2>1. CASE r \in Changing
    BY <1>3, <2>1, IdleIsJob, ChangeKeepsAlone
  <2>2. CASE r \notin Changing
    <3>1. job[r].pc = "mark"
      BY <2>2 DEF Changing
    <3> QED
      BY <1>3, <3>1, IdleIsJob, OtherKeepsAlone
  <2> QED
    BY <2>1, <2>2
<1> QED
  BY <1>3, <1>5, <1>7, <1>8, <1>9

\* The changes that end.
LEMMA FinishKeeps ==
  ASSUME TwoFactorInv, NEW r \in Requests,
         \/ StoreBackupCodes(r) \/ DeleteBackupCodes(r)
         \/ EnableFails(r) \/ StoreFails(r) \/ DisableFails(r) \/ MarkFails(r)
  PROVE  TwoFactorInv'
<1> USE DEF TwoFactorInv, TypeOK
<1>1. CASE StoreBackupCodes(r)
  <2>1. r \in Making /\ rows' = CodesOf(job[r].batch) /\ marked' \in SUBSET rows'
    BY <1>1 DEF StoreBackupCodes, Making
  <2> QED
    BY <1>1, <2>1, EndKeeps DEF StoreBackupCodes
<1>2. CASE DeleteBackupCodes(r)
  BY <1>2, EndKeeps DEF DeleteBackupCodes
<1>3. CASE EnableFails(r) \/ DisableFails(r) \/ MarkFails(r)
  BY <1>3, EndKeeps DEF EnableFails, DisableFails, MarkFails
<1>4. CASE StoreFails(r)
  <2>1. rows' = rows /\ marked' = marked
    BY <1>4 DEF StoreFails, RowsRolledBack
  <2> QED
    BY <1>4, <2>1, EndKeeps DEF StoreFails
<1> QED
  BY <1>1, <1>2, <1>3, <1>4

\* A code that is matched was never accepted.
LEMMA MatchCodeKeeps ==
  ASSUME TwoFactorInv, NEW r \in Requests, NEW x \in Batches \X Codes, MatchCode(r, x)
  PROVE  TwoFactorInv'
<1> USE DEF TwoFactorInv
<1> DEFINE j == [pc |-> "mark", batch |-> x[1], code |-> x[2]]
<1>1. /\ job[r].pc = "idle" /\ x \in rows \ marked /\ job' = [job EXCEPT ![r] = j]
      /\ UNCHANGED <<secret, rows, marked, told, fresh, uses, overlapped, failures>>
  BY DEF MatchCode, UnusedRows
<1>2. /\ j \in Job /\ j.pc = "mark" /\ j.batch = x[1] /\ x[1] \in Batches
      /\ <<j.batch, j.code>> = x
  BY DEF Job
<1> HIDE DEF j
<1>3. /\ job' \in [Requests -> Job] /\ JobsComplete'
      /\ \A q \in Requests : job'[q] = IF q = r THEN j ELSE job[q]
  BY <1>1, <1>2, NewJob
<1>4. TypeOK'
  BY <1>1, <1>3 DEF TypeOK
<1>5. r \notin Matched(x) /\ \A y \in Batches \X Codes :
                               Matched(y)' = IF y = x THEN Matched(x) \cup {r} ELSE Matched(y)
  <2>1. \A y \in Batches \X Codes : r \notin Matched(y)
    BY <1>1 DEF Matched
  <2>2. \A y \in Batches \X Codes : Matched(y)' = IF y = x THEN Matched(y) \cup {r}
                                                            ELSE Matched(y) \ {r}
    <3>1. \A y : Matched(y)' = IF j.pc = "mark" /\ <<j.batch, j.code>> = y
                               THEN Matched(y) \cup {r} ELSE Matched(y) \ {r}
      BY <1>3, MatchedAfter
    <3> QED
      BY <1>2, <3>1
  <2> QED
    BY <2>1, <2>2
<1>6. BatchesInv'
  <2>1. Making' = Making /\ \A q \in Making : job'[q] = job[q]
    BY <1>1, <1>2, <1>3 DEF Making
  <2>2. x[1] \notin Untouched
    BY <1>1 DEF BatchesInv
  <2> QED
    BY <1>1, <1>5, <2>1, <2>2 DEF BatchesInv, Untouched
<1>7. UsesInv'
  <2>1. uses[x] = 0 /\ Cardinality(Matched(x)') \in Nat
        /\ Cardinality(Matched(x)') <= Cardinality(Requests) /\ Cardinality(Requests) \in Nat
    <3>1. Matched(x)' \subseteq Requests
      BY <1>5 DEF Matched
    <3> QED
      BY <1>1, <3>1, FS_Subset, FS_CardinalityType, TwoFactorAssumption DEF UsesInv
  <2> QED
    BY <1>1, <1>5, <2>1 DEF UsesInv
<1>8. AloneInv'
  BY <1>1, <1>2, <1>3, OtherKeepsAlone
<1> QED
  BY <1>3, <1>4, <1>6, <1>7, <1>8

\* A match becomes an acceptance, and the row is marked if it is still there.
LEMMA MarkCodeUsedKeeps ==
  ASSUME TwoFactorInv, NEW r \in Requests, MarkCodeUsed(r)
  PROVE  TwoFactorInv'
<1> USE DEF TwoFactorInv
<1>0. PICK x : x = <<job[r].batch, job[r].code>>
  OBVIOUS
<1>1. /\ job[r].pc = "mark" /\ job' = [job EXCEPT ![r] = Idle]
      /\ marked' = marked \cup ({x} \cap rows) /\ uses' = [uses EXCEPT ![x] = uses[x] + 1]
      /\ UNCHANGED <<secret, rows, told, fresh, overlapped, failures>>
  BY <1>0 DEF MarkCodeUsed, MarkedBy, Finish
<1>2. x \in Batches \X Codes /\ r \in Matched(x)
  BY <1>0, <1>1 DEF JobsComplete, TypeOK, Job, Matched
<1>m. \A y : r \in Matched(y) => y = x
  BY <1>0 DEF Matched
<1>3. /\ job' \in [Requests -> Job] /\ JobsComplete'
      /\ \A q \in Requests : job'[q] = IF q = r THEN Idle ELSE job[q]
  BY <1>1, IdleIsJob, NewJob
<1>4. TypeOK'
  BY <1>1, <1>2, <1>3 DEF TypeOK
<1>5. \A y \in Batches \X Codes : Matched(y)' = IF y = x THEN Matched(x) \ {r} ELSE Matched(y)
  BY <1>3, <1>m, IdleIsJob, MatchedAfter
<1>6. BatchesInv'
  <2>1. Making' = Making /\ \A q \in Making : job'[q] = job[q]
    BY <1>1, <1>3, IdleIsJob DEF Making
  <2>2. x[1] \notin Untouched
    BY <1>2 DEF BatchesInv
  <2>3. \A y \in Batches \X Codes : y # x => uses'[y] = uses[y]
    BY <1>1 DEF TypeOK
  <2> QED
    BY <1>1, <1>5, <2>1, <2>2, <2>3 DEF BatchesInv, Untouched
<1>7. UsesInv'
  <2>1. /\ uses'[x] = uses[x] + 1 /\ uses[x] \in Nat
        /\ \A y \in Batches \X Codes : y # x => uses'[y] = uses[y]
    BY <1>1, <1>2 DEF TypeOK
  <2>2. Cardinality(Matched(x)') = Cardinality(Matched(x)) - 1
    <3>1. Matched(x)' = Matched(x) \ {r} /\ IsFiniteSet(Matched(x))
      BY <1>2, <1>5, MatchedFinite
    <3> QED
      BY <1>2, <3>1, FS_RemoveElement
  <2>3. uses'[x] + Cardinality(Matched(x)') <= Cardinality(Requests)
    <3>1. uses[x] + Cardinality(Matched(x)) <= Cardinality(Requests)
      BY <1>2 DEF UsesInv
    <3> QED
      BY <2>1, <2>2, <3>1, MatchedFinite
  <2>4. x \notin rows' \ marked'
    BY <1>1
  <2>5. ASSUME NEW y \in Batches \X Codes, y # x
        PROVE  /\ y \in rows' \ marked' => uses'[y] = 0
               /\ uses'[y] + Cardinality(Matched(y)') <= Cardinality(Requests)
    <3>1. uses'[y] = uses[y] /\ Matched(y)' = Matched(y)
      BY <1>5, <2>1, <2>5
    <3> QED
      BY <1>1, <3>1, <2>5 DEF UsesInv
  <2> QED
    BY <2>3, <2>4, <2>5 DEF UsesInv
<1>8. AloneInv'
  BY <1>1, <1>3, IdleIsJob, OtherKeepsAlone
<1> QED
  BY <1>3, <1>4, <1>6, <1>7, <1>8

----------------------------------------------------------------------------
\* A crash forgets every request.
LEMMA CrashKeeps == ASSUME TwoFactorInv, Crash PROVE TwoFactorInv'
<1> USE DEF TwoFactorInv
<1>1. /\ job' = [r \in Requests |-> Idle] /\ overlapped' = {} /\ failures' = failures + 1
      /\ told' \in {"unknown", told} /\ UNCHANGED <<secret, rows, marked, fresh, uses>>
  BY DEF Crash
<1>2. \A r \in Requests : job'[r] = Idle
  BY <1>1
<1>3. Making' = {} /\ Changing' = {} /\ \A x : Matched(x)' = {}
  BY <1>2, IdleIsJob DEF Making, Changing, Matched
<1>4. TypeOK' /\ JobsComplete'
  BY <1>1, <1>2, IdleIsJob DEF TypeOK, JobsComplete
<1>5. BatchesInv'
  <2>1. Untouched' \subseteq Untouched
    BY <1>1, <1>3 DEF Untouched
  <2> QED
    BY <1>1, <1>3, <2>1 DEF BatchesInv
<1>6. UsesInv'
  BY <1>1, <1>3, FewerMatches DEF UsesInv
<1>7. AloneInv'
  BY <1>3 DEF AloneInv
<1> QED
  BY <1>4, <1>5, <1>6, <1>7

LEMMA InitKeeps == ASSUME Init PROVE TwoFactorInv
<1>1. Making = {} /\ Changing = {} /\ \A x : Matched(x) = {}
  BY IdleIsJob DEF Init, Making, Changing, Matched
<1>2. TypeOK /\ JobsComplete
  BY IdleIsJob DEF Init, TypeOK, JobsComplete
<1>3. BatchesInv /\ UsesInv /\ AloneInv
  <2>1. Cardinality({}) = 0 /\ 0 <= Cardinality(Requests)
    BY FS_EmptySet, FS_CardinalityType, TwoFactorAssumption
  <2>2. rows = {} /\ \A x \in Batches \X Codes : uses[x] = 0
    BY DEF Init
  <2>3. AloneInv /\ BatchesInv
    BY <1>1, <2>2 DEF BatchesInv, AloneInv
  <2>4. UsesInv
    BY <1>1, <2>1, <2>2 DEF UsesInv
  <2> QED
    BY <2>3, <2>4
<1> QED
  BY <1>2, <1>3 DEF TwoFactorInv

LEMMA NextKeeps == ASSUME TwoFactorInv, [Next]_vars PROVE TwoFactorInv'
<1>1. ASSUME NEW r \in Requests, NEW b \in Batches, ReceiveVerify(r, b) \/ ReceiveRegenerate(r, b)
      PROVE  TwoFactorInv'
  BY <1>1, GenerateKeeps
<1>2. ASSUME NEW r \in Requests,
             \/ UpdateSecret(r) \/ ClearSecret(r) \/ ReceiveDisable(r)
             \/ StoreBackupCodes(r) \/ DeleteBackupCodes(r) \/ EnableFails(r)
             \/ StoreFails(r) \/ DisableFails(r) \/ MarkFails(r) \/ MarkCodeUsed(r)
      PROVE  TwoFactorInv'
  BY <1>2, SecretStepKeeps, ReceiveDisableKeeps, FinishKeeps, MarkCodeUsedKeeps
<1>3. ASSUME NEW r \in Requests, NEW x \in Batches \X Codes, MatchCode(r, x)
      PROVE  TwoFactorInv'
  BY <1>3, MatchCodeKeeps
<1>4. CASE UNCHANGED vars
  <2>1. Making' = Making /\ Changing' = Changing /\ \A x : Matched(x)' = Matched(x)
    BY <1>4 DEF vars, Making, Changing, Matched
  <2>2. UNCHANGED <<secret, rows, marked, job, told, fresh, uses, overlapped, failures>>
    BY <1>4 DEF vars
  <2> QED
    BY <2>1, <2>2 DEF TwoFactorInv, TypeOK, JobsComplete, BatchesInv,
                      Untouched, UsesInv, AloneInv
<1> QED
  BY <1>1, <1>2, <1>3, <1>4, CrashKeeps DEF Next, RefuseCode

LEMMA AlwaysTwoFactorInv == Spec => []TwoFactorInv
  BY InitKeeps, NextKeeps, PTL DEF Spec

----------------------------------------------------------------------------
(***************************************************************************)
(* 2FA and its backup codes go together.                                   *)
(***************************************************************************)

\* A batch has codes.
LEMMA SomeCodes == ASSUME NEW b PROVE CodesOf(b) # {}
<1>1. PICK c \in Codes : TRUE
  BY TwoFactorAssumption
<1>2. <<b, c>> \in CodesOf(b)
  BY DEF CodesOf
<1> QED
  BY <1>2

\* A change of 2FA begins.
LEMMA StartKeepsHalves ==
  ASSUME TwoFactorInv, HalvesInv, NEW r \in Requests, NEW b,
         NEW pc \in {"enable", "disable", "regenerate"}, Start(r, pc, b),
         UNCHANGED <<secret, rows>>
  PROVE  HalvesInv'
<1>1. /\ job[r].pc = "idle" /\ apart' = (apart \/ Changing # {})
      /\ overlapped' = IF Changing = {} THEN {} ELSE overlapped \cup Changing \cup {r}
      /\ \A q \in Requests : q # r => job'[q] = job[q]
  BY DEF Start, TwoFactorInv, TypeOK
<1>2. apart' \in BOOLEAN
  BY <1>1 DEF HalvesInv
<1>3. ~apart' => Changing' \cap overlapped' = {}
  BY <1>1
<1>4. CodesGoWithSecret'
  <2> SUFFICES ASSUME ~apart', \A q \in Requests : ~HalfWay(q)'
               PROVE  secret # NoBatch <=> rows # {}
    BY DEF CodesGoWithSecret
  <2>1. \A q \in Requests : ~HalfWay(q)
    BY <1>1 DEF HalfWay
  <2>2. ~apart
    BY <1>1 DEF HalvesInv
  <2> QED
    BY <2>1, <2>2 DEF HalvesInv, CodesGoWithSecret
<1> QED
  BY <1>2, <1>3, <1>4 DEF HalvesInv

\* The first of the two statements.
LEMMA SecretStepKeepsHalves ==
  ASSUME TwoFactorInv, HalvesInv, NEW r \in Requests, UpdateSecret(r) \/ ClearSecret(r)
  PROVE  HalvesInv'
<1>0. PICK pc \in {"store", "delete"} :
        /\ job' = [job EXCEPT ![r].pc = pc] /\ job[r].pc \in {"enable", "disable"}
        /\ UNCHANGED <<overlapped, apart>>
  BY DEF UpdateSecret, ClearSecret
<1>1. /\ job[r].pc \in {"enable", "disable"} /\ UNCHANGED <<overlapped, apart>>
      /\ \A q \in Requests : job'[q].pc = IF q = r THEN pc ELSE job[q].pc
  <2>1. job \in [Requests -> Job]
    BY DEF TwoFactorInv, TypeOK
  <2>2. PICK j \in Job : j.pc = pc /\ job' = [job EXCEPT ![r] = j]
    BY <1>0, NextStep DEF TwoFactorInv
  <2> QED
    BY <1>0, <2>1, <2>2
<1>2. Changing' = Changing
  BY <1>1 DEF Changing
<1>3. CodesGoWithSecret'
  BY <1>1 DEF CodesGoWithSecret, HalfWay
<1> QED
  BY <1>1, <1>2, <1>3 DEF HalvesInv

\* A request that ends and leaves secret and codes as they are.
LEMMA EndKeepsHalves ==
  ASSUME TwoFactorInv, HalvesInv, NEW r \in Requests, Finish(r),
         UNCHANGED <<secret, rows, overlapped>>, apart' = (apart \/ HalfWay(r))
  PROVE  HalvesInv'
<1>1. \A q \in Requests : job'[q] = IF q = r THEN Idle ELSE job[q]
  BY DEF Finish, TwoFactorInv, TypeOK
<1>2. Changing' \subseteq Changing
  BY <1>1, IdleIsJob DEF Changing
<1>3. CodesGoWithSecret'
  <2> SUFFICES ASSUME ~apart', \A q \in Requests : ~HalfWay(q)'
               PROVE  secret # NoBatch <=> rows # {}
    BY DEF CodesGoWithSecret
  <2>1. \A q \in Requests : ~HalfWay(q)
    BY <1>1 DEF HalfWay
  <2> QED
    BY <2>1 DEF HalvesInv, CodesGoWithSecret
<1>4. apart' \in BOOLEAN /\ (~apart' => ~apart)
  BY DEF HalvesInv, HalfWay
<1> QED
  BY <1>2, <1>3, <1>4 DEF HalvesInv

\* The second statement: who met no other leaves both, or neither.
LEMMA SecondStepKeepsHalves ==
  ASSUME TwoFactorInv, HalvesInv, NEW r \in Requests,
         \/ StoreBackupCodes(r) /\ job[r].pc = "store"
         \/ DeleteBackupCodes(r)
  PROVE  HalvesInv'
<1>1. /\ UNCHANGED <<secret, overlapped>> /\ apart' = (apart /\ r \in overlapped)
      /\ job' = [job EXCEPT ![r] = Idle] /\ r \in Changing
  BY DEF StoreBackupCodes, DeleteBackupCodes, Finish, Changing
<1>2. \A q \in Requests : job'[q] = IF q = r THEN Idle ELSE job[q]
  BY <1>1 DEF TwoFactorInv, TypeOK
<1>3. Changing' \subseteq Changing \ {r}
  BY <1>2, IdleIsJob DEF Changing
<1>4. CASE r \in overlapped
  <2>1. apart /\ apart'
    BY <1>1, <1>4 DEF HalvesInv
  <2> QED
    BY <2>1 DEF HalvesInv, CodesGoWithSecret
<1>5. CASE r \notin overlapped
  <2>1. Changing = {r} /\ ~apart' /\ apart' \in BOOLEAN
    BY <1>1, <1>5 DEF TwoFactorInv, AloneInv
  <2>2. Changing' = {}
    BY <1>3, <2>1
  <2>3. secret' # NoBatch <=> rows' # {}
    <3>1. CASE StoreBackupCodes(r) /\ job[r].pc = "store"
      <4>1. secret = job[r].batch /\ job[r].batch \in Batches /\ rows' = CodesOf(job[r].batch)
        BY <1>1, <1>5, <3>1 DEF TwoFactorInv, AloneInv, JobsComplete, StoreBackupCodes
      <4>2. rows' # {} /\ secret' # NoBatch
        BY <1>1, <4>1, SomeCodes, TwoFactorAssumption
      <4> QED
        BY <4>2
    <3>2. CASE DeleteBackupCodes(r)
      BY <1>1, <1>5, <3>2 DEF TwoFactorInv, AloneInv, DeleteBackupCodes
    <3> QED
      BY <3>1, <3>2
  <2> QED
    BY <2>1, <2>2, <2>3 DEF HalvesInv, CodesGoWithSecret
<1> QED
  BY <1>4, <1>5

\* Codes are regenerated, while 2FA is on or off.
LEMMA RegenerateKeepsHalves ==
  ASSUME TwoFactorInv, HalvesInv, NEW r \in Requests,
         StoreBackupCodes(r), job[r].pc = "regenerate"
  PROVE  HalvesInv'
<1>1. /\ UNCHANGED <<secret, overlapped>> /\ apart' = (apart \/ secret = NoBatch)
      /\ job' = [job EXCEPT ![r] = Idle] /\ rows' = CodesOf(job[r].batch)
  BY DEF StoreBackupCodes, Finish
<1>2. \A q \in Requests : job'[q] = IF q = r THEN Idle ELSE job[q]
  BY <1>1 DEF TwoFactorInv, TypeOK
<1>3. Changing' \subseteq Changing
  BY <1>2, IdleIsJob DEF Changing
<1>4. rows' # {}
  BY <1>1, SomeCodes
<1>5. apart' \in BOOLEAN /\ (~apart' => ~apart /\ secret' # NoBatch)
  BY <1>1 DEF HalvesInv
<1> QED
  BY <1>1, <1>3, <1>4, <1>5 DEF HalvesInv, CodesGoWithSecret

\* What happens to codes changes neither which changes are under way nor
\* whether there are codes.
LEMMA OtherKeepsHalves ==
  ASSUME TwoFactorInv, HalvesInv, UNCHANGED <<secret, rows, overlapped, apart>>,
         \A q \in Requests :
           job'[q].pc = job[q].pc \/ {job[q].pc, job'[q].pc} \subseteq {"idle", "mark"}
  PROVE  HalvesInv'
<1>1. Changing' = Changing /\ \A q \in Requests : HalfWay(q)' = HalfWay(q)
  BY DEF Changing, HalfWay
<1> QED
  BY <1>1 DEF HalvesInv, CodesGoWithSecret

LEMMA CrashKeepsHalves == ASSUME TwoFactorInv, HalvesInv, Crash PROVE HalvesInv'
<1>1. /\ \A q \in Requests : job'[q] = Idle
      /\ UNCHANGED <<secret, rows>> /\ overlapped' = {}
      /\ apart' = (apart \/ \E q \in Requests : HalfWay(q))
  BY DEF Crash
<1>2. CodesGoWithSecret'
  BY <1>1 DEF HalvesInv, CodesGoWithSecret
<1> QED
  BY <1>1, <1>2 DEF HalvesInv

LEMMA NextKeepsHalves ==
  ASSUME TwoFactorInv, HalvesInv, [Next]_vars PROVE HalvesInv'
<1>0. job \in [Requests -> Job]
  BY DEF TwoFactorInv, TypeOK
<1>1. ASSUME NEW r \in Requests, NEW b \in Batches, ReceiveVerify(r, b) \/ ReceiveRegenerate(r, b)
      PROVE  HalvesInv'
  BY <1>1, StartKeepsHalves DEF ReceiveVerify, ReceiveRegenerate
<1>2. ASSUME NEW r \in Requests, ReceiveDisable(r) PROVE HalvesInv'
  BY <1>2, StartKeepsHalves DEF ReceiveDisable
<1>3. ASSUME NEW r \in Requests, UpdateSecret(r) \/ ClearSecret(r) PROVE HalvesInv'
  BY <1>3, SecretStepKeepsHalves
<1>4. ASSUME NEW r \in Requests, StoreBackupCodes(r) \/ DeleteBackupCodes(r) PROVE HalvesInv'
  BY <1>4, SecondStepKeepsHalves, RegenerateKeepsHalves DEF StoreBackupCodes
<1>5. ASSUME NEW r \in Requests, EnableFails(r) \/ StoreFails(r) \/ DisableFails(r)
      PROVE  HalvesInv'
  <2>1. Finish(r) /\ UNCHANGED <<secret, rows, overlapped>>
    BY <1>5 DEF EnableFails, StoreFails, DisableFails, RowsRolledBack
  <2>2. apart' = (apart \/ HalfWay(r))
    BY <1>5 DEF EnableFails, StoreFails, DisableFails, HalfWay, HalvesInv
  <2> QED
    BY <2>1, <2>2, EndKeepsHalves
<1>6. ASSUME NEW r \in Requests, MarkCodeUsed(r) \/ MarkFails(r) PROVE HalvesInv'
  <2>1. /\ job[r].pc = "mark" /\ job' = [job EXCEPT ![r] = Idle]
        /\ UNCHANGED <<secret, rows, overlapped, apart>>
    BY <1>6 DEF MarkCodeUsed, MarkFails, Finish
  <2>2. \A q \in Requests : job'[q] = IF q = r THEN Idle ELSE job[q]
    BY <1>0, <2>1
  <2> QED
    BY <2>1, <2>2, IdleIsJob, OtherKeepsHalves
<1>7. ASSUME NEW r \in Requests, NEW x \in Batches \X Codes, MatchCode(r, x) PROVE HalvesInv'
  <2>1. /\ job[r].pc = "idle" /\ job' = [job EXCEPT ![r] = [pc |-> "mark", batch |-> x[1], code |-> x[2]]]
        /\ UNCHANGED <<secret, rows, overlapped, apart>>
    BY <1>7 DEF MatchCode
  <2>2. \A q \in Requests : job'[q].pc = IF q = r THEN "mark" ELSE job[q].pc
    BY <1>0, <2>1
  <2> QED
    BY <2>1, <2>2, OtherKeepsHalves
<1>8. CASE UNCHANGED vars
  BY <1>8, OtherKeepsHalves DEF vars
<1> QED
  BY <1>1, <1>2, <1>3, <1>4, <1>5, <1>6, <1>7, <1>8, CrashKeepsHalves DEF Next, RefuseCode

LEMMA InitHalves == ASSUME Init PROVE HalvesInv
  BY DEF Init, HalvesInv, CodesGoWithSecret

\* 2FA is on exactly when there are backup codes, unless Enable2FA or Disable2FA
\* was broken off between its statements, met another change, or codes were
\* regenerated while 2FA was off; the next change that runs alone repairs it.
THEOREM CodesAndSecretTogether == Spec => []CodesGoWithSecret
<1>1. Spec => []HalvesInv
  BY InitHalves, NextKeepsHalves, AlwaysTwoFactorInv, PTL DEF Spec
<1> QED
  BY <1>1, PTL DEF HalvesInv

\* A backup code is accepted at most once for each request that can be in
\* flight: all those that read it before ValidateBackupCode marked it.
THEOREM BackupCodeReuse == Spec => []ReuseBounded
<1>1. TwoFactorInv => ReuseBounded
  <2> SUFFICES ASSUME TwoFactorInv, NEW x \in Batches \X Codes
               PROVE  uses[x] <= Cardinality(Requests)
    BY DEF ReuseBounded
  <2> QED
    BY MatchedFinite DEF TwoFactorInv, TypeOK, UsesInv
<1> QED
  BY <1>1, AlwaysTwoFactorInv, PTL

\* An enabling or disabling that ran beside no other is answered truthfully:
\* the secret and the codes are its own, or gone.
THEOREM AnswersAreKept == Spec => AnswersHold
<1>1. TwoFactorInv /\ [Next]_vars =>
        [\A r \in Requests \ overlapped :
           /\ (StoreBackupCodes(r) /\ job[r].pc = "store")
                => secret' = job[r].batch /\ rows' = CodesOf(job[r].batch)
           /\ DeleteBackupCodes(r) => secret' = NoBatch /\ rows' = {}]_vars
  <2> SUFFICES ASSUME TwoFactorInv, NEW r \in Requests \ overlapped
               PROVE  /\ (StoreBackupCodes(r) /\ job[r].pc = "store")
                           => secret' = job[r].batch /\ rows' = CodesOf(job[r].batch)
                      /\ DeleteBackupCodes(r) => secret' = NoBatch /\ rows' = {}
    OBVIOUS
  <2> QED
    BY DEF TwoFactorInv, AloneInv, Changing, StoreBackupCodes, DeleteBackupCodes
<1> QED
  BY <1>1, AlwaysTwoFactorInv, PTL DEF Spec, AnswersHold
=============================================================================
