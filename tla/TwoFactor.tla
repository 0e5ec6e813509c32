----------------------------- MODULE TwoFactor -----------------------------
(***************************************************************************)
(* Two-factor authentication of one user: src/src/server/2fa.go, its       *)
(* handlers in src/src/server/handler/auth_handlers.go and the backup code *)
(* statements in src/src/server/store/sqlite.go.                           *)
(*                                                                         *)
(* A setup stands for one secret and the batch of backup codes made with   *)
(* it.  The TOTP arithmetic is left out: a request sends a right code or   *)
(* it is refused before anything happens.                                  *)
(***************************************************************************)
EXTENDS Naturals, FiniteSets

CONSTANTS
  Requests,    \* requests of the user that can be in flight together
  Batches,     \* setups; random, so never used twice
  Codes,       \* the codes of a batch (ten in the code)
  NoBatch,
  MaxFailures, \* bound: how many statements fail, and how often the process dies
  MaxUses      \* bound: a code accepted this often is not sent again

ASSUME TwoFactorAssumption ==
  /\ IsFiniteSet(Requests)
  /\ NoBatch \notin Batches
  /\ Codes # {}
  /\ MaxFailures \in Nat
  /\ MaxUses \in Nat

VARIABLES
  secret,    \* users.two_factor_secret, NoBatch when 2FA is disabled
  rows,      \* two_factor_backup_codes: <<batch, code>>
  marked,    \* the rows whose used_at is set
  job,       \* what each request is doing
  told,      \* what the last answer said 2FA is: "on", "off", or "unknown"
  fresh,     \* ghost: the setups not yet generated
  uses,      \* ghost: how often each backup code was accepted
  overlapped, \* ghost: requests that ran beside another change of 2FA
  apart,      \* ghost: have the secret and the codes had a way to come apart?
  failures

vars == <<secret, rows, marked, job, told, fresh, uses, overlapped, apart, failures>>

Idle == [pc |-> "idle", batch |-> NoBatch, code |-> CHOOSE c \in Codes : TRUE]

Job == [pc : {"idle", "enable", "store", "disable", "delete", "regenerate", "mark"},
        batch : Batches \cup {NoBatch}, code : Codes]

\* The requests that are about to change the secret or the codes.
Changing == {r \in Requests : job[r].pc \notin {"idle", "mark"}}

Start(r, pc, b) ==
  /\ job[r].pc = "idle"
  /\ job' = [job EXCEPT ![r] = [pc |-> pc, batch |-> b, code |-> Idle.code]]
  /\ overlapped' = IF Changing = {} THEN {} ELSE overlapped \cup Changing \cup {r}
  /\ apart' = (apart \/ Changing # {})

Finish(r) == job' = [job EXCEPT ![r] = Idle]

CodesOf(b) == {b} \X Codes

Init ==
  /\ secret = NoBatch
  /\ rows = {} /\ marked = {}
  /\ job = [r \in Requests |-> Idle]
  /\ told = "off"
  /\ fresh = Batches
  /\ uses = [x \in Batches \X Codes |-> 0]
  /\ overlapped = {}
  /\ apart = FALSE
  /\ failures = 0

----------------------------------------------------------------------------
(***************************************************************************)
(* POST /api/auth/2fa/verify: Enable2FA                                    *)
(***************************************************************************)

\* A wrong or unknown code is refused, and nothing changes.
RefuseCode(r) == job[r].pc = "idle" /\ UNCHANGED vars

\* The code fits the secret the client sends back.
ReceiveVerify(r, b) ==
  /\ b \in fresh
  /\ fresh' = fresh \ {b}
  /\ Start(r, "enable", b)
  /\ UNCHANGED <<secret, rows, marked, told, uses, failures>>

UpdateSecret(r) ==
  /\ job[r].pc = "enable"
  /\ secret' = job[r].batch
  /\ job' = [job EXCEPT ![r].pc = "store"]
  /\ UNCHANGED <<rows, marked, told, fresh, uses, overlapped, apart, failures>>

\* Mutant: without the transaction, the DELETE stays when an INSERT fails.
RowsDeleted == {}

\* StoreBackupCodes: the DELETE and the INSERTs are one transaction.
RowsRolledBack == rows

\* Enable2FA ends in "enabled"; RegenerateBackupCodes leaves 2FA as it is, off
\* too.
StoreBackupCodes(r) ==
  /\ job[r].pc \in {"store", "regenerate"}
  /\ rows' = CodesOf(job[r].batch)
  /\ marked' = marked \cap CodesOf(job[r].batch)
  /\ told' = IF job[r].pc = "store" THEN "on" ELSE told
  /\ apart' = IF job[r].pc = "store" THEN apart /\ r \in overlapped
              ELSE apart \/ secret = NoBatch
  /\ Finish(r)
  /\ UNCHANGED <<secret, fresh, uses, overlapped, failures>>

\* The UPDATE of Enable2FA fails: the user is told "invalid 2FA code".
EnableFails(r) ==
  /\ job[r].pc = "enable"
  /\ failures < MaxFailures
  /\ failures' = failures + 1
  /\ Finish(r)
  /\ UNCHANGED <<secret, rows, marked, told, fresh, uses, overlapped, apart>>

\* StoreBackupCodes fails: Enable2FA says "invalid 2FA code" again, with 2FA on.
StoreFails(r) ==
  /\ job[r].pc \in {"store", "regenerate"}
  /\ failures < MaxFailures
  /\ failures' = failures + 1
  /\ rows' = RowsRolledBack
  /\ marked' = marked \cap RowsRolledBack
  /\ apart' = (apart \/ job[r].pc = "store")
  /\ Finish(r)
  /\ UNCHANGED <<secret, told, fresh, uses, overlapped>>

----------------------------------------------------------------------------
(***************************************************************************)
(* POST /api/auth/2fa/disable                                              *)
(***************************************************************************)

\* The user row is read, and the code fits the secret in it.
ReceiveDisable(r) ==
  /\ secret # NoBatch
  /\ Start(r, "disable", NoBatch)
  /\ UNCHANGED <<secret, rows, marked, told, fresh, uses, failures>>

\* Mutant: the secret stays.
SecretKept == secret

ClearedSecret == NoBatch

ClearSecret(r) ==
  /\ job[r].pc = "disable"
  /\ secret' = ClearedSecret
  /\ job' = [job EXCEPT ![r].pc = "delete"]
  /\ UNCHANGED <<rows, marked, told, fresh, uses, overlapped, apart, failures>>

DeleteBackupCodes(r) ==
  /\ job[r].pc = "delete"
  /\ rows' = {}
  /\ marked' = {}
  /\ told' = "off"
  /\ apart' = (apart /\ r \in overlapped)
  /\ Finish(r)
  /\ UNCHANGED <<secret, fresh, uses, overlapped, failures>>

\* "failed to disable 2FA": the answer says nothing about the state.
DisableFails(r) ==
  /\ job[r].pc \in {"disable", "delete"}
  /\ failures < MaxFailures
  /\ failures' = failures + 1
  /\ told' = "unknown"
  /\ apart' = (apart \/ job[r].pc = "delete")
  /\ Finish(r)
  /\ UNCHANGED <<secret, rows, marked, fresh, uses, overlapped>>

----------------------------------------------------------------------------
(***************************************************************************)
(* RegenerateBackupCodes and ValidateBackupCode                            *)
(***************************************************************************)
ReceiveRegenerate(r, b) ==
  /\ b \in fresh
  /\ fresh' = fresh \ {b}
  /\ Start(r, "regenerate", b)
  /\ UNCHANGED <<secret, rows, marked, told, uses, failures>>

\* Mutant: used codes are offered too.
AllRows == rows

\* GetUnusedBackupCodes
UnusedRows == rows \ marked

\* The code matches an unused row, which is marked in a later statement.
MatchCode(r, x) ==
  /\ job[r].pc = "idle"
  /\ x \in UnusedRows
  /\ uses[x] < MaxUses
  /\ job' = [job EXCEPT ![r] = [pc |-> "mark", batch |-> x[1], code |-> x[2]]]
  /\ UNCHANGED <<secret, rows, marked, told, fresh, uses, overlapped, apart, failures>>

\* The rows that the UPDATE for x finds.
MarkedBy(x) == {x} \cap rows

\* UPDATE ... WHERE id = ?, whether or not the row is marked or still there.
MarkCodeUsed(r) ==
  LET x == <<job[r].batch, job[r].code>> IN
  /\ job[r].pc = "mark"
  /\ marked' = marked \cup MarkedBy(x)
  /\ uses' = [uses EXCEPT ![x] = @ + 1]
  /\ Finish(r)
  /\ UNCHANGED <<secret, rows, told, fresh, overlapped, apart, failures>>

\* The statement fails, and the code is not accepted.
MarkFails(r) ==
  /\ job[r].pc = "mark"
  /\ failures < MaxFailures
  /\ failures' = failures + 1
  /\ Finish(r)
  /\ UNCHANGED <<secret, rows, marked, told, fresh, uses, overlapped, apart>>

----------------------------------------------------------------------------
\* Between the two statements of an enabling or a disabling.
HalfWay(r) == job[r].pc \in {"store", "delete"}

\* The process dies: nobody is told how the requests in flight ended.
Crash ==
  /\ failures < MaxFailures
  /\ failures' = failures + 1
  /\ told' = IF \E r \in Requests : job[r].pc # "idle" THEN "unknown" ELSE told
  /\ job' = [r \in Requests |-> Idle]
  /\ overlapped' = {}
  /\ apart' = (apart \/ \E r \in Requests : HalfWay(r))
  /\ UNCHANGED <<secret, rows, marked, fresh, uses>>

Next ==
  \/ \E r \in Requests :
       \/ \E b \in Batches : ReceiveVerify(r, b) \/ ReceiveRegenerate(r, b)
       \/ RefuseCode(r) \/ UpdateSecret(r) \/ StoreBackupCodes(r) \/ EnableFails(r) \/ StoreFails(r)
       \/ ReceiveDisable(r) \/ ClearSecret(r) \/ DeleteBackupCodes(r) \/ DisableFails(r)
       \/ \E x \in Batches \X Codes : MatchCode(r, x)
       \/ MarkCodeUsed(r) \/ MarkFails(r)
  \/ Crash

Spec == Init /\ [][Next]_vars

----------------------------------------------------------------------------
\* No request is in flight.
Quiet == \A r \in Requests : job[r].pc = "idle"

\* The types of the tables and of the jobs.
TypeOK ==
  /\ secret \in Batches \cup {NoBatch}
  /\ rows \in SUBSET (Batches \X Codes)
  /\ marked \in SUBSET rows
  /\ job \in [Requests -> Job]
  /\ told \in {"on", "off", "unknown"}
  /\ fresh \in SUBSET Batches
  /\ uses \in [Batches \X Codes -> Nat]
  /\ overlapped \in SUBSET Requests
  /\ failures \in Nat

\* 2FA is on exactly when there are backup codes.  They come apart only when an
\* enabling or disabling is broken off after its first statement, when changes
\* overlap, or when codes are regenerated while 2FA is off; and the next enabling
\* or disabling that meets no other puts them together again.
CodesGoWithSecret ==
  (~apart /\ \A r \in Requests : ~HalfWay(r)) => (secret # NoBatch <=> rows # {})

\* A backup code can be accepted again only by requests that matched it before
\* it was marked: those in flight with the first one.
ReuseBounded == \A x \in Batches \X Codes : uses[x] <= Cardinality(Requests)

\* When nothing ran beside it, an enabling that is answered with success leaves
\* its own secret with its own codes, and a disabling leaves neither, whatever
\* failed or was cut off before.
AnswersHold ==
  [][\A r \in Requests \ overlapped :
       /\ (StoreBackupCodes(r) /\ job[r].pc = "store")
            => secret' = job[r].batch /\ rows' = CodesOf(job[r].batch)
       /\ DeleteBackupCodes(r) => secret' = NoBatch /\ rows' = {}]_vars

\* What the user was last told is true: "invalid 2FA code" after a failed
\* enabling (auth_handlers.go:407) means 2FA was not enabled.
AnswerIsTrue == Quiet /\ told # "unknown" => (told = "on" <=> secret # NoBatch)
============================================================================
