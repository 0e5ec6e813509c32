--------------------------- MODULE Accounts_proofs ---------------------------
(***************************************************************************)
(* A name found free stays so for the registration that found it unless    *)
(* another is faster, no reset token is accepted more often than requests  *)
(* overlap, an unverified account has a token on its way, sessions are for *)
(* eligible accounts, and reset links keep working: for any number of      *)
(* users, requests, tokens, failures and crashes, and without the bounds   *)
(* of the run.                                                             *)
(***************************************************************************)
EXTENDS Accounts, FiniteSetTheorems, TLAPS

\* The steps of a registration before the account exists, those of a request
\* about an account, and those of a request that brought a token.
Registering == {"username", "email", "verification", "approval", "insert"}
UserSteps == {"clear", "store", "grant", "login", "forgot", "reset", "verify", "consume", "update"}
TokenSteps == {"reset", "verify", "consume"}

Job == [pc : {"idle"} \cup Registering \cup UserSteps,
        user : Users \cup {NoUser}, name : Names \cup {NoName}, email : Names \cup {NoName},
        password : Passwords \cup {NoPassword}, token : Tokens \cup {NoToken},
        role : Roles, status : Statuses, verified : BOOLEAN, asked : SUBSET {"role", "status"}]

\* Requests that validated reset token t and have not yet written a password.
Resetting(t) == {r \in Requests : job[r].pc = "reset" /\ job[r].token = t}

TableTypes ==
  /\ account \in [Users -> Account \cup {NoAccount}]
  /\ settings \in SUBSET Settings
  /\ verifyRows \in SUBSET (Users \X Tokens)

GhostTypes ==
  /\ fresh \in SUBSET Tokens
  /\ outdated \in SUBSET Requests
  /\ cutOff \in SUBSET Users
  /\ uses \in [Tokens -> Nat]

\* What a request carries is what its next statement needs, and a token belongs
\* to nobody else.  It is deleted only after its account was verified.
Fits(j) ==
  /\ j.pc \in Registering => j.name \in Names /\ j.email \in Emails /\ j.password \in Passwords
  /\ j.pc \in UserSteps => j.user \in Registered
  /\ j.pc \in TokenSteps => j.token \in Tokens \ fresh
  /\ j.pc = "reset" =>
       j.password \in Passwords /\ \A u \in Registered : account[u].reset = j.token => u = j.user
  /\ j.pc \in {"verify", "consume"} => \A x \in verifyRows : x[2] = j.token => x[1] = j.user
  /\ j.pc = "consume" => account[j.user].verified

\* What the request has read is still so.
Current(j) ==
  LET row == account[j.user] IN
  /\ j.pc = "login" => row.status = "active" /\ row.verified = j.verified
  /\ j.pc = "grant" =>
       row.status = "active" /\ ("email_verification_required" \in settings => row.verified)
  /\ j.pc = "reset" => row.reset = j.token

JobsInv ==
  /\ job \in [Requests -> Job]
  /\ \A r \in Requests : Fits(job[r]) /\ (r \notin outdated => Current(job[r]))

\* A token is in one row of one table.
TokensInv ==
  /\ \A u \in Registered : account[u].reset \notin fresh
  /\ \A u, v \in Registered :
       account[u].reset = account[v].reset /\ account[u].reset # NoToken => u = v
  /\ \A x \in verifyRows : x[1] \in Registered /\ x[2] \notin fresh
  /\ \A x, y \in verifyRows : x[2] = y[2] => x = y

\* Requests in flight are part of the sum.  As long as the token is in its row
\* none of them has ended.
UsesInv ==
  \A t \in Tokens :
    /\ uses[t] + Cardinality(Resetting(t)) <= Cardinality(Requests)
    /\ t \in fresh => uses[t] = 0
    /\ (\E u \in Registered : account[u].reset = t) => uses[t] = 0

AccountsInv ==
  /\ TableTypes /\ GhostTypes /\ JobsInv
  /\ TokensInv /\ UsesInv /\ VerificationReachable

----------------------------------------------------------------------------
\* The fields of jobs and rows.
LEMMA JobFields ==
  ASSUME NEW j \in Job
  PROVE  /\ j.pc \in {"idle"} \cup Registering \cup UserSteps
         /\ j.user \in Users \cup {NoUser} /\ j.name \in Names \cup {NoName}
         /\ j.email \in Names \cup {NoName} /\ j.password \in Passwords \cup {NoPassword}
         /\ j.token \in Tokens \cup {NoToken} /\ j.role \in Roles /\ j.status \in Statuses
         /\ j.verified \in BOOLEAN /\ j.asked \in SUBSET {"role", "status"}
  BY DEF Job

LEMMA RowFields ==
  ASSUME NEW row \in Account
  PROVE  /\ row.name \in Names /\ row.email \in Emails /\ row.password \in Passwords
         /\ row.role \in Roles /\ row.status \in Statuses /\ row.verified \in BOOLEAN
         /\ row.twoFactor \in BOOLEAN /\ row.reset \in Tokens \cup {NoToken}
  BY DEF Account

LEMMA IdleFits ==
  ASSUME AccountsAssumption
  PROVE  Idle \in Job /\ Idle.pc = "idle" /\ Idle.user = NoUser /\ Fits(Idle)' /\ Current(Idle)'
<1>1. Idle \in Job /\ Idle.pc = "idle" /\ Idle.user = NoUser
  BY DEF AccountsAssumption, Idle, Job, Statuses
<1>2. Fits(Idle)' /\ Current(Idle)'
  BY <1>1 DEF Fits, Current, Registering, UserSteps, TokenSteps
<1> QED
  BY <1>1, <1>2

\* One request goes on with a job that fits; the others keep theirs.
LEMMA JobsAfter ==
  ASSUME JobsInv, NEW r \in Requests, NEW j \in Job, job' = [job EXCEPT ![r] = j],
         Fits(j)', r \notin outdated' => Current(j)',
         \A k \in Job : Fits(k) => Fits(k)',
         \A q \in Requests \ {r} : q \notin outdated' /\ Fits(job[q]) =>
           q \notin outdated /\ (Current(job[q]) => Current(job[q])')
  PROVE  JobsInv'
<1>1. job' \in [Requests -> Job] /\ job'[r] = j /\ \A q \in Requests \ {r} : job'[q] = job[q]
  BY DEF JobsInv
<1>2. ASSUME NEW q \in Requests
      PROVE  Fits(job[q])' /\ (q \notin outdated' => Current(job[q])')
  <2>1. CASE q = r
    BY <1>1, <2>1 DEF Fits, Current
  <2>2. CASE q # r
    <3> DEFINE k == job[q]
    <3>1. k \in Job /\ Fits(k) /\ job'[q] = k
      BY <1>1, <2>2 DEF JobsInv
    <3> QED
      BY <1>1, <2>2, <3>1 DEF JobsInv
  <2> QED
    BY <2>1, <2>2
<1> QED
  BY <1>1, <1>2 DEF JobsInv

\* The requests that carry token t as one of them gets another job.
LEMMA ResettingAfter ==
  ASSUME AccountsAssumption, JobsInv, NEW r \in Requests, NEW j \in Job,
         job' = [job EXCEPT ![r] = j], NEW t
  PROVE  /\ Resetting(t)' = IF j.pc = "reset" /\ j.token = t
                            THEN Resetting(t) \cup {r} ELSE Resetting(t) \ {r}
         /\ IsFiniteSet(Resetting(t)) /\ IsFiniteSet(Resetting(t)')
         /\ Cardinality(Resetting(t)) \in Nat /\ Cardinality(Resetting(t)') \in Nat
         /\ Cardinality(Requests) \in Nat
         /\ Cardinality(Resetting(t)') <= Cardinality(Requests)
<1>1. job' \in [Requests -> Job] /\ job'[r] = j /\ \A q \in Requests \ {r} : job'[q] = job[q]
  BY DEF JobsInv
<1>2. Resetting(t)' = IF j.pc = "reset" /\ j.token = t
                      THEN Resetting(t) \cup {r} ELSE Resetting(t) \ {r}
  BY <1>1 DEF Resetting
<1>3. Resetting(t) \subseteq Requests /\ Resetting(t)' \subseteq Requests
  BY DEF Resetting
<1> QED
  BY <1>2, <1>3, FS_Subset, FS_CardinalityType DEF AccountsAssumption

\* Resets that give up make room, and a new one begins with a token that is in
\* its row.
LEMMA UsesAfter ==
  ASSUME AccountsAssumption, AccountsInv, NEW r \in Requests, NEW j \in Job,
         job' = [job EXCEPT ![r] = j], uses' = uses, fresh' \subseteq fresh,
         \A t \in Tokens : (\E u \in Registered' : account'[u].reset = t) =>
           t \in fresh \/ \E u \in Registered : account[u].reset = t,
         j.pc = "reset" => uses[j.token] = 0
  PROVE  UsesInv'
<1> SUFFICES ASSUME NEW t \in Tokens
             PROVE  uses[t] + Cardinality(Resetting(t)') <= Cardinality(Requests)
  BY DEF AccountsInv, UsesInv
<1>1. uses[t] \in Nat /\ uses[t] + Cardinality(Resetting(t)) <= Cardinality(Requests)
  BY DEF AccountsInv, GhostTypes, UsesInv
<1>0. JobsInv
  BY DEF AccountsInv
<1>a. /\ Resetting(t)' = IF j.pc = "reset" /\ j.token = t
                         THEN Resetting(t) \cup {r} ELSE Resetting(t) \ {r}
      /\ IsFiniteSet(Resetting(t))
  BY <1>0, ResettingAfter
<1>b. /\ Cardinality(Resetting(t)) \in Nat /\ Cardinality(Resetting(t)') \in Nat
      /\ Cardinality(Requests) \in Nat
      /\ Cardinality(Resetting(t)') <= Cardinality(Requests)
  BY <1>0, ResettingAfter
<1>2. CASE j.pc = "reset" /\ j.token = t
  BY <1>2, <1>b, <1>1
<1>3. CASE ~(j.pc = "reset" /\ j.token = t)
  <2>1. Resetting(t)' \subseteq Resetting(t)
    BY <1>3, <1>a
  <2>2. Cardinality(Resetting(t)') <= Cardinality(Resetting(t))
    BY <2>1, <1>a, FS_Subset
  <2> QED
    BY <1>1, <2>2, <1>b
<1> QED
  BY <1>2, <1>3

\* As long as rows and registrations under way do not lose what they have, an
\* unverified account has its token.
LEMMA ReachAfter ==
  ASSUME VerificationReachable, JobsInv, NEW r \in Requests, NEW j \in Job,
         job' = [job EXCEPT ![r] = j], cutOff \subseteq cutOff',
         \A u \in Registered' : u \in Registered /\ (account[u].verified => account'[u].verified),
         \A x \in verifyRows : x \in verifyRows' \/ (x[1] \in Registered' => account'[x[1]].verified),
         AwaitingMail(r) =>
           \/ j.pc \in {"clear", "store"} /\ j.user = job[r].user
           \/ job[r].user \in cutOff'
           \/ \E t \in Tokens : <<job[r].user, t>> \in verifyRows'
  PROVE  VerificationReachable'
<1>1. job' \in [Requests -> Job] /\ job'[r] = j /\ \A q \in Requests \ {r} : job'[q] = job[q]
  BY DEF JobsInv
<1> SUFFICES ASSUME NEW u \in Registered', ~account'[u].verified, u \notin cutOff',
                    ~\E t \in Tokens : <<u, t>> \in verifyRows'
             PROVE  \E q \in Requests : job'[q].user = u /\ AwaitingMail(q)'
  BY DEF VerificationReachable
<1>2. u \in Registered /\ ~account[u].verified /\ u \notin cutOff
  OBVIOUS
<1>3. ~\E t \in Tokens : <<u, t>> \in verifyRows
  OBVIOUS
<1>4. PICK q \in Requests : job[q].user = u /\ AwaitingMail(q)
  BY <1>2, <1>3 DEF VerificationReachable
<1>5. CASE q = r
  <2>1. j.pc \in {"clear", "store"} /\ j.user = u
    BY <1>4, <1>5
  <2> QED
    BY <1>1, <2>1 DEF AwaitingMail
<1>6. CASE q # r
  BY <1>1, <1>4, <1>6 DEF AwaitingMail
<1> QED
  BY <1>5, <1>6
----------------------------------------------------------------------------
\* A request reads, is refused, or goes on; the tables stay.
LEMMA MoveKeeps ==
  ASSUME AccountsAssumption, AccountsInv, NEW r \in Requests, NEW j \in Job,
         job' = [job EXCEPT ![r] = j],
         UNCHANGED <<account, settings, verifyRows, fresh, uses>>,
         Fits(j), r \notin outdated' => Current(j),
         outdated' \in SUBSET Requests, outdated \ {r} \subseteq outdated',
         cutOff' \in SUBSET Users, cutOff \subseteq cutOff',
         j.pc = "reset" => uses[j.token] = 0,
         AwaitingMail(r) => \/ j.pc \in {"clear", "store"} /\ j.user = job[r].user
                            \/ job[r].user \in cutOff'
  PROVE  AccountsInv'
<1> USE DEF AccountsInv
<1>1. TableTypes' /\ GhostTypes'
  BY DEF TableTypes, GhostTypes
<1>2. Registered' = Registered
  BY DEF Registered
<1>3. TokensInv'
  BY <1>2 DEF TokensInv
<1>4. \A k : (Fits(k) => Fits(k)') /\ (Current(k) => Current(k)')
  BY <1>2 DEF Fits, Current
<1>5. JobsInv'
  <2>1. Fits(j)' /\ (r \notin outdated' => Current(j)')
    BY <1>4
  <2>2. ASSUME NEW q \in Requests \ {r}, q \notin outdated', Current(job[q])
        PROVE  q \notin outdated /\ Current(job[q])'
    <3>1. job'[q] = job[q]
      BY DEF JobsInv
    <3> QED
      BY <2>2, <3>1 DEF Current
  <2>3. \A q \in Requests \ {r} : q \notin outdated' => q \notin outdated
    OBVIOUS
  <2> QED
    BY <1>4, <2>1, <2>2, <2>3, JobsAfter
<1>6. UsesInv'
  BY <1>2, UsesAfter
<1>7. VerificationReachable'
  BY <1>2, ReachAfter DEF TableTypes
<1> QED
  BY <1>1, <1>3, <1>5, <1>6, <1>7

\* The row of a registered account is written, and that it was verified stays.
LEMMA RowWritten ==
  ASSUME AccountsAssumption, AccountsInv, NEW u \in Registered, NEW row \in Account,
         account' = [account EXCEPT ![u] = row], UNCHANGED <<settings, verifyRows>>,
         fresh' \subseteq fresh,
         account[u].verified => row.verified,
         row.reset \in {NoToken, account[u].reset} \cup (fresh \ fresh')
  PROVE  /\ TableTypes' /\ Registered' = Registered /\ TokensInv'
         /\ \A k : Fits(k) => Fits(k)'
         /\ \A k : Fits(k) /\ k.user # u /\ Current(k) => Current(k)'
         /\ \A v \in Registered : account[v].verified => account'[v].verified
         /\ \A t \in Tokens : (\E v \in Registered' : account'[v].reset = t) =>
              t \in fresh \/ \E v \in Registered : account[v].reset = t
<1> USE DEF AccountsInv
<1>0. u \in Users /\ row # NoAccount /\ account \in [Users -> Account \cup {NoAccount}]
  BY DEF Registered, AccountsAssumption, TableTypes
<1>1. account' \in [Users -> Account \cup {NoAccount}] /\ account'[u] = row
      /\ \A v \in Users \ {u} : account'[v] = account[v]
  BY <1>0
<1>2. TableTypes' /\ Registered' = Registered
  BY <1>0, <1>1 DEF TableTypes, Registered
<1>4. \A v \in Registered :
        \/ account'[v].reset \in {NoToken, account[v].reset}
        \/ v = u /\ account'[v].reset \in fresh \ fresh'
  BY <1>0, <1>1 DEF Registered
<1>a. NoToken \notin Tokens
  BY DEF AccountsAssumption
<1>b. fresh \in SUBSET Tokens
  BY DEF GhostTypes
<1>5. TokensInv'
  <2>1. \A v \in Registered' : account'[v].reset \notin fresh'
    BY <1>2, <1>4, <1>a, <1>b DEF TokensInv
  <2>2. \A v, w \in Registered' :
          account'[v].reset = account'[w].reset /\ account'[v].reset # NoToken => v = w
    BY <1>2, <1>4 DEF TokensInv
  <2>3. \A x \in verifyRows' : x[1] \in Registered' /\ x[2] \notin fresh'
    BY <1>2 DEF TokensInv
  <2> QED
    BY <2>1, <2>2, <2>3 DEF TokensInv
<1>6. \A v \in Registered : account[v].verified => account'[v].verified
  BY <1>0, <1>1 DEF Registered
<1>7. ASSUME NEW k, Fits(k) PROVE Fits(k)'
  <2>1. k.pc = "reset" => \A v \in Registered' : account'[v].reset = k.token => v = k.user
    BY <1>2, <1>4, <1>7, <1>a DEF Fits, TokenSteps
  <2>2. k.pc = "consume" => account'[k.user].verified
    BY <1>6, <1>7 DEF Fits, UserSteps
  <2>3. k.pc \in TokenSteps => k.token \in Tokens \ fresh'
    BY <1>7 DEF Fits
  <2> QED
    BY <1>2, <1>7, <2>1, <2>2, <2>3 DEF Fits
<1>8. ASSUME NEW k, Fits(k), k.user # u, Current(k) PROVE Current(k)'
  <2>1. k.pc \in UserSteps => account'[k.user] = account[k.user]
    BY <1>1, <1>8 DEF Fits, Registered
  <2> QED
    BY <1>8, <2>1 DEF Current, UserSteps
<1> QED
  BY <1>2, <1>5, <1>6, <1>7, <1>8, <1>4, <1>a

\* A statement that writes the row of u ends its request, or leaves it to consume
\* its token; every other request about u is outdated.
LEMMA WriteKeeps ==
  ASSUME AccountsAssumption, AccountsInv, NEW u \in Registered, NEW row \in Account,
         account' = [account EXCEPT ![u] = row],
         UNCHANGED <<settings, verifyRows, cutOff>>, fresh' \subseteq fresh,
         account[u].verified => row.verified,
         row.reset \in {NoToken, account[u].reset} \cup (fresh \ fresh'),
         NEW r \in Requests, NEW j \in Job, job' = [job EXCEPT ![r] = j],
         j.pc \in {"idle", "consume"}, Fits(j)', ~AwaitingMail(r),
         outdated' = (outdated \cup {q \in Requests : job[q].user = u}) \ {r}
  PROVE  /\ TableTypes' /\ JobsInv' /\ TokensInv' /\ VerificationReachable'
         /\ outdated' \in SUBSET Requests
         /\ uses' = uses => UsesInv'
<1> USE DEF AccountsInv
<1>1. /\ TableTypes' /\ Registered' = Registered /\ TokensInv'
      /\ \A k : Fits(k) => Fits(k)'
      /\ \A k : Fits(k) /\ k.user # u /\ Current(k) => Current(k)'
      /\ \A v \in Registered : account[v].verified => account'[v].verified
      /\ \A t \in Tokens : (\E v \in Registered' : account'[v].reset = t) =>
           t \in fresh \/ \E v \in Registered : account[v].reset = t
  BY RowWritten
<1>2. outdated' \in SUBSET Requests
  BY DEF GhostTypes
<1>3. JobsInv'
  <2>1. Current(j)'
    BY DEF Current
  <2>2. ASSUME NEW q \in Requests \ {r}, q \notin outdated', Fits(job[q]), Current(job[q])
        PROVE  Current(job[q])'
    <3>1. job[q].user # u /\ job'[q] = job[q]
      BY <2>2 DEF JobsInv
    <3>2. \A k : k = job[q] => Current(k)'
      BY <1>1, <2>2, <3>1
    <3> QED
      BY <3>1, <3>2 DEF Current
  <2>3. \A q \in Requests \ {r} : q \notin outdated' => q \notin outdated
    OBVIOUS
  <2> QED
    BY <1>1, <2>1, <2>2, <2>3, JobsAfter
<1>4. VerificationReachable'
  BY <1>1, ReachAfter DEF TableTypes
<1>5. uses' = uses => UsesInv'
  BY <1>1, UsesAfter
<1> QED
  BY <1>1, <1>2, <1>3, <1>4, <1>5
----------------------------------------------------------------------------
(***************************************************************************)
(* Steps that leave accounts and tokens as they are                        *)
(***************************************************************************)

\* Nothing the invariant speaks of changes.
LEMMA SameKeeps ==
  ASSUME AccountsInv,
         UNCHANGED <<account, settings, verifyRows, job, fresh, outdated, cutOff, uses>>
  PROVE  AccountsInv'
<1>1. TableTypes' /\ GhostTypes' /\ JobsInv'
  BY DEF AccountsInv, TableTypes, GhostTypes, JobsInv, Fits, Current, Registered
<1>2. TokensInv'
  BY DEF AccountsInv, TokensInv, Registered
<1>3. UsesInv'
  BY DEF AccountsInv, UsesInv, Registered, Resetting
<1>4. VerificationReachable'
  BY DEF AccountsInv, VerificationReachable, Registered, AwaitingMail
<1> QED
  BY <1>1, <1>2, <1>3, <1>4 DEF AccountsInv

\* A request ends; a registration that ends without its mail is noted.
LEMMA FinishKeeps ==
  ASSUME AccountsAssumption, AccountsInv, NEW r \in Requests, Finish(r),
         UNCHANGED <<account, settings, verifyRows, fresh, uses>>,
         outdated' \in SUBSET Requests, outdated \ {r} \subseteq outdated',
         cutOff' = IF AwaitingMail(r) THEN cutOff \cup {job[r].user} ELSE cutOff
  PROVE  AccountsInv'
<1>1. Idle \in Job /\ Idle.pc = "idle" /\ Fits(Idle) /\ Current(Idle)
  <2>1. Idle \in Job /\ Idle.pc = "idle"
    BY IdleFits
  <2> QED
    BY <2>1 DEF Fits, Current, Registering, UserSteps, TokenSteps
<1>2. job' = [job EXCEPT ![r] = Idle]
  BY DEF Finish
<1>3. AwaitingMail(r) => job[r].user \in Users
  BY DEF AccountsInv, JobsInv, Fits, AwaitingMail, UserSteps, Registered
<1>4. cutOff' \in SUBSET Users /\ cutOff \subseteq cutOff'
  BY <1>3 DEF AccountsInv, GhostTypes
<1>5. AwaitingMail(r) => job[r].user \in cutOff'
  OBVIOUS
<1> QED
  BY <1>1, <1>2, <1>4, <1>5, MoveKeeps

\* The request goes on at a step that asks for no more than the one before.
LEMMA GoOnKeeps ==
  ASSUME AccountsAssumption, AccountsInv, NEW r \in Requests, NEW j \in Job,
         job' = [job EXCEPT ![r] = j],
         UNCHANGED <<account, settings, verifyRows, fresh, cutOff, uses>>,
         outdated' \in SUBSET Requests, outdated \ {r} \subseteq outdated',
         ~AwaitingMail(r), Fits(j), r \notin outdated' => Current(j), j.pc # "reset"
  PROVE  AccountsInv'
<1>1. cutOff' \in SUBSET Users /\ cutOff \subseteq cutOff'
  BY DEF AccountsInv, GhostTypes
<1> QED
  BY <1>1, MoveKeeps

LEMMA RegistrationMoves ==
  ASSUME AccountsAssumption, AccountsInv, NEW r \in Requests,
         \/ \E n \in Names, e \in Emails, p \in Passwords : ReceiveRegister(r, n, e, p)
         \/ CheckUsername(r) \/ CheckEmail(r) \/ InsertRefused(r)
         \/ \E failing \in BOOLEAN : ReadVerification(r, failing) \/ ReadApproval(r, failing)
  PROVE  AccountsInv'
<1>0. /\ UNCHANGED <<account, settings, verifyRows, fresh, cutOff, uses>>
      /\ job \in [Requests -> Job] /\ job[r] \in Job /\ Fits(job[r])
      /\ outdated' \in SUBSET Requests /\ outdated \ {r} \subseteq outdated'
  BY DEF ReceiveRegister, CheckUsername, CheckEmail, InsertRefused, ReadVerification,
         ReadApproval, Renew, tables, ghosts, AccountsInv, JobsInv, GhostTypes
<1>1. ~AwaitingMail(r)
  BY DEF AwaitingMail, ReceiveRegister, Receive, CheckUsername, CheckEmail, InsertRefused,
         ReadVerification, ReadApproval
<1>2. CASE Finish(r)
  BY <1>0, <1>1, <1>2, FinishKeeps
<1>3. ASSUME NEW j \in Job, job' = [job EXCEPT ![r] = j], j.pc \in Registering,
             j.name \in Names, j.email \in Emails, j.password \in Passwords
      PROVE  AccountsInv'
  <2>1. Fits(j) /\ Current(j) /\ j.pc # "reset"
    BY <1>3 DEF Fits, Current, Registering, UserSteps, TokenSteps
  <2> QED
    BY <1>0, <1>1, <1>3, <2>1, GoOnKeeps
<1>4. ASSUME NEW n \in Names, NEW e \in Emails, NEW p \in Passwords, ReceiveRegister(r, n, e, p)
      PROVE  AccountsInv'
  <2> DEFINE j == [Idle EXCEPT !.pc = "username", !.name = n, !.email = e, !.password = p]
  <2>1. j \in Job /\ j.pc = "username" /\ j.name = n /\ j.email = e /\ j.password = p
    BY IdleFits DEF AccountsAssumption, Idle, Job, Registering, Statuses
  <2>2. job' = [job EXCEPT ![r] = j]
    BY <1>4 DEF ReceiveRegister, Receive
  <2> HIDE DEF j
  <2> QED
    BY <1>3, <2>1, <2>2 DEF Registering
<1>5. ASSUME NEW pc \in Registering, GoTo(r, pc), job[r].pc \in Registering
      PROVE  AccountsInv'
  <2> DEFINE j == [job[r] EXCEPT !.pc = pc]
  <2>1. /\ j \in Job /\ j.pc = pc /\ j.name = job[r].name /\ j.email = job[r].email
        /\ j.password = job[r].password
    BY <1>0 DEF Job
  <2>2. job' = [job EXCEPT ![r] = j]
    BY <1>0, <1>5 DEF GoTo
  <2> HIDE DEF j
  <2> QED
    BY <1>0, <1>3, <1>5, <2>1, <2>2 DEF Fits
<1>6. ASSUME NEW failing \in BOOLEAN, ReadVerification(r, failing)
      PROVE  AccountsInv'
  <2> DEFINE j == [job[r] EXCEPT !.pc = "approval",
                     !.verified = ~SettingRead("email_verification_required", failing)]
  <2>1. /\ j \in Job /\ j.pc = "approval" /\ j.name = job[r].name /\ j.email = job[r].email
        /\ j.password = job[r].password
    BY <1>0, ZenonT(40) DEF Job, SettingRead, Registering
  <2>2. job' = [job EXCEPT ![r] = j]
    BY <1>0, <1>6 DEF ReadVerification
  <2>3. job[r].pc \in Registering
    BY <1>6 DEF ReadVerification, Registering
  <2> HIDE DEF j
  <2> QED
    BY <1>0, <1>3, <2>1, <2>2, <2>3 DEF Fits, Registering
<1>7. ASSUME NEW failing \in BOOLEAN, ReadApproval(r, failing)
      PROVE  AccountsInv'
  <2> DEFINE s == InitialStatus(SettingRead("registration_requires_approval", failing))
             j == [job[r] EXCEPT !.pc = "insert", !.status = s]
  <2>0. s \in Statuses
    BY DEF InitialStatus, Statuses
  <2> HIDE DEF s
  <2>1. /\ j \in Job /\ j.pc = "insert" /\ j.name = job[r].name /\ j.email = job[r].email
        /\ j.password = job[r].password
    BY <1>0, <2>0 DEF Job, Registering
  <2>2. job' = [job EXCEPT ![r] = j]
    BY <1>0, <1>7 DEF ReadApproval, s
  <2>3. job[r].pc \in Registering
    BY <1>7 DEF ReadApproval, Registering
  <2> HIDE DEF j
  <2> QED
    BY <1>0, <1>3, <2>1, <2>2, <2>3 DEF Fits, Registering
<1> QED
  BY <1>2, <1>4, <1>5, <1>6, <1>7 DEF CheckUsername, CheckEmail, InsertRefused, Registering
----------------------------------------------------------------------------
(***************************************************************************)
(* The INSERT                                                              *)
(***************************************************************************)

\* A new row shares nothing with those that are there, and takes nothing from
\* the requests in flight.
LEMMA InsertKeeps ==
  ASSUME AccountsAssumption, AccountsInv, NEW u \in Users, account[u] = NoAccount,
         NEW row \in Account, account' = [account EXCEPT ![u] = row],
         UNCHANGED <<settings, verifyRows, fresh, uses>>, row.reset = NoToken,
         NEW r \in Requests, NEW j \in Job, job' = [job EXCEPT ![r] = j], ~AwaitingMail(r),
         Fits(j)', Current(j)', j.pc # "reset",
         cutOff' \in SUBSET Users, cutOff \subseteq cutOff',
         outdated' \in SUBSET Requests, outdated \ {r} \subseteq outdated',
         row.verified \/ u \in cutOff' \/ (j.pc \in {"clear", "store"} /\ j.user = u)
  PROVE  AccountsInv'
<1> USE DEF AccountsInv
<1>0. row # NoAccount /\ account \in [Users -> Account \cup {NoAccount}] /\ NoToken \notin Tokens
  BY DEF AccountsAssumption, TableTypes
<1>1. account' \in [Users -> Account \cup {NoAccount}] /\ account'[u] = row
      /\ \A v \in Users \ {u} : account'[v] = account[v]
  BY <1>0
<1>2. TableTypes' /\ GhostTypes'
  BY <1>1 DEF TableTypes, GhostTypes
<1>3. u \notin Registered /\ Registered' = Registered \cup {u}
      /\ \A v \in Registered : account'[v] = account[v]
  BY <1>0, <1>1 DEF Registered
<1>5. \A v \in Registered', t \in Tokens : account'[v].reset = t =>
        v \in Registered /\ account[v].reset = t
  BY <1>0, <1>1, <1>3
<1>6. TokensInv'
  <2>1. \A v \in Registered' : account'[v].reset \notin fresh'
    BY <1>0, <1>1, <1>3 DEF TokensInv, GhostTypes
  <2>2. \A v, w \in Registered' :
          account'[v].reset = account'[w].reset /\ account'[v].reset # NoToken => v = w
    BY <1>1, <1>3 DEF TokensInv
  <2> QED
    BY <1>3, <2>1, <2>2 DEF TokensInv
<1>7. ASSUME NEW k, Fits(k)
      PROVE  Fits(k)' /\ (Current(k) => Current(k)')
  <2>1. k.pc = "reset" => \A v \in Registered' : account'[v].reset = k.token => v = k.user
    BY <1>5, <1>7 DEF Fits, TokenSteps
  <2>2. k.pc \in UserSteps => account'[k.user] = account[k.user] /\ k.user \in Registered'
    BY <1>3, <1>7 DEF Fits
  <2>3. Fits(k)'
    BY <1>7, <2>1, <2>2 DEF Fits, UserSteps
  <2> QED
    BY <2>2, <2>3 DEF Current, UserSteps
<1>8. JobsInv'
  <2>1. ASSUME NEW q \in Requests \ {r}, Fits(job[q]), Current(job[q])
        PROVE  Current(job[q])'
    <3>1. job'[q] = job[q]
      BY DEF JobsInv
    <3>2. \A k : k = job[q] => Current(k)'
      BY <1>7, <2>1
    <3> QED
      BY <3>1, <3>2 DEF Current
  <2> QED
    BY <1>7, <2>1, JobsAfter
<1>9. UsesInv'
  BY <1>5, UsesAfter
<1>10. VerificationReachable'
  <2>1. job' \in [Requests -> Job] /\ job'[r] = j /\ \A q \in Requests \ {r} : job'[q] = job[q]
    BY DEF JobsInv
  <2>2. CASE row.verified \/ u \in cutOff'
    <3> SUFFICES ASSUME NEW v \in Registered, ~account'[v].verified, v \notin cutOff',
                        ~\E t \in Tokens : <<v, t>> \in verifyRows'
                 PROVE  \E q \in Requests : job'[q].user = v /\ AwaitingMail(q)'
      BY <1>1, <1>3, <2>2 DEF VerificationReachable
    <3>1. PICK q \in Requests : job[q].user = v /\ AwaitingMail(q)
      BY <1>3 DEF VerificationReachable
    <3> QED
      BY <2>1, <3>1 DEF AwaitingMail
  <2>3. CASE j.pc \in {"clear", "store"} /\ j.user = u
    <3> SUFFICES ASSUME NEW v \in Registered, ~account'[v].verified, v \notin cutOff',
                        ~\E t \in Tokens : <<v, t>> \in verifyRows'
                 PROVE  \E q \in Requests : job'[q].user = v /\ AwaitingMail(q)'
      BY <1>3, <2>1, <2>3 DEF VerificationReachable, AwaitingMail
    <3>1. PICK q \in Requests : job[q].user = v /\ AwaitingMail(q)
      BY <1>3 DEF VerificationReachable
    <3> QED
      BY <2>1, <3>1 DEF AwaitingMail
  <2> QED
    BY <2>2, <2>3
<1> QED
  BY <1>2, <1>6, <1>8, <1>9, <1>10

LEMMA InsertAccountKeeps ==
  ASSUME AccountsAssumption, AccountsInv, NEW r \in Requests, NEW u \in Users,
         InsertAccount(r, u)
  PROVE  AccountsInv'
<1> DEFINE k == job[r]
           row == [name |-> k.name, email |-> k.email, password |-> k.password,
                   role |-> "user", status |-> k.status, verified |-> k.verified,
                   twoFactor |-> FALSE, reset |-> NoToken]
<1>0. /\ job \in [Requests -> Job] /\ k \in Job /\ k.pc = "insert" /\ ~AwaitingMail(r)
      /\ k.name \in Names /\ k.email \in Emails /\ k.password \in Passwords
      /\ k.status \in Statuses /\ k.verified \in BOOLEAN
  BY DEF AccountsInv, JobsInv, InsertAccount, Fits, Registering, AwaitingMail, Job
<1>1. /\ row \in Account /\ row.name = k.name /\ row.email = k.email /\ row.reset = NoToken
      /\ row.status = k.status /\ row.verified = k.verified
  BY <1>0 DEF Account, AccountsAssumption
<1>2. /\ account[u] = NoAccount /\ account' = [account EXCEPT ![u] = row]
      /\ UNCHANGED <<settings, verifyRows, fresh, uses>>
      /\ outdated' = (outdated \cup Overtaken(k.name, k.email)) \ {r}
  BY DEF InsertAccount
<1>3. account'[u] = row /\ u \in Registered'
  BY <1>1, <1>2 DEF AccountsInv, TableTypes, Registered, AccountsAssumption
<1>4. /\ cutOff \in SUBSET Users
      /\ outdated' \in SUBSET Requests /\ outdated \ {r} \subseteq outdated'
  BY <1>2 DEF AccountsInv, GhostTypes, Overtaken
<1> HIDE DEF row
<1>5. CASE /\ CanLogin(k.status, k.verified) /\ cutOff' = cutOff
           /\ job' = [job EXCEPT ![r].pc = "grant", ![r].user = u]
  <2>1. PICK j \in Job : j = [k EXCEPT !.pc = "grant", !.user = u]
    BY <1>0 DEF Job, UserSteps
  <2>2. job' = [job EXCEPT ![r] = j] /\ j.pc = "grant" /\ j.user = u
        /\ j.status = k.status /\ j.verified = k.verified
    BY <1>0, <1>5, <2>1 DEF Job
  <2> HIDE DEF k
  <2>3. Fits(j)'
    BY <1>3, <2>2 DEF Fits, Registering, UserSteps, TokenSteps
  <2>4. Current(j)' /\ row.verified
    BY <1>1, <1>3, <1>5, <2>2 DEF Current, CanLogin
  <2> QED
    BY <1>0, <1>1, <1>2, <1>4, <1>5, <2>1, <2>2, <2>3, <2>4, InsertKeeps
<1>6. CASE /\ cutOff' = cutOff
           /\ job' = [job EXCEPT ![r].pc = "clear", ![r].user = u]
  <2>1. PICK j \in Job : j = [k EXCEPT !.pc = "clear", !.user = u]
    BY <1>0 DEF Job, UserSteps
  <2>2. job' = [job EXCEPT ![r] = j] /\ j.pc = "clear" /\ j.user = u
    BY <1>0, <1>6, <2>1 DEF Job
  <2> HIDE DEF k
  <2>3. Fits(j)' /\ Current(j)'
    BY <1>3, <2>2 DEF Fits, Current, Registering, UserSteps, TokenSteps
  <2> QED
    BY <1>0, <1>1, <1>2, <1>4, <1>6, <2>1, <2>2, <2>3, InsertKeeps
<1>7. CASE Finish(r) /\ cutOff' = IF k.verified THEN cutOff ELSE cutOff \cup {u}
  <2>1. PICK j \in Job : j = Idle
    BY IdleFits
  <2>2. job' = [job EXCEPT ![r] = j] /\ j.pc = "idle"
    BY <1>7, <2>1 DEF Finish, Idle
  <2>3. Fits(j)' /\ Current(j)'
    BY <2>2 DEF Fits, Current, Registering, UserSteps, TokenSteps
  <2>4. cutOff' \in SUBSET Users /\ cutOff \subseteq cutOff'
    BY <1>4, <1>7
  <2>5. row.verified \/ u \in cutOff' \/ (j.pc \in {"clear", "store"} /\ j.user = u)
    BY <1>1, <1>7
  <2>6. ~AwaitingMail(r) /\ j.pc # "reset"
    BY <1>0, <2>2
  <2> HIDE DEF k
  <2> QED
    BY <1>1, <1>2, <1>4, <2>2, <2>3, <2>4, <2>5, <2>6, InsertKeeps
<1> QED
  BY <1>5, <1>6, <1>7 DEF InsertAccount
----------------------------------------------------------------------------
(***************************************************************************)
(* The table of verification tokens                                        *)
(***************************************************************************)

\* Rows go away, or one with a token never used before comes: the requests in
\* flight still fit, and each token is in one row.
LEMMA VerifyRowsKeep ==
  ASSUME AccountsAssumption, AccountsInv, NEW r \in Requests, NEW j \in Job,
         job' = [job EXCEPT ![r] = j], UNCHANGED <<account, settings, cutOff, uses>>,
         \/ verifyRows' \subseteq verifyRows /\ fresh' = fresh
         \/ \E u \in Registered, t \in fresh :
              verifyRows' = verifyRows \cup {<<u, t>>} /\ fresh' = fresh \ {t},
         Fits(j)', r \notin outdated' => Current(j)', j.pc # "reset",
         outdated' \in SUBSET Requests, outdated \ {r} \subseteq outdated',
         VerificationReachable'
  PROVE  AccountsInv'
<1> USE DEF AccountsInv
<1>1. Registered' = Registered /\ fresh' \subseteq fresh
  BY DEF Registered
<1>2. TableTypes' /\ GhostTypes'
  BY <1>1 DEF TableTypes, GhostTypes, Registered
<1>3. \A x \in verifyRows' : x \in verifyRows \/ (x[1] \in Registered /\ x[2] \in fresh \ fresh')
  OBVIOUS
<1>4. TokensInv'
  <2>1. \A u \in Registered' : account'[u].reset \notin fresh'
    BY <1>1 DEF TokensInv
  <2>2. \A x \in verifyRows' : x[1] \in Registered' /\ x[2] \notin fresh'
    BY <1>1, <1>3 DEF TokensInv
  <2>3. \A x, y \in verifyRows' : x[2] = y[2] => x = y
    BY DEF TokensInv
  <2> QED
    BY <1>1, <2>1, <2>2, <2>3 DEF TokensInv
<1>5. ASSUME NEW k, Fits(k) PROVE Fits(k)' /\ (Current(k) => Current(k)')
  <2>1. k.pc \in {"verify", "consume"} => \A x \in verifyRows' : x[2] = k.token => x[1] = k.user
    BY <1>3, <1>5 DEF Fits, TokenSteps
  <2>2. k.pc \in TokenSteps => k.token \in Tokens \ fresh'
    BY <1>1, <1>5 DEF Fits
  <2> QED
    BY <1>1, <1>5, <2>1, <2>2 DEF Fits, Current
<1>6. JobsInv'
  <2>1. ASSUME NEW q \in Requests \ {r}, q \notin outdated', Fits(job[q]), Current(job[q])
        PROVE  Current(job[q])'
    <3>1. job'[q] = job[q]
      BY DEF JobsInv
    <3>2. \A k : k = job[q] => Current(k)'
      BY <1>5, <2>1
    <3> QED
      BY <3>1, <3>2 DEF Current
  <2>2. \A q \in Requests \ {r} : q \notin outdated' => q \notin outdated
    OBVIOUS
  <2> QED
    BY <1>5, <2>1, <2>2, JobsAfter
<1>7. UsesInv'
  BY <1>1, UsesAfter
<1> QED
  BY <1>2, <1>4, <1>6, <1>7

LEMMA ClearVerificationKeeps ==
  ASSUME AccountsAssumption, AccountsInv, NEW r \in Requests, ClearVerification(r)
  PROVE  AccountsInv'
<1>0. /\ job \in [Requests -> Job] /\ job[r] \in Job /\ job[r].pc = "clear" /\ Fits(job[r])
      /\ job[r].user \in Registered /\ outdated \in SUBSET Requests
  BY DEF AccountsInv, JobsInv, GhostTypes, ClearVerification, Fits, UserSteps
<1>1. PICK j \in Job : j = [job[r] EXCEPT !.pc = "store"]
  BY <1>0 DEF Job, UserSteps
<1>2. j.pc = "store" /\ j.user = job[r].user
  BY <1>0, <1>1 DEF Job
<1>3. job' = [job EXCEPT ![r] = j]
  BY <1>0, <1>1 DEF ClearVerification, GoTo
<1>4. /\ UNCHANGED <<account, settings, cutOff, uses, fresh, outdated>>
      /\ verifyRows' = {x \in verifyRows : x[1] # job[r].user}
  BY DEF ClearVerification, ghosts
<1>5. Fits(j)' /\ Current(j)'
  BY <1>0, <1>2, <1>4 DEF Fits, Current, Registering, UserSteps, TokenSteps, Registered
<1>6. VerificationReachable'
  <2>1. job'[r] = j /\ \A q \in Requests \ {r} : job'[q] = job[q]
    BY <1>0, <1>3
  <2> SUFFICES ASSUME NEW u \in Registered, ~account[u].verified, u \notin cutOff,
                      ~\E t \in Tokens : <<u, t>> \in verifyRows'
               PROVE  \E q \in Requests : job'[q].user = u /\ AwaitingMail(q)'
    BY <1>4 DEF VerificationReachable, Registered
  <2>2. CASE u = job[r].user
    BY <1>2, <2>1, <2>2 DEF AwaitingMail
  <2>3. CASE u # job[r].user
    <3>1. ~\E t \in Tokens : <<u, t>> \in verifyRows
      BY <1>4, <2>3
    <3>2. PICK q \in Requests : job[q].user = u /\ AwaitingMail(q)
      BY <3>1 DEF AccountsInv, VerificationReachable
    <3> QED
      BY <2>1, <2>3, <3>2 DEF AwaitingMail
  <2> QED
    BY <2>2, <2>3
<1>7. verifyRows' \subseteq verifyRows
  BY <1>4
<1> QED
  BY <1>0, <1>2, <1>3, <1>4, <1>5, <1>6, <1>7, VerifyRowsKeep

LEMMA StoreVerificationKeeps ==
  ASSUME AccountsAssumption, AccountsInv, NEW r \in Requests, NEW t \in Tokens,
         StoreVerification(r, t)
  PROVE  AccountsInv'
<1>0. /\ job \in [Requests -> Job] /\ job[r].user \in Registered
      /\ outdated \in SUBSET Requests
  BY DEF AccountsInv, JobsInv, GhostTypes, StoreVerification, Fits, UserSteps
<1>1. PICK j \in Job : j = Idle
  BY IdleFits
<1>2. job' = [job EXCEPT ![r] = j] /\ j.pc = "idle"
  BY <1>1, IdleFits DEF StoreVerification, Finish
<1>3. /\ UNCHANGED <<account, settings, cutOff, uses>> /\ t \in fresh /\ fresh' = fresh \ {t}
      /\ verifyRows' = verifyRows \cup {<<job[r].user, t>>} /\ outdated' = outdated \ {r}
  BY DEF StoreVerification, AccountsWithToken, Renew
<1>4. Fits(j)' /\ Current(j)'
  BY <1>2 DEF Fits, Current, Registering, UserSteps, TokenSteps
<1>5. VerificationReachable'
  <2>1. \A u \in Registered' : u \in Registered /\ (account[u].verified => account'[u].verified)
    BY <1>3 DEF Registered
  <2>2. <<job[r].user, t>> \in verifyRows'
    BY <1>3
  <2> QED
    BY <1>2, <1>3, <2>1, <2>2, ReachAfter DEF AccountsInv
<1>6. \E u \in Registered, s \in fresh :
        verifyRows' = verifyRows \cup {<<u, s>>} /\ fresh' = fresh \ {s}
  BY <1>0, <1>3
<1> QED
  BY <1>0, <1>2, <1>3, <1>4, <1>5, <1>6, VerifyRowsKeep

LEMMA ConsumeTokenKeeps ==
  ASSUME AccountsAssumption, AccountsInv, NEW r \in Requests, ConsumeToken(r)
  PROVE  AccountsInv'
<1>0. /\ job[r].pc = "consume" /\ Fits(job[r]) /\ outdated \in SUBSET Requests
  BY DEF AccountsInv, JobsInv, GhostTypes, ConsumeToken
<1>1. PICK j \in Job : j = Idle
  BY IdleFits
<1>2. job' = [job EXCEPT ![r] = j] /\ j.pc = "idle"
  BY <1>1, IdleFits DEF ConsumeToken, Finish
<1>3. /\ UNCHANGED <<account, settings, cutOff, uses, fresh>> /\ outdated' = outdated \ {r}
      /\ verifyRows' = {x \in verifyRows : x[2] # job[r].token}
  BY DEF ConsumeToken, Renew
<1>4. Fits(j)' /\ Current(j)'
  BY <1>2 DEF Fits, Current, Registering, UserSteps, TokenSteps
<1>5. VerificationReachable'
  <2>1. \A u \in Registered' : u \in Registered /\ (account[u].verified => account'[u].verified)
    BY <1>3 DEF Registered
  <2>2. \A x \in verifyRows : x \in verifyRows' \/ account'[x[1]].verified
    BY <1>0, <1>3 DEF Fits
  <2>3. ~AwaitingMail(r)
    BY <1>0 DEF AwaitingMail
  <2> QED
    BY <1>2, <1>3, <2>1, <2>2, <2>3, ReachAfter DEF AccountsInv
<1>6. verifyRows' \subseteq verifyRows
  BY <1>3
<1> QED
  BY <1>0, <1>2, <1>3, <1>4, <1>5, <1>6, VerifyRowsKeep
----------------------------------------------------------------------------
(***************************************************************************)
(* Requests about an account that exists                                   *)
(***************************************************************************)

\* The handlers that begin with what they have just read.
LEMMA ReceiveKeeps ==
  ASSUME AccountsAssumption, AccountsInv, NEW r \in Requests, NEW j \in Job, Receive(r, j),
         UNCHANGED <<account, settings, verifyRows, fresh, cutOff, uses, outdated>>,
         Fits(j), Current(j), j.pc = "reset" => uses[j.token] = 0
  PROVE  AccountsInv'
<1>1. job' = [job EXCEPT ![r] = j] /\ ~AwaitingMail(r)
  BY DEF Receive, AwaitingMail
<1>2. outdated' \in SUBSET Requests /\ outdated \ {r} \subseteq outdated'
      /\ cutOff' \in SUBSET Users /\ cutOff \subseteq cutOff'
  BY DEF AccountsInv, GhostTypes
<1> QED
  BY <1>1, <1>2, MoveKeeps

LEMMA ReceiveLoginKeeps ==
  ASSUME AccountsAssumption, AccountsInv, NEW r \in Requests, NEW u \in Users, ReceiveLogin(r, u)
  PROVE  AccountsInv'
<1> DEFINE j == [Idle EXCEPT !.pc = "login", !.user = u, !.verified = account[u].verified]
<1>1. u \in Registered /\ account[u].status = "active" /\ account[u] \in Account
  BY DEF ReceiveLogin, Matches, AccountsInv, TableTypes, Registered
<1>2. j \in Job /\ j.pc = "login" /\ j.user = u /\ j.verified = account[u].verified
  BY <1>1, RowFields DEF AccountsAssumption, Idle, Job, Statuses, UserSteps
<1>3. Receive(r, j) /\ UNCHANGED <<account, settings, verifyRows, fresh, cutOff, uses, outdated>>
  BY DEF ReceiveLogin, tables, ghosts
<1> HIDE DEF j
<1>4. Fits(j) /\ Current(j) /\ j.pc # "reset"
  BY <1>1, <1>2 DEF Fits, Current, Registering, UserSteps, TokenSteps
<1> QED
  BY <1>2, <1>3, <1>4, ReceiveKeeps

LEMMA ReceiveForgotKeeps ==
  ASSUME AccountsAssumption, AccountsInv, NEW r \in Requests, NEW u \in Users, ReceiveForgot(r, u)
  PROVE  AccountsInv'
<1> DEFINE j == [Idle EXCEPT !.pc = "forgot", !.user = u]
<1>1. u \in Registered
  BY DEF ReceiveForgot
<1>2. j \in Job /\ j.pc = "forgot" /\ j.user = u
  BY <1>1 DEF AccountsAssumption, Idle, Job, Statuses, UserSteps
<1>3. Receive(r, j) /\ UNCHANGED <<account, settings, verifyRows, fresh, cutOff, uses, outdated>>
  BY DEF ReceiveForgot, tables, ghosts
<1> HIDE DEF j
<1>4. Fits(j) /\ Current(j) /\ j.pc # "reset"
  BY <1>1, <1>2 DEF Fits, Current, Registering, UserSteps, TokenSteps
<1> QED
  BY <1>2, <1>3, <1>4, ReceiveKeeps

\* The token is in the row, so no request has ended with it.
LEMMA ReceiveResetKeeps ==
  ASSUME AccountsAssumption, AccountsInv, NEW r \in Requests, NEW u \in Users,
         NEW p \in Passwords, ReceiveReset(r, u, p)
  PROVE  AccountsInv'
<1> DEFINE t == account[u].reset
           j == [Idle EXCEPT !.pc = "reset", !.user = u, !.token = t, !.password = p]
<1>1. u \in Registered /\ t \in Tokens \ fresh
  BY RowFields DEF ReceiveReset, AccountsInv, TableTypes, Registered, TokensInv
<1>2. uses[t] = 0
  BY <1>1 DEF AccountsInv, UsesInv
<1>3. /\ j \in Job /\ j.pc = "reset" /\ j.user = u /\ j.token = account[u].reset
      /\ j.password \in Passwords
  BY <1>1 DEF AccountsAssumption, Idle, Job, Statuses, UserSteps
<1>4. Receive(r, j) /\ UNCHANGED <<account, settings, verifyRows, fresh, cutOff, uses, outdated>>
  BY DEF ReceiveReset, tables, ghosts
<1>5. \A v \in Registered : account[v].reset = t => v = u
  BY <1>1 DEF AccountsInv, TokensInv, AccountsAssumption
<1> HIDE DEF j
<1>6. Fits(j) /\ Current(j)
  BY <1>1, <1>3, <1>5 DEF Fits, Current, Registering, UserSteps, TokenSteps
<1> QED
  BY <1>2, <1>3, <1>4, <1>6, ReceiveKeeps

LEMMA ReceiveVerifyEmailKeeps ==
  ASSUME AccountsAssumption, AccountsInv, NEW r \in Requests, NEW u \in Users, NEW t \in Tokens,
         ReceiveVerifyEmail(r, u, t)
  PROVE  AccountsInv'
<1> DEFINE j == [Idle EXCEPT !.pc = "verify", !.user = u, !.token = t]
<1>1. /\ u \in Registered /\ t \in Tokens \ fresh
      /\ \A x \in verifyRows : x[2] = t => x[1] = u
  BY DEF ReceiveVerifyEmail, AccountsInv, TokensInv
<1>2. j \in Job /\ j.pc = "verify" /\ j.user = u /\ j.token = t
  BY <1>1 DEF AccountsAssumption, Idle, Job, Statuses, UserSteps
<1>3. Receive(r, j) /\ UNCHANGED <<account, settings, verifyRows, fresh, cutOff, uses, outdated>>
  BY DEF ReceiveVerifyEmail, FirstVerifyStep, tables, ghosts
<1> HIDE DEF j
<1>4. Fits(j) /\ Current(j) /\ j.pc # "reset"
  BY <1>1, <1>2 DEF Fits, Current, Registering, UserSteps, TokenSteps
<1> QED
  BY <1>2, <1>3, <1>4, ReceiveKeeps

LEMMA ReceiveUpdateUserKeeps ==
  ASSUME AccountsAssumption, AccountsInv, NEW r \in Requests, NEW u \in Users,
         NEW role \in Roles, NEW status \in Statuses, NEW asked \in SUBSET {"role", "status"},
         ReceiveUpdateUser(r, u, role, status, asked)
  PROVE  AccountsInv'
<1> DEFINE copy == Edited(account[u], role, status, asked)
           j == [Idle EXCEPT !.pc = "update", !.user = u, !.role = copy.role,
                             !.status = copy.status, !.asked = asked]
<1>1. u \in Registered /\ account[u] \in Account
  BY DEF ReceiveUpdateUser, AccountsInv, TableTypes, Registered
<1>2. copy.role \in Roles /\ copy.status \in Statuses
  BY <1>1, RowFields DEF Edited
<1>3. Receive(r, j) /\ UNCHANGED <<account, settings, verifyRows, fresh, cutOff, uses, outdated>>
  BY DEF ReceiveUpdateUser, tables, ghosts
<1> HIDE DEF copy
<1>4. j \in Job /\ j.pc = "update" /\ j.user = u
  BY <1>1, <1>2 DEF AccountsAssumption, Idle, Job, UserSteps
<1> HIDE DEF j
<1>5. Fits(j) /\ Current(j) /\ j.pc # "reset"
  BY <1>1, <1>4 DEF Fits, Current, Registering, UserSteps, TokenSteps
<1> QED
  BY <1>3, <1>4, <1>5, ReceiveKeeps

\* The setting is read after the row; a failed read lets the request through and
\* is remembered.
LEMMA ReadRequirementKeeps ==
  ASSUME AccountsAssumption, AccountsInv, NEW r \in Requests, NEW failing \in BOOLEAN,
         ReadRequirement(r, failing)
  PROVE  AccountsInv'
<1>0. /\ job \in [Requests -> Job] /\ job[r] \in Job /\ job[r].pc = "login" /\ Fits(job[r])
      /\ ~AwaitingMail(r) /\ outdated \in SUBSET Requests
      /\ r \notin outdated => Current(job[r])
  BY DEF AccountsInv, JobsInv, GhostTypes, ReadRequirement, AwaitingMail
<1>1. UNCHANGED <<account, settings, verifyRows, fresh, cutOff, uses>>
  BY DEF ReadRequirement, tables
<1>2. outdated' \in SUBSET Requests /\ outdated \ {r} \subseteq outdated'
  BY <1>0 DEF ReadRequirement
<1>3. CASE ~MaySignIn(job[r], failing)
  BY <1>0, <1>1, <1>2, <1>3, FinishKeeps DEF ReadRequirement
<1>4. CASE MaySignIn(job[r], failing)
  <2> DEFINE j == [job[r] EXCEPT !.pc = "grant"]
  <2>1. j \in Job /\ j.pc = "grant" /\ j.user = job[r].user
    BY <1>0 DEF Job, UserSteps
  <2>2. job' = [job EXCEPT ![r] = j]
    BY <1>0, <1>4 DEF ReadRequirement, GoTo
  <2>3. r \notin outdated' => r \notin outdated /\ ~failing
    BY <1>4 DEF ReadRequirement
  <2>4. r \notin outdated' =>
          /\ account[job[r].user].status = "active"
          /\ "email_verification_required" \in settings => account[job[r].user].verified
    BY <1>0, <1>4, <2>3 DEF Current, MaySignIn, SettingRead
  <2> HIDE DEF j
  <2>5. Fits(j) /\ (r \notin outdated' => Current(j)) /\ j.pc # "reset"
    BY <1>0, <2>1, <2>4 DEF Fits, Current, Registering, UserSteps, TokenSteps
  <2> QED
    BY <1>0, <1>1, <1>2, <2>1, <2>2, <2>5, GoOnKeeps
<1> QED
  BY <1>3, <1>4
----------------------------------------------------------------------------
(***************************************************************************)
(* Statements that write a row                                             *)
(***************************************************************************)

\* What a statement that writes the row of its user finds.
LEMMA WriterFacts ==
  ASSUME AccountsAssumption, AccountsInv, NEW r \in Requests,
         job[r].pc \in {"forgot", "reset", "verify", "update"}
  PROVE  /\ job \in [Requests -> Job] /\ job[r] \in Job /\ Fits(job[r]) /\ ~AwaitingMail(r)
         /\ job[r].user \in Registered /\ job[r].user \in Users
         /\ account \in [Users -> Account \cup {NoAccount}] /\ account[job[r].user] \in Account
         /\ outdated \in SUBSET Requests
<1>1. job \in [Requests -> Job] /\ job[r] \in Job /\ Fits(job[r]) /\ ~AwaitingMail(r)
  BY DEF AccountsInv, JobsInv, AwaitingMail
<1>2. job[r].user \in Registered
  BY <1>1 DEF Fits, UserSteps
<1> QED
  BY <1>1, <1>2 DEF AccountsInv, GhostTypes, TableTypes, Registered

LEMMA StoreResetKeeps ==
  ASSUME AccountsAssumption, AccountsInv, NEW r \in Requests, NEW t \in Tokens, StoreReset(r, t)
  PROVE  AccountsInv'
<1>1. PICK u \in Registered : u = job[r].user
  BY WriterFacts DEF StoreReset
<1>2. PICK row \in Account : row = [account[u] EXCEPT !.reset = t]
  BY <1>1, WriterFacts DEF StoreReset, Account
<1>3. PICK j \in Job : j = Idle
  BY IdleFits
<1>4. /\ row.verified = account[u].verified /\ row.reset = t
  BY <1>1, <1>2, WriterFacts DEF StoreReset, Account
<1>5. /\ account' = [account EXCEPT ![u] = row] /\ UNCHANGED <<settings, verifyRows, cutOff, uses>>
      /\ t \in fresh /\ fresh' = fresh \ {t} /\ job' = [job EXCEPT ![r] = j]
      /\ outdated' = (outdated \cup {q \in Requests : job[q].user = u}) \ {r}
      /\ ~AwaitingMail(r)
  BY <1>1, <1>2, <1>3, WriterFacts DEF StoreReset, Finish, Outdate
<1>6. j.pc = "idle"
  BY <1>3, IdleFits
<1>7. Fits(j)'
  BY <1>6 DEF Fits, Registering, UserSteps, TokenSteps
<1>8. /\ TableTypes' /\ JobsInv' /\ TokensInv' /\ VerificationReachable'
      /\ outdated' \in SUBSET Requests /\ UsesInv'
  BY <1>4, <1>5, <1>6, <1>7, WriteKeeps
<1>9. GhostTypes'
  BY <1>5, <1>8 DEF AccountsInv, GhostTypes
<1> QED
  BY <1>8, <1>9 DEF AccountsInv

LEMMA MarkVerifiedKeeps ==
  ASSUME AccountsAssumption, AccountsInv, NEW r \in Requests, MarkVerified(r)
  PROVE  AccountsInv'
<1>1. PICK u \in Registered : u = job[r].user
  BY WriterFacts DEF MarkVerified
<1>2. PICK row \in Account : row = [account[u] EXCEPT !.verified = TRUE]
  BY <1>1, WriterFacts DEF MarkVerified, Account
<1>a. job[r] \in Job
  BY WriterFacts DEF MarkVerified
<1>3. PICK j \in Job : j = [job[r] EXCEPT !.pc = "consume"]
  BY <1>a DEF Job, UserSteps
<1>4. /\ row.verified /\ row.reset = account[u].reset
  BY <1>1, <1>2, WriterFacts DEF MarkVerified, Account
<1>5. /\ account' = [account EXCEPT ![u] = row]
      /\ UNCHANGED <<settings, verifyRows, cutOff, uses, fresh>>
      /\ job' = [job EXCEPT ![r] = j]
      /\ outdated' = (outdated \cup {q \in Requests : job[q].user = u}) \ {r}
      /\ ~AwaitingMail(r) /\ row.reset \notin fresh'
  BY <1>1, <1>2, <1>3, <1>4, WriterFacts
     DEF MarkVerified, GoTo, Outdate, AccountsInv, TokensInv
<1>6. j.pc = "consume" /\ j.user = u /\ j.token = job[r].token
  BY <1>1, <1>3, WriterFacts DEF MarkVerified, Job
<1>7. Fits(j)'
  <2>1. account'[u] = row /\ u \in Registered'
    BY <1>5, WriterFacts, <1>1 DEF MarkVerified, Registered, AccountsAssumption
  <2>2. j.token \in Tokens \ fresh' /\ \A x \in verifyRows' : x[2] = j.token => x[1] = u
    BY <1>1, <1>5, <1>6, WriterFacts DEF MarkVerified, Fits, TokenSteps
  <2> QED
    BY <1>4, <1>6, <2>1, <2>2 DEF Fits, Registering, UserSteps, TokenSteps
<1>8. /\ TableTypes' /\ JobsInv' /\ TokensInv' /\ VerificationReachable'
      /\ outdated' \in SUBSET Requests /\ UsesInv'
  BY <1>4, <1>5, <1>6, <1>7, WriteKeeps
<1>9. GhostTypes'
  BY <1>5, <1>8 DEF AccountsInv, GhostTypes
<1> QED
  BY <1>8, <1>9 DEF AccountsInv

LEMMA WriteUserKeeps ==
  ASSUME AccountsAssumption, AccountsInv, NEW r \in Requests, WriteUser(r)
  PROVE  AccountsInv'
<1>1. PICK u \in Registered : u = job[r].user
  BY WriterFacts DEF WriteUser
<1>a. job[r].role \in Roles /\ job[r].status \in Statuses
  BY WriterFacts DEF WriteUser, Job
<1>2. PICK row \in Account : row = [account[u] EXCEPT !.role = job[r].role, !.status = job[r].status]
  BY <1>1, <1>a, WriterFacts DEF WriteUser, Account
<1>3. PICK j \in Job : j = Idle
  BY IdleFits
<1>4. /\ row.verified = account[u].verified /\ row.reset = account[u].reset
  BY <1>1, <1>2, WriterFacts DEF WriteUser, Account
<1>d. account' = [account EXCEPT ![u] = row]
  BY <1>1, <1>2, WriterFacts DEF WriteUser
<1>e. account[u].reset \notin fresh
  BY <1>1 DEF AccountsInv, TokensInv
<1>5. /\ UNCHANGED <<settings, verifyRows, cutOff, uses, fresh>>
      /\ job' = [job EXCEPT ![r] = j]
      /\ outdated' = (outdated \cup {q \in Requests : job[q].user = u}) \ {r}
      /\ ~AwaitingMail(r) /\ row.reset \notin fresh'
  BY <1>1, <1>3, <1>4, <1>e DEF WriteUser, Finish, Outdate, AwaitingMail
<1>6. j.pc = "idle"
  BY <1>3, IdleFits
<1>7. Fits(j)'
  BY <1>6 DEF Fits, Registering, UserSteps, TokenSteps
<1>8. /\ TableTypes' /\ JobsInv' /\ TokensInv' /\ VerificationReachable'
      /\ outdated' \in SUBSET Requests /\ UsesInv'
  BY <1>4, <1>5, <1>6, <1>7, <1>d, WriteKeeps
<1>9. GhostTypes'
  BY <1>5, <1>8 DEF AccountsInv, GhostTypes
<1> QED
  BY <1>8, <1>9 DEF AccountsInv

\* The request that ends is one fewer that carries the token and one more that
\* has used it; and no row holds that token any longer.
LEMMA WritePasswordKeeps ==
  ASSUME AccountsAssumption, AccountsInv, NEW r \in Requests, WritePassword(r)
  PROVE  AccountsInv'
<1>1. PICK u \in Registered : u = job[r].user
  BY WriterFacts DEF WritePassword
<1>a. job[r].token \in Tokens \ fresh /\ job[r].password \in Passwords /\ job[r].pc = "reset"
      /\ \A v \in Registered : account[v].reset = job[r].token => v = u
  BY <1>1, WriterFacts DEF WritePassword, Fits, TokenSteps
<1>b. PICK t \in Tokens : t = job[r].token
  BY <1>a
<1>2. PICK row \in Account :
        row = [account[u] EXCEPT !.password = job[r].password, !.reset = NoToken]
  BY <1>1, <1>a, WriterFacts DEF WritePassword, Account
<1>3. PICK j \in Job : j = Idle
  BY IdleFits
<1>4. /\ row.verified = account[u].verified /\ row.reset = NoToken
  BY <1>1, <1>2, WriterFacts DEF WritePassword, Account
<1>d. account' = [account EXCEPT ![u] = row]
  BY <1>1, <1>2, WriterFacts DEF WritePassword, TokenAfterReset
<1>5. /\ UNCHANGED <<settings, verifyRows, cutOff, fresh>>
      /\ uses' = [uses EXCEPT ![t] = @ + 1]
      /\ job' = [job EXCEPT ![r] = j]
      /\ outdated' = (outdated \cup {q \in Requests : job[q].user = u}) \ {r}
      /\ ~AwaitingMail(r)
  BY <1>1, <1>3, <1>a, <1>b DEF WritePassword, Finish, Outdate, AwaitingMail
<1>c. fresh \in SUBSET Tokens /\ uses \in [Tokens -> Nat] /\ NoToken \notin Tokens
  BY DEF AccountsInv, GhostTypes, AccountsAssumption
<1>6. j.pc = "idle"
  BY <1>3, IdleFits
<1>7. Fits(j)'
  BY <1>6 DEF Fits, Registering, UserSteps, TokenSteps
<1>8. /\ TableTypes' /\ JobsInv' /\ TokensInv' /\ VerificationReachable'
      /\ outdated' \in SUBSET Requests
  BY <1>4, <1>5, <1>6, <1>7, <1>c, <1>d, WriteKeeps
<1>9. GhostTypes'
  BY <1>5, <1>8, <1>c DEF AccountsInv, GhostTypes
<1>10. UsesInv'
  <2>1. account'[u].reset = NoToken /\ \A v \in Registered' \ {u} : account'[v] = account[v]
        /\ Registered' \subseteq Registered
    BY <1>1, <1>4, <1>d, WriterFacts DEF WritePassword, Registered
  <2>2. ASSUME NEW s \in Tokens
        PROVE  /\ uses'[s] + Cardinality(Resetting(s)') <= Cardinality(Requests)
               /\ s \in fresh' => uses'[s] = 0
               /\ (\E v \in Registered' : account'[v].reset = s) => uses'[s] = 0
    <3>0. JobsInv
      BY DEF AccountsInv
    <3>1. Resetting(s)' = Resetting(s) \ {r} /\ IsFiniteSet(Resetting(s))
          /\ Cardinality(Resetting(s)) \in Nat /\ Cardinality(Resetting(s)') \in Nat
      BY <1>5, <1>6, <3>0, ResettingAfter
    <3>b. Cardinality(Requests) \in Nat
      BY FS_CardinalityType DEF AccountsAssumption
    <3>2. /\ uses[s] \in Nat /\ uses[s] + Cardinality(Resetting(s)) <= Cardinality(Requests)
          /\ s \in fresh => uses[s] = 0
          /\ (\E v \in Registered : account[v].reset = s) => uses[s] = 0
      BY <1>c DEF AccountsInv, UsesInv
    <3>3. CASE s = t
      <4>1. r \in Resetting(s) /\ uses'[s] = uses[s] + 1
        BY <1>5, <1>a, <1>b, <1>c, <3>3 DEF Resetting
      <4>2. Cardinality(Resetting(s)') = Cardinality(Resetting(s)) - 1
        BY <3>1, <4>1, FS_RemoveElement
      <4>3. s \notin fresh' /\ ~\E v \in Registered' : account'[v].reset = s
        BY <1>5, <1>a, <1>b, <1>c, <2>1, <3>3
      <4> QED
        BY <3>1, <3>2, <3>b, <4>1, <4>2, <4>3
    <3>4. CASE s # t
      <4>1. uses'[s] = uses[s]
        BY <1>5, <1>c, <3>4
      <4>2. Cardinality(Resetting(s)') <= Cardinality(Resetting(s))
        BY <3>1, FS_Subset
      <4>3. (\E v \in Registered' : account'[v].reset = s) =>
              \E v \in Registered : account[v].reset = s
        BY <1>c, <2>1
      <4> QED
        BY <1>5, <3>1, <3>2, <3>b, <4>1, <4>2, <4>3
    <3> QED
      BY <3>3, <3>4
  <2> QED
    BY <2>2 DEF UsesInv
<1> QED
  BY <1>8, <1>9, <1>10 DEF AccountsInv
----------------------------------------------------------------------------
(***************************************************************************)
(* Steps that end a request, and what happens without one                  *)
(***************************************************************************)
LEMMA EndKeeps ==
  ASSUME AccountsAssumption, AccountsInv, NEW r \in Requests, Grant(r) \/ StatementFails(r)
  PROVE  AccountsInv'
<1>1. /\ UNCHANGED <<account, settings, verifyRows, fresh, uses>> /\ Finish(r)
      /\ outdated' = outdated \ {r}
      /\ cutOff' = IF AwaitingMail(r) THEN cutOff \cup {job[r].user} ELSE cutOff
  BY DEF Grant, StatementFails, Renew, AwaitingMail, tables
<1>2. outdated' \in SUBSET Requests /\ outdated \ {r} \subseteq outdated'
  BY <1>1 DEF AccountsInv, GhostTypes
<1> QED
  BY <1>1, <1>2, FinishKeeps

\* Every request is gone, and every registration without its mail is noted.
LEMMA CrashKeeps ==
  ASSUME AccountsAssumption, AccountsInv, Crash
  PROVE  AccountsInv'
<1> USE DEF AccountsInv
<1>1. /\ UNCHANGED <<account, settings, verifyRows, fresh, uses>>
      /\ job' = [r \in Requests |-> Idle] /\ outdated' = {} /\ Registered' = Registered
      /\ cutOff' = cutOff \cup {job[r].user : r \in {q \in Requests : AwaitingMail(q)}}
  BY DEF Crash, tables, Registered
<1>2. \A r \in Requests : AwaitingMail(r) => job[r].user \in Users
  BY DEF JobsInv, Fits, AwaitingMail, UserSteps, Registered
<1>3. TableTypes' /\ GhostTypes'
  BY <1>1, <1>2 DEF TableTypes, GhostTypes
<1>4. TokensInv'
  BY <1>1 DEF TokensInv
<1>5. JobsInv'
  <2>1. PICK j \in Job : j = Idle /\ j.pc = "idle"
    BY IdleFits
  <2>2. Fits(j)' /\ Current(j)'
    BY <2>1 DEF Fits, Current, Registering, UserSteps, TokenSteps
  <2>3. job' = [r \in Requests |-> j]
    BY <1>1, <2>1
  <2>4. \A r \in Requests : job'[r] = j
    BY <2>3
  <2>5. ASSUME NEW r \in Requests
        PROVE  Fits(job[r])' /\ Current(job[r])'
    BY <2>2, <2>4 DEF Fits, Current
  <2> QED
    BY <2>3, <2>5 DEF JobsInv
<1>6. UsesInv'
  <2>1. \A t : Resetting(t)' = {}
    BY <1>1, IdleFits DEF Resetting
  <2>2. ASSUME NEW t \in Tokens
        PROVE  uses[t] + Cardinality(Resetting(t)') <= Cardinality(Requests)
    <3>1. uses[t] \in Nat /\ uses[t] + Cardinality(Resetting(t)) <= Cardinality(Requests)
      BY DEF GhostTypes, UsesInv
    <3>2. Resetting(t) \subseteq Requests
      BY DEF Resetting
    <3>3. Cardinality(Resetting(t)) \in Nat /\ Cardinality(Requests) \in Nat
      BY <3>2, FS_Subset, FS_CardinalityType DEF AccountsAssumption
    <3>4. Cardinality(Resetting(t)') = 0
      BY <2>1, FS_EmptySet
    <3> QED
      BY <3>1, <3>3, <3>4
  <2> QED
    BY <1>1, <2>2 DEF UsesInv
<1>7. VerificationReachable'
  <2> SUFFICES ASSUME NEW u \in Registered, ~account[u].verified,
                      ~\E t \in Tokens : <<u, t>> \in verifyRows
               PROVE  u \in cutOff'
    BY <1>1 DEF VerificationReachable
  <2>1. u \in cutOff \/ \E r \in Requests : job[r].user = u /\ AwaitingMail(r)
    BY DEF VerificationReachable
  <2> QED
    BY <1>1, <2>1
<1> QED
  BY <1>3, <1>4, <1>5, <1>6, <1>7

\* A setting changes: requests about to hand out a session are outdated.
LEMMA SetSettingKeeps ==
  ASSUME AccountsInv, NEW s \in Settings, SetSetting(s)
  PROVE  AccountsInv'
<1> USE DEF AccountsInv
<1>1. /\ UNCHANGED <<job, account, verifyRows, fresh, cutOff, uses>> /\ Registered' = Registered
      /\ outdated' = outdated \cup {r \in Requests : job[r].pc = "grant"}
      /\ settings' \in SUBSET Settings
  BY DEF SetSetting, Registered, TableTypes
<1>2. TableTypes' /\ GhostTypes'
  BY <1>1 DEF TableTypes, GhostTypes
<1>3. TokensInv'
  BY <1>1 DEF TokensInv
<1>5. UsesInv'
  BY <1>1 DEF UsesInv, Resetting
<1>6. VerificationReachable'
  BY <1>1 DEF VerificationReachable, AwaitingMail
<1>4. JobsInv'
  BY <1>1 DEF JobsInv, Fits, Current
<1> QED
  BY <1>2, <1>3, <1>4, <1>5, <1>6

\* The second factor is switched: requests about the account are outdated.
LEMMA SetTwoFactorKeeps ==
  ASSUME AccountsAssumption, AccountsInv, NEW u \in Users, SetTwoFactor(u)
  PROVE  AccountsInv'
<1> USE DEF AccountsInv
<1>1. /\ UNCHANGED <<job, settings, verifyRows, fresh, cutOff, uses>>
      /\ outdated' = outdated \cup {r \in Requests : job[r].user = u}
      /\ u \in Registered /\ account[u] \in Account
  BY DEF SetTwoFactor, Registered, TableTypes
<1>2. PICK row \in Account : row = [account[u] EXCEPT !.twoFactor = ~@]
  BY <1>1 DEF Account
<1>3. /\ row.verified = account[u].verified /\ row.reset = account[u].reset
      /\ account' = [account EXCEPT ![u] = row]
  BY <1>1, <1>2 DEF SetTwoFactor, Account
<1>4. account[u].reset \notin fresh
  BY <1>1 DEF TokensInv
<1>5. /\ TableTypes' /\ Registered' = Registered /\ TokensInv'
      /\ \A k : Fits(k) => Fits(k)'
      /\ \A k : Fits(k) /\ k.user # u /\ Current(k) => Current(k)'
      /\ \A v \in Registered : account[v].verified => account'[v].verified
      /\ \A t \in Tokens : (\E v \in Registered' : account'[v].reset = t) =>
           t \in fresh \/ \E v \in Registered : account[v].reset = t
  BY <1>1, <1>3, <1>4, RowWritten
<1>6. GhostTypes'
  BY <1>1 DEF GhostTypes
<1>7. JobsInv'
  <2>1. ASSUME NEW r \in Requests
        PROVE  Fits(job[r])' /\ (r \notin outdated' => Current(job[r])')
    <3>1. job'[r] = job[r] /\ Fits(job[r]) /\ (r \notin outdated => Current(job[r]))
      BY <1>1 DEF JobsInv
    <3>2. \A k : k = job[r] => Fits(k)' /\ (r \notin outdated' => Current(k)')
      BY <1>1, <1>5, <3>1
    <3> QED
      BY <3>1, <3>2 DEF Fits, Current
  <2> QED
    BY <1>1, <2>1 DEF JobsInv
<1>8. UsesInv'
  BY <1>1, <1>5 DEF UsesInv, Resetting
<1>9. VerificationReachable'
  BY <1>1, <1>5 DEF VerificationReachable, AwaitingMail
<1> QED
  BY <1>5, <1>6, <1>7, <1>8, <1>9

LEMMA OtherStepsKeep ==
  ASSUME AccountsInv,
         \/ \E u \in Users : LoginWith2FA(u) \/ SessionExpires(u)
         \/ \E t \in Tokens : TokenExpires(t)
         \/ \E r \in Requests : Refuse(r)
         \/ UNCHANGED vars
  PROVE  AccountsInv'
<1>1. UNCHANGED <<account, settings, verifyRows, job, fresh, outdated, cutOff, uses>>
  BY DEF LoginWith2FA, SessionExpires, TokenExpires, Refuse, vars, tables, ghosts
<1> QED
  BY <1>1, SameKeeps

----------------------------------------------------------------------------
LEMMA AccountsInvInit ==
  ASSUME AccountsAssumption, Init
  PROVE  AccountsInv
<1>1. Registered = {} /\ TableTypes /\ GhostTypes
  BY DEF Init, Registered, TableTypes, GhostTypes, Settings
<1>2. JobsInv
  BY <1>1, IdleFits DEF Init, JobsInv, Fits, Current, Registering, UserSteps, TokenSteps
<1>3. TokensInv /\ VerificationReachable
  BY <1>1 DEF Init, TokensInv, VerificationReachable
<1>4. UsesInv
  <2>1. \A t : Resetting(t) = {}
    BY IdleFits DEF Init, Resetting
  <2> QED
    <3>1. Cardinality(Requests) \in Nat
      BY FS_CardinalityType DEF AccountsAssumption
    <3>2. \A t \in Tokens : uses[t] = 0 /\ Cardinality(Resetting(t)) = 0
      BY <2>1, FS_EmptySet DEF Init
    <3> QED
      BY <3>1, <3>2 DEF UsesInv
<1> QED
  BY <1>1, <1>2, <1>3, <1>4 DEF AccountsInv

LEMMA AccountsInvNext ==
  ASSUME AccountsAssumption, AccountsInv, [Next]_vars
  PROVE  AccountsInv'
<1>1. ASSUME NEW r \in Requests, Register(r)
      PROVE  AccountsInv'
  BY <1>1, RegistrationMoves, InsertAccountKeeps, ClearVerificationKeeps, StoreVerificationKeeps
     DEF Register
<1>2. ASSUME NEW r \in Requests, Reset(r)
      PROVE  AccountsInv'
  BY <1>2, ReceiveForgotKeeps, StoreResetKeeps, ReceiveResetKeeps, WritePasswordKeeps DEF Reset
<1>3. ASSUME NEW r \in Requests, VerifyEmail(r)
      PROVE  AccountsInv'
  BY <1>3, ReceiveVerifyEmailKeeps, MarkVerifiedKeeps, ConsumeTokenKeeps DEF VerifyEmail
<1>4. ASSUME NEW r \in Requests, UpdateUser(r)
      PROVE  AccountsInv'
  BY <1>4, ReceiveUpdateUserKeeps, WriteUserKeeps DEF UpdateUser
<1>5. ASSUME NEW r \in Requests, NEW failing \in BOOLEAN, ReadSetting(r, failing)
      PROVE  AccountsInv'
  BY <1>5, RegistrationMoves, ReadRequirementKeeps DEF ReadSetting
<1> QED
  BY <1>1, <1>2, <1>3, <1>4, <1>5, ReceiveLoginKeeps, EndKeeps, CrashKeeps, SetSettingKeeps,
     SetTwoFactorKeeps, OtherStepsKeep DEF Next

LEMMA AccountsInvariant == Spec => []AccountsInv
<1>1. Init => AccountsInv
  BY AccountsInvInit, AccountsAssumption
<1>2. AccountsInv /\ [Next]_vars => AccountsInv'
  BY AccountsInvNext, AccountsAssumption
<1> QED
  BY <1>1, <1>2, PTL DEF Spec

----------------------------------------------------------------------------
(***************************************************************************)
(* Who writes accounts, and what registrations have checked                *)
(***************************************************************************)
LEMMA WhoWritesAccounts ==
  ASSUME [Next]_vars
  PROVE  \/ UNCHANGED account
         \/ \E r \in Requests : \/ \E v \in Users : InsertAccount(r, v)
                                \/ MarkVerified(r) \/ WriteUser(r) \/ WritePassword(r)
                                \/ \E t \in Tokens : StoreReset(r, t)
         \/ \E v \in Users : SetTwoFactor(v)
<1>1. ASSUME NEW r \in Requests, Register(r)
      PROVE  UNCHANGED account \/ \E v \in Users : InsertAccount(r, v)
  BY <1>1 DEF Register, tables, ReceiveRegister, CheckUsername, CheckEmail, InsertRefused,
              ClearVerification, StoreVerification, AccountsWithToken
<1>2. ASSUME NEW r \in Requests, Reset(r)
      PROVE  UNCHANGED account \/ WritePassword(r) \/ \E t \in Tokens : StoreReset(r, t)
  BY <1>2 DEF Reset, tables, ReceiveForgot, ReceiveReset
<1>3. ASSUME NEW r \in Requests, VerifyEmail(r) \/ UpdateUser(r)
      PROVE  UNCHANGED account \/ MarkVerified(r) \/ WriteUser(r)
  BY <1>3 DEF VerifyEmail, tables, ReceiveVerifyEmail, ConsumeToken, UpdateUser,
              ReceiveUpdateUser
<1>4. ASSUME NEW r \in Requests,
             \/ \E v \in Users : ReceiveLogin(r, v)
             \/ \E failing \in BOOLEAN : ReadSetting(r, failing)
             \/ Grant(r) \/ Refuse(r) \/ StatementFails(r)
      PROVE  UNCHANGED account
  BY <1>4 DEF tables, vars, ReceiveLogin, ReadSetting, ReadVerification, ReadApproval,
              ReadRequirement, Grant, Refuse, StatementFails
<1>5. ASSUME \/ \E v \in Users : LoginWith2FA(v) \/ SessionExpires(v)
             \/ \E t \in Tokens : TokenExpires(t)
             \/ \E s \in Settings : SetSetting(s)
             \/ Crash \/ UNCHANGED vars
      PROVE  UNCHANGED account
  BY <1>5 DEF tables, vars, LoginWith2FA, SessionExpires, TokenExpires, SetSetting, Crash
<1> QED
  BY <1>1, <1>2, <1>3, <1>4, <1>5 DEF Next

\* Only an INSERT takes a name or an address.
LEMMA NamesStay ==
  ASSUME AccountsAssumption, AccountsInv, [Next]_vars,
         \A r \in Requests, u \in Users : ~InsertAccount(r, u)
  PROVE  /\ \A n : usernameExists(n)' => usernameExists(n)
         /\ \A e : emailExists(e)' => emailExists(e)
<1>1. ASSUME NEW u \in Registered'
      PROVE  u \in Registered /\ account'[u].name = account[u].name
                              /\ account'[u].email = account[u].email
  <2>0. account \in [Users -> Account \cup {NoAccount}] /\ u \in Users /\ account'[u] # NoAccount
    BY <1>1 DEF AccountsInv, TableTypes, Registered
  <2>1. ASSUME NEW r \in Requests, NEW t \in Tokens, StoreReset(r, t)
        PROVE  u \in Registered /\ account'[u].name = account[u].name
                                /\ account'[u].email = account[u].email
    BY <2>0, <2>1 DEF StoreReset, Account, Registered, AccountsInv, JobsInv, Fits, UserSteps
  <2>2. ASSUME NEW r \in Requests, MarkVerified(r)
        PROVE  u \in Registered /\ account'[u].name = account[u].name
                                /\ account'[u].email = account[u].email
    BY <2>0, <2>2 DEF MarkVerified, Account, Registered, AccountsInv, JobsInv, Fits, UserSteps
  <2>3. ASSUME NEW r \in Requests, WriteUser(r)
        PROVE  u \in Registered /\ account'[u].name = account[u].name
                                /\ account'[u].email = account[u].email
    BY <2>0, <2>3 DEF WriteUser, Account, Registered, AccountsInv, JobsInv, Fits, UserSteps
  <2>4. ASSUME NEW r \in Requests, WritePassword(r)
        PROVE  u \in Registered /\ account'[u].name = account[u].name
                                /\ account'[u].email = account[u].email
    BY <2>0, <2>4 DEF WritePassword, Account, Registered, AccountsInv, JobsInv, Fits, UserSteps
  <2>5. ASSUME NEW v \in Users, SetTwoFactor(v)
        PROVE  u \in Registered /\ account'[u].name = account[u].name
                                /\ account'[u].email = account[u].email
    BY <2>0, <2>5 DEF SetTwoFactor, Account, Registered
  <2>6. CASE UNCHANGED account
    BY <2>0, <2>6 DEF Registered
  <2> QED
    BY <2>1, <2>2, <2>3, <2>4, <2>5, <2>6, WhoWritesAccounts
<1> QED
  BY <1>1 DEF usernameExists, emailExists

\* What a registration has checked is so.
Free(j) ==
  /\ j.pc \in NameChecked => ~usernameExists(j.name)
  /\ j.pc \in EmailChecked => ~emailExists(j.email)

ChecksInv == \A r \in Requests \ outdated : Free(job[r])

\* A registration goes on; the requests of others are not outdated by less.
LEMMA CheckMoves ==
  ASSUME AccountsAssumption, JobsInv, ChecksInv, NEW r \in Requests,
         \/ \E n \in Names, e \in Emails, p \in Passwords : ReceiveRegister(r, n, e, p)
         \/ CheckUsername(r) \/ CheckEmail(r) \/ InsertRefused(r)
         \/ \E failing \in BOOLEAN : ReadVerification(r, failing) \/ ReadApproval(r, failing)
  PROVE  /\ \A q \in Requests \ {r} : job'[q] = job[q]
         /\ outdated \ {r} \subseteq outdated'
         /\ r \notin outdated' => Free(job'[r])
<1> USE DEF NameChecked, EmailChecked
<1>0. job \in [Requests -> Job] /\ job[r] \in Job /\ (r \notin outdated => Free(job[r]))
  BY DEF JobsInv, ChecksInv
<1>1. Idle.pc = "idle"
  BY IdleFits
<1>2. CASE Finish(r) /\ (UNCHANGED outdated \/ Renew(r))
  BY <1>0, <1>1, <1>2 DEF Finish, Renew, Free
<1>3. ASSUME NEW n \in Names, NEW e \in Emails, NEW p \in Passwords, ReceiveRegister(r, n, e, p)
      PROVE  /\ \A q \in Requests \ {r} : job'[q] = job[q]
             /\ outdated \ {r} \subseteq outdated'
             /\ r \notin outdated' => Free(job'[r])
  BY <1>0, <1>3 DEF ReceiveRegister, Receive, Idle, Free, ghosts
<1>4. CASE CheckUsername(r) /\ GoTo(r, "email") /\ ~usernameExists(job[r].name)
  BY <1>0, <1>4 DEF CheckUsername, GoTo, Free, Job, ghosts
<1>5. CASE job[r].pc = "email" /\ GoTo(r, "verification") /\ ~emailExists(job[r].email)
           /\ UNCHANGED outdated
  BY <1>0, <1>5 DEF GoTo, Free, Job
<1>6. ASSUME NEW failing \in BOOLEAN, ReadVerification(r, failing)
      PROVE  /\ \A q \in Requests \ {r} : job'[q] = job[q]
             /\ outdated \ {r} \subseteq outdated'
             /\ r \notin outdated' => Free(job'[r])
  BY <1>0, <1>6 DEF ReadVerification, Free, Job, ghosts
<1>7. ASSUME NEW failing \in BOOLEAN, ReadApproval(r, failing)
      PROVE  /\ \A q \in Requests \ {r} : job'[q] = job[q]
             /\ outdated \ {r} \subseteq outdated'
             /\ r \notin outdated' => Free(job'[r])
  BY <1>0, <1>7 DEF ReadApproval, Free, Job, ghosts
<1> QED
  BY <1>2, <1>3, <1>4, <1>5, <1>6, <1>7 DEF CheckUsername, CheckEmail, InsertRefused, ghosts

\* The other steps of requests carry on with, or end as, something else than a
\* registration before its INSERT.
LEMMA OtherMoves ==
  ASSUME AccountsAssumption, JobsInv, NEW r \in Requests,
         \/ ClearVerification(r) \/ \E t \in Tokens : StoreVerification(r, t)
         \/ Reset(r) \/ VerifyEmail(r) \/ UpdateUser(r)
         \/ \E u \in Users : ReceiveLogin(r, u)
         \/ \E failing \in BOOLEAN : ReadRequirement(r, failing)
         \/ Grant(r) \/ StatementFails(r)
  PROVE  /\ \A q \in Requests \ {r} : job'[q] = job[q]
         /\ outdated \ {r} \subseteq outdated'
         /\ job'[r].pc \notin NameChecked
<1> USE DEF NameChecked
<1>0. job \in [Requests -> Job] /\ job[r] \in Job /\ Idle.pc = "idle"
  BY IdleFits DEF JobsInv
<1>1. ASSUME Finish(r)
      PROVE  /\ \A q \in Requests \ {r} : job'[q] = job[q]
             /\ job'[r].pc \notin NameChecked
  BY <1>0, <1>1 DEF Finish
<1>2. ASSUME NEW pc \in UserSteps, GoTo(r, pc)
      PROVE  /\ \A q \in Requests \ {r} : job'[q] = job[q]
             /\ job'[r].pc \notin NameChecked
  BY <1>0, <1>2 DEF GoTo, Job, UserSteps
<1>3. ASSUME \/ ClearVerification(r) \/ \E t \in Tokens : StoreVerification(r, t)
             \/ Grant(r) \/ StatementFails(r) \/ MarkVerified(r) \/ ConsumeToken(r)
             \/ WriteUser(r) \/ WritePassword(r) \/ \E t \in Tokens : StoreReset(r, t)
      PROVE  /\ Finish(r) \/ \E pc \in UserSteps : GoTo(r, pc)
             /\ outdated \ {r} \subseteq outdated'
  BY <1>3 DEF ClearVerification, StoreVerification, Grant, StatementFails, MarkVerified,
              ConsumeToken, WriteUser, WritePassword, StoreReset, Renew, Outdate, UserSteps, ghosts
<1>4. ASSUME NEW failing \in BOOLEAN, ReadRequirement(r, failing)
      PROVE  /\ Finish(r) \/ \E pc \in UserSteps : GoTo(r, pc)
             /\ outdated \ {r} \subseteq outdated'
  BY <1>4 DEF ReadRequirement, UserSteps
<1>5. ASSUME \/ \E u \in Users : ReceiveLogin(r, u) \/ ReceiveForgot(r, u)
             \/ \E u \in Users, p \in Passwords : ReceiveReset(r, u, p)
             \/ \E u \in Users, t \in Tokens : ReceiveVerifyEmail(r, u, t)
             \/ \E u \in Users, role \in Roles, status \in Statuses,
                  asked \in SUBSET {"role", "status"} : ReceiveUpdateUser(r, u, role, status, asked)
      PROVE  (\A q \in Requests \ {r} : job'[q] = job[q]) /\ job'[r].pc \notin NameChecked
             /\ UNCHANGED outdated
  <2>1. ASSUME NEW u \in Users, ReceiveLogin(r, u) \/ ReceiveForgot(r, u)
        PROVE  (\A q \in Requests \ {r} : job'[q] = job[q]) /\ job'[r].pc \notin NameChecked
               /\ UNCHANGED outdated
    <3>1. CASE ReceiveLogin(r, u)
      BY <1>0, <3>1 DEF ReceiveLogin, Receive, Idle, ghosts
    <3>2. CASE ReceiveForgot(r, u)
      BY <1>0, <3>2 DEF ReceiveForgot, Receive, Idle, ghosts
    <3> QED
      BY <2>1, <3>1, <3>2
  <2>2. ASSUME NEW u \in Users, NEW p \in Passwords, ReceiveReset(r, u, p)
        PROVE  (\A q \in Requests \ {r} : job'[q] = job[q]) /\ job'[r].pc \notin NameChecked
               /\ UNCHANGED outdated
    BY <1>0, <2>2 DEF ReceiveReset, Receive, Idle, ghosts
  <2>3. ASSUME NEW u \in Users, NEW t \in Tokens, ReceiveVerifyEmail(r, u, t)
        PROVE  (\A q \in Requests \ {r} : job'[q] = job[q]) /\ job'[r].pc \notin NameChecked
               /\ UNCHANGED outdated
    BY <1>0, <2>3 DEF ReceiveVerifyEmail, FirstVerifyStep, Receive, Idle, ghosts
  <2>4. ASSUME NEW u \in Users, NEW role \in Roles, NEW status \in Statuses,
               NEW asked \in SUBSET {"role", "status"}, ReceiveUpdateUser(r, u, role, status, asked)
        PROVE  (\A q \in Requests \ {r} : job'[q] = job[q]) /\ job'[r].pc \notin NameChecked
               /\ UNCHANGED outdated
    BY <1>0, <2>4 DEF ReceiveUpdateUser, Receive, Idle, ghosts
  <2> QED
    BY <1>5, <2>1, <2>2, <2>3, <2>4
<1> QED
  BY <1>1, <1>2, <1>3, <1>4, <1>5 DEF Reset, VerifyEmail, UpdateUser

\* The INSERT outdates every other registration that had checked the name or the
\* address.
LEMMA InsertChecked ==
  ASSUME AccountsAssumption, AccountsInv, ChecksInv, NEW r \in Requests, NEW u \in Users,
         InsertAccount(r, u)
  PROVE  ChecksInv'
<1> DEFINE n == job[r].name  e == job[r].email
<1>1. /\ account \in [Users -> Account \cup {NoAccount}] /\ job \in [Requests -> Job]
      /\ outdated \subseteq Requests /\ Idle.pc = "idle"
  BY IdleFits DEF AccountsInv, TableTypes, JobsInv, GhostTypes
<1>2. /\ \A v \in Users \ {u} : account'[v] = account[v]
      /\ account'[u].name = n /\ account'[u].email = e
  BY <1>1 DEF InsertAccount
<1>3. /\ \A m : usernameExists(m)' => usernameExists(m) \/ m = n
      /\ \A m : emailExists(m)' => emailExists(m) \/ m = e
  BY <1>2 DEF usernameExists, emailExists, Registered
<1>4. outdated' = (outdated \cup Overtaken(n, e)) \ {r}
  BY DEF InsertAccount
<1>5. /\ \A q \in Requests \ {r} : job'[q] = job[q]
      /\ job'[r].pc \in {"grant", "clear", "idle"}
  BY <1>1 DEF InsertAccount, Finish, Job
<1>6. ASSUME NEW q \in Requests \ outdated'
      PROVE  Free(job[q])'
  <2>1. CASE q = r
    BY <1>5, <2>1 DEF Free, NameChecked, EmailChecked
  <2>2. CASE q # r
    <3>1. q \notin outdated /\ q \notin Overtaken(n, e) /\ job'[q] = job[q]
      BY <1>4, <1>5, <2>2
    <3>2. Free(job[q])
      BY <3>1 DEF ChecksInv
    <3>3. /\ job[q].pc \in NameChecked => job[q].name # n
          /\ job[q].pc \in EmailChecked => job[q].email # e
      BY <3>1 DEF Overtaken
    <3> QED
      BY <1>3, <3>1, <3>2, <3>3 DEF Free
  <2> QED
    BY <2>1, <2>2
<1> QED
  BY <1>6 DEF ChecksInv

LEMMA ChecksKept ==
  ASSUME AccountsAssumption, AccountsInv, ChecksInv, [Next]_vars
  PROVE  ChecksInv'
<1>0. JobsInv /\ Idle.pc = "idle"
  BY IdleFits DEF AccountsInv
<1>1. ASSUME NEW r \in Requests, NEW u \in Users, InsertAccount(r, u)
      PROVE  ChecksInv'
  BY <1>1, InsertChecked
<1> SUFFICES ASSUME \A r \in Requests, u \in Users : ~InsertAccount(r, u)
             PROVE  ChecksInv'
  BY <1>1
<1>2. \A k : Free(k) => Free(k)'
  BY NamesStay DEF Free
<1>3. ASSUME NEW r \in Requests, \A q \in Requests \ {r} : job'[q] = job[q],
             outdated \ {r} \subseteq outdated', r \notin outdated' => Free(job'[r])
      PROVE  ChecksInv'
  <2> SUFFICES ASSUME NEW q \in Requests \ outdated'
               PROVE  Free(job[q])'
    BY DEF ChecksInv
  <2>1. \A k : k = job'[q] /\ Free(k) => Free(job[q])'
    BY <1>2 DEF Free
  <2>2. CASE q = r
    BY <1>3, <2>1, <2>2
  <2>3. CASE q # r
    BY <1>3, <2>1, <2>3 DEF ChecksInv
  <2> QED
    BY <2>2, <2>3
<1>4. CASE UNCHANGED job /\ outdated \subseteq outdated'
  <2> SUFFICES ASSUME NEW q \in Requests \ outdated'
               PROVE  Free(job[q])'
    BY DEF ChecksInv
  <2>1. \A k : k = job'[q] /\ Free(k) => Free(job[q])'
    BY <1>2 DEF Free
  <2> QED
    BY <1>4, <2>1 DEF ChecksInv
<1>5. CASE Crash
  BY <1>0, <1>5 DEF Crash, ChecksInv, Free, NameChecked, EmailChecked
<1>6. ASSUME NEW r \in Requests,
             \/ Register(r) \/ Reset(r) \/ VerifyEmail(r) \/ UpdateUser(r)
             \/ \E u \in Users : ReceiveLogin(r, u)
             \/ \E failing \in BOOLEAN : ReadSetting(r, failing)
             \/ Grant(r) \/ StatementFails(r)
      PROVE  ChecksInv'
  <2>1. CASE \/ \E n \in Names, e \in Emails, p \in Passwords : ReceiveRegister(r, n, e, p)
             \/ CheckUsername(r) \/ CheckEmail(r) \/ InsertRefused(r)
             \/ \E failing \in BOOLEAN : ReadVerification(r, failing) \/ ReadApproval(r, failing)
    BY <1>0, <1>3, <2>1, CheckMoves
  <2>2. CASE \/ ClearVerification(r) \/ \E t \in Tokens : StoreVerification(r, t)
             \/ Reset(r) \/ VerifyEmail(r) \/ UpdateUser(r)
             \/ \E u \in Users : ReceiveLogin(r, u)
             \/ \E failing \in BOOLEAN : ReadRequirement(r, failing)
             \/ Grant(r) \/ StatementFails(r)
    <3>1. /\ \A q \in Requests \ {r} : job'[q] = job[q]
          /\ outdated \ {r} \subseteq outdated' /\ job'[r].pc \notin NameChecked
      BY <1>0, <2>2, OtherMoves
    <3>2. Free(job'[r])
      BY <3>1 DEF Free, NameChecked, EmailChecked
    <3> QED
      BY <1>3, <3>1, <3>2
  <2> QED
    BY <1>6, <2>1, <2>2 DEF Register, ReadSetting
<1>7. ASSUME \/ \E u \in Users : LoginWith2FA(u) \/ SessionExpires(u) \/ SetTwoFactor(u)
             \/ \E t \in Tokens : TokenExpires(t)
             \/ \E s \in Settings : SetSetting(s)
             \/ \E r \in Requests : Refuse(r)
             \/ UNCHANGED vars
      PROVE  UNCHANGED job /\ outdated \subseteq outdated'
  BY <1>7 DEF LoginWith2FA, SessionExpires, SetTwoFactor, TokenExpires, SetSetting, Refuse, vars,
              ghosts
<1> QED
  BY <1>4, <1>5, <1>6, <1>7 DEF Next

\* A name or an address that was free when it was checked is refused by the UNIQUE
\* constraints only if a registration that overlaps took it in between.
THEOREM FreeNamesHold == Spec => []FreeNameHolds
<1>1. Init => ChecksInv
  BY IdleFits, AccountsAssumption DEF Init, ChecksInv, Free, NameChecked, EmailChecked
<1>2. AccountsInv /\ ChecksInv /\ [Next]_vars => ChecksInv'
  BY ChecksKept, AccountsAssumption
<1>3. ChecksInv => FreeNameHolds
  BY DEF ChecksInv, FreeNameHolds, Free, NameChecked, EmailChecked, Insertable, usernameExists,
         emailExists
<1> QED
  BY <1>1, <1>2, <1>3, AccountsInvariant, PTL DEF Spec

\* A reset token sets at most as many passwords as requests can overlap, however
\* many resets are asked for (and without MaxUses, which bounds the run).
THEOREM ResetReuseIsBounded == Spec => []ResetReuseBounded
<1>1. AccountsInv => ResetReuseBounded
  <2> SUFFICES ASSUME AccountsInv, NEW t \in Tokens
               PROVE  uses[t] <= Cardinality(Requests)
    BY DEF ResetReuseBounded
  <2>1. Resetting(t) \subseteq Requests
    BY DEF Resetting
  <2>2. Cardinality(Resetting(t)) \in Nat /\ Cardinality(Requests) \in Nat
    BY <2>1, AccountsAssumption, FS_Subset, FS_CardinalityType DEF AccountsAssumption
  <2>3. uses[t] \in Nat /\ uses[t] + Cardinality(Resetting(t)) <= Cardinality(Requests)
    BY DEF AccountsInv, UsesInv, GhostTypes
  <2> QED
    BY <2>2, <2>3
<1> QED
  BY <1>1, AccountsInvariant, PTL

\* An account that still has to verify its address has a token, or its
\* registration is about to store one, or never got that far.
THEOREM VerificationIsReachable == Spec => []VerificationReachable
<1>1. AccountsInv => VerificationReachable
  BY DEF AccountsInv
<1> QED
  BY <1>1, AccountsInvariant, PTL

\* A session is for an account that was eligible when its status and the setting
\* were read, unless one of them changed since.
THEOREM SessionsAreForTheEligible == Spec => SignedInWhenEligible
<1>1. ASSUME AccountsInv, [Next]_vars, NEW u \in holders' \ holders
      PROVE  \/ account[u].twoFactor
             \/ \E r \in outdated : job[r].user = u
             \/ account[u].status = "active"
                  /\ ("email_verification_required" \in settings => account[u].verified)
  <2>1. (\E r \in Requests : Grant(r)) \/ \E v \in Users : LoginWith2FA(v)
    <3>1. ~UNCHANGED holders /\ \A v \in Users : ~SessionExpires(v)
      <4>1. u \in holders' /\ u \notin holders
        BY Zenon
      <4> QED
        BY <4>1 DEF SessionExpires
    <3>2. ASSUME NEW r \in Requests, Register(r) \/ Reset(r)
          PROVE  UNCHANGED holders
      BY <3>2 DEF tables, Register, ReceiveRegister, CheckUsername, CheckEmail, InsertAccount,
           InsertRefused, ClearVerification, StoreVerification, Reset, ReceiveForgot, StoreReset,
           ReceiveReset, WritePassword
    <3>3. ASSUME NEW r \in Requests,
                 \/ VerifyEmail(r) \/ UpdateUser(r) \/ Refuse(r) \/ StatementFails(r)
                 \/ \E v \in Users : ReceiveLogin(r, v)
                 \/ \E failing \in BOOLEAN : ReadSetting(r, failing)
          PROVE  UNCHANGED holders
      BY <3>3 DEF vars, tables, VerifyEmail, ReceiveVerifyEmail, MarkVerified, ConsumeToken,
           UpdateUser, ReceiveUpdateUser, WriteUser, ReceiveLogin, ReadSetting, ReadVerification,
           ReadApproval, ReadRequirement, Refuse, StatementFails
    <3>4. ASSUME \/ \E v \in Users : SetTwoFactor(v)
                 \/ \E t \in Tokens : TokenExpires(t)
                 \/ \E s \in Settings : SetSetting(s)
                 \/ Crash \/ UNCHANGED vars
          PROVE  UNCHANGED holders
      BY <3>4 DEF vars, tables, SetTwoFactor, TokenExpires, SetSetting, Crash
    <3> QED
      BY <1>1, <3>1, <3>2, <3>3, <3>4 DEF Next
  <2>2. ASSUME NEW r \in Requests, Grant(r)
        PROVE  \/ r \in outdated /\ job[r].user = u
               \/ account[u].status = "active"
                    /\ ("email_verification_required" \in settings => account[u].verified)
    <3>1. job[r].pc = "grant" /\ job[r].user = u /\ (r \notin outdated => Current(job[r]))
      BY <1>1, <2>2 DEF Grant, AccountsInv, JobsInv
    <3> QED
      BY <3>1 DEF Current
  <2>3. ASSUME NEW v \in Users, LoginWith2FA(v)
        PROVE  account[u].twoFactor
    BY <1>1, <2>3 DEF LoginWith2FA
  <2> QED
    BY <2>1, <2>2, <2>3
<1>2. AccountsInv /\ [Next]_vars =>
        [\A u \in holders' \ holders :
           \/ account[u].twoFactor
           \/ \E r \in outdated : job[r].user = u
           \/ account[u].status = "active"
                /\ ("email_verification_required" \in settings => account[u].verified)]_vars
  BY <1>1
<1> QED
  BY <1>2, AccountsInvariant, PTL DEF Spec, SignedInWhenEligible

\* Only a request about the account touches the link in a mail to reset its
\* password: one for a new link, or one that validated this link or an older one.
THEOREM ResetLinksAreKept == Spec => ResetLinkKept
<1>1. ASSUME AccountsInv, [Next]_vars, NEW u \in Registered,
             account[u].reset # NoToken, account'[u].reset # account[u].reset
      PROVE  \E r \in Requests :
               /\ job[r].user = u
               /\ \/ job[r].pc = "forgot"
                  \/ job[r].pc = "reset" /\ (job[r].token = account[u].reset \/ r \in outdated)
  <2>0. /\ account \in [Users -> Account \cup {NoAccount}] /\ u \in Users
        /\ account[u] \in Account /\ account[u] # NoAccount
    BY <1>1 DEF AccountsInv, TableTypes, Registered
  <2>1. \E r \in Requests : (\E t \in Tokens : StoreReset(r, t)) \/ WritePassword(r)
    <3>1. CASE UNCHANGED account
      BY <1>1, <3>1
    <3>2. ASSUME NEW r \in Requests, NEW v \in Users, InsertAccount(r, v)
          PROVE  FALSE
      BY <1>1, <2>0, <3>2 DEF InsertAccount
    <3>3. ASSUME NEW r \in Requests, MarkVerified(r)
          PROVE  FALSE
      BY <1>1, <2>0, <3>3 DEF MarkVerified, Account
    <3>4. ASSUME NEW r \in Requests, WriteUser(r)
          PROVE  FALSE
      BY <1>1, <2>0, <3>4 DEF WriteUser, Account
    <3>5. ASSUME NEW v \in Users, SetTwoFactor(v)
          PROVE  FALSE
      BY <1>1, <2>0, <3>5 DEF SetTwoFactor, Account
    <3> QED
      BY <1>1, <3>1, <3>2, <3>3, <3>4, <3>5, WhoWritesAccounts
  <2>2. ASSUME NEW r \in Requests, NEW t \in Tokens, StoreReset(r, t)
        PROVE  job[r].user = u /\ job[r].pc = "forgot"
    BY <1>1, <2>0, <2>2 DEF StoreReset
  <2>3. ASSUME NEW r \in Requests, WritePassword(r)
        PROVE  /\ job[r].user = u /\ job[r].pc = "reset"
               /\ job[r].token = account[u].reset \/ r \in outdated
    <3>1. job[r].user = u /\ job[r].pc = "reset"
      BY <1>1, <2>0, <2>3 DEF WritePassword
    <3>2. r \notin outdated => Current(job[r])
      BY <1>1 DEF AccountsInv, JobsInv
    <3> QED
      BY <3>1, <3>2 DEF Current
  <2> QED
    BY <2>1, <2>2, <2>3
<1>2. AccountsInv /\ [Next]_vars =>
        [\A u \in Registered :
           (account[u].reset # NoToken /\ account'[u].reset # account[u].reset) =>
             \E r \in Requests :
               /\ job[r].user = u
               /\ \/ job[r].pc = "forgot"
                  \/ job[r].pc = "reset" /\ (job[r].token = account[u].reset \/ r \in outdated)]_vars
  BY <1>1
<1> QED
  BY <1>2, AccountsInvariant, PTL DEF Spec, ResetLinkKept
=============================================================================
