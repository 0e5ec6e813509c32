------------------------------ MODULE Accounts ------------------------------
(***************************************************************************)
(* Accounts and the tokens around them: registration, login, password      *)
(* reset and e-mail verification (src/src/server/auth.go, password.go and  *)
(* src/src/server/handler/auth_handlers.go) beside the administrator's     *)
(* changes (src/src/server/handler/admin_handlers.go).                     *)
(*                                                                         *)
(* One action per SQL statement.  Passwords are compared, never hashed; a  *)
(* session token is the fact that its user holds one, because              *)
(* ValidateToken looks at nothing but signature and expiry.  Accounts are  *)
(* not deleted here (SiteContent does that).                               *)
(***************************************************************************)
EXTENDS Naturals, FiniteSets

CONSTANTS
  Users,       \* ids of accounts; random, never used again
  Names,       \* what people type as username or as e-mail address
  Emails,      \* those that are addresses; Validate lets a username be one
  Passwords,
  Roles,
  Requests,    \* requests that can be in flight together
  Tokens,      \* tokens of the mails; random, never used twice
  NoAccount, NoUser, NoName, NoPassword, NoToken,
  MailEnabled, \* did the SMTP test at startup succeed?
  AdminRoutes, \* can the admin endpoints be reached? (see SiteContent)
  MaxFailures, \* bound: how many statements fail, and how often the process dies
  MaxChanges,  \* bound: how many changes come from outside these endpoints
  MaxUses      \* bound: a reset token accepted this often is not sent again

Statuses == {"active", "suspended", "pending"}
Settings == {"email_verification_required", "registration_requires_approval"}

\* A row of users: what the endpoints of this module read and write.
Account == [name : Names, email : Emails, password : Passwords, role : Roles,
            status : Statuses, verified : BOOLEAN, twoFactor : BOOLEAN,
            reset : Tokens \cup {NoToken}]

ASSUME AccountsAssumption ==
  /\ IsFiniteSet(Requests)
  /\ Emails \subseteq Names
  /\ "user" \in Roles
  /\ NoUser \notin Users /\ NoName \notin Names
  /\ NoAccount \notin Account
  /\ NoPassword \notin Passwords /\ NoToken \notin Tokens
  /\ MailEnabled \in BOOLEAN /\ AdminRoutes \in BOOLEAN
  /\ MaxFailures \in Nat /\ MaxChanges \in Nat /\ MaxUses \in Nat

VARIABLES
  account,    \* users: the row of each id, or NoAccount
  settings,   \* the settings that are "true"
  verifyRows, \* email_verification_tokens: <<user, token>>
  expired,    \* tokens past their expiry
  holders,    \* users with a session token that has not expired
  job,        \* what each request is doing
  fresh,      \* ghost: the tokens not yet generated
  outdated,   \* ghost: requests that go on with what is no longer, or was not, so
  cutOff,     \* ghost: users whose registration did not get to its mail
  uses,       \* ghost: how often each reset token was accepted
  failures,
  changes

tables == <<account, settings, verifyRows, expired, holders>>
ghosts == <<fresh, outdated, cutOff, uses>>
bounds == <<failures, changes>>
vars == <<tables, job, ghosts, bounds>>

Registered == {u \in Users : account[u] # NoAccount}

Idle == [pc |-> "idle", user |-> NoUser, name |-> NoName, email |-> NoName,
         password |-> NoPassword, token |-> NoToken, role |-> "user",
         status |-> "active", verified |-> TRUE, asked |-> {}]

\* Bound: a request that may need a token is received only while there are
\* tokens for it and for those in flight.
TokenLeft ==
  Cardinality({r \in Requests : job[r].pc \notin
     {"idle", "grant", "login", "reset", "verify", "consume", "update"}}) < Cardinality(fresh)

\* An idle handler takes a request and remembers this much of it.
Receive(r, remembered) ==
  /\ job[r].pc = "idle"
  /\ job' = [job EXCEPT ![r] = remembered]

GoTo(r, pc) == job' = [job EXCEPT ![r].pc = pc]

Finish(r) == job' = [job EXCEPT ![r] = Idle]

\* A request that is refused at once changes nothing: a weak password, wrong
\* credentials, an unknown or expired token, no mail.
Refuse(r) == job[r].pc = "idle" /\ UNCHANGED vars

\* The account of u is written: what other requests read of it is old.
Outdate(u, r) ==
  outdated' = (outdated \cup {q \in Requests : job[q].user = u}) \ {r}

\* Request r is over, or has read afresh.
Renew(r) == outdated' = outdated \ {r}

Init ==
  /\ account = [u \in Users |-> NoAccount]
  /\ settings = {"email_verification_required"}
  /\ verifyRows = {}
  /\ expired = {}
  /\ holders = {}
  /\ job = [r \in Requests |-> Idle]
  /\ fresh = Tokens
  /\ outdated = {}
  /\ cutOff = {}
  /\ uses = [t \in Tokens |-> 0]
  /\ failures = 0
  /\ changes = 0

----------------------------------------------------------------------------
(***************************************************************************)
(* POST /api/auth/register                                                 *)
(***************************************************************************)

\* The password is strong enough; otherwise nothing happens.
ReceiveRegister(r, n, e, p) ==
  /\ TokenLeft
  /\ Receive(r, [Idle EXCEPT !.pc = "username", !.name = n, !.email = e, !.password = p])
  /\ UNCHANGED <<tables, ghosts, bounds>>

usernameExists(n) == \E u \in Registered : account[u].name = n

\* Mutant: an address that was never verified may be registered again.
emailExistsVerified(e) == \E u \in Registered : account[u].email = e /\ account[u].verified

emailExists(e) == \E u \in Registered : account[u].email = e

CheckUsername(r) ==
  /\ job[r].pc = "username"
  /\ IF usernameExists(job[r].name) THEN Finish(r) ELSE GoTo(r, "email")
  /\ UNCHANGED <<tables, ghosts, bounds>>

CheckEmail(r) ==
  /\ job[r].pc = "email"
  /\ \/ emailExists(job[r].email) /\ Finish(r) /\ Renew(r)
     \/ ~emailExists(job[r].email) /\ GoTo(r, "verification") /\ outdated' = outdated
  /\ UNCHANGED <<tables, fresh, cutOff, uses, bounds>>

\* Both settings are read, and an error of GetSetting reads as "not set".
SettingRead(s, failing) == s \in settings /\ ~failing

ReadVerification(r, failing) ==
  /\ job[r].pc = "verification"
  /\ job' = [job EXCEPT ![r].pc = "approval",
                        ![r].verified = ~SettingRead("email_verification_required", failing)]
  /\ UNCHANGED <<tables, ghosts, changes>>

InitialStatus(approval) == IF approval THEN "pending" ELSE "active"

ReadApproval(r, failing) ==
  /\ job[r].pc = "approval"
  /\ job' = [job EXCEPT ![r].pc = "insert",
       ![r].status = InitialStatus(SettingRead("registration_requires_approval", failing))]
  /\ UNCHANGED <<tables, ghosts, changes>>

\* The UNIQUE constraints of users.
Insertable(n, e) == \A u \in Registered : account[u].name # n /\ account[u].email # e

\* Registrations whose check found free what is taken now.
NameChecked == {"email", "verification", "approval", "insert"}
EmailChecked == {"verification", "approval", "insert"}

Overtaken(n, e) ==
  {q \in Requests : \/ job[q].pc \in NameChecked /\ job[q].name = n
                    \/ job[q].pc \in EmailChecked /\ job[q].email = e}

\* Mutant: an active account gets its token whether or not it is verified.
CanLoginWhenActive(status, verified) == status = "active"

\* User.CanLogin
CanLogin(status, verified) == status = "active" /\ verified

\* INSERT, and what the handler does next with the user it has in memory.
InsertAccount(r, u) ==
  LET j == job[r] IN
  /\ j.pc = "insert"
  /\ account[u] = NoAccount
  /\ Insertable(j.name, j.email)
  /\ account' = [account EXCEPT ![u] =
       [name |-> j.name, email |-> j.email, password |-> j.password, role |-> "user",
        status |-> j.status, verified |-> j.verified, twoFactor |-> FALSE,
        reset |-> NoToken]]
  /\ \/ /\ CanLogin(j.status, j.verified)
        /\ job' = [job EXCEPT ![r].pc = "grant", ![r].user = u]
        /\ cutOff' = cutOff
     \/ /\ ~CanLogin(j.status, j.verified)
        /\ MailEnabled /\ ~j.verified
        /\ job' = [job EXCEPT ![r].pc = "clear", ![r].user = u]
        /\ cutOff' = cutOff
     \/ /\ ~CanLogin(j.status, j.verified)
        /\ ~(MailEnabled /\ ~j.verified)
        /\ Finish(r)
        /\ cutOff' = IF j.verified THEN cutOff ELSE cutOff \cup {u}
  /\ outdated' = (outdated \cup Overtaken(j.name, j.email)) \ {r}
  /\ UNCHANGED <<settings, verifyRows, expired, holders, fresh, uses, bounds>>

InsertRefused(r) ==
  /\ job[r].pc = "insert"
  /\ ~Insertable(job[r].name, job[r].email)
  /\ Finish(r)
  /\ Renew(r)
  /\ UNCHANGED <<tables, fresh, cutOff, uses, bounds>>

\* GenerateEmailVerificationToken: DELETE the old rows, then INSERT one.
ClearVerification(r) ==
  /\ job[r].pc = "clear"
  /\ verifyRows' = {x \in verifyRows : x[1] # job[r].user}
  /\ GoTo(r, "store")
  /\ UNCHANGED <<account, settings, expired, holders, ghosts, bounds>>

\* Mutant: the token is kept in the password_reset_token column.
TokenInResetColumn(u, t) == [account EXCEPT ![u].reset = t]

\* A verification token has a table of its own and leaves the users alone.
AccountsWithToken(u, t) == account

StoreVerification(r, t) ==
  /\ job[r].pc = "store"
  /\ t \in fresh
  /\ fresh' = fresh \ {t}
  /\ verifyRows' = verifyRows \cup {<<job[r].user, t>>}
  /\ account' = AccountsWithToken(job[r].user, t)
  /\ Finish(r)
  /\ Renew(r)
  /\ UNCHANGED <<settings, expired, holders, cutOff, uses, bounds>>

----------------------------------------------------------------------------
(***************************************************************************)
(* Signing in                                                              *)
(***************************************************************************)

\* The row that the SELECT for a username or an address may return.
Matches(n) == {u \in Registered : account[u].name = n \/ account[u].email = n}

\* POST /api/auth/login with the right password.  Every other attempt, and
\* one that is told to send its second factor, changes nothing.
ReceiveLogin(r, u) ==
  /\ \E n \in Names : u \in Matches(n)
  /\ account[u].status = "active"
  /\ ~account[u].twoFactor
  /\ Receive(r, [Idle EXCEPT !.pc = "login", !.user = u, !.verified = account[u].verified])
  /\ UNCHANGED <<tables, ghosts, bounds>>

\* The setting is read after the row.
MaySignIn(j, failing) ==
  SettingRead("email_verification_required", failing) => j.verified

ReadRequirement(r, failing) ==
  /\ job[r].pc = "login"
  /\ IF MaySignIn(job[r], failing) THEN GoTo(r, "grant") ELSE Finish(r)
  /\ outdated' = CASE ~MaySignIn(job[r], failing) -> outdated \ {r}
                   [] failing -> outdated \cup {r}
                   [] OTHER -> outdated
  /\ UNCHANGED <<tables, fresh, cutOff, uses, changes>>

\* The token of a login or of a registration leaves the server.
Grant(r) ==
  /\ job[r].pc = "grant"
  /\ holders' = holders \cup {job[r].user}
  /\ Finish(r)
  /\ Renew(r)
  /\ UNCHANGED <<account, settings, verifyRows, expired, fresh, cutOff, uses, bounds>>

\* POST /api/auth/login/2fa with the right code: status and verification are
\* not looked at again.
LoginWith2FA(u) ==
  /\ u \in Registered
  /\ account[u].twoFactor
  /\ holders' = holders \cup {u}
  /\ UNCHANGED <<job, account, settings, verifyRows, expired, ghosts, bounds>>

\* A session token expires.  POST /api/auth/refresh only makes it last longer
\* (and refuses accounts that are not active), logout leaves it as it is.
SessionExpires(u) ==
  /\ u \in holders
  /\ holders' = holders \ {u}
  /\ UNCHANGED <<job, account, settings, verifyRows, expired, ghosts, bounds>>

----------------------------------------------------------------------------
(***************************************************************************)
(* Password reset                                                          *)
(***************************************************************************)

\* POST /api/auth/forgot-password for an address that has an account.
ReceiveForgot(r, u) ==
  /\ MailEnabled /\ TokenLeft
  /\ u \in Registered
  /\ Receive(r, [Idle EXCEPT !.pc = "forgot", !.user = u])
  /\ UNCHANGED <<tables, ghosts, bounds>>

\* UPDATE users SET password_reset_token: the link before it is void.
StoreReset(r, t) ==
  LET u == job[r].user IN
  /\ job[r].pc = "forgot"
  /\ t \in fresh
  /\ fresh' = fresh \ {t}
  /\ account' = [account EXCEPT ![u].reset = t]
  /\ Finish(r)
  /\ Outdate(u, r)
  /\ UNCHANGED <<settings, verifyRows, expired, holders, cutOff, uses, bounds>>

\* POST /api/auth/reset-password: ValidatePasswordResetToken finds the user.
ReceiveReset(r, u, p) ==
  LET t == account[u].reset IN
  /\ u \in Registered
  /\ t # NoToken /\ t \notin expired
  /\ uses[t] < MaxUses
  /\ Receive(r, [Idle EXCEPT !.pc = "reset", !.user = u, !.token = t, !.password = p])
  /\ UNCHANGED <<tables, ghosts, bounds>>

\* Mutant: the token stays in the row.
ResetTokenKept(row) == row.reset

\* password_reset_token = NULL
TokenAfterReset(row) == NoToken

\* UPDATE ... WHERE id = ?: whichever token the row now holds goes.
WritePassword(r) ==
  LET u == job[r].user
      t == job[r].token
  IN
  /\ job[r].pc = "reset"
  /\ account' = [account EXCEPT ![u].password = job[r].password,
                                ![u].reset = TokenAfterReset(account[u])]
  /\ uses' = [uses EXCEPT ![t] = @ + 1]
  /\ Finish(r)
  /\ Outdate(u, r)
  /\ UNCHANGED <<settings, verifyRows, expired, holders, fresh, cutOff, bounds>>

\* A reset token lives for a day, a verification token for two.
TokenExpires(t) ==
  /\ t \notin fresh \cup expired
  /\ \/ \E u \in Registered : account[u].reset = t
     \/ \E u \in Users : <<u, t>> \in verifyRows
  /\ expired' = expired \cup {t}
  /\ UNCHANGED <<job, account, settings, verifyRows, holders, ghosts, bounds>>

----------------------------------------------------------------------------
(***************************************************************************)
(* GET /api/auth/verify-email/{token}                                      *)
(***************************************************************************)

\* Mutant: the token is deleted, and that is all.
ConsumeFirst == "consume"

FirstVerifyStep == "verify"

ReceiveVerifyEmail(r, u, t) ==
  /\ <<u, t>> \in verifyRows
  /\ t \notin expired
  /\ Receive(r, [Idle EXCEPT !.pc = FirstVerifyStep, !.user = u, !.token = t])
  /\ UNCHANGED <<tables, ghosts, bounds>>

MarkVerified(r) ==
  LET u == job[r].user IN
  /\ job[r].pc = "verify"
  /\ account' = [account EXCEPT ![u].verified = TRUE]
  /\ GoTo(r, "consume")
  /\ Outdate(u, r)
  /\ UNCHANGED <<settings, verifyRows, expired, holders, fresh, cutOff, uses, bounds>>

ConsumeToken(r) ==
  /\ job[r].pc = "consume"
  /\ verifyRows' = {x \in verifyRows : x[2] # job[r].token}
  /\ Finish(r)
  /\ Renew(r)
  /\ UNCHANGED <<account, settings, expired, holders, fresh, cutOff, uses, bounds>>

----------------------------------------------------------------------------
(***************************************************************************)
(* What changes an account from outside                                    *)
(***************************************************************************)

OutsideChange == changes < MaxChanges /\ changes' = changes + 1

\* The copy of the row with the fields that were sent.
Edited(row, role, status, asked) ==
  [role |-> IF "role" \in asked THEN role ELSE row.role,
   status |-> IF "status" \in asked THEN status ELSE row.status]

\* PUT /api/admin/users/{id}: GetUserByID, then the fields of the request.
ReceiveUpdateUser(r, u, role, status, asked) ==
  /\ AdminRoutes
  /\ OutsideChange
  /\ u \in Registered
  /\ LET copy == Edited(account[u], role, status, asked) IN
     Receive(r, [Idle EXCEPT !.pc = "update", !.user = u, !.role = copy.role,
                             !.status = copy.status, !.asked = asked])
  /\ UNCHANGED <<tables, ghosts, failures>>

\* UPDATE users SET role = ?, status = ?: both columns of the copy.
WriteUser(r) ==
  LET u == job[r].user IN
  /\ job[r].pc = "update"
  /\ account' = [account EXCEPT ![u].role = job[r].role, ![u].status = job[r].status]
  /\ Finish(r)
  /\ Outdate(u, r)
  /\ UNCHANGED <<settings, verifyRows, expired, holders, fresh, cutOff, uses, bounds>>

\* Enable2FA and Disable2FA (see TwoFactor).
SetTwoFactor(u) ==
  /\ u \in Registered
  /\ OutsideChange
  /\ account' = [account EXCEPT ![u].twoFactor = ~@]
  /\ outdated' = outdated \cup {r \in Requests : job[r].user = u}
  /\ UNCHANGED <<job, settings, verifyRows, expired, holders, fresh, cutOff, uses, failures>>

\* PUT /api/admin/settings, one SetSetting at a time.
SetSetting(s) ==
  /\ AdminRoutes
  /\ OutsideChange
  /\ settings' = IF s \in settings THEN settings \ {s} ELSE settings \cup {s}
  /\ outdated' = outdated \cup {r \in Requests : job[r].pc = "grant"}
  /\ UNCHANGED <<job, account, verifyRows, expired, holders, fresh, cutOff, uses, failures>>

----------------------------------------------------------------------------
(***************************************************************************)
(* Failures                                                                *)
(***************************************************************************)

\* Requests whose registration ends without its verification mail.
AwaitingMail(q) == job[q].pc \in {"clear", "store"}

\* A statement fails and ends the request.  A failed verification token is
\* only logged, and the account stays without one.
StatementFails(r) ==
  /\ job[r].pc \notin {"idle", "grant", "login", "verification", "approval"}
  /\ failures < MaxFailures
  /\ failures' = failures + 1
  /\ cutOff' = IF AwaitingMail(r) THEN cutOff \cup {job[r].user} ELSE cutOff
  /\ Finish(r)
  /\ Renew(r)
  /\ UNCHANGED <<tables, fresh, uses, changes>>

Crash ==
  /\ failures < MaxFailures
  /\ failures' = failures + 1
  /\ cutOff' = cutOff \cup {job[r].user : r \in {q \in Requests : AwaitingMail(q)}}
  /\ job' = [r \in Requests |-> Idle]
  /\ outdated' = {}
  /\ UNCHANGED <<tables, fresh, uses, changes>>

\* Reading a setting, which may fail unnoticed.
ReadSetting(r, failing) ==
  /\ ReadVerification(r, failing) \/ ReadApproval(r, failing) \/ ReadRequirement(r, failing)
  /\ failing => failures < MaxFailures
  /\ failures' = IF failing THEN failures + 1 ELSE failures

----------------------------------------------------------------------------
Register(r) ==
  \/ \E n \in Names, e \in Emails, p \in Passwords : ReceiveRegister(r, n, e, p)
  \/ CheckUsername(r) \/ CheckEmail(r)
  \/ \E u \in Users : InsertAccount(r, u)
  \/ InsertRefused(r) \/ ClearVerification(r)
  \/ \E t \in Tokens : StoreVerification(r, t)

Reset(r) ==
  \/ \E u \in Users : ReceiveForgot(r, u)
  \/ \E t \in Tokens : StoreReset(r, t)
  \/ \E u \in Users, p \in Passwords : ReceiveReset(r, u, p)
  \/ WritePassword(r)

VerifyEmail(r) ==
  \/ \E u \in Users, t \in Tokens : ReceiveVerifyEmail(r, u, t)
  \/ MarkVerified(r) \/ ConsumeToken(r)

UpdateUser(r) ==
  \/ \E u \in Users, role \in Roles, status \in Statuses,
        asked \in SUBSET {"role", "status"} : ReceiveUpdateUser(r, u, role, status, asked)
  \/ WriteUser(r)

Next ==
  \/ \E r \in Requests :
       \/ Register(r) \/ Reset(r) \/ VerifyEmail(r) \/ UpdateUser(r)
       \/ \E u \in Users : ReceiveLogin(r, u)
       \/ \E failing \in BOOLEAN : ReadSetting(r, failing)
       \/ Grant(r) \/ Refuse(r) \/ StatementFails(r)
  \/ \E u \in Users : LoginWith2FA(u) \/ SessionExpires(u) \/ SetTwoFactor(u)
  \/ \E t \in Tokens : TokenExpires(t)
  \/ \E s \in Settings : SetSetting(s)
  \/ Crash

Spec == Init /\ [][Next]_vars

\* A username and an address that a registration found free are its own when it
\* gets to its INSERT, unless one that overlaps with it was faster: only then do
\* the UNIQUE constraints refuse it, as an error of the server (auth.go:77-113).
FreeNameHolds ==
  \A r \in Requests :
    job[r].pc = "insert" /\ ~Insertable(job[r].name, job[r].email) => r \in outdated

\* A reset token sets a password more than once only for requests that all
\* validated it before the first of them cleared it.
ResetReuseBounded == \A t \in Tokens : uses[t] <= Cardinality(Requests)

\* An account that still has to verify its address has a token to do it with,
\* unless its registration never got as far as the mail.
VerificationReachable ==
  \A u \in Registered :
    account[u].verified \/ u \in cutOff \/ (\E t \in Tokens : <<u, t>> \in verifyRows)
      \/ \E r \in Requests : job[r].user = u /\ AwaitingMail(r)

\* A user who held no session gets one only when the account is active and, if
\* that is required, verified: status and requirement are read in different
\* statements, and only a change in between, a failed read of the setting or the
\* second factor lets another user in (auth.go:159-203).
SignedInWhenEligible ==
  [][\A u \in holders' \ holders :
       \/ account[u].twoFactor
       \/ \E r \in outdated : job[r].user = u
       \/ account[u].status = "active"
            /\ ("email_verification_required" \in settings => account[u].verified)]_vars

\* A link to reset the password stops working when it expires, when it is
\* used, when another is asked for, or when a reset that had validated an
\* earlier one ends; nothing else touches it, verification tokens least of all
\* (password.go:184-186).
ResetLinkKept ==
  [][\A u \in Registered :
       (account[u].reset # NoToken /\ account'[u].reset # account[u].reset) =>
         \E r \in Requests :
           /\ job[r].user = u
           /\ \/ job[r].pc = "forgot"
              \/ job[r].pc = "reset" /\ (job[r].token = account[u].reset \/ r \in outdated)]_vars
============================================================================
