-------------------------------- MODULE Mail --------------------------------
(***************************************************************************)
(* Mails: the SMTP client and the mailer (src/src/service/{smtp,mailer}.go *)
(* and src/src/server/mailer_setup.go).  A mail is tried again after an    *)
(* error, over a new connection.  A connection belongs to its sender       *)
(* alone, so an attempt is one step, told apart by the command it fails    *)
(* at; or it has no end, when the peer stops answering.                    *)
(***************************************************************************)
EXTENDS Naturals

CONSTANTS
  Mails,        \* mails, each sent at most once
  Senders,      \* goroutines that send mails
  Settings,     \* SMTP settings the server may start with
  MaxFailures   \* bound: how many SMTP commands fail or are never answered

ASSUME MailAssumption ==
  /\ MaxFailures \in Nat
  /\ \A s \in Settings : {s.configured, s.user, s.admin} \subseteq BOOLEAN

VARIABLES
  smtp,       \* the settings read at the start
  mailerOn,   \* did the connection test of the start succeed?
  tries,      \* failed attempts of the mail that each sender is sending
  delivered,  \* how often the SMTP server took each mail
  silent,     \* mails whose attempt waits for an answer that never comes
  refused,    \* ghost: mails given up because authentication failed
  failures

mailVars == <<smtp, mailerOn, tries, delivered, silent, refused, failures>>

Supported(s) == s.security \in {"ssl", "starttls", "none"}

\* The commands up to authentication, for each kind of security.
Handshake(s) ==
  {"dial", "greeting"}
    \cup (IF s.security = "starttls" THEN {"starttls"} ELSE {})
    \cup (IF s.user THEN {"auth"} ELSE {})

\* Those of sendMessage.
Transaction == {"sender", "recipient", "data", "write", "close"}

\* NewMailerFromSettings: without a host and a sender's address, or when any
\* command of the connection test fails, no mail is ever sent.
MailInit ==
  /\ smtp \in Settings
  /\ mailerOn \in {FALSE} \cup {smtp.configured /\ Supported(smtp)}
  /\ tries = [x \in Senders |-> 0]
  /\ delivered = [m \in Mails |-> 0]
  /\ silent = {}
  /\ refused = {}
  /\ failures = 0

\* SendNotification returns without an attempt: the mailer is disabled, or the
\* administrator has no address.
Skips == ~mailerOn \/ ~smtp.admin

\* Mutant: one attempt too few.
LastTryOffByOne(x, retries) == tries[x] + 1 >= retries

LastTry(x, retries) == tries[x] >= retries

\* An attempt that fails at a command, or "nowhere", is the last one.
Returns(x, retries, failed) == failed \in {"nowhere", "auth"} \/ LastTry(x, retries)

\* Send.  When the answer to the end of the data is lost, the server may have
\* taken the mail.
Attempt(x, m, retries, failed) ==
  /\ m \notin silent
  /\ failed \in {"nowhere"} \cup Handshake(smtp) \cup Transaction
  /\ IF failed = "nowhere" THEN UNCHANGED failures
     ELSE failures < MaxFailures /\ failures' = failures + 1
  /\ \/ failed \in {"nowhere", "close"} /\ delivered' = [delivered EXCEPT ![m] = @ + 1]
     \/ failed # "nowhere" /\ UNCHANGED delivered
  /\ tries' = [tries EXCEPT ![x] = IF Returns(x, retries, failed) THEN 0 ELSE @ + 1]
  /\ refused' = IF failed = "auth" THEN refused \cup {m} ELSE refused
  /\ UNCHANGED <<smtp, mailerOn, silent>>

\* The peer stops answering.  Nothing sets a deadline once the connection is
\* made (the ten seconds of DialTimeout end there), so the attempt never ends;
\* the server may have taken the mail before.
FallSilent(m) ==
  /\ ~Skips
  /\ m \notin silent
  /\ failures < MaxFailures
  /\ failures' = failures + 1
  /\ silent' = silent \cup {m}
  /\ \/ delivered' = [delivered EXCEPT ![m] = @ + 1]
     \/ UNCHANGED delivered
  /\ UNCHANGED <<smtp, mailerOn, tries, refused>>
============================================================================
