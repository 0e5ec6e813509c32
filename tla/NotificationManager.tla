------------------------ MODULE NotificationManager ------------------------
(***************************************************************************)
(* The batching of admin notifications, src/src/service/notifications.go.  *)
(*                                                                         *)
(* Goroutines: one per call of Queue, the batch loop, the lifecycle caller *)
(* (the one goroutine that calls Start and Stop) and callers of            *)
(* UpdatePreferences.  The mutex is held across a blocking operation only  *)
(* by Stop; every other critical section is one step that needs it free.   *)
(*                                                                         *)
(* A select that waits keeps the channel it evaluated: onTicker says       *)
(* whether the loop's is the channel of the present ticker.  A stopped     *)
(* ticker delivers nothing, not even a tick already due (Go 1.23).         *)
(***************************************************************************)
EXTENDS Mail, Sequences, SequencesExt, FiniteSetsExt

CONSTANTS
  Notification,  \* what each notice is about
  Preferences,   \* the sets of types that the preferences may enable
  MaxStops,      \* bound: how often Stop is called
  MaxDelays      \* bound: how often UpdatePreferences changes the batch delay

PriorityNormal == 1
PriorityHigh == 3
PriorityEmergency == 5

\* The helpers that make a notice, by its type and priority.
NotifyEmergency == [type |-> "emergency", priority |-> PriorityEmergency]

NotifyCertificateExpiring(days) ==
  [type |-> "certificate", priority |-> IF days <= 7 THEN PriorityHigh ELSE PriorityNormal]

NotifyBackupStatus(status) ==
  [type |-> "backup_status",
   priority |-> IF status = "success" THEN PriorityNormal ELSE PriorityHigh]

\* NotifyBugReport, NotifyUserRegistration, NotifyDomainVerification and
\* NotifyHighTraffic.
NotifyNormally(type) == [type |-> type, priority |-> PriorityNormal]

Notices == Mails

Types == {Notification[n].type : n \in Notices}

Urgent == {n \in Notices : Notification[n].priority = PriorityEmergency}

ASSUME NotificationAssumption ==
  /\ \A n \in Notices :
       \/ Notification[n] = NotifyEmergency
       \/ \E days \in {7, 8} : Notification[n] = NotifyCertificateExpiring(days)
       \/ \E status \in {"success", "failed"} : Notification[n] = NotifyBackupStatus(status)
       \/ \E type \in {"bug_report", "user_registration", "domain_verification", "high_traffic"} :
            Notification[n] = NotifyNormally(type)
  /\ Preferences \subseteq SUBSET Types
  /\ IsFiniteSet(Notices)
  /\ {"loop", "main"} \cup Urgent \subseteq Senders
  /\ MaxStops \in Nat
  /\ MaxDelays \in Nat

VARIABLES
  enabled,    \* the types that the preferences enable
  admitted,   \* notices that passed the check, on their way to the queue
  sending,    \* urgent notices being sent by their caller
  queue,      \* the queue
  running,    \* the running flag
  loop,       \* where the batch loop is
  batch,      \* what the batch loop still has to send
  onTicker,   \* does the waiting loop listen to the present ticker?
  ticked,     \* has the present ticker a tick to deliver?
  main,       \* where the lifecycle caller is
  flush,      \* what Stop still has to send
  done,       \* batched notices, in the order they were handed to the mailer
  urgentDone, \* urgent notices handed to the mailer
  accepted,   \* ghost: batched notices in the order they were queued
  stopped,    \* ghost: notices accepted when Stop was last called
  stops, delays   \* how often Stop was called, the delay changed

loopVars == <<loop, batch, onTicker>>
mainVars == <<main, flush, stopped, stops>>
noticeVars == <<admitted, sending, accepted, urgentDone>>
prefVars == <<enabled, delays>>
vars == <<loopVars, mainVars, noticeVars, prefVars, mailVars, queue, running, ticked, done>>

\* Mutant: Stop keeps the mutex until its last processQueue has returned.
MutexKeptToEnd == main \notin {"signal", "flush"}

\* The mutex is free: only Stop keeps it while it waits.
MutexFree == main # "signal"

\* Every notice that Queue has already been called for.
Called == admitted \cup sending \cup urgentDone \cup ToSet(accepted)

Init ==
  /\ MailInit
  /\ enabled \in Preferences
  /\ admitted = {} /\ sending = {} /\ urgentDone = {}
  /\ queue = <<>> /\ done = <<>> /\ accepted = <<>>
  /\ running = FALSE
  /\ loop = "none" /\ batch = <<>> /\ onTicker = FALSE
  /\ ticked = FALSE
  /\ main = "idle" /\ flush = <<>> /\ stopped = {}
  /\ stops = 0 /\ delays = 0

----------------------------------------------------------------------------
(***************************************************************************)
(* Queue                                                                   *)
(***************************************************************************)

\* Emergency notifications bypass batching.
Bypasses(n) == n \in Urgent

\* Queue(n): the type is enabled, so n is sent at once or goes to the queue.
Admit(n) ==
  /\ n \notin Called
  /\ Notification[n].type \in enabled
  /\ IF Bypasses(n)
     THEN sending' = sending \cup {n} /\ UNCHANGED admitted
     ELSE admitted' = admitted \cup {n} /\ UNCHANGED sending
  /\ UNCHANGED <<loopVars, mainVars, prefVars, accepted, urgentDone, queue, running,
                 ticked, done, mailVars>>

\* The priority is the number of tries after the first.
Retries(n) == Notification[n].priority

\* sendNotification, up to the end of the next attempt.  When it returns, the
\* notice is dropped, sent or not.
SendNotification(x, n, returns) ==
  \/ Skips /\ returns /\ UNCHANGED mailVars
  \/ /\ ~Skips
     /\ \E failed \in {"nowhere"} \cup Handshake(smtp) \cup Transaction :
          Attempt(x, n, Retries(n), failed) /\ returns = Returns(x, Retries(n), failed)

SendImmediately(n) ==
  /\ n \in sending
  /\ \/ /\ SendNotification(n, n, TRUE)
        /\ sending' = sending \ {n}
        /\ urgentDone' = urgentDone \cup {n}
     \/ SendNotification(n, n, FALSE) /\ UNCHANGED <<sending, urgentDone>>
  /\ UNCHANGED <<loopVars, mainVars, prefVars, admitted, accepted, queue, running,
                 ticked, done>>

Enqueue(n) ==
  /\ n \in admitted
  /\ MutexFree
  /\ admitted' = admitted \ {n}
  /\ queue' = Append(queue, n)
  /\ accepted' = Append(accepted, n)
  /\ UNCHANGED <<loopVars, mainVars, prefVars, sending, urgentDone, running, ticked, done, mailVars>>

----------------------------------------------------------------------------
(***************************************************************************)
(* processLoop and processQueue                                            *)
(***************************************************************************)

\* Mutant: what is taken from the queue stays in it.
LeftInQueue == queue

\* Mutant: the queue is read after it was emptied.
BatchDropped == <<>>

\* What processQueue takes to send.
TakenBatch == queue

\* The queue that processQueue leaves behind.
EmptiedQueue == <<>>

\* The loop evaluates nm.ticker.C and waits.
EnterSelect ==
  /\ loop = "enter"
  /\ loop' = "select"
  /\ onTicker' = TRUE
  /\ UNCHANGED <<mainVars, noticeVars, prefVars, batch, queue, running, ticked, done, mailVars>>

Tick ==
  /\ running
  /\ ~ticked
  /\ ticked' = TRUE
  /\ UNCHANGED <<loopVars, mainVars, noticeVars, prefVars, queue, running, done, mailVars>>

ReceiveTick ==
  /\ loop = "select"
  /\ onTicker
  /\ ticked
  /\ ticked' = FALSE
  /\ loop' = "lock"
  /\ UNCHANGED <<mainVars, noticeVars, prefVars, batch, onTicker, queue, running, done, mailVars>>

TakeBatch ==
  /\ loop = "lock"
  /\ MutexFree
  /\ batch' = TakenBatch
  /\ queue' = EmptiedQueue
  /\ loop' = "send"
  /\ UNCHANGED <<mainVars, noticeVars, prefVars, onTicker, running, ticked, done, mailVars>>

SendFromBatch ==
  /\ loop = "send"
  /\ \/ batch = <<>> /\ loop' = "enter" /\ UNCHANGED <<batch, done, mailVars>>
     \/ /\ batch # <<>>
        /\ \/ /\ SendNotification("loop", Head(batch), TRUE)
              /\ done' = Append(done, Head(batch))
              /\ batch' = Tail(batch)
           \/ SendNotification("loop", Head(batch), FALSE) /\ UNCHANGED <<batch, done>>
        /\ UNCHANGED loop
  /\ UNCHANGED <<mainVars, noticeVars, prefVars, onTicker, queue, running, ticked>>

----------------------------------------------------------------------------
(***************************************************************************)
(* Start and Stop                                                          *)
(***************************************************************************)

\* NewTicker, running = true, go processLoop().
Start ==
  /\ main = "idle"
  /\ ~running
  /\ running' = TRUE
  /\ ticked' = FALSE
  /\ loop' = "enter"
  /\ UNCHANGED <<mainVars, noticeVars, prefVars, batch, onTicker, queue, done, mailVars>>

\* Stop takes the mutex and offers a value on the unbuffered stopChan.
Stop ==
  /\ main = "idle"
  /\ running
  /\ stops < MaxStops
  /\ stops' = stops + 1
  /\ main' = "signal"
  /\ stopped' = ToSet(accepted)
  /\ UNCHANGED <<loopVars, noticeVars, prefVars, flush, queue, running, ticked, done, mailVars>>

\* Mutant: Stop returns without the last processQueue.
AfterSignalReturn == "idle"

AfterSignal == "flush"

\* The loop receives and returns; Stop ends the ticker and frees the mutex.
\* Nobody else can take a step in between: the mutex is held throughout.
StopLoop ==
  /\ main = "signal"
  /\ loop = "select"
  /\ loop' = "none"
  /\ running' = FALSE
  /\ ticked' = FALSE
  /\ main' = AfterSignal
  /\ UNCHANGED <<noticeVars, prefVars, batch, onTicker, flush, stopped, stops, queue, done, mailVars>>

TakeFlush ==
  /\ main = "flush"
  /\ MutexFree
  /\ flush' = TakenBatch
  /\ queue' = EmptiedQueue
  /\ main' = "send"
  /\ UNCHANGED <<loopVars, noticeVars, prefVars, stopped, stops, running, ticked, done, mailVars>>

SendFromFlush ==
  /\ main = "send"
  /\ \/ flush = <<>> /\ main' = "idle" /\ UNCHANGED <<flush, done, mailVars>>
     \/ /\ flush # <<>>
        /\ \/ /\ SendNotification("main", Head(flush), TRUE)
              /\ done' = Append(done, Head(flush))
              /\ flush' = Tail(flush)
           \/ SendNotification("main", Head(flush), FALSE) /\ UNCHANGED <<flush, done>>
        /\ UNCHANGED main
  /\ UNCHANGED <<loopVars, noticeVars, prefVars, stopped, stops, queue, running, ticked>>

----------------------------------------------------------------------------
(***************************************************************************)
(* UpdatePreferences                                                       *)
(***************************************************************************)

\* The batch delay stays.
SetPreferences(on) ==
  /\ MutexFree
  /\ enabled' = on
  /\ UNCHANGED <<loopVars, mainVars, noticeVars, delays, queue, running, ticked, done, mailVars>>

\* A new batch delay: a running manager gets a new ticker, and a loop that is
\* already waiting goes on waiting for the old one.
SetDelay(on) ==
  /\ MutexFree
  /\ delays < MaxDelays
  /\ delays' = delays + 1
  /\ enabled' = on
  /\ IF running THEN onTicker' = FALSE /\ ticked' = FALSE
     ELSE UNCHANGED <<onTicker, ticked>>
  /\ UNCHANGED <<mainVars, noticeVars, loop, batch, queue, running, done, mailVars>>

----------------------------------------------------------------------------
\* The notices being sent, each by its own goroutine.
BeingSent ==
  sending \cup (IF loop = "send" /\ batch # <<>> THEN {Head(batch)} ELSE {})
          \cup (IF main = "send" /\ flush # <<>> THEN {Head(flush)} ELSE {})

\* A goroutine is caught in the attempt to send n.
PeerFallsSilent(n) ==
  /\ n \in BeingSent
  /\ FallSilent(n)
  /\ UNCHANGED <<loopVars, mainVars, noticeVars, prefVars, queue, running, ticked, done>>

Next ==
  \/ \E n \in Notices : PeerFallsSilent(n)
  \/ \E n \in Notices : Admit(n) \/ SendImmediately(n) \/ Enqueue(n)
  \/ EnterSelect \/ Tick \/ ReceiveTick \/ TakeBatch \/ SendFromBatch
  \/ Start \/ Stop \/ StopLoop \/ TakeFlush \/ SendFromFlush
  \/ \E on \in Preferences : SetPreferences(on) \/ SetDelay(on)

\* Every goroutine that can run does, and the present ticker keeps ticking; an
\* attempt ends unless the peer falls silent, which it may do in any attempt.
\* Nobody has to call Queue, Start, Stop or UpdatePreferences.
Fairness ==
  /\ \A n \in Notices : WF_vars(SendImmediately(n)) /\ WF_vars(Enqueue(n))
  /\ WF_vars(EnterSelect) /\ WF_vars(Tick)
  /\ WF_vars(ReceiveTick) /\ WF_vars(TakeBatch) /\ WF_vars(SendFromBatch)
  /\ SF_vars(StopLoop) /\ WF_vars(TakeFlush) /\ WF_vars(SendFromFlush)

Spec == Init /\ [][Next]_vars

FairSpec == Spec /\ Fairness

----------------------------------------------------------------------------
\* No batched notice is lost, sent twice or sent out of turn: what the mailer
\* got, then the loop's batch, then Stop's, then the queue, is what was queued.
\* (processQueue empties the queue under the mutex, and Stop starts its own
\* processQueue only after the loop has returned.)
OnceAndInOrder == done \o batch \o flush \o queue = accepted

\* When Stop has returned, every notice queued before it was called has been
\* handed to the mailer ("Process remaining notifications",
\* notifications.go:119).
StopFlushes == (main = "idle" /\ ~running) => stopped \subseteq ToSet(done)

\* The loop waits for the ticker that UpdatePreferences stopped and replaced.
Deaf == loop = "select" /\ ~onTicker

\* Stop waits for the loop, and the loop for the mutex that Stop holds.
Deadlocked == main = "signal" /\ loop = "lock"

\* The loop, or Stop, is caught in an attempt that never ends.
Caught == silent \cap ToSet(accepted) # {}

\* A queued notice of a running manager is sent, by the loop or by Stop, unless
\* the manager ends in one of three ways: its loop is deaf for ever, it is locked
\* with Stop, or the peer fell silent.
QueuedIsSent ==
  \A n \in Notices :
    \/ (running /\ n \in ToSet(accepted)) ~> n \in ToSet(done)
    \/ <>[](Deaf \/ Deadlocked \/ Caught)

\* Stop, called by the one lifecycle goroutine, returns unless the loop has
\* taken a tick and waits for Stop's mutex, or the peer fell silent: a deaf loop
\* does not keep it, nor do notices that go on arriving, nor its own last
\* processQueue ("called without holding the mutex", notifications.go:119).
StopEnds ==
  \/ main = "signal" ~> main = "idle"
  \/ <>[](Deadlocked \/ Caught)

\* With a mailer that works at the start, every notice that was handed to it was
\* delivered, unless authentication failed or each of its tries did; and it was
\* delivered again only after an error that followed the delivery.
DeliveredOrGivenUp ==
  LET handed == ToSet(done) \cup urgentDone
      again(n) == IF delivered[n] = 0 THEN 0 ELSE delivered[n] - 1
  IN ~Skips =>
       /\ \A n \in handed \ refused : delivered[n] = 0 => failures > Retries(n)
       /\ FoldSet(LAMBDA n, sum : sum + again(n), 0, Notices) <= failures

\* Stop returns: "called without holding the mutex so processQueue() can
\* acquire it without deadlocking" (notifications.go:119).
StopReturns == main = "signal" ~> main = "idle"

\* A running manager whose delay was changed still sends what is queued:
\* "Restart ticker with new delay" (notifications.go:243).
DelayChangeKeepsBatching ==
  \A n \in Notices :
    (running /\ delays > 0 /\ n \in ToSet(accepted)) ~> n \in ToSet(done)
============================================================================
