---------------------- MODULE NotificationManager_proofs ----------------------
(***************************************************************************)
(* Batched notices are handed to the mailer once each and in order, Stop   *)
(* flushes, and what was handed over is delivered or has used its tries:   *)
(* for any notices, preferences, SMTP settings and failures, and for any   *)
(* calls of Queue, Start, Stop and UpdatePreferences.                      *)
(***************************************************************************)
EXTENDS NotificationManager, SequenceTheorems, FiniteSetTheorems, WellFoundedInduction, TLAPS

QueueTypes ==
  /\ queue \in Seq(Notices) /\ accepted \in Seq(Notices) /\ done \in Seq(Notices)
  /\ batch \in Seq(Notices) /\ flush \in Seq(Notices)

\* The loop lives as long as the running flag is set; while Stop waits or
\* flushes it is where Stop expects it; and each holds a batch only while it
\* sends it.
ControlInv ==
  /\ loop \in {"none", "enter", "select", "lock", "send"}
  /\ main \in {"idle", "signal", "flush", "send"}
  /\ running <=> loop # "none"
  /\ main = "signal" => running
  /\ main \in {"flush", "send"} => ~running
  /\ loop # "send" => batch = <<>>
  /\ main # "send" => flush = <<>>

\* What was accepted before Stop was called is on its way to the mailer.
StopInv ==
  /\ stopped \subseteq ToSet(accepted)
  /\ main = "send" => stopped \subseteq ToSet(done) \cup ToSet(flush)
  /\ main = "idle" /\ ~running => stopped \subseteq ToSet(done)

ManagerInv == QueueTypes /\ ControlInv /\ OnceAndInOrder /\ StopInv

----------------------------------------------------------------------------
\* Sending the head of what is left keeps the whole.
LEMMA PassOn ==
  ASSUME NEW S, NEW s \in Seq(S), NEW t \in Seq(S), t # <<>>
  PROVE  Append(s, Head(t)) \o Tail(t) = s \o t
<1>1. Append(s, Head(t)) \in Seq(S) /\ Len(Append(s, Head(t))) = Len(s) + 1
      /\ \A i \in 1 .. Len(s) + 1 : Append(s, Head(t))[i] = IF i <= Len(s) THEN s[i] ELSE t[1]
  BY HeadTailProperties
<1>2. /\ Tail(t) \in Seq(S) /\ Len(Tail(t)) = Len(t) - 1 /\ Len(t) \in Nat \ {0}
      /\ \A i \in 1 .. Len(t) - 1 : Tail(t)[i] = t[i + 1]
  BY HeadTailProperties, EmptySeq
<1> DEFINE u == Append(s, Head(t))
           v == Tail(t)
<1> HIDE DEF u, v
<1>3. /\ u \o v \in Seq(S) /\ Len(u \o v) = Len(u) + Len(v)
      /\ \A i \in 1 .. Len(u) + Len(v) : (u \o v)[i] = IF i <= Len(u) THEN u[i] ELSE v[i - Len(u)]
  BY <1>1, <1>2, ConcatProperties DEF u, v
<1>4. /\ s \o t \in Seq(S) /\ Len(s \o t) = Len(s) + Len(t)
      /\ \A i \in 1 .. Len(s) + Len(t) : (s \o t)[i] = IF i <= Len(s) THEN s[i] ELSE t[i - Len(s)]
  BY ConcatProperties
<1>5. Len(s) \in Nat /\ Len(t) \in Nat
  BY LenProperties
<1>6. Len(u \o v) = Len(s \o t)
  BY <1>1, <1>2, <1>3, <1>4, <1>5 DEF u, v
<1>7. ASSUME NEW i \in 1 .. Len(u \o v) PROVE (u \o v)[i] = (s \o t)[i]
  <2>1. i \in 1 .. Len(s) + Len(t) /\ i \in 1 .. Len(u) + Len(v) /\ Len(u) = Len(s) + 1
    BY <1>1, <1>2, <1>3, <1>4, <1>6, <1>7 DEF u
  <2>2. CASE i <= Len(s)
    BY <1>1, <1>3, <1>4, <1>5, <2>1, <2>2 DEF u
  <2>3. CASE i = Len(s) + 1
    BY <1>1, <1>3, <1>4, <1>5, <2>1, <2>3 DEF u
  <2>4. CASE i > Len(s) + 1
    <3>1. (u \o v)[i] = v[i - (Len(s) + 1)] /\ (s \o t)[i] = t[i - Len(s)]
      BY <1>3, <1>4, <1>5, <2>1, <2>4
    <3>2. i - (Len(s) + 1) \in 1 .. Len(t) - 1 /\ (i - (Len(s) + 1)) + 1 = i - Len(s)
      BY <1>5, <2>1, <2>4
    <3> QED
      BY <1>2, <3>1, <3>2 DEF v
  <2> QED
    BY <1>5, <2>1, <2>2, <2>3, <2>4
<1> QED
  BY <1>3, <1>4, <1>6, <1>7, SeqEqual DEF u, v

\* A notice that joins the queue joins the whole at its end.
LEMMA JoinsAtEnd ==
  ASSUME NEW S, NEW s \in Seq(S), NEW t \in Seq(S), NEW n \in S
  PROVE  s \o Append(t, n) = Append(s \o t, n)
<1>1. /\ Append(t, n) \in Seq(S) /\ Len(Append(t, n)) = Len(t) + 1
      /\ \A i \in 1 .. Len(t) + 1 : Append(t, n)[i] = IF i <= Len(t) THEN t[i] ELSE n
  OBVIOUS
<1>2. /\ s \o t \in Seq(S) /\ Len(s \o t) = Len(s) + Len(t)
      /\ \A i \in 1 .. Len(s) + Len(t) : (s \o t)[i] = IF i <= Len(s) THEN s[i] ELSE t[i - Len(s)]
  BY ConcatProperties
<1> DEFINE a == Append(t, n)
           c == s \o t
<1> HIDE DEF a, c
<1>3. /\ s \o a \in Seq(S) /\ Len(s \o a) = Len(s) + Len(a)
      /\ \A i \in 1 .. Len(s) + Len(a) : (s \o a)[i] = IF i <= Len(s) THEN s[i] ELSE a[i - Len(s)]
  BY <1>1, ConcatProperties DEF a
<1>4. /\ Append(c, n) \in Seq(S) /\ Len(Append(c, n)) = Len(c) + 1
      /\ \A i \in 1 .. Len(c) + 1 : Append(c, n)[i] = IF i <= Len(c) THEN c[i] ELSE n
  BY <1>2 DEF c
<1>5. Len(s) \in Nat /\ Len(t) \in Nat
  BY LenProperties
<1>6. Len(s \o a) = Len(Append(c, n))
  BY <1>1, <1>2, <1>3, <1>4, <1>5 DEF a, c
<1>7. ASSUME NEW i \in 1 .. Len(s \o a) PROVE (s \o a)[i] = Append(c, n)[i]
  <2>1. i \in 1 .. Len(s) + Len(t) + 1 /\ Len(a) = Len(t) + 1 /\ Len(c) = Len(s) + Len(t)
    BY <1>1, <1>2, <1>3, <1>5, <1>7 DEF a, c
  <2>2. CASE i <= Len(s)
    BY <1>2, <1>3, <1>4, <1>5, <2>1, <2>2 DEF c
  <2>3. CASE i > Len(s)
    <3>1. (s \o a)[i] = a[i - Len(s)] /\ i - Len(s) \in 1 .. Len(t) + 1
      BY <1>3, <1>5, <2>1, <2>3
    <3>2. a[i - Len(s)] = IF i - Len(s) <= Len(t) THEN t[i - Len(s)] ELSE n
      BY <1>1, <3>1 DEF a
    <3>3. Append(c, n)[i] = IF i <= Len(s) + Len(t) THEN t[i - Len(s)] ELSE n
      <4>1. Append(c, n)[i] = IF i <= Len(c) THEN c[i] ELSE n
        BY <1>4, <2>1
      <4>2. i \in 1 .. Len(s) + Len(t) => c[i] = t[i - Len(s)]
        BY <1>2, <1>5, <2>3 DEF c
      <4>3. i <= Len(s) + Len(t) => i \in 1 .. Len(s) + Len(t)
        BY <1>5, <2>1
      <4> QED
        BY <2>1, <4>1, <4>2, <4>3
    <3> QED
      BY <1>5, <2>1, <3>1, <3>2, <3>3
  <2> QED
    BY <1>5, <2>1, <2>2, <2>3
<1> QED
  BY <1>3, <1>4, <1>6, <1>7, SeqEqual DEF a, c

\* Nothing is a member of the empty sequence.
LEMMA EmptyMembers == ToSet(<<>>) = {}
<1>1. <<>> \in Seq({}) /\ Len(<<>>) = 0
  BY EmptySeq
<1>2. DOMAIN <<>> = 1 .. 0 /\ \A i : i \notin 1 .. 0
  BY <1>1, LenProperties
<1> QED
  BY <1>2 DEF ToSet

\* Those of two sequences, one behind the other.
LEMMA ConcatMembers ==
  ASSUME NEW S, NEW s \in Seq(S), NEW t \in Seq(S)
  PROVE  ToSet(s \o t) = ToSet(s) \cup ToSet(t)
<1>1. /\ s \o t \in Seq(S) /\ DOMAIN (s \o t) = 1 .. Len(s) + Len(t)
      /\ \A i \in 1 .. Len(s) + Len(t) : (s \o t)[i] = IF i <= Len(s) THEN s[i] ELSE t[i - Len(s)]
      /\ DOMAIN s = 1 .. Len(s) /\ DOMAIN t = 1 .. Len(t)
      /\ Len(s) \in Nat /\ Len(t) \in Nat
  BY ConcatProperties, LenProperties
<1>2. ASSUME NEW i \in DOMAIN t PROVE t[i] \in ToSet(s \o t)
  <2>1. Len(s) + i \in 1 .. Len(s) + Len(t) /\ (s \o t)[Len(s) + i] = t[i]
    BY <1>1, <1>2
  <2> QED
    BY <1>1, <2>1 DEF ToSet
<1>3. ASSUME NEW i \in DOMAIN s PROVE s[i] \in ToSet(s \o t)
  BY <1>1, <1>3 DEF ToSet
<1>4. ASSUME NEW i \in DOMAIN (s \o t) PROVE (s \o t)[i] \in ToSet(s) \cup ToSet(t)
  BY <1>1, <1>4 DEF ToSet
<1> QED
  BY <1>2, <1>3, <1>4 DEF ToSet

\* The notices of a sequence, when it grows or shrinks.
LEMMA Members ==
  ASSUME NEW S, NEW s \in Seq(S), NEW t \in Seq(S), NEW n \in S
  PROVE  /\ ToSet(Append(s, n)) = ToSet(s) \cup {n}
         /\ t # <<>> => ToSet(t) = {Head(t)} \cup ToSet(Tail(t))
<1>0. \A u \in Seq(S) : ToSet(u) = {u[i] : i \in 1 .. Len(u)}
  BY LenProperties DEF ToSet
<1>1. ToSet(Append(s, n)) = ToSet(s) \cup {n}
  <2>1. /\ Append(s, n) \in Seq(S) /\ Len(Append(s, n)) = Len(s) + 1 /\ Len(s) \in Nat
        /\ \A i \in 1 .. Len(s) + 1 : Append(s, n)[i] = IF i <= Len(s) THEN s[i] ELSE n
    BY LenProperties
  <2> DEFINE a == Append(s, n)
  <2> HIDE DEF a
  <2>a. a \in Seq(S) /\ Len(a) = Len(s) + 1 /\ Len(s) \in Nat
        /\ \A i \in 1 .. Len(s) + 1 : a[i] = IF i <= Len(s) THEN s[i] ELSE n
    BY <2>1 DEF a
  <2>b. ToSet(a) = {a[i] : i \in 1 .. Len(s) + 1}
    BY <1>0, <2>a, Zenon
  <2>c. a[Len(s) + 1] = n /\ \A i \in 1 .. Len(s) : a[i] = s[i]
    BY <2>a
  <2>2. ToSet(a) = {a[i] : i \in 1 .. Len(s) + 1} /\ a[Len(s) + 1] = n
        /\ \A i \in 1 .. Len(s) : a[i] = s[i]
    BY <2>b, <2>c
  <2>3. ToSet(s) = {a[i] : i \in 1 .. Len(s)}
    BY <1>0, <2>2
  <2>4. \A i : i \in 1 .. Len(s) + 1 <=> i \in 1 .. Len(s) \/ i = Len(s) + 1
    BY <2>1
  <2>5. \A x : x \in ToSet(a) <=> x \in ToSet(s) \/ x = n
    <3>1. \A x : x \in ToSet(a) <=> \E i : i \in 1 .. Len(s) + 1 /\ x = a[i]
      BY <2>2, Zenon
    <3>2. \A x : x \in ToSet(s) <=> \E i : i \in 1 .. Len(s) /\ x = a[i]
      BY <2>3, Zenon
    <3> QED
      BY <2>2, <2>4, <3>1, <3>2, Zenon
  <2> QED
    BY <2>5 DEF a
<1>2. ASSUME t # <<>> PROVE ToSet(t) = {Head(t)} \cup ToSet(Tail(t))
  <2>1. /\ Tail(t) \in Seq(S) /\ Len(Tail(t)) = Len(t) - 1 /\ Len(t) \in Nat \ {0}
        /\ \A i \in 1 .. Len(t) - 1 : Tail(t)[i] = t[i + 1]
    BY <1>2, HeadTailProperties, EmptySeq
  <2> DEFINE v == Tail(t)
  <2>2. ToSet(v) = {v[i] : i \in 1 .. Len(t) - 1} /\ ToSet(t) = {t[i] : i \in 1 .. Len(t)}
    BY <1>0, <2>1
  <2> HIDE DEF v
  <2>3. ASSUME NEW i \in 1 .. Len(t) PROVE t[i] = t[1] \/ t[i] \in ToSet(v)
    <3>1. CASE i # 1
      <4>1. i - 1 \in 1 .. Len(t) - 1 /\ v[i - 1] = t[i]
        BY <2>1, <2>3, <3>1 DEF v
      <4> QED
        BY <2>2, <4>1
    <3> QED
      BY <3>1
  <2>4. ASSUME NEW i \in 1 .. Len(t) - 1 PROVE v[i] \in ToSet(t)
    <3>1. i + 1 \in 1 .. Len(t) /\ v[i] = t[i + 1]
      BY <2>1, <2>4 DEF v
    <3> QED
      BY <2>2, <3>1
  <2>5. t[1] \in ToSet(t) /\ Head(t) = t[1]
    BY <2>1, <2>2
  <2> QED
    BY <2>2, <2>3, <2>4, <2>5 DEF v
<1> QED
  BY <1>1, <1>2

----------------------------------------------------------------------------
\* What the invariant speaks of stays as it is.
LEMMA SameKeeps ==
  ASSUME ManagerInv,
         UNCHANGED <<queue, accepted, done, batch, flush, loop, main, running, stopped>>
  PROVE  ManagerInv'
  BY DEF ManagerInv, QueueTypes, ControlInv, OnceAndInOrder, StopInv

\* The loop's and the lifecycle caller's moves that carry no notice.
LEMMA MovesKeep ==
  ASSUME ManagerInv, EnterSelect \/ ReceiveTick \/ Start \/ Stop \/ StopLoop
  PROVE  ManagerInv'
<1> USE DEF ManagerInv
<1>1. UNCHANGED <<queue, accepted, done, batch, flush>>
  BY DEF EnterSelect, ReceiveTick, Start, Stop, StopLoop, loopVars, mainVars, noticeVars
<1>2. QueueTypes' /\ OnceAndInOrder'
  BY <1>1 DEF QueueTypes, OnceAndInOrder
<1>3. ControlInv'
  BY <1>1 DEF ControlInv, EnterSelect, ReceiveTick, Start, Stop, StopLoop, AfterSignal,
              loopVars, mainVars
<1>4. StopInv'
  BY <1>1 DEF ControlInv, StopInv, EnterSelect, ReceiveTick, Start, Stop, StopLoop,
              AfterSignal, mainVars
<1> QED
  BY <1>2, <1>3, <1>4

\* A notice joins the queue and what was accepted.
LEMMA EnqueueKeeps ==
  ASSUME ManagerInv, NEW n \in Notices, Enqueue(n)
  PROVE  ManagerInv'
<1> USE DEF ManagerInv
<1>1. /\ queue' = Append(queue, n) /\ accepted' = Append(accepted, n)
      /\ UNCHANGED <<done, batch, flush, loop, main, running, stopped>>
  BY DEF Enqueue, loopVars, mainVars
<1>2. QueueTypes'
  BY <1>1 DEF QueueTypes
<1>3. OnceAndInOrder'
  <2>1. done \o batch \o flush \in Seq(Notices) /\ queue \in Seq(Notices)
    BY ConcatProperties DEF QueueTypes
  <2> DEFINE before == done \o batch \o flush
  <2>2. before \o Append(queue, n) = Append(before \o queue, n)
    <3> HIDE DEF before
    <3>1. before \in Seq(Notices)
      BY <2>1 DEF before
    <3> QED
      BY <2>1, <3>1, JoinsAtEnd
  <2> QED
    BY <1>1, <2>2 DEF OnceAndInOrder
<1>4. StopInv'
  BY <1>1, Members DEF QueueTypes, StopInv
<1>5. ControlInv'
  BY <1>1 DEF ControlInv
<1> QED
  BY <1>2, <1>3, <1>4, <1>5

\* processQueue takes the whole queue, in the loop or in Stop, when nobody
\* else holds a batch.
LEMMA TakeKeeps ==
  ASSUME ManagerInv, TakeBatch \/ TakeFlush
  PROVE  ManagerInv'
<1> USE DEF ManagerInv
<1>1. /\ queue' = <<>> /\ UNCHANGED <<accepted, done, running, stopped>>
      /\ batch = <<>> /\ flush = <<>>
      /\ \/ /\ loop = "lock" /\ main = "idle" /\ loop' = "send" /\ main' = main
            /\ batch' = queue /\ flush' = flush
         \/ /\ loop = "none" /\ main = "flush" /\ loop' = loop /\ main' = "send"
            /\ batch' = batch /\ flush' = queue
  BY DEF TakeBatch, TakeFlush, MutexFree, ControlInv, EmptiedQueue, TakenBatch, loopVars,
         mainVars, noticeVars
<1>2. QueueTypes' /\ ControlInv'
  BY <1>1 DEF QueueTypes, ControlInv
<1>3. done \o queue = accepted /\ (queue \o <<>> = queue)
  BY <1>1, ConcatEmptySeq DEF QueueTypes, OnceAndInOrder
<1>4. OnceAndInOrder'
  <2>1. \A x \in Seq(Notices) : x \o <<>> = x
    BY ConcatEmptySeq
  <2>2. done \o queue \in Seq(Notices)
    BY ConcatProperties DEF QueueTypes
  <2> QED
    BY <1>1, <1>3, <2>1, <2>2 DEF QueueTypes, OnceAndInOrder
<1>5. StopInv'
  <2>1. ToSet(accepted) = ToSet(done) \cup ToSet(queue)
    <3>1. done \in Seq(Notices) /\ queue \in Seq(Notices)
      BY DEF QueueTypes
    <3>2. ToSet(done \o queue) = ToSet(done) \cup ToSet(queue)
      BY <3>1, ConcatMembers, Zenon
    <3> QED
      BY <1>3, <3>2, Zenon
  <2> QED
    BY <1>1, <2>1 DEF ControlInv, StopInv
<1> QED
  BY <1>2, <1>4, <1>5

\* A notice goes from a batch to the mailer.
LEMMA SendKeeps ==
  ASSUME ManagerInv, SendFromBatch \/ SendFromFlush
  PROVE  ManagerInv'
<1> USE DEF ManagerInv
<1>1. UNCHANGED <<queue, accepted, running, stopped>>
  BY DEF SendFromBatch, SendFromFlush, loopVars, mainVars, noticeVars
<1>2. CASE UNCHANGED <<done, batch, flush>>
  <2>1. \/ UNCHANGED <<loop, main>>
        \/ loop = "send" /\ batch = <<>> /\ loop' = "enter" /\ main' = main
        \/ main = "send" /\ flush = <<>> /\ main' = "idle" /\ loop' = loop
    BY <1>2 DEF SendFromBatch, SendFromFlush, QueueTypes, loopVars, mainVars
  <2>2. QueueTypes' /\ OnceAndInOrder'
    BY <1>1, <1>2 DEF QueueTypes, OnceAndInOrder
  <2>3. ControlInv'
    BY <1>1, <1>2, <2>1 DEF ControlInv
  <2>4. StopInv'
    BY <1>1, <1>2, <2>1, EmptyMembers DEF ControlInv, StopInv
  <2> QED
    BY <2>2, <2>3, <2>4
<1>3. CASE /\ loop = "send" /\ batch # <<>> /\ UNCHANGED <<loop, main, flush>>
           /\ done' = Append(done, Head(batch)) /\ batch' = Tail(batch)
  <2>1. Head(batch) \in Notices /\ Tail(batch) \in Seq(Notices) /\ done' \o batch' = done \o batch
    BY <1>3, PassOn, HeadTailProperties DEF QueueTypes
  <2>2. QueueTypes' /\ ControlInv'
    BY <1>1, <1>3, <2>1 DEF QueueTypes, ControlInv
  <2>3. OnceAndInOrder'
    BY <1>1, <1>3, <2>1 DEF OnceAndInOrder
  <2>4. StopInv'
    BY <1>1, <1>3, <2>1, Members DEF QueueTypes, ControlInv, StopInv
  <2> QED
    BY <2>2, <2>3, <2>4
<1>4. CASE /\ main = "send" /\ flush # <<>> /\ UNCHANGED <<loop, main, batch>>
           /\ done' = Append(done, Head(flush)) /\ flush' = Tail(flush)
  <2>1. Head(flush) \in Notices /\ Tail(flush) \in Seq(Notices) /\ done' \o flush' = done \o flush
    BY <1>4, PassOn, HeadTailProperties DEF QueueTypes
  <2>0. batch = <<>>
    BY <1>4 DEF ControlInv
  <2>2. QueueTypes' /\ ControlInv'
    BY <1>1, <1>4, <2>1 DEF QueueTypes, ControlInv
  <2>3. OnceAndInOrder'
    <3>1. done \o <<>> = done /\ done' \o <<>> = done'
      BY <2>2, ConcatEmptySeq DEF QueueTypes
    <3> QED
      BY <1>1, <1>4, <2>0, <2>1, <3>1 DEF OnceAndInOrder
  <2>4. StopInv'
    <3>1. ToSet(done') \cup ToSet(flush') = ToSet(done) \cup ToSet(flush)
      BY <1>4, <2>1, Members DEF QueueTypes
    <3> QED
      BY <1>1, <1>4, <3>1 DEF StopInv
  <2> QED
    BY <2>2, <2>3, <2>4
<1> QED
  BY <1>2, <1>3, <1>4 DEF SendFromBatch, SendFromFlush, loopVars, mainVars

----------------------------------------------------------------------------
LEMMA InitKeeps == ASSUME Init PROVE ManagerInv
<1>1. /\ queue = <<>> /\ accepted = <<>> /\ done = <<>> /\ batch = <<>> /\ flush = <<>>
      /\ loop = "none" /\ main = "idle" /\ running = FALSE /\ stopped = {}
  BY DEF Init
<1>2. \A x \in Seq(Notices) : x \o <<>> = x
  BY ConcatEmptySeq
<1>3. <<>> \in Seq(Notices)
  BY EmptySeq
<1> QED
  BY <1>1, <1>2, <1>3 DEF ManagerInv, QueueTypes, ControlInv, OnceAndInOrder, StopInv

LEMMA NextKeeps == ASSUME ManagerInv, [Next]_vars PROVE ManagerInv'
<1>1. ASSUME NEW n \in Notices, Admit(n) \/ SendImmediately(n) \/ Enqueue(n) PROVE ManagerInv'
  BY <1>1, SameKeeps, EnqueueKeeps DEF Admit, SendImmediately, loopVars, mainVars
<1>2. ASSUME NEW on \in Preferences, SetPreferences(on) \/ SetDelay(on) PROVE ManagerInv'
  BY <1>2, SameKeeps DEF SetPreferences, SetDelay, loopVars, mainVars, noticeVars
<1>3. CASE EnterSelect \/ ReceiveTick \/ Start \/ Stop \/ StopLoop
  BY <1>3, MovesKeep
<1>4. CASE TakeBatch \/ TakeFlush \/ SendFromBatch \/ SendFromFlush
  BY <1>4, TakeKeeps, SendKeeps
<1>5. CASE Tick \/ UNCHANGED vars
  BY <1>5, SameKeeps DEF Tick, vars, loopVars, mainVars, noticeVars
<1>6. ASSUME NEW n \in Notices, PeerFallsSilent(n) PROVE ManagerInv'
  BY <1>6, SameKeeps DEF PeerFallsSilent, loopVars, mainVars, noticeVars
<1> QED
  BY <1>1, <1>2, <1>3, <1>4, <1>5, <1>6 DEF Next

LEMMA AlwaysManagerInv == Spec => []ManagerInv
  BY InitKeeps, NextKeeps, PTL DEF Spec

----------------------------------------------------------------------------
\* No batched notice is lost, sent twice or sent out of turn, whatever order
\* Queue, the ticker, Start, Stop and UpdatePreferences come in.
THEOREM BatchedOnceInOrder == Spec => []OnceAndInOrder
  BY AlwaysManagerInv, PTL DEF ManagerInv

\* When Stop has returned, every notice queued before it was called has been
\* handed to the mailer.
THEOREM StopHandsOver == Spec => []StopFlushes
<1>1. ManagerInv => StopFlushes
  BY DEF ManagerInv, StopInv, StopFlushes
<1> QED
  BY <1>1, AlwaysManagerInv, PTL

----------------------------------------------------------------------------
(***************************************************************************)
(* Sums over the notices.                                                  *)
(***************************************************************************)

\* Each nonempty set of natural numbers has a least element.
LEMMA LeastNatural ==
  ASSUME NEW T \in SUBSET Nat, T # {}
  PROVE  \E n \in T : \A m \in T : n <= m
<1>1. IsWellFoundedOn(OpToRel(<, Nat), Nat)
  BY NatLessThanWellFounded
<1>2. PICK R : R = OpToRel(<, Nat)
  OBVIOUS
<1>3. PICK n \in T : \A m \in T : <<m, n>> \notin R
  BY <1>1, <1>2, WFMin
<1>4. \A m, n2 \in Nat : m < n2 => <<m, n2>> \in R
  BY <1>2 DEF OpToRel
<1>5. \A m \in T : ~(m < n)
  BY <1>3, <1>4
<1> QED
  BY <1>5

\* A set that has 0, and the successor of each of its members, is all of Nat.
LEMMA Induction ==
  ASSUME NEW T, 0 \in T, \A n \in Nat : n \in T => n + 1 \in T
  PROVE  Nat \subseteq T
<1> SUFFICES ASSUME Nat \ T # {} PROVE FALSE
  OBVIOUS
<1>1. PICK n \in Nat \ T : \A m \in Nat \ T : n <= m
  BY LeastNatural
<1>2. n # 0 /\ n - 1 \in Nat
  BY <1>1
<1>3. n - 1 \in T
  BY <1>1, <1>2
<1> QED
  BY <1>1, <1>2, <1>3

Elt(S) == CHOOSE x \in S : TRUE

\* s gives, for each set of U, the sum of f over it.
Sums(f, U, s) ==
  s = [S \in U |-> IF S = {} THEN 0 ELSE s[S \ {Elt(S)}] + f[Elt(S)]]

\* The sets of at most n elements.
Small(D, n) == {S \in SUBSET D : Cardinality(S) <= n}

LEMMA EltIn == ASSUME NEW S, S # {} PROVE Elt(S) \in S
  BY DEF Elt

LEMMA SmallSets ==
  ASSUME NEW D, IsFiniteSet(D), NEW S \in SUBSET D
  PROVE  /\ IsFiniteSet(S) /\ Cardinality(S) \in Nat
         /\ Cardinality(S) = 0 <=> S = {}
         /\ \A x \in S : Cardinality(S \ {x}) = Cardinality(S) - 1
  BY FS_Subset, FS_CardinalityType, FS_EmptySet, FS_RemoveElement

LEMMA SumsOfSmall ==
  ASSUME NEW f, NEW D, IsFiniteSet(D), NEW n \in Nat
  PROVE  \E s : Sums(f, Small(D, n), s)
<1> DEFINE T == {m \in Nat : \E s : Sums(f, Small(D, m), s)}
<1>1. 0 \in T
  <2>1. PICK s : s = [S \in Small(D, 0) |-> 0]
    OBVIOUS
  <2>2. \A S \in Small(D, 0) : S = {}
    BY SmallSets DEF Small
  <2>3. Sums(f, Small(D, 0), s)
    BY <2>1, <2>2 DEF Sums
  <2> QED
    BY <2>3
<1>2. ASSUME NEW m \in Nat, m \in T PROVE m + 1 \in T
  <2>1. PICK s : Sums(f, Small(D, m), s)
    BY <1>2
  <2>2. PICK t : t = [S \in Small(D, m + 1) |->
                        IF S = {} THEN 0 ELSE s[S \ {Elt(S)}] + f[Elt(S)]]
    OBVIOUS
  <2>3. \A S \in Small(D, m) : S \in Small(D, m + 1) /\ s[S] = t[S]
    <3>1. ASSUME NEW S \in Small(D, m) PROVE S \in Small(D, m + 1)
      BY SmallSets DEF Small
    <3> QED
      BY <2>1, <2>2, <3>1 DEF Sums
  <2>4. ASSUME NEW S \in Small(D, m + 1), S # {} PROVE s[S \ {Elt(S)}] = t[S \ {Elt(S)}]
    <3>1. S \ {Elt(S)} \in Small(D, m)
      BY <2>4, EltIn, SmallSets DEF Small
    <3> QED
      BY <2>3, <3>1
  <2>5. t = [S \in Small(D, m + 1) |-> IF S = {} THEN 0 ELSE t[S \ {Elt(S)}] + f[Elt(S)]]
    BY <2>2, <2>4
  <2>6. Sums(f, Small(D, m + 1), t)
    BY <2>5 DEF Sums
  <2> QED
    BY <2>6
<1>3. Nat \subseteq T
  BY <1>1, <1>2, Induction
<1> QED
  BY <1>3

LEMMA SumsExist ==
  ASSUME NEW f, NEW D, IsFiniteSet(D)
  PROVE  \E s : Sums(f, SUBSET D, s)
<1>1. PICK n : n = Cardinality(D) /\ n \in Nat
  BY FS_CardinalityType
<1>2. Small(D, n) = SUBSET D
  BY <1>1, FS_Subset DEF Small
<1>3. PICK s : Sums(f, Small(D, n), s)
  BY <1>1, SumsOfSmall
<1>4. Sums(f, SUBSET D, s)
  BY <1>2, <1>3
<1> QED
  BY <1>4

\* Where f is at most g, but for one x where it may be k more, so is its sum.
LEMMA SumsAtMost ==
  ASSUME NEW D, IsFiniteSet(D), NEW f \in [D -> Nat], NEW g \in [D -> Nat], NEW s, NEW t,
         Sums(f, SUBSET D, s), Sums(g, SUBSET D, t), NEW x, NEW k \in Nat,
         \A y \in D : f[y] <= g[y] + (IF y = x THEN k ELSE 0)
  PROVE  s[D] \in Nat /\ t[D] \in Nat /\ s[D] <= t[D] + k
<1> DEFINE more(S) == IF x \in S THEN k ELSE 0
           AtMost(S) == s[S] \in Nat /\ t[S] \in Nat /\ s[S] <= t[S] + more(S)
           T == {n \in Nat : \A S \in SUBSET D : Cardinality(S) = n => AtMost(S)}
<1>0. \A S \in SUBSET D :
        /\ s[S] = IF S = {} THEN 0 ELSE s[S \ {Elt(S)}] + f[Elt(S)]
        /\ t[S] = IF S = {} THEN 0 ELSE t[S \ {Elt(S)}] + g[Elt(S)]
  BY DEF Sums
<1>1. 0 \in T
  <2>1. ASSUME NEW S \in SUBSET D, Cardinality(S) = 0 PROVE AtMost(S)
    <3>1. S = {} /\ s[S] = 0 /\ t[S] = 0
      BY <1>0, <2>1, SmallSets
    <3> QED
      BY <3>1
  <2> QED
    BY <2>1
<1>2. ASSUME NEW n \in Nat, n \in T PROVE n + 1 \in T
  <2>1. ASSUME NEW S \in SUBSET D, Cardinality(S) = n + 1 PROVE AtMost(S)
    <3>1. PICK e : e = Elt(S)
      OBVIOUS
    <3>2. S # {} /\ e \in S /\ Cardinality(S \ {e}) = n
      BY <2>1, <3>1, EltIn, SmallSets
    <3>3. AtMost(S \ {e})
      BY <1>2, <3>2
    <3>4. s[S] = s[S \ {e}] + f[e] /\ t[S] = t[S \ {e}] + g[e]
      BY <1>0, <3>1, <3>2
    <3>5. PICK a, b : a = s[S \ {e}] /\ b = t[S \ {e}]
      OBVIOUS
    <3>6. a \in Nat /\ b \in Nat /\ a <= b + (IF x \in S /\ x # e THEN k ELSE 0)
      BY <3>3, <3>5
    <3>7. f[e] \in Nat /\ g[e] \in Nat /\ f[e] <= g[e] + (IF e = x THEN k ELSE 0)
      BY <3>2
    <3>8. s[S] = a + f[e] /\ t[S] = b + g[e]
      BY <3>4, <3>5
    <3>9. a + f[e] \in Nat /\ b + g[e] \in Nat /\ a + f[e] <= (b + g[e]) + (IF x \in S THEN k ELSE 0)
      BY <3>2, <3>6, <3>7
    <3> QED
      BY <3>8, <3>9
  <2> QED
    BY <2>1
<1>3. Nat \subseteq T
  BY <1>1, <1>2, Induction
<1>4. Cardinality(D) \in Nat
  BY SmallSets
<1>5. AtMost(D)
  BY <1>3, <1>4
<1> QED
  BY <1>5

Total(f, D) == (CHOOSE s : Sums(f, SUBSET D, s))[D]

LEMMA TotalAtMost ==
  ASSUME NEW D, IsFiniteSet(D), NEW f \in [D -> Nat], NEW g \in [D -> Nat], NEW x, NEW k \in Nat,
         \A y \in D : f[y] <= g[y] + (IF y = x THEN k ELSE 0)
  PROVE  Total(f, D) \in Nat /\ Total(g, D) \in Nat /\ Total(f, D) <= Total(g, D) + k
<1>1. PICK s : s = CHOOSE u : Sums(f, SUBSET D, u)
  OBVIOUS
<1>2. PICK t : t = CHOOSE u : Sums(g, SUBSET D, u)
  OBVIOUS
<1>3. Sums(f, SUBSET D, s) /\ Sums(g, SUBSET D, t)
  BY <1>1, <1>2, SumsExist
<1>4. s[D] \in Nat /\ t[D] \in Nat /\ s[D] <= t[D] + k
  BY <1>3, SumsAtMost
<1> QED
  BY <1>1, <1>2, <1>4 DEF Total

LEMMA TotalOfZeros ==
  ASSUME NEW D, IsFiniteSet(D), NEW f \in [D -> Nat], \A y \in D : f[y] = 0
  PROVE  Total(f, D) = 0
<1>1. PICK t : t = [S \in SUBSET D |-> 0]
  OBVIOUS
<1>2. ASSUME NEW S \in SUBSET D, S # {} PROVE t[S \ {Elt(S)}] + f[Elt(S)] = 0
  <2>1. Elt(S) \in S
    BY <1>2, EltIn
  <2>2. f[Elt(S)] = 0 /\ t[S \ {Elt(S)}] = 0
    BY <1>1, <2>1
  <2> QED
    BY <2>2
<1>3. Sums(f, SUBSET D, t)
  BY <1>1, <1>2 DEF Sums
<1>4. PICK s : s = CHOOSE u : Sums(f, SUBSET D, u)
  OBVIOUS
<1>5. Sums(f, SUBSET D, s)
  BY <1>3, <1>4
<1>6. \A y \in D : f[y] <= f[y] + (IF y = 0 THEN 0 ELSE 0)
  OBVIOUS
<1>7. s[D] \in Nat /\ s[D] <= t[D] + 0 /\ t[D] = 0
  <2>1. s[D] \in Nat /\ t[D] \in Nat /\ s[D] <= t[D] + 0
    BY <1>3, <1>5, <1>6, SumsAtMost
  <2> QED
    BY <1>1, <2>1
<1> QED
  BY <1>4, <1>7 DEF Total

----------------------------------------------------------------------------
\* What a mail that was taken so often had too much.
Again(d) == IF d = 0 THEN 0 ELSE d - 1

LEMMA FoldIsTotal ==
  ASSUME NEW d \in [Notices -> Nat], IsFiniteSet(Notices)
  PROVE  FoldSet(LAMBDA n, sum : sum + (IF d[n] = 0 THEN 0 ELSE d[n] - 1), 0, Notices)
           = Total([n \in Notices |-> Again(d[n])], Notices)
<1>1. PICK F : F = CHOOSE iter : iter = [s \in SUBSET Notices |->
                 IF s = {} THEN 0
                 ELSE LET x == CHOOSE x \in s : TRUE
                      IN  iter[s \ {x}] + (IF d[x] = 0 THEN 0 ELSE d[x] - 1)]
  OBVIOUS
<1>2. FoldSet(LAMBDA n, sum : sum + (IF d[n] = 0 THEN 0 ELSE d[n] - 1), 0, Notices) = F[Notices]
  BY <1>1 DEF FoldSet, MapThenFoldSet
<1>3. PICK g : g = [n \in Notices |-> Again(d[n])]
  OBVIOUS
<1>4. g \in [Notices -> Nat] /\ \A n \in Notices : g[n] = IF d[n] = 0 THEN 0 ELSE d[n] - 1
  BY <1>3 DEF Again
<1>5. PICK s : Sums(g, SUBSET Notices, s)
  BY SumsExist
<1>6. ASSUME NEW S \in SUBSET Notices, S # {}, NEW iter
      PROVE  iter[S \ {Elt(S)}] + (IF d[Elt(S)] = 0 THEN 0 ELSE d[Elt(S)] - 1)
               = iter[S \ {Elt(S)}] + g[Elt(S)]
  <2>1. Elt(S) \in Notices
    BY <1>6, EltIn
  <2> QED
    BY <1>4, <2>1
<1>7. s = [S \in SUBSET Notices |->
             IF S = {} THEN 0
             ELSE s[S \ {Elt(S)}] + (IF d[Elt(S)] = 0 THEN 0 ELSE d[Elt(S)] - 1)]
  BY <1>5, <1>6 DEF Sums
<1>8. F = [S \in SUBSET Notices |->
             IF S = {} THEN 0
             ELSE F[S \ {Elt(S)}] + (IF d[Elt(S)] = 0 THEN 0 ELSE d[Elt(S)] - 1)]
  BY <1>1, <1>7 DEF Elt
<1>9. Sums(g, SUBSET Notices, F)
  BY <1>6, <1>8 DEF Sums
<1>10. PICK t : t = CHOOSE u : Sums(g, SUBSET Notices, u)
  OBVIOUS
<1>11. Sums(g, SUBSET Notices, t)
  BY <1>9, <1>10
<1>12. \A y \in Notices : g[y] <= g[y] + (IF y = 0 THEN 0 ELSE 0)
  BY <1>4
<1>13. F[Notices] \in Nat /\ t[Notices] \in Nat /\ F[Notices] <= t[Notices] + 0
  BY <1>4, <1>9, <1>11, <1>12, SumsAtMost
<1>0. t[Notices] <= F[Notices] + 0
  BY <1>4, <1>9, <1>11, <1>12, SumsAtMost
<1>14. F[Notices] = t[Notices]
  BY <1>0, <1>13
<1> QED
  BY <1>2, <1>3, <1>10, <1>14 DEF Total

----------------------------------------------------------------------------
(***************************************************************************)
(* What becomes of a notice that is handed to the mailer.                  *)
(***************************************************************************)

Handed == ToSet(done) \cup urgentDone

\* No sender has failed more often than all of them together.
MailInv ==
  /\ failures \in Nat
  /\ tries \in [Senders -> Nat] /\ \A x \in Senders : tries[x] <= failures
  /\ delivered \in [Notices -> Nat]

\* An urgent notice is sent by its caller and the others are queued, once each.
OnceInv ==
  /\ admitted \subseteq Notices \ Urgent /\ ToSet(accepted) \subseteq Notices \ Urgent
  /\ sending \subseteq Urgent /\ urgentDone \subseteq Urgent
  /\ sending \cap urgentDone = {} /\ admitted \cap ToSet(accepted) = {}
  /\ \A i, j \in 1 .. Len(accepted) : accepted[i] = accepted[j] => i = j

\* A notice that was handed over was delivered, refused, or has used its tries.
TriedInv ==
  ~Skips => \A n \in Handed \ refused : delivered[n] = 0 => failures > Retries(n)

\* How many deliveries of a notice followed, or announce, an error: the last
\* one of a notice that was handed over may be the one without.
Errors == [n \in Notices |-> IF n \in Handed THEN Again(delivered[n]) ELSE delivered[n]]

ErrorsInv == Total(Errors, Notices) <= failures

DeliveryInv == MailInv /\ OnceInv /\ TriedInv /\ ErrorsInv

LEMMA PrioritiesAreNat ==
  /\ IsFiniteSet(Notices) /\ {"loop", "main"} \cup Urgent \subseteq Senders
  /\ \A n \in Notices : Retries(n) \in Nat
<1>1. ASSUME NEW n \in Notices PROVE Retries(n) \in Nat
  <2>1. NotifyEmergency.priority \in Nat
    BY DEF NotifyEmergency, PriorityEmergency
  <2>2. \A days : NotifyCertificateExpiring(days).priority \in Nat
    BY DEF NotifyCertificateExpiring, PriorityHigh, PriorityNormal
  <2>3. \A status : NotifyBackupStatus(status).priority \in Nat
    BY DEF NotifyBackupStatus, PriorityHigh, PriorityNormal
  <2>4. \A type : NotifyNormally(type).priority \in Nat
    BY DEF NotifyNormally, PriorityNormal
  <2> QED
    BY <2>1, <2>2, <2>3, <2>4, NotificationAssumption DEF Retries
<1> QED
  BY <1>1, NotificationAssumption

\* One attempt of a sender, and whether it was the last.
LEMMA AttemptCounts ==
  ASSUME MailInv, NEW x \in Senders, NEW n \in Notices, NEW returns \in BOOLEAN,
         ~Skips, SendNotification(x, n, returns)
  PROVE  /\ MailInv' /\ UNCHANGED <<smtp, mailerOn>>
         /\ refused \subseteq refused' /\ failures <= failures'
         /\ \A m \in Notices : m # n => delivered'[m] = delivered[m]
         /\ delivered[n] <= delivered'[n]
         /\ returns => \/ delivered'[n] > 0 \/ n \in refused' \/ failures' > Retries(n)
         /\ returns => Again(delivered'[n]) <= delivered[n] + (failures' - failures)
         /\ ~returns => delivered'[n] <= delivered[n] + (failures' - failures)
<1>1. PICK failed : Attempt(x, n, Retries(n), failed) /\ returns = Returns(x, Retries(n), failed)
  BY DEF SendNotification
<1>2. PICK d, f, v : d = delivered[n] /\ f = failures /\ v = tries[x]
  OBVIOUS
<1>3. d \in Nat /\ f \in Nat /\ v \in Nat /\ v <= f /\ Retries(n) \in Nat
  BY <1>2, PrioritiesAreNat DEF MailInv
<1>4. /\ UNCHANGED <<smtp, mailerOn>> /\ refused \subseteq refused'
      /\ failed = "auth" => n \in refused'
  BY <1>1 DEF Attempt
<1>5. failures' = IF failed = "nowhere" THEN f ELSE f + 1
  BY <1>1, <1>2 DEF Attempt
<1>6. /\ delivered' \in [Notices -> Nat]
      /\ \A m \in Notices : m # n => delivered'[m] = delivered[m]
      /\ \/ failed \in {"nowhere", "close"} /\ delivered'[n] = d + 1
         \/ failed # "nowhere" /\ delivered'[n] = d
  BY <1>1, <1>2 DEF Attempt, MailInv
<1>7. tries' = [tries EXCEPT ![x] = IF returns THEN 0 ELSE v + 1]
  BY <1>1, <1>2 DEF Attempt
<1>8. /\ returns => failed \in {"nowhere", "auth"} \/ v >= Retries(n)
      /\ ~returns => failed \notin {"nowhere", "auth"} /\ ~(v >= Retries(n))
  <2>1. returns = (failed \in {"nowhere", "auth"} \/ v >= Retries(n))
    BY <1>1, <1>2, Zenon DEF Returns, LastTry
  <2>2. returns = TRUE \/ returns = FALSE
    BY Zenon
  <2> QED
    BY <2>1, <2>2, Zenon
<1>9. MailInv'
  <2>1. failures' \in Nat /\ f <= failures' /\ (~returns => failures' = f + 1)
    BY <1>3, <1>5, <1>8
  <2>2. tries' \in [Senders -> Nat]
    BY <1>3, <1>7 DEF MailInv
  <2>3. ASSUME NEW y \in Senders PROVE tries'[y] <= failures'
    <3>1. CASE y = x
      BY <1>3, <1>7, <2>1, <3>1 DEF MailInv
    <3>2. CASE y # x
      <4>1. tries'[y] = tries[y] /\ tries[y] \in Nat /\ tries[y] <= f
        BY <1>2, <1>7, <3>2 DEF MailInv
      <4> QED
        BY <1>3, <2>1, <4>1
    <3> QED
      BY <3>1, <3>2
  <2> QED
    BY <1>6, <2>1, <2>2, <2>3 DEF MailInv
<1>10. failures <= failures' /\ delivered[n] <= delivered'[n]
  BY <1>2, <1>3, <1>5, <1>6
<1>11. returns => \/ delivered'[n] > 0 \/ n \in refused' \/ failures' > Retries(n)
  BY <1>3, <1>4, <1>5, <1>6, <1>8
<1>12. /\ returns => Again(delivered'[n]) <= delivered[n] + (failures' - failures)
       /\ ~returns => delivered'[n] <= delivered[n] + (failures' - failures)
  BY <1>2, <1>3, <1>5, <1>6, <1>8 DEF Again
<1> QED
  BY <1>4, <1>6, <1>9, <1>10, <1>11, <1>12

\* The sender x sends the notice n, and when it returns n has been handed over.
Sends(x, n) ==
  /\ n \notin Handed
  /\ \/ SendNotification(x, n, TRUE) /\ Handed' = Handed \cup {n}
     \/ SendNotification(x, n, FALSE) /\ Handed' = Handed

LEMMA ErrorsAreNat == ASSUME MailInv PROVE Errors \in [Notices -> Nat]
  BY DEF MailInv, Errors, Again

LEMMA SendsKeeps ==
  ASSUME MailInv, TriedInv, ErrorsInv, Handed \subseteq Notices,
         NEW x \in Senders, NEW n \in Notices, Sends(x, n)
  PROVE  MailInv' /\ TriedInv' /\ ErrorsInv'
<1>1. CASE Skips
  <2>1. UNCHANGED mailVars
    BY <1>1 DEF Sends, SendNotification
  <2>2. MailInv' /\ Skips'
    BY <1>1, <2>1 DEF MailInv, Skips, mailVars
  <2>3. ASSUME NEW m \in Notices PROVE Errors'[m] <= Errors[m] + (IF m = n THEN 0 ELSE 0)
    <3>1. Errors[m] = IF m \in Handed THEN Again(delivered[m]) ELSE delivered[m]
      BY DEF Errors
    <3>2. Errors'[m] = IF m \in Handed' THEN Again(delivered[m]) ELSE delivered[m]
      BY <2>1 DEF Errors, mailVars
    <3>3. m \in Handed => m \in Handed'
      BY DEF Sends
    <3>4. delivered[m] \in Nat
      BY DEF MailInv
    <3> QED
      BY <3>1, <3>2, <3>3, <3>4 DEF Again
  <2>4. PICK e, g : e = Errors' /\ g = Errors
    OBVIOUS
  <2>5. e \in [Notices -> Nat] /\ g \in [Notices -> Nat]
    <3>1. e \in [Notices -> Nat]
      BY <2>2, <2>4 DEF MailInv, Errors, Again
    <3> QED
      BY <2>4, <3>1, ErrorsAreNat
  <2>6. Total(e, Notices) \in Nat /\ Total(g, Notices) \in Nat
        /\ Total(e, Notices) <= Total(g, Notices) + 0
    BY <2>3, <2>4, <2>5, TotalAtMost, PrioritiesAreNat
  <2>7. ErrorsInv'
    BY <2>1, <2>4, <2>6 DEF ErrorsInv, MailInv, mailVars
  <2> QED
    BY <2>2, <2>7 DEF TriedInv
<1>2. CASE ~Skips
  <2>1. PICK returns \in BOOLEAN :
          SendNotification(x, n, returns) /\ Handed' = (IF returns THEN Handed \cup {n} ELSE Handed)
    BY DEF Sends
  <2>2. /\ MailInv' /\ UNCHANGED <<smtp, mailerOn>>
        /\ refused \subseteq refused' /\ failures <= failures'
        /\ \A m \in Notices : m # n => delivered'[m] = delivered[m]
        /\ delivered[n] <= delivered'[n]
        /\ returns => \/ delivered'[n] > 0 \/ n \in refused' \/ failures' > Retries(n)
        /\ returns => Again(delivered'[n]) <= delivered[n] + (failures' - failures)
        /\ ~returns => delivered'[n] <= delivered[n] + (failures' - failures)
    BY <1>2, <2>1, AttemptCounts
  <2>3. PICK f, h : f = failures /\ h = failures'
    OBVIOUS
  <2>4. f \in Nat /\ h \in Nat /\ f <= h /\ h - f \in Nat
    <3>1. failures \in Nat
      BY DEF MailInv
    <3>2. failures' \in Nat
      BY <2>2 DEF MailInv
    <3>3. failures <= failures'
      BY <2>2
    <3>4. f \in Nat /\ h \in Nat /\ f <= h
      BY <2>3, <3>1, <3>2, <3>3
    <3> QED
      BY <3>4
  <2>5. ASSUME NEW m \in Notices PROVE delivered[m] \in Nat /\ delivered'[m] \in Nat
    BY <2>2 DEF MailInv
  <2>6. TriedInv'
    <3> SUFFICES ASSUME NEW m \in Handed', m \notin refused', delivered'[m] = 0
                 PROVE  h > Retries(m)
      BY <2>3 DEF TriedInv, Retries
    <3>1. CASE m = n
      <4>1. returns
        BY <2>1, <3>1 DEF Sends
      <4> QED
        BY <2>2, <2>3, <3>1, <4>1
    <3>2. CASE m # n
      <4>1. m \in Handed /\ m \notin refused /\ m \in Notices
        BY <2>1, <2>2, <3>2
      <4>2. delivered[m] = 0
        BY <2>2, <3>2, <4>1
      <4>3. f > Retries(m)
        BY <1>2, <2>3, <4>1, <4>2 DEF TriedInv
      <4> QED
        BY <2>4, <4>1, <4>3, PrioritiesAreNat
    <3> QED
      BY <3>1, <3>2
  <2>7. ASSUME NEW m \in Notices
        PROVE  Errors'[m] <= Errors[m] + (IF m = n THEN h - f ELSE 0)
    <3>1. Errors[m] = IF m \in Handed THEN Again(delivered[m]) ELSE delivered[m]
      BY DEF Errors
    <3>2. Errors'[m] = IF m \in Handed' THEN Again(delivered'[m]) ELSE delivered'[m]
      BY DEF Errors, Again
    <3>3. CASE m = n
      <4>1. Errors[m] = delivered[n]
        BY <3>1, <3>3 DEF Sends
      <4>2. CASE returns
        <5>1. Errors'[m] = Again(delivered'[n])
          BY <2>1, <3>2, <3>3, <4>2
        <5> QED
          BY <2>2, <2>3, <3>3, <4>1, <4>2, <5>1
      <4>3. CASE ~returns
        <5>1. Errors'[m] = delivered'[n]
          BY <2>1, <3>2, <3>3, <4>3 DEF Sends
        <5> QED
          BY <2>2, <2>3, <3>3, <4>1, <4>3, <5>1
      <4> QED
        BY <4>2, <4>3
    <3>4. CASE m # n
      <4>1. Errors'[m] = Errors[m] /\ Errors[m] \in Nat
        BY <2>1, <2>2, <2>5, <3>1, <3>2, <3>4 DEF Again
      <4> QED
        BY <3>4, <4>1
    <3> QED
      BY <3>3, <3>4
  <2>8. PICK e, g : e = Errors' /\ g = Errors
    OBVIOUS
  <2>9. e \in [Notices -> Nat] /\ g \in [Notices -> Nat]
    <3>1. e \in [Notices -> Nat]
      BY <2>2, <2>8 DEF MailInv, Errors, Again
    <3> QED
      BY <2>8, <3>1, ErrorsAreNat
  <2>10. \A m \in Notices : e[m] <= g[m] + (IF m = n THEN h - f ELSE 0)
    BY <2>7, <2>8
  <2>11. Total(e, Notices) \in Nat /\ Total(g, Notices) \in Nat
         /\ Total(e, Notices) <= Total(g, Notices) + (h - f)
    BY <2>4, <2>9, <2>10, TotalAtMost, PrioritiesAreNat
  <2>12. Total(g, Notices) <= f
    BY <2>3, <2>8 DEF ErrorsInv
  <2>13. Total(e, Notices) <= h
    BY <2>4, <2>11, <2>12
  <2>14. ErrorsInv'
    BY <2>3, <2>8, <2>13 DEF ErrorsInv
  <2> QED
    BY <2>2, <2>6, <2>14
<1> QED
  BY <1>1, <1>2

\* What a step that sends nothing leaves as it is.
LEMMA QuietKeeps ==
  ASSUME MailInv, TriedInv, ErrorsInv, UNCHANGED <<mailVars, done, urgentDone>>
  PROVE  MailInv' /\ TriedInv' /\ ErrorsInv'
<1>1. MailInv' /\ TriedInv'
  BY DEF MailInv, TriedInv, Handed, Skips, mailVars
<1>2. Errors' = Errors
  BY DEF Errors, Handed, mailVars
<1> QED
  BY <1>1, <1>2 DEF ErrorsInv, mailVars

\* A peer that falls silent counts as an error, and may have taken the mail.
LEMMA SilenceKeeps ==
  ASSUME MailInv, TriedInv, ErrorsInv, Handed \subseteq Notices, NEW n \in Notices,
         FallSilent(n), UNCHANGED <<done, urgentDone>>
  PROVE  MailInv' /\ TriedInv' /\ ErrorsInv'
<1>1. /\ UNCHANGED <<smtp, mailerOn, tries, refused>> /\ failures' = failures + 1
      /\ \/ delivered' = [delivered EXCEPT ![n] = @ + 1]
         \/ delivered' = delivered
  BY DEF FallSilent
<1>2. failures \in Nat /\ delivered \in [Notices -> Nat]
  BY DEF MailInv
<1>3. /\ delivered' \in [Notices -> Nat]
      /\ \A m \in Notices : m # n => delivered'[m] = delivered[m]
      /\ delivered'[n] \in {delivered[n], delivered[n] + 1}
  BY <1>1, <1>2
<1>4. MailInv'
  <2>1. ASSUME NEW y \in Senders PROVE tries'[y] <= failures'
    <3>1. tries[y] \in Nat /\ tries[y] <= failures /\ tries'[y] = tries[y]
      BY <1>1 DEF MailInv
    <3> QED
      BY <1>1, <1>2, <3>1
  <2>2. tries' \in [Senders -> Nat]
    BY <1>1 DEF MailInv
  <2> QED
    BY <1>1, <1>2, <1>3, <2>1, <2>2 DEF MailInv
<1>5. Handed' = Handed
  BY DEF Handed
<1>6. TriedInv'
  <2> SUFFICES ASSUME ~Skips, NEW m \in Handed, m \notin refused, delivered'[m] = 0
               PROVE  failures' > Retries(m)
    BY <1>1, <1>5 DEF TriedInv, Retries, Skips
  <2>1. delivered[m] = 0
    BY <1>2, <1>3
  <2>2. failures > Retries(m) /\ Retries(m) \in Nat
    BY <2>1, PrioritiesAreNat DEF TriedInv
  <2> QED
    BY <1>1, <1>2, <2>2
<1>7. PICK e, g : e = Errors' /\ g = Errors
  OBVIOUS
<1>8. e \in [Notices -> Nat] /\ g \in [Notices -> Nat]
  <2>1. e \in [Notices -> Nat]
    BY <1>4, <1>7 DEF MailInv, Errors, Again
  <2> QED
    BY <1>7, <2>1, ErrorsAreNat
<1>9. ASSUME NEW m \in Notices PROVE e[m] <= g[m] + (IF m = n THEN 1 ELSE 0)
  <2>1. g[m] = IF m \in Handed THEN Again(delivered[m]) ELSE delivered[m]
    BY <1>7 DEF Errors
  <2>2. e[m] = IF m \in Handed THEN Again(delivered'[m]) ELSE delivered'[m]
    BY <1>5, <1>7 DEF Errors, Again
  <2>3. delivered[m] \in Nat /\ delivered'[m] \in Nat
    BY <1>2, <1>3
  <2>4. CASE m = n
    <3>1. delivered'[m] = delivered[m] \/ delivered'[m] = delivered[m] + 1
      BY <1>3, <2>4
    <3> QED
      BY <2>1, <2>2, <2>3, <2>4, <3>1 DEF Again
  <2>5. CASE m # n
    <3>1. delivered'[m] = delivered[m]
      BY <1>3, <2>5
    <3> QED
      BY <2>1, <2>2, <2>3, <2>5, <3>1 DEF Again
  <2> QED
    BY <2>4, <2>5
<1>10. Total(e, Notices) \in Nat /\ Total(g, Notices) \in Nat
       /\ Total(e, Notices) <= Total(g, Notices) + 1
  BY <1>8, <1>9, TotalAtMost, PrioritiesAreNat
<1>11. Total(g, Notices) <= failures
  BY <1>7 DEF ErrorsInv
<1>12. Total(e, Notices) <= failures'
  BY <1>1, <1>2, <1>10, <1>11
<1>13. ErrorsInv'
  BY <1>7, <1>12 DEF ErrorsInv
<1> QED
  BY <1>4, <1>6, <1>13

----------------------------------------------------------------------------
\* Sequences that are put together, without what the provers know of \o.
Joined(s, t) == s \o t

LEMMA JoinedIsAssociative ==
  ASSUME NEW S, NEW s \in Seq(S), NEW t \in Seq(S), NEW u \in Seq(S)
  PROVE  Joined(s, t) \in Seq(S) /\ Joined(Joined(s, t), u) = Joined(s, Joined(t, u))
<1>1. s \o t \in Seq(S)
  BY ConcatProperties
<1>2. (s \o t) \o u = s \o (t \o u)
  BY ConcatAssociative, SMTT(40)
<1> QED
  BY <1>1, <1>2 DEF Joined

LEMMA NothingJoined ==
  ASSUME NEW S, NEW s \in Seq(S)
  PROVE  Joined(s, <<>>) = s
  BY ConcatEmptySeq DEF Joined

\* The head of a batch has not been handed over.
LEMMA HeadIsNew ==
  ASSUME ManagerInv, OnceInv, NEW b \in Seq(Notices), b # <<>>,
         (b = batch) \/ (b = flush /\ main = "send")
  PROVE  Head(b) \in Notices /\ Head(b) \notin Handed
<1>1. /\ b[1] = Head(b) /\ Head(b) \in Notices /\ Len(b) \in Nat /\ Len(b) > 0
  BY HeadTailProperties, EmptySeq, LenProperties
<1>2. PICK before \in Seq(Notices), after \in Seq(Notices) :
        before = done /\ accepted = (before \o b) \o after
  <2>1. done \in Seq(Notices) /\ flush \in Seq(Notices) /\ queue \in Seq(Notices)
        /\ batch \in Seq(Notices)
    BY DEF ManagerInv, QueueTypes
  <2>2. accepted = Joined(Joined(Joined(done, batch), flush), queue)
    BY DEF ManagerInv, OnceAndInOrder, Joined
  <2>3. \E after \in Seq(Notices) : accepted = Joined(Joined(done, b), after)
    <3>1. CASE b = batch
      <4>1. Joined(done, batch) \in Seq(Notices) /\ Joined(flush, queue) \in Seq(Notices)
        BY <2>1, JoinedIsAssociative
      <4>2. accepted = Joined(Joined(done, batch), Joined(flush, queue))
        BY <2>1, <2>2, <4>1, JoinedIsAssociative
      <4> QED
        BY <3>1, <4>1, <4>2
    <3>2. CASE b = flush /\ main = "send"
      <4>1. batch = <<>>
        BY <3>2 DEF ManagerInv, ControlInv
      <4>2. Joined(done, batch) = done
        BY <2>1, <4>1, NothingJoined
      <4> QED
        BY <2>1, <2>2, <3>2, <4>2
    <3> QED
      BY <3>1, <3>2
  <2> QED
    BY <2>1, <2>3 DEF Joined
<1>3. /\ before \o b \in Seq(Notices) /\ Len(before \o b) = Len(before) + Len(b)
      /\ \A i \in 1 .. Len(before) + Len(b) :
           (before \o b)[i] = IF i <= Len(before) THEN before[i] ELSE b[i - Len(before)]
  BY ConcatProperties
<1>4. PICK c \in Seq(Notices) : c = before \o b
  BY <1>3
<1>5. /\ Len(c \o after) = Len(c) + Len(after)
      /\ \A i \in 1 .. Len(c) + Len(after) :
           (c \o after)[i] = IF i <= Len(c) THEN c[i] ELSE after[i - Len(c)]
  BY ConcatProperties
<1>6. Len(before) \in Nat /\ Len(after) \in Nat /\ Len(c) \in Nat
  BY LenProperties
<1>7. accepted = c \o after /\ Len(accepted) = Len(before) + Len(b) + Len(after)
  BY <1>2, <1>3, <1>4, <1>5
<1>8. ASSUME NEW i \in 1 .. Len(before) PROVE accepted[i] = before[i] /\ i \in 1 .. Len(accepted)
  <2>1. i \in 1 .. Len(c) + Len(after) /\ i <= Len(c) /\ i \in 1 .. Len(before) + Len(b)
        /\ i \in 1 .. Len(accepted)
    BY <1>1, <1>3, <1>4, <1>6, <1>7, <1>8
  <2> QED
    BY <1>3, <1>4, <1>5, <1>6, <1>7, <1>8, <2>1
<1>9. accepted[Len(before) + 1] = Head(b) /\ Len(before) + 1 \in 1 .. Len(accepted)
  <2>1. Len(before) + 1 \in 1 .. Len(c) + Len(after) /\ Len(before) + 1 <= Len(c)
        /\ Len(before) + 1 \in 1 .. Len(before) + Len(b) /\ Len(before) + 1 \in 1 .. Len(accepted)
        /\ ~(Len(before) + 1 <= Len(before)) /\ (Len(before) + 1) - Len(before) = 1
    BY <1>1, <1>3, <1>4, <1>6, <1>7
  <2>2. accepted[Len(before) + 1] = c[Len(before) + 1]
    BY <1>5, <1>7, <2>1
  <2>3. c[Len(before) + 1] = b[1]
    BY <1>3, <1>4, <2>1
  <2> QED
    BY <1>1, <2>1, <2>2, <2>3
<1>10. Head(b) \notin ToSet(done)
  <2> SUFFICES ASSUME NEW i \in 1 .. Len(before), before[i] = Head(b) PROVE FALSE
    BY <1>2, LenProperties DEF ToSet
  <2>1. i = Len(before) + 1
    BY <1>8, <1>9 DEF OnceInv
  <2> QED
    BY <1>6, <2>1
<1>11. Head(b) \notin Urgent
  <2>1. accepted \in Seq(Notices)
    BY DEF ManagerInv, QueueTypes
  <2>2. Head(b) \in ToSet(accepted)
    BY <1>9, <2>1, LenProperties DEF ToSet
  <2> QED
    BY <2>2 DEF OnceInv
<1> QED
  BY <1>1, <1>10, <1>11 DEF Handed, OnceInv

----------------------------------------------------------------------------
(***************************************************************************)
(* Each step keeps what has become of the notices.                         *)
(***************************************************************************)
LEMMA HandedAreNotices == ASSUME ManagerInv, OnceInv PROVE Handed \subseteq Notices
<1>1. done \in Seq(Notices)
  BY DEF ManagerInv, QueueTypes
<1>2. ToSet(done) \subseteq Notices
  BY <1>1, LenProperties DEF ToSet
<1> QED
  BY <1>2 DEF Handed, OnceInv, Urgent

LEMMA AdmitOnce ==
  ASSUME OnceInv, NEW n \in Notices, Admit(n)
  PROVE  OnceInv' /\ UNCHANGED <<mailVars, done, urgentDone>>
<1>1. /\ n \notin admitted /\ n \notin sending /\ n \notin urgentDone /\ n \notin ToSet(accepted)
      /\ IF n \in Urgent THEN sending' = sending \cup {n} /\ admitted' = admitted
         ELSE admitted' = admitted \cup {n} /\ sending' = sending
      /\ UNCHANGED <<accepted, urgentDone, mailVars, done>>
  BY DEF Admit, Called, Bypasses
<1> QED
  BY <1>1 DEF OnceInv

LEMMA EnqueueOnce ==
  ASSUME ManagerInv, OnceInv, NEW n \in Notices, Enqueue(n)
  PROVE  OnceInv' /\ UNCHANGED <<mailVars, done, urgentDone>>
<1>1. /\ n \in admitted /\ admitted' = admitted \ {n} /\ accepted' = Append(accepted, n)
      /\ UNCHANGED <<sending, urgentDone, mailVars, done>>
  BY DEF Enqueue
<1>2. accepted \in Seq(Notices)
  BY DEF ManagerInv, QueueTypes
<1>3. ToSet(accepted') = ToSet(accepted) \cup {n}
  BY <1>1, <1>2, Members
<1>4. /\ Len(accepted) \in Nat /\ Len(accepted') = Len(accepted) + 1
      /\ \A i \in 1 .. Len(accepted) + 1 :
           accepted'[i] = IF i <= Len(accepted) THEN accepted[i] ELSE n
  BY <1>1, <1>2, LenProperties
<1>5. n \notin ToSet(accepted)
  BY <1>1 DEF OnceInv
<1>6. \A i \in 1 .. Len(accepted) : accepted[i] # n
  BY <1>2, <1>5, LenProperties DEF ToSet
<1>7. ASSUME NEW i \in 1 .. Len(accepted'), NEW j \in 1 .. Len(accepted'),
             accepted'[i] = accepted'[j]
      PROVE  i = j
  <2>1. i \in 1 .. Len(accepted) + 1 /\ j \in 1 .. Len(accepted) + 1
    BY <1>4
  <2>2. CASE i <= Len(accepted) /\ j <= Len(accepted)
    <3>1. i \in 1 .. Len(accepted) /\ j \in 1 .. Len(accepted) /\ accepted[i] = accepted[j]
      BY <1>4, <1>7, <2>1, <2>2
    <3> QED
      BY <3>1 DEF OnceInv
  <2>3. CASE i <= Len(accepted) /\ ~(j <= Len(accepted))
    <3>1. i \in 1 .. Len(accepted) /\ accepted[i] = n
      BY <1>4, <1>7, <2>1, <2>3
    <3> QED
      BY <1>6, <3>1
  <2>4. CASE ~(i <= Len(accepted)) /\ j <= Len(accepted)
    <3>1. j \in 1 .. Len(accepted) /\ accepted[j] = n
      BY <1>4, <1>7, <2>1, <2>4
    <3> QED
      BY <1>6, <3>1
  <2>5. CASE ~(i <= Len(accepted)) /\ ~(j <= Len(accepted))
    BY <1>4, <2>1, <2>5
  <2> QED
    BY <2>2, <2>3, <2>4, <2>5
<1>8. OnceInv'
  BY <1>1, <1>3, <1>7 DEF OnceInv
<1> QED
  BY <1>1, <1>8

\* The loop, Stop and the caller of an urgent notice send notices that nobody
\* has sent before.
LEMMA LoopSends ==
  ASSUME ManagerInv, OnceInv, SendFromBatch
  PROVE  \/ UNCHANGED <<mailVars, done, urgentDone>>
         \/ \E n \in Notices : Sends("loop", n)
<1>1. urgentDone' = urgentDone /\ batch \in Seq(Notices) /\ done \in Seq(Notices)
  BY DEF SendFromBatch, noticeVars, ManagerInv, QueueTypes
<1>2. CASE batch # <<>>
  <2>1. PICK n : n = Head(batch) /\ n \in Notices /\ n \notin Handed
    BY <1>1, <1>2, HeadIsNew
  <2>2. \/ SendNotification("loop", n, TRUE) /\ done' = Append(done, n)
        \/ SendNotification("loop", n, FALSE) /\ done' = done
    BY <1>2, <2>1 DEF SendFromBatch
  <2>3. ToSet(Append(done, n)) = ToSet(done) \cup {n}
    BY <1>1, <2>1, Members
  <2>4. Sends("loop", n)
    BY <1>1, <2>1, <2>2, <2>3 DEF Sends, Handed
  <2> QED
    BY <2>1, <2>4
<1>3. CASE batch = <<>>
  BY <1>1, <1>3 DEF SendFromBatch
<1> QED
  BY <1>2, <1>3

LEMMA FlushSends ==
  ASSUME ManagerInv, OnceInv, SendFromFlush
  PROVE  \/ UNCHANGED <<mailVars, done, urgentDone>>
         \/ \E n \in Notices : Sends("main", n)
<1>1. /\ urgentDone' = urgentDone /\ flush \in Seq(Notices) /\ done \in Seq(Notices)
      /\ main = "send"
  BY DEF SendFromFlush, noticeVars, ManagerInv, QueueTypes
<1>2. CASE flush # <<>>
  <2>1. PICK n : n = Head(flush) /\ n \in Notices /\ n \notin Handed
    BY <1>1, <1>2, HeadIsNew
  <2>2. \/ SendNotification("main", n, TRUE) /\ done' = Append(done, n)
        \/ SendNotification("main", n, FALSE) /\ done' = done
    BY <1>2, <2>1 DEF SendFromFlush
  <2>3. ToSet(Append(done, n)) = ToSet(done) \cup {n}
    BY <1>1, <2>1, Members
  <2>4. Sends("main", n)
    BY <1>1, <2>1, <2>2, <2>3 DEF Sends, Handed
  <2> QED
    BY <2>1, <2>4
<1>3. CASE flush = <<>>
  BY <1>1, <1>3 DEF SendFromFlush
<1> QED
  BY <1>2, <1>3

LEMMA UrgentSends ==
  ASSUME ManagerInv, OnceInv, NEW n \in Notices, SendImmediately(n)
  PROVE  Sends(n, n) /\ n \in Senders /\ OnceInv'
<1>1. n \in sending /\ n \in Urgent /\ n \notin urgentDone /\ n \in Senders
  BY PrioritiesAreNat DEF SendImmediately, OnceInv
<1>2. n \notin ToSet(accepted)
  BY <1>1 DEF OnceInv
<1>3. n \notin ToSet(done)
  <2>1. /\ done \in Seq(Notices) /\ batch \in Seq(Notices) /\ flush \in Seq(Notices)
        /\ queue \in Seq(Notices)
    BY DEF ManagerInv, QueueTypes
  <2>2. PICK b, c : b = done \o batch /\ c = b \o flush
    OBVIOUS
  <2>3. b \in Seq(Notices) /\ ToSet(b) = ToSet(done) \cup ToSet(batch)
    BY <2>1, <2>2, ConcatMembers, ConcatProperties
  <2>4. c \in Seq(Notices) /\ ToSet(c) = ToSet(b) \cup ToSet(flush)
    <3>1. b \in Seq(Notices) /\ flush \in Seq(Notices) /\ c = b \o flush
      BY <2>1, <2>2, <2>3
    <3>2. c \in Seq(Notices)
      BY <3>1, ConcatProperties
    <3>3. ToSet(b \o flush) = ToSet(b) \cup ToSet(flush)
      BY <3>1, ConcatMembers
    <3> QED
      BY <3>1, <3>2, <3>3
  <2>5. accepted = c \o queue
    BY <2>2 DEF ManagerInv, OnceAndInOrder
  <2>6. ToSet(accepted) = ToSet(c) \cup ToSet(queue)
    BY <2>1, <2>4, <2>5, ConcatMembers
  <2> QED
    BY <1>2, <2>3, <2>4, <2>6
<1>4. done' = done /\ UNCHANGED <<admitted, accepted>>
  BY DEF SendImmediately
<1>5. \/ /\ SendNotification(n, n, TRUE) /\ sending' = sending \ {n}
         /\ urgentDone' = urgentDone \cup {n}
      \/ SendNotification(n, n, FALSE) /\ UNCHANGED <<sending, urgentDone>>
  BY DEF SendImmediately
<1>6. Sends(n, n)
  BY <1>1, <1>3, <1>4, <1>5 DEF Sends, Handed
<1>7. OnceInv'
  BY <1>1, <1>4, <1>5 DEF OnceInv
<1> QED
  BY <1>1, <1>6, <1>7

LEMMA DeliveryNext == ASSUME ManagerInv, DeliveryInv, [Next]_vars PROVE DeliveryInv'
<1> USE DEF DeliveryInv
<1>1. Handed \subseteq Notices
  BY HandedAreNotices
<1>2. ASSUME NEW n \in Notices, Admit(n) PROVE DeliveryInv'
  BY <1>2, AdmitOnce, QuietKeeps
<1>3. ASSUME NEW n \in Notices, Enqueue(n) PROVE DeliveryInv'
  BY <1>3, EnqueueOnce, QuietKeeps
<1>4. ASSUME NEW n \in Notices, SendImmediately(n) PROVE DeliveryInv'
  BY <1>1, <1>4, UrgentSends, SendsKeeps
<1>5. "loop" \in Senders /\ "main" \in Senders
  BY PrioritiesAreNat
<1>6. CASE SendFromBatch
  <2>1. OnceInv'
    BY <1>6 DEF SendFromBatch, noticeVars, OnceInv
  <2> QED
    BY <1>1, <1>5, <1>6, <2>1, LoopSends, SendsKeeps, QuietKeeps
<1>7. CASE SendFromFlush
  <2>1. OnceInv'
    BY <1>7 DEF SendFromFlush, noticeVars, OnceInv
  <2> QED
    BY <1>1, <1>5, <1>7, <2>1, FlushSends, SendsKeeps, QuietKeeps
<1>8. ASSUME UNCHANGED <<noticeVars, done, mailVars>> PROVE DeliveryInv'
  <2>1. OnceInv' /\ urgentDone' = urgentDone
    BY <1>8 DEF noticeVars, OnceInv
  <2> QED
    BY <1>8, <2>1, QuietKeeps
<1>9. CASE EnterSelect \/ Tick \/ ReceiveTick \/ TakeBatch \/ Start \/ Stop \/ StopLoop \/ TakeFlush
  BY <1>8, <1>9 DEF EnterSelect, Tick, ReceiveTick, TakeBatch, Start, Stop, StopLoop, TakeFlush
<1>10. ASSUME NEW on \in Preferences, SetPreferences(on) \/ SetDelay(on) PROVE DeliveryInv'
  BY <1>8, <1>10 DEF SetPreferences, SetDelay
<1>11. CASE UNCHANGED vars
  BY <1>8, <1>11 DEF vars
<1>12. ASSUME NEW n \in Notices, PeerFallsSilent(n) PROVE DeliveryInv'
  <2>1. FallSilent(n) /\ UNCHANGED <<noticeVars, done>>
    BY <1>12 DEF PeerFallsSilent
  <2>2. OnceInv' /\ urgentDone' = urgentDone
    BY <2>1 DEF noticeVars, OnceInv
  <2> QED
    BY <1>1, <2>1, <2>2, SilenceKeeps
<1> QED
  BY <1>2, <1>3, <1>4, <1>6, <1>7, <1>9, <1>10, <1>11, <1>12 DEF Next

LEMMA DeliveryInit == ASSUME Init PROVE DeliveryInv
<1>1. /\ tries = [x \in Senders |-> 0] /\ delivered = [m \in Notices |-> 0]
      /\ refused = {} /\ failures = 0
  BY DEF Init, MailInit, Notices
<1>2. /\ admitted = {} /\ sending = {} /\ urgentDone = {} /\ done = <<>> /\ accepted = <<>>
  BY DEF Init
<1>3. Handed = {}
  BY <1>2, EmptyMembers DEF Handed
<1>4. MailInv
  BY <1>1 DEF MailInv
<1>5. OnceInv
  <2>1. Len(accepted) = 0 /\ ToSet(accepted) = {}
    BY <1>2, EmptyMembers, EmptySeq
  <2> QED
    BY <1>2, <2>1 DEF OnceInv
<1>6. TriedInv
  BY <1>3 DEF TriedInv
<1>7. ErrorsInv
  <2>1. PICK e : e = Errors
    OBVIOUS
  <2>2. e \in [Notices -> Nat] /\ \A n \in Notices : e[n] = 0
    BY <1>1, <1>3, <2>1 DEF Errors
  <2>3. Total(e, Notices) = 0
    BY <2>2, TotalOfZeros, PrioritiesAreNat
  <2> QED
    BY <1>1, <2>1, <2>3 DEF ErrorsInv
<1> QED
  BY <1>4, <1>5, <1>6, <1>7 DEF DeliveryInv

\* With a mailer that works at the start, every notice handed to it was delivered,
\* refused at the authentication, or given up after all its tries; and all of
\* them together were delivered again at most as often as a command failed.
THEOREM DeliveredOrTried == Spec => []DeliveredOrGivenUp
<1>1. Spec => []DeliveryInv
  BY DeliveryInit, DeliveryNext, AlwaysManagerInv, PTL DEF Spec
<1>2. ASSUME DeliveryInv PROVE DeliveredOrGivenUp
  <2>1. ~Skips => \A n \in (ToSet(done) \cup urgentDone) \ refused :
                    delivered[n] = 0 => failures > Retries(n)
    BY <1>2 DEF DeliveryInv, TriedInv, Handed
  <2>2. PICK g, e : g = [n \in Notices |-> Again(delivered[n])] /\ e = Errors
    OBVIOUS
  <2>3. /\ delivered \in [Notices -> Nat] /\ g \in [Notices -> Nat] /\ e \in [Notices -> Nat]
        /\ failures \in Nat /\ IsFiniteSet(Notices)
    <3>1. delivered \in [Notices -> Nat] /\ failures \in Nat
      BY <1>2 DEF DeliveryInv, MailInv
    <3>2. g \in [Notices -> Nat]
      BY <2>2, <3>1 DEF Again
    <3> QED
      BY <1>2, <2>2, <3>1, <3>2, ErrorsAreNat, PrioritiesAreNat DEF DeliveryInv
  <2>4. \A n \in Notices : g[n] <= e[n] + (IF n = 0 THEN 0 ELSE 0)
    BY <2>2, <2>3 DEF Errors, Again
  <2>5. Total(g, Notices) \in Nat /\ Total(e, Notices) \in Nat
        /\ Total(g, Notices) <= Total(e, Notices) + 0
    BY <2>3, <2>4, TotalAtMost
  <2>6. Total(e, Notices) <= failures
    BY <1>2, <2>2 DEF DeliveryInv, ErrorsInv
  <2>7. Total(g, Notices) <= failures
    BY <2>3, <2>5, <2>6
  <2>8. FoldSet(LAMBDA n, sum : sum + (IF delivered[n] = 0 THEN 0 ELSE delivered[n] - 1),
                0, Notices) <= failures
    BY <2>2, <2>3, <2>7, FoldIsTotal
  <2> QED
    BY <2>1, <2>8 DEF DeliveredOrGivenUp
<1> QED
  BY <1>1, <1>2, PTL
=============================================================================
