---------------------------- MODULE Serving_proofs ---------------------------
(***************************************************************************)
(* Requests in flight, for any number of them, of rows, codes, users,      *)
(* files and visitors.  First the public side of a site (Traffic): short   *)
(* links, their types, their clicks and who may delete one; then the       *)
(* counters, the reports and the hourly rows, which count a bag of events. *)
(* What it means to count one is an induction, carried out here by way of  *)
(* the least number for which a statement fails.  Then the services with   *)
(* imports and exports (Transfer): what an import job says of itself, the  *)
(* positions of links, and the profile quota.                              *)
(***************************************************************************)
EXTENDS Traffic, Transfer, FiniteSetTheorems, FunctionTheorems, WellFoundedInduction,
        SequenceTheorems, TLAPS

\* The steps of a request about short links that remember something.
ShortSteps == {"create", "follow", "unlink"}

\* The rows have their types, and each id was taken from the unused ones once.
RowsInv ==
  /\ now \in Nat /\ failures \in Nat
  /\ shortlinks \in SUBSET ShortRow
  /\ unusedIds \in SUBSET ShortIds
  /\ followed \in [ShortIds -> Nat]
  /\ \A s, t \in shortlinks : s.id = t.id => s = t
  /\ \A s \in shortlinks : s.id \notin unusedIds
  /\ \A id \in unusedIds : followed[id] = 0

\* What a job about short links knows: the columns of the row to be, or the id
\* of a row that was there, whose owner a deletion has checked.
KnowsShort(j) ==
  /\ j.pc \in ShortSteps => "drift" \notin DOMAIN j
  /\ j.pc = "create" => j.code \in Codes /\ j.user \in Users /\ j.hours \in Nat
  /\ j.pc \in {"follow", "unlink"} => j.id \in ShortIds \ unusedIds
  /\ j.pc = "unlink" => \A s \in shortlinks : s.id = j.id => s.owner = j.user

JobsInv ==
  /\ job = [r \in Requests |-> job[r]]
  /\ \A r \in Requests : "pc" \in DOMAIN job[r] /\ KnowsShort(job[r])

\* The requests on their way to count a click of this row.
Following(id) == {r \in Requests : At(r, "follow") /\ job[r].id = id}

ClicksInv ==
  \A s \in shortlinks :
    /\ s.clicks + Cardinality(Following(s.id)) <= followed[s.id]
    /\ followed[s.id] <= s.clicks + Cardinality(Following(s.id)) + failures

TrafficInv == RowsInv /\ JobsInv /\ ClicksInv

----------------------------------------------------------------------------
(***************************************************************************)
(* Visits, reports and the analytics service: their jobs are not about     *)
(* short links before a step, nor after it.                                *)
(***************************************************************************)
Aside(j) == "pc" \in DOMAIN j /\ j.pc \notin ShortSteps

OthersMove ==
  /\ job' = [q \in Requests |-> job'[q]]
  /\ \A q \in Requests : job'[q] = job[q] \/ (Aside(job[q]) /\ Aside(job'[q]))

Counts == failures' \in Nat /\ failures <= failures' /\ now' = now

LEMMA IdleIsAside == Aside(Idle) /\ "drift" \notin DOMAIN Idle
  BY DEF Aside, Idle, ShortSteps

LEMMA WorksCounts == ASSUME failures \in Nat, Works PROVE failures' = failures
  BY DEF Works

LEMMA FailsCounts ==
  ASSUME failures \in Nat, Fails PROVE failures' \in Nat /\ failures <= failures'
  BY DEF Fails

LEMMA MoveOne ==
  ASSUME JobsInv, NEW r \in Requests, Aside(job[r]), NEW j, Aside(j),
         job' = [job EXCEPT ![r] = j]
  PROVE  OthersMove
<1>1. job = [q \in Requests |-> job[q]]
  BY DEF JobsInv
<1>2. \A q \in Requests : job'[q] = IF q = r THEN j ELSE job[q]
  BY <1>1
<1>3. job' = [q \in Requests |-> job'[q]]
  BY <1>1
<1> QED
  BY <1>2, <1>3 DEF OthersMove

\* A request arrives that is not about short links.
LEMMA ReceiveOther ==
  ASSUME JobsInv, failures \in Nat, NEW r \in Requests, NEW j, Aside(j), Receive(r, j)
  PROVE  OthersMove /\ Counts
<1>1. Aside(job[r])
  BY DEF Receive, Arrive, At, Aside, JobsInv, ShortSteps
<1>2. job' = [job EXCEPT ![r] = j] /\ now' = now /\ failures' = failures
  BY DEF Receive, Arrive, Works
<1>3. OthersMove
  BY <1>1, <1>2, MoveOne
<1> QED
  BY <1>2, <1>3 DEF Counts

\* A request that is not about short links goes on.
LEMMA GoOnOther ==
  ASSUME JobsInv, failures \in Nat, NEW r \in Requests, Aside(job[r]), NEW j, Aside(j),
         GoOn(r, j), Works \/ Fails
  PROVE  OthersMove /\ Counts
<1>1. job' = [job EXCEPT ![r] = j] /\ now' = now
  BY DEF GoOn
<1>2. OthersMove
  BY <1>1, MoveOne
<1>3. failures' \in Nat /\ failures <= failures'
  BY WorksCounts, FailsCounts
<1> QED
  BY <1>1, <1>2, <1>3 DEF Counts

LEMMA FinishOther ==
  ASSUME JobsInv, failures \in Nat, NEW r \in Requests, Aside(job[r]), Finish(r), Works \/ Fails
  PROVE  OthersMove /\ Counts
  BY GoOnOther, IdleIsAside DEF Finish

\* A report that has drifted stays a report.
LEMMA DriftedIsAside ==
  ASSUME NEW j, Aside(j), NEW n PROVE Aside([j EXCEPT !.drift = @ + n])
<1>1. PICK k : k = [j EXCEPT !.drift = @ + n]
  OBVIOUS
<1>2. DOMAIN k = DOMAIN j
  BY <1>1
<1>3. k.pc = j.pc
  BY <1>1 DEF Aside
<1>4. Aside(k)
  BY <1>2, <1>3 DEF Aside
<1> QED
  BY <1>1, <1>4

LEMMA DriftedMoves ==
  ASSUME JobsInv, NEW q \in Requests, NEW n, job'[q] = Drifted(q, n)
  PROVE  job'[q] = job[q] \/ (Aside(job[q]) /\ Aside(job'[q]))
<1>1. CASE "drift" \in DOMAIN job[q]
  <2>1. Aside(job[q])
    BY <1>1 DEF JobsInv, KnowsShort, Aside
  <2>2. PICK k : k = [job[q] EXCEPT !.drift = @ + n]
    OBVIOUS
  <2>3. job'[q] = k
    BY <1>1, <2>2 DEF Drifted
  <2> QED
    BY <2>1, <2>2, <2>3, DriftedIsAside
<1>2. CASE "drift" \notin DOMAIN job[q]
  BY <1>2 DEF Drifted
<1> QED
  BY <1>1, <1>2

\* An event is stored: reports under way may drift.
LEMMA StoredMoves ==
  ASSUME JobsInv, failures \in Nat, NEW r \in Requests, Aside(job[r]), NEW e, StoredBy(r, e), Works
  PROVE  OthersMove /\ Counts
<1>1. job' = [q \in Requests |-> job'[q]]
  BY DEF StoredBy
<1>2. ASSUME NEW q \in Requests
      PROVE  job'[q] = job[q] \/ (Aside(job[q]) /\ Aside(job'[q]))
  <2>1. CASE q = r
    BY <2>1, IdleIsAside DEF StoredBy
  <2>2. CASE q # r
    <3>1. PICK n : n = IF e.at \in Reporting(q) THEN 1 ELSE 0
      OBVIOUS
    <3>2. job'[q] = Drifted(q, n)
      BY <2>2, <3>1 DEF StoredBy
    <3> QED
      BY <3>2, DriftedMoves
  <2> QED
    BY <2>1, <2>2
<1>3. now' = now
  BY DEF StoredBy
<1> QED
  BY <1>1, <1>2, <1>3, WorksCounts DEF OthersMove, Counts

LEMMA AtAside ==
  ASSUME JobsInv, NEW r \in Requests, NEW pc, pc \notin ShortSteps, At(r, pc)
  PROVE  Aside(job[r])
  BY DEF At, Aside, JobsInv

LEMMA VisitMoves ==
  ASSUME JobsInv, failures \in Nat, NEW r \in Requests, VisitStep(r)
  PROVE  OthersMove /\ Counts
<1> USE DEF ShortSteps
<1>0. ASSUME NEW v \in Visitors, GetPublicProfile(r, v) PROVE OthersMove /\ Counts
  <2>1. PICK j : j = [pc |-> "count", link |-> NoLink, visitor |-> v, seen |-> viewCount]
    OBVIOUS
  <2>2. Aside(j)
    BY <2>1 DEF Aside
  <2> QED
    BY <1>0, <2>1, <2>2, ReceiveOther DEF GetPublicProfile
<1>1. ASSUME NEW v \in Visitors, NEW l \in Links, TrackLinkClick(r, v, l)
      PROVE  OthersMove /\ Counts
  <2>1. PICK j : j = [pc |-> "count", link |-> l, visitor |-> v]
    OBVIOUS
  <2>2. Aside(j)
    BY <2>1 DEF Aside
  <2> QED
    BY <1>1, <2>1, <2>2, ReceiveOther DEF TrackLinkClick
<1>2. CASE incrementViewCount(r) \/ incrementClickCount(r)
  <2>1. PICK j : j = [pc |-> "track", link |-> job[r].link, visitor |-> job[r].visitor,
                      at |-> now]
    OBVIOUS
  <2>2. Aside(j)
    BY <2>1 DEF Aside
  <2>3. At(r, "count") /\ GoOn(r, j) /\ (Works \/ Fails)
    BY <1>2, <2>1 DEF incrementViewCount, incrementClickCount, Track
  <2>4. Aside(job[r])
    BY <2>3, AtAside
  <2> QED
    BY <2>2, <2>3, <2>4, GoOnOther
<1>3. CASE trackView(r)
  <2>1. Aside(job[r])
    BY <1>3, AtAside DEF trackView
  <2>2. \/ Works /\ \E e : StoredBy(r, e)
        \/ Fails /\ Finish(r)
    BY <1>3 DEF trackView
  <2> QED
    BY <2>1, <2>2, StoredMoves, FinishOther
<1>4. ASSUME NEW from \in Times, GetProfileAnalytics(r, from) PROVE OthersMove /\ Counts
  <2>1. PICK j : j = [pc |-> "views", times |-> from..now]
    OBVIOUS
  <2>2. Aside(j)
    BY <2>1 DEF Aside
  <2> QED
    BY <1>4, <2>1, <2>2, ReceiveOther DEF GetProfileAnalytics
<1>5. CASE getTotalViews(r)
  <2>1. Aside(job[r])
    BY <1>5, AtAside DEF getTotalViews
  <2>2. PICK views, missed : Counted(r, views, missed) /\ (Works \/ Fails)
    BY <1>5 DEF getTotalViews
  <2>3. PICK j : j = [pc |-> "visitors", times |-> job[r].times, views |-> views,
                      drift |-> missed]
    OBVIOUS
  <2>4. Aside(j)
    BY <2>3 DEF Aside
  <2> QED
    BY <2>1, <2>2, <2>3, <2>4, GoOnOther DEF Counted
<1>6. CASE getUniqueVisitors(r)
  <2>1. Aside(job[r])
    BY <1>6, AtAside DEF getUniqueVisitors
  <2>2. PICK visitors : Reported(r, visitors) /\ (Works \/ Fails)
    BY <1>6 DEF getUniqueVisitors
  <2>3. PICK j : j = [pc |-> "report", times |-> {}, views |-> job[r].views,
                      visitors |-> visitors, drift |-> job[r].drift]
    OBVIOUS
  <2>4. Aside(j)
    BY <2>3 DEF Aside
  <2> QED
    BY <2>1, <2>2, <2>3, <2>4, GoOnOther DEF Reported
<1>7. CASE Respond(r) \/ RespondLinks(r)
  <2>1. Finish(r) /\ Works /\ (At(r, "report") \/ At(r, "link report"))
    BY <1>7 DEF Respond, RespondLinks
  <2>2. Aside(job[r])
    BY <2>1, AtAside
  <2> QED
    BY <2>1, <2>2, FinishOther
<1>8. ASSUME NEW l \in Links, GetLinkAnalytics(r, l) PROVE OthersMove /\ Counts
  <2>1. PICK j : j = [pc |-> "link report", link |-> l, total |-> clickCount[l],
                      recent |-> CountOf({l}, Recent)]
    OBVIOUS
  <2>2. Aside(j)
    BY <2>1 DEF Aside
  <2> QED
    BY <1>8, <2>1, <2>2, ReceiveOther DEF GetLinkAnalytics
<1> QED
  BY <1>0, <1>1, <1>2, <1>3, <1>4, <1>5, <1>6, <1>7, <1>8 DEF VisitStep

\* Going on with the same columns at another step.
LEMMA SameColumns ==
  ASSUME NEW j, Aside(j), NEW k, DOMAIN k = DOMAIN j, k.pc \notin ShortSteps
  PROVE  Aside(k)
  BY DEF Aside

LEMMA AnalyticsMoves ==
  ASSUME JobsInv, failures \in Nat, NEW r \in Requests, AnalyticsStep(r)
  PROVE  OthersMove /\ Counts
<1> USE DEF ShortSteps
<1>1. ASSUME NEW v \in Visitors, TrackView(r, v) \/ \E l \in Links : TrackClick(r, v, l)
      PROVE  OthersMove /\ Counts
  <2>1. PICK s : TrackEvent(r, s, v)
    BY <1>1 DEF TrackView, TrackClick
  <2>2. PICK j : j = [pc |-> "insert", link |-> s, visitor |-> v, at |-> now]
    OBVIOUS
  <2>3. Aside(j)
    BY <2>2 DEF Aside
  <2> QED
    BY <2>1, <2>2, <2>3, ReceiveOther DEF TrackEvent
<1>2. CASE InsertEvent(r)
  <2>1. Aside(job[r])
    BY <1>2, AtAside DEF InsertEvent
  <2>2. \/ Works /\ \E e : StoredBy(r, e)
        \/ Fails /\ Finish(r)
    BY <1>2 DEF InsertEvent
  <2> QED
    BY <2>1, <2>2, StoredMoves, FinishOther
<1>3. ASSUME NEW s \in Sessions, TrackSession(r, s) PROVE OthersMove /\ Counts
  <2>1. PICK known : known = \E row \in BagToSet(sessions) : row.session = s
    OBVIOUS
  <2>2. PICK j : j = [pc |-> "session", session |-> s, known |-> known]
    OBVIOUS
  <2>3. Aside(j)
    BY <2>2 DEF Aside
  <2> QED
    BY <1>3, <2>1, <2>2, <2>3, ReceiveOther DEF TrackSession
<1>4. CASE StoreSession(r) \/ GetHourlyStats(r) \/ DeleteOldSessions(r)
  <2>1. /\ Finish(r) /\ (Works \/ Fails)
        /\ At(r, "session") \/ At(r, "summary") \/ At(r, "purge sessions")
    BY <1>4 DEF StoreSession, GetHourlyStats, DeleteOldSessions
  <2>2. Aside(job[r])
    BY <2>1, AtAside
  <2> QED
    BY <2>1, <2>2, FinishOther
<1>5. ASSUME NEW to, GetSummary(r, 0, to) PROVE OthersMove /\ Counts
  <2>1. PICK j : j = [pc |-> "totals", times |-> 0..to - 1]
    OBVIOUS
  <2>2. Aside(j)
    BY <2>1 DEF Aside
  <2> QED
    BY <1>5, <2>1, <2>2, ReceiveOther DEF GetSummary
<1>6. CASE GetTotals(r)
  <2>1. Aside(job[r])
    BY <1>6, AtAside DEF GetTotals
  <2>2. PICK j : j = [pc |-> "durations", times |-> job[r].times, drift |-> 0,
                      total |-> CountOf(Subjects, job[r].times),
                      clicks |-> CountOf(Links, job[r].times)]
    OBVIOUS
  <2>3. Aside(j)
    BY <2>2 DEF Aside
  <2>4. (Works /\ GoOn(r, j)) \/ (Fails /\ Finish(r))
    BY <1>6, <2>2 DEF GetTotals
  <2> QED
    BY <2>1, <2>3, <2>4, GoOnOther, FinishOther
<1>7. CASE GetDurations(r)
  <2>1. Aside(job[r])
    BY <1>7, AtAside DEF GetDurations
  <2>2. PICK j : j = [job[r] EXCEPT !.pc = "devices"]
    OBVIOUS
  <2>3. DOMAIN j = DOMAIN job[r] /\ j.pc = "devices"
    BY <2>1, <2>2 DEF Aside
  <2>4. Aside(j)
    BY <2>1, <2>3, SameColumns
  <2>5. \/ Works /\ GoOn(r, j)
        \/ (Works \/ Fails) /\ Finish(r)
    BY <1>7, <2>2 DEF GetDurations
  <2> QED
    BY <2>1, <2>4, <2>5, GoOnOther, FinishOther
<1>8. CASE GetDevices(r)
  <2>1. Aside(job[r])
    BY <1>8, AtAside DEF GetDevices
  <2>2. PICK n : n = DeviceCount("mobile", job[r].times) + DeviceCount("tablet", job[r].times)
                       + DeviceCount("desktop", job[r].times)
    OBVIOUS
  <2>3. PICK j : j = [job[r] EXCEPT !.pc = "links", !.total = @ - n]
    OBVIOUS
  <2>4. DOMAIN j = DOMAIN job[r] /\ j.pc = "links"
    BY <2>1, <2>3 DEF Aside
  <2>5. Aside(j)
    BY <2>1, <2>4, SameColumns
  <2>6. (Works /\ GoOn(r, j)) \/ (Fails /\ Finish(r))
    BY <1>8, <2>2, <2>3 DEF GetDevices
  <2> QED
    BY <2>1, <2>5, <2>6, GoOnOther, FinishOther
<1>9. CASE GetLinkStats(r)
  <2>1. Aside(job[r])
    BY <1>9, AtAside DEF GetLinkStats
  <2>2. CASE Fails /\ Finish(r)
    BY <2>1, <2>2, FinishOther
  <2>3. ASSUME NEW clicks, NEW whole, Works,
               GoOn(r, [pc |-> "summary", times |-> {}, drift |-> job[r].drift,
                        total |-> job[r].total, clicks |-> clicks, whole |-> whole])
        PROVE  OthersMove /\ Counts
    <3>1. PICK j : j = [pc |-> "summary", times |-> {}, drift |-> job[r].drift,
                        total |-> job[r].total, clicks |-> clicks, whole |-> whole]
      OBVIOUS
    <3>2. Aside(j)
      BY <3>1 DEF Aside
    <3> QED
      BY <2>1, <2>3, <3>1, <3>2, GoOnOther
  <2> QED
    BY <1>9, <2>2, <2>3 DEF GetLinkStats
<1>10. CASE CleanupOldData(r)
  <2>1. PICK before : /\ Arrive(r, [pc |-> "purge", before |-> before])
                      /\ Works \/ Fails
    BY <1>10 DEF CleanupOldData
  <2>2. PICK j : j = [pc |-> "purge", before |-> before]
    OBVIOUS
  <2>3. Aside(j)
    BY <2>2 DEF Aside
  <2>4. Aside(job[r])
    BY <2>1, AtAside DEF Arrive
  <2>5. GoOn(r, j) \/ (job' = [job EXCEPT ![r] = j] /\ now' = now)
    BY <2>1, <2>2 DEF Arrive
  <2>6. OthersMove
    BY <2>3, <2>4, <2>5, MoveOne DEF GoOn
  <2>7. now' = now
    BY <2>1 DEF Arrive
  <2> QED
    BY <2>1, <2>6, <2>7, WorksCounts, FailsCounts DEF Counts
<1>11. CASE DeleteOldEvents(r)
  <2>1. Aside(job[r])
    BY <1>11, AtAside DEF DeleteOldEvents
  <2>2. CASE Fails /\ Finish(r)
    BY <2>1, <2>2, FinishOther
  <2>3. CASE /\ Works /\ now' = now
             /\ job' = [q \in Requests |->
                          IF q = r THEN [job[r] EXCEPT !.pc = "purge sessions"]
                          ELSE Drifted(q, Deleted(q, job[r].before))]
    <3>1. job' = [q \in Requests |-> job'[q]]
      BY <2>3
    <3>2. ASSUME NEW q \in Requests
          PROVE  job'[q] = job[q] \/ (Aside(job[q]) /\ Aside(job'[q]))
      <4>1. CASE q = r
        <5>1. PICK j : j = [job[r] EXCEPT !.pc = "purge sessions"]
          OBVIOUS
        <5>2. DOMAIN j = DOMAIN job[r] /\ j.pc = "purge sessions"
          BY <2>1, <5>1 DEF Aside
        <5>3. Aside(j)
          BY <2>1, <5>2, SameColumns
        <5>4. job'[q] = j
          BY <2>3, <4>1, <5>1
        <5> QED
          BY <2>1, <4>1, <5>3, <5>4
      <4>2. CASE q # r
        <5>1. PICK n : n = Deleted(q, job[r].before)
          OBVIOUS
        <5>2. job'[q] = Drifted(q, n)
          BY <2>3, <4>2, <5>1
        <5> QED
          BY <5>2, DriftedMoves
      <4> QED
        BY <4>1, <4>2
    <3>3. OthersMove
      BY <3>1, <3>2 DEF OthersMove
    <3>4. Works /\ now' = now
      BY <2>3
    <3> QED
      BY <3>3, <3>4, WorksCounts DEF Counts
  <2> QED
    BY <1>11, <2>2, <2>3 DEF DeleteOldEvents
<1> QED
  BY <1>1, <1>2, <1>3, <1>4, <1>5, <1>6, <1>7, <1>8, <1>9, <1>10, <1>11 DEF AnalyticsStep

----------------------------------------------------------------------------
(***************************************************************************)
(* What a step does to the rows, the jobs and the followers.               *)
(***************************************************************************)

\* Every row has the id and the owner of one that was there, or an unused id.
RowsStay ==
  /\ unusedIds' \subseteq unusedIds
  /\ \A s \in shortlinks' : \/ \E t \in shortlinks : t.id = s.id /\ t.owner = s.owner
                            \/ s.id \in unusedIds

LEMMA KnowsStill ==
  ASSUME RowsStay, NEW k, KnowsShort(k)
  PROVE  KnowsShort(k)'
<1>1. k.pc \in {"follow", "unlink"} => k.id \in ShortIds \ unusedIds'
  BY DEF KnowsShort, RowsStay
<1>2. ASSUME k.pc = "unlink", NEW s \in shortlinks', s.id = k.id
      PROVE  s.owner = k.user
  BY <1>2 DEF KnowsShort, RowsStay
<1> QED
  BY <1>1, <1>2 DEF KnowsShort

\* One request gets a new job.
LEMMA JobsStay ==
  ASSUME JobsInv, RowsStay, NEW r \in Requests, NEW j, "pc" \in DOMAIN j, KnowsShort(j)',
         job' = [job EXCEPT ![r] = j]
  PROVE  JobsInv'
<1>1. job = [q \in Requests |-> job[q]]
  BY DEF JobsInv
<1>2. job' = [q \in Requests |-> job'[q]]
  BY <1>1
<1>3. ASSUME NEW q \in Requests PROVE "pc" \in DOMAIN job'[q] /\ KnowsShort(job[q])'
  <2>1. PICK k : k = job'[q]
    OBVIOUS
  <2>2. "pc" \in DOMAIN k /\ KnowsShort(k)'
    <3>1. CASE q = r
      <4>1. k = j
        BY <1>1, <2>1, <3>1
      <4> QED
        BY <4>1
    <3>2. CASE q # r
      <4>1. k = job[q]
        BY <1>1, <2>1, <3>2
      <4>2. "pc" \in DOMAIN k /\ KnowsShort(k)
        BY <4>1 DEF JobsInv
      <4> QED
        BY <4>2, KnowsStill
    <3> QED
      BY <3>1, <3>2
  <2> QED
    BY <2>1, <2>2 DEF KnowsShort
<1> QED
  BY <1>2, <1>3 DEF JobsInv

LEMMA FollowingCounts ==
  ASSUME NEW id, NEW r
  PROVE  /\ IsFiniteSet(Following(id)) /\ Cardinality(Following(id)) \in Nat
         /\ r \notin Following(id) =>
              Cardinality(Following(id) \cup {r}) = Cardinality(Following(id)) + 1
         /\ r \in Following(id) =>
              Cardinality(Following(id) \ {r}) = Cardinality(Following(id)) - 1
<1>1. IsFiniteSet(Following(id)) /\ Cardinality(Following(id)) \in Nat
  BY FS_Subset, FS_CardinalityType, ServingAssumption DEF Following
<1> QED
  BY <1>1, FS_AddElement, FS_RemoveElement

LEMMA FollowingAfter ==
  ASSUME JobsInv, NEW r \in Requests, NEW j, job' = [job EXCEPT ![r] = j], NEW id
  PROVE  Following(id)' = IF j.pc = "follow" /\ j.id = id THEN Following(id) \cup {r}
                          ELSE Following(id) \ {r}
<1>1. job = [q \in Requests |-> job[q]]
  BY DEF JobsInv
<1>2. \A q \in Requests : job'[q] = IF q = r THEN j ELSE job[q]
  BY <1>1
<1> QED
  BY <1>2 DEF Following, At

\* Rows go or stay, and nobody begins or stops to follow one.
LEMMA RowsGoAway ==
  ASSUME RowsInv, ClicksInv, shortlinks' \subseteq shortlinks,
         UNCHANGED <<unusedIds, followed>>, now' \in Nat, failures' \in Nat,
         failures <= failures', \A id : Following(id)' = Following(id)
  PROVE  RowsInv' /\ RowsStay /\ ClicksInv'
<1>1. RowsInv'
  BY DEF RowsInv
<1>2. RowsStay
  BY DEF RowsStay
<1>3. ASSUME NEW s \in shortlinks'
      PROVE  /\ s.clicks + Cardinality(Following(s.id)') <= followed'[s.id]
             /\ followed'[s.id] <= s.clicks + Cardinality(Following(s.id)') + failures'
  <2>1. /\ s.clicks + Cardinality(Following(s.id)) <= followed[s.id]
        /\ followed[s.id] <= s.clicks + Cardinality(Following(s.id)) + failures
    BY DEF ClicksInv
  <2>2. s.clicks \in Nat /\ s.id \in ShortIds
    BY DEF RowsInv, ShortRow
  <2>3. Cardinality(Following(s.id)) \in Nat
    BY FollowingCounts
  <2>4. Cardinality(Following(s.id)') = Cardinality(Following(s.id))
    BY DEF Following
  <2>5. followed[s.id] \in Nat /\ followed' = followed /\ failures \in Nat
    BY <2>2 DEF RowsInv
  <2> QED
    BY <2>1, <2>2, <2>3, <2>4, <2>5
<1>4. ClicksInv'
  BY <1>3 DEF ClicksInv
<1> QED
  BY <1>1, <1>2, <1>4

\* A step that is not about short links.
LEMMA OthersKeep ==
  ASSUME TrafficInv, OthersMove, UNCHANGED shortVars,
         now' \in Nat, failures' \in Nat, failures <= failures'
  PROVE  TrafficInv'
<1>1. ASSUME NEW id PROVE Following(id)' = Following(id)
  BY DEF OthersMove, Following, At, Aside, ShortSteps
<1>2. RowsInv' /\ RowsStay /\ ClicksInv'
  BY <1>1, RowsGoAway DEF TrafficInv, shortVars
<1>3. ASSUME NEW q \in Requests PROVE "pc" \in DOMAIN job'[q] /\ KnowsShort(job[q])'
  <2>1. PICK k : k = job'[q]
    OBVIOUS
  <2>2. CASE k = job[q]
    <3>1. "pc" \in DOMAIN k /\ KnowsShort(k)
      BY <2>2 DEF TrafficInv, JobsInv
    <3>2. KnowsShort(k)'
      BY <1>2, <3>1, KnowsStill
    <3> QED
      BY <2>1, <3>1, <3>2 DEF KnowsShort
  <2>3. CASE Aside(k)
    BY <2>1, <2>3 DEF Aside, KnowsShort, ShortSteps
  <2> QED
    BY <2>1, <2>2, <2>3 DEF OthersMove
<1>4. JobsInv'
  BY <1>3 DEF OthersMove, JobsInv
<1> QED
  BY <1>2, <1>4 DEF TrafficInv

----------------------------------------------------------------------------
(***************************************************************************)
(* The steps about short links.                                            *)
(***************************************************************************)

\* Rows go or stay, and a request that follows none gets a job that follows
\* none.
LEMMA QuietJob ==
  ASSUME TrafficInv, NEW r \in Requests, ~At(r, "follow"), NEW j, "pc" \in DOMAIN j,
         j.pc # "follow", KnowsShort(j)', job' = [job EXCEPT ![r] = j],
         shortlinks' \subseteq shortlinks, UNCHANGED <<unusedIds, followed>>,
         now' = now, failures' \in Nat, failures <= failures'
  PROVE  TrafficInv'
<1>1. ASSUME NEW id PROVE Following(id)' = Following(id)
  <2>1. r \notin Following(id)
    BY DEF Following
  <2>2. Following(id)' = Following(id) \ {r}
    BY FollowingAfter DEF TrafficInv
  <2> QED
    BY <2>1, <2>2
<1>2. RowsInv' /\ RowsStay /\ ClicksInv'
  <2>1. now' \in Nat
    BY DEF TrafficInv, RowsInv
  <2> QED
    BY <1>1, <2>1, RowsGoAway DEF TrafficInv
<1>3. JobsInv'
  BY <1>2, JobsStay DEF TrafficInv
<1> QED
  BY <1>2, <1>3 DEF TrafficInv

LEMMA CreateReceived ==
  ASSUME TrafficInv, NEW r \in Requests, NEW u \in Users, NEW c \in Codes, NEW hours \in Nat,
         Arrive(r, [pc |-> "create", user |-> u, code |-> c, hours |-> hours]),
         Works \/ Fails, UNCHANGED shortVars
  PROVE  TrafficInv'
<1>1. PICK j : j = [pc |-> "create", user |-> u, code |-> c, hours |-> hours]
  OBVIOUS
<1>2. "pc" \in DOMAIN j /\ j.pc # "follow" /\ KnowsShort(j)'
  BY <1>1 DEF KnowsShort
<1>3. ~At(r, "follow") /\ job' = [job EXCEPT ![r] = j] /\ now' = now
  BY <1>1 DEF Arrive, At
<1>4. failures' \in Nat /\ failures <= failures'
  BY WorksCounts, FailsCounts DEF TrafficInv, RowsInv
<1>5. shortlinks' \subseteq shortlinks /\ UNCHANGED <<unusedIds, followed>>
  BY DEF shortVars
<1> QED
  BY <1>2, <1>3, <1>4, <1>5, QuietJob

\* A request that follows no link ends.
LEMMA QuietEnd ==
  ASSUME TrafficInv, NEW r \in Requests, NEW pc, pc # "follow", At(r, pc), Finish(r),
         Works \/ Fails, shortlinks' \subseteq shortlinks, UNCHANGED <<unusedIds, followed>>
  PROVE  TrafficInv'
<1>1. ~At(r, "follow") /\ job' = [job EXCEPT ![r] = Idle] /\ now' = now
  BY DEF Finish, GoOn, At
<1>2. failures' \in Nat /\ failures <= failures'
  BY WorksCounts, FailsCounts DEF TrafficInv, RowsInv
<1>3. PICK j : j = Idle
  OBVIOUS
<1>4. "pc" \in DOMAIN j /\ j.pc # "follow"
  BY <1>3 DEF Idle
<1>5. KnowsShort(j)'
  BY <1>3 DEF Idle, KnowsShort, ShortSteps
<1>6. job' = [job EXCEPT ![r] = j]
  BY <1>1, <1>3
<1> QED
  BY <1>1, <1>2, <1>4, <1>5, <1>6, QuietJob

LEMMA CreateStep ==
  ASSUME TrafficInv, NEW r \in Requests, NEW id \in ShortIds, CreateShortlink(r, id)
  PROVE  TrafficInv'
<1>1. /\ job[r].code \in Codes /\ job[r].user \in Users /\ job[r].hours \in Nat
      /\ job[r].pc = "create"
  BY DEF CreateShortlink, At, TrafficInv, JobsInv, KnowsShort
<1>2. PICK row : row = [id |-> id, code |-> job[r].code, owner |-> job[r].user, clicks |-> 0,
                        expires |-> IF job[r].hours = 0 THEN Never ELSE now + job[r].hours]
  OBVIOUS
<1>3. row.id = id /\ row.clicks = 0 /\ row.owner = job[r].user
  BY <1>2
<1>4. row \in ShortRow
  <2>1. (IF job[r].hours = 0 THEN Never ELSE now + job[r].hours) \in Nat \cup {Never}
    BY <1>1 DEF TrafficInv, RowsInv
  <2> QED
    BY <1>1, <1>2, <2>1 DEF ShortRow
<1>5. /\ id \in unusedIds /\ unusedIds' = unusedIds \ {id} /\ followed' = followed
      /\ failures' = failures /\ now' = now /\ job' = [job EXCEPT ![r] = Idle]
  BY DEF CreateShortlink, Finish, GoOn, Works
<1>6. shortlinks' = shortlinks \cup {row}
  BY <1>2 DEF CreateShortlink
<1>7. RowsInv'
  BY <1>3, <1>4, <1>5, <1>6 DEF TrafficInv, RowsInv
<1>8. RowsStay
  BY <1>3, <1>5, <1>6 DEF RowsStay
<1>9. JobsInv'
  <2>1. PICK j : j = Idle
    OBVIOUS
  <2>2. "pc" \in DOMAIN j /\ KnowsShort(j)'
    BY <2>1 DEF Idle, KnowsShort, ShortSteps
  <2> QED
    BY <1>5, <1>8, <2>1, <2>2, JobsStay DEF TrafficInv
<1>10. ASSUME NEW x PROVE Following(x)' = Following(x)
  <2>1. PICK j : j = Idle
    OBVIOUS
  <2>2. j.pc # "follow" /\ job' = [job EXCEPT ![r] = j]
    BY <1>5, <2>1 DEF Idle
  <2>3. Following(x)' = Following(x) \ {r}
    BY <2>2, FollowingAfter DEF TrafficInv
  <2> QED
    BY <1>1, <2>3 DEF Following, At
<1>11. Following(id) = {} /\ followed[id] = 0
  BY <1>5 DEF Following, At, TrafficInv, RowsInv, JobsInv, KnowsShort
<1>12. Cardinality(Following(id)) = 0
  BY <1>11, FS_EmptySet
<1>13. ASSUME NEW s \in shortlinks'
       PROVE  /\ s.clicks + Cardinality(Following(s.id)') <= followed'[s.id]
              /\ followed'[s.id] <= s.clicks + Cardinality(Following(s.id)') + failures'
  <2>1. Cardinality(Following(s.id)') = Cardinality(Following(s.id))
    <3>1. PICK x : x = s.id
      OBVIOUS
    <3>2. Following(x)' = Following(x)
      BY <1>10
    <3> QED
      BY <3>1, <3>2 DEF Following
  <2>2. CASE s = row
    <3>1. s.id = id /\ s.clicks = 0
      BY <1>3, <2>2
    <3>2. Cardinality(Following(s.id)') = 0
      BY <1>12, <2>1, <3>1
    <3>3. followed'[s.id] = 0 /\ failures' \in Nat
      BY <1>5, <1>11, <3>1 DEF TrafficInv, RowsInv
    <3>4. PICK n, f, g : n = Cardinality(Following(s.id)') /\ f = followed'[s.id] /\ g = failures'
      OBVIOUS
    <3>5. n = 0 /\ f = 0 /\ g \in Nat
      BY <3>2, <3>3, <3>4
    <3>6. 0 + n <= f /\ f <= 0 + n + g
      BY <3>5
    <3> QED
      BY <3>1, <3>4, <3>6
  <2>3. CASE s \in shortlinks
    <3>1. /\ s.clicks + Cardinality(Following(s.id)) <= followed[s.id]
          /\ followed[s.id] <= s.clicks + Cardinality(Following(s.id)) + failures
      BY <2>3 DEF TrafficInv, ClicksInv
    <3> QED
      BY <1>5, <2>1, <3>1
  <2> QED
    BY <1>6, <2>2, <2>3
<1>14. ClicksInv'
  BY <1>13 DEF ClicksInv
<1> QED
  BY <1>7, <1>9, <1>14 DEF TrafficInv

\* A visitor is sent on: the row has one more, and one request more that is to
\* count it.
LEMMA FollowStep ==
  ASSUME TrafficInv, NEW r \in Requests, NEW s \in shortlinks, HandleRedirectShortlink(r, s)
  PROVE  TrafficInv'
<1>1. s.id \in ShortIds \ unusedIds
  BY DEF TrafficInv, RowsInv, ShortRow
<1>2. PICK j : j = [pc |-> "follow", id |-> s.id, code |-> s.code]
  OBVIOUS
<1>3. /\ job[r].pc = "idle" /\ job' = [job EXCEPT ![r] = j] /\ now' = now
      /\ failures' = failures /\ shortlinks' = shortlinks /\ unusedIds' = unusedIds
      /\ followed' = [followed EXCEPT ![s.id] = @ + 1]
  BY <1>2 DEF HandleRedirectShortlink, Receive, Arrive, Works, At
<1>4. RowsInv'
  <2>1. followed \in [ShortIds -> Nat]
    BY DEF TrafficInv, RowsInv
  <2>2. followed' \in [ShortIds -> Nat] /\ \A id \in unusedIds : followed'[id] = followed[id]
    BY <1>1, <1>3, <2>1
  <2> QED
    BY <1>3, <2>2 DEF TrafficInv, RowsInv
<1>5. RowsStay
  BY <1>3 DEF RowsStay
<1>6. JobsInv'
  <2>1. "pc" \in DOMAIN j /\ KnowsShort(j)'
    BY <1>1, <1>2, <1>3 DEF KnowsShort
  <2> QED
    BY <1>3, <1>5, <2>1, JobsStay DEF TrafficInv
<1>7. ASSUME NEW t \in shortlinks'
      PROVE  /\ t.clicks + Cardinality(Following(t.id)') <= followed'[t.id]
             /\ followed'[t.id] <= t.clicks + Cardinality(Following(t.id)') + failures'
  <2>1. PICK id : id = t.id
    OBVIOUS
  <2>2. t \in shortlinks /\ id \in ShortIds /\ t.clicks \in Nat
    BY <1>3, <2>1 DEF TrafficInv, RowsInv, ShortRow
  <2>3. /\ t.clicks + Cardinality(Following(id)) <= followed[id]
        /\ followed[id] <= t.clicks + Cardinality(Following(id)) + failures
    BY <2>1, <2>2 DEF TrafficInv, ClicksInv
  <2>4. followed[id] \in Nat /\ failures \in Nat
    BY <2>2 DEF TrafficInv, RowsInv
  <2>5. r \notin Following(id)
    BY <1>3 DEF Following, At
  <2>6. Following(id)' = IF id = s.id THEN Following(id) \cup {r} ELSE Following(id)
    <3>1. Following(id)' = IF j.pc = "follow" /\ j.id = id THEN Following(id) \cup {r}
                           ELSE Following(id) \ {r}
      BY <1>3, FollowingAfter DEF TrafficInv
    <3>2. j.pc = "follow" /\ j.id = s.id
      BY <1>2
    <3> QED
      BY <2>5, <3>1, <3>2
  <2>7. followed'[id] = IF id = s.id THEN followed[id] + 1 ELSE followed[id]
    BY <1>1, <1>3, <2>2 DEF TrafficInv, RowsInv
  <2>8. PICK n, n1 : n = Cardinality(Following(id)) /\ n1 = Cardinality(Following(id)')
    OBVIOUS
  <2>9. n \in Nat /\ n1 = IF id = s.id THEN n + 1 ELSE n
    BY <2>5, <2>6, <2>8, FollowingCounts
  <2>10. t.clicks + n1 <= followed'[id] /\ followed'[id] <= t.clicks + n1 + failures'
    BY <1>3, <2>2, <2>3, <2>4, <2>7, <2>8, <2>9
  <2> QED
    BY <2>1, <2>8, <2>10
<1>8. ClicksInv'
  BY <1>7 DEF ClicksInv
<1> QED
  BY <1>4, <1>6, <1>8 DEF TrafficInv

\* The rows after the click is counted: each is one of before, with or without
\* one click more.
LEMMA CountedRows ==
  ASSUME TrafficInv, NEW r \in Requests, IncrementShortlinkClickCount(r), NEW t \in shortlinks'
  PROVE  \E s \in shortlinks :
           /\ t.id = s.id /\ t.owner = s.owner /\ t \in ShortRow
           /\ t = IF s.id = job[r].id THEN [s EXCEPT !.clicks = @ + 1] ELSE s
           /\ t.clicks = IF s.id = job[r].id THEN s.clicks + 1 ELSE s.clicks
<1>1. PICK s \in shortlinks : t = IF s.id = job[r].id THEN [s EXCEPT !.clicks = @ + 1] ELSE s
  BY DEF IncrementShortlinkClickCount, ClickedRow
<1>2. s \in ShortRow
  BY DEF TrafficInv, RowsInv
<1>3. /\ t.id = s.id /\ t.owner = s.owner /\ t \in ShortRow
      /\ t.clicks = IF s.id = job[r].id THEN s.clicks + 1 ELSE s.clicks
  BY <1>1, <1>2 DEF ShortRow
<1> QED
  BY <1>1, <1>3

\* The click is counted for the row that was read, whatever was created or
\* deleted in between; or the statement fails.
LEMMA CountClickStep ==
  ASSUME TrafficInv, NEW r \in Requests,
         IncrementShortlinkClickCount(r) \/ IncrementShortlinkFails(r)
  PROVE  TrafficInv'
<1>1. /\ job[r].pc = "follow" /\ job' = [job EXCEPT ![r] = Idle] /\ now' = now
      /\ unusedIds' = unusedIds /\ followed' = followed
  BY DEF IncrementShortlinkClickCount, IncrementShortlinkFails, Finish, GoOn, At, shortVars
<1>2. /\ failures \in Nat /\ failures' \in Nat /\ failures <= failures'
      /\ IncrementShortlinkFails(r) => failures' = failures + 1 /\ shortlinks' = shortlinks
  BY DEF IncrementShortlinkClickCount, IncrementShortlinkFails, Works, Fails, shortVars,
         TrafficInv, RowsInv
<1>3. ASSUME NEW t \in shortlinks'
      PROVE  \E s \in shortlinks :
               /\ t.id = s.id /\ t.owner = s.owner /\ t \in ShortRow
               /\ \/ IncrementShortlinkFails(r) /\ t = s
                  \/ /\ t = IF s.id = job[r].id THEN [s EXCEPT !.clicks = @ + 1] ELSE s
                     /\ t.clicks = IF s.id = job[r].id THEN s.clicks + 1 ELSE s.clicks
  <2>1. CASE IncrementShortlinkClickCount(r)
    BY <2>1, CountedRows
  <2>2. CASE IncrementShortlinkFails(r)
    BY <1>2, <2>2 DEF TrafficInv, RowsInv
  <2> QED
    BY <2>1, <2>2
<1>4. RowsInv'
  <2>1. shortlinks' \in SUBSET ShortRow /\ \A t \in shortlinks' : t.id \notin unusedIds
    BY <1>3 DEF TrafficInv, RowsInv
  <2>2. ASSUME NEW t1 \in shortlinks', NEW t2 \in shortlinks', t1.id = t2.id
        PROVE  t1 = t2
    <3>1. CASE IncrementShortlinkFails(r)
      BY <1>2, <2>2, <3>1 DEF TrafficInv, RowsInv
    <3>2. CASE IncrementShortlinkClickCount(r)
      <4>1. PICK s1 \in shortlinks :
              /\ t1.id = s1.id
              /\ t1 = IF s1.id = job[r].id THEN [s1 EXCEPT !.clicks = @ + 1] ELSE s1
        BY <3>2, CountedRows
      <4>2. PICK s2 \in shortlinks :
              /\ t2.id = s2.id
              /\ t2 = IF s2.id = job[r].id THEN [s2 EXCEPT !.clicks = @ + 1] ELSE s2
        BY <3>2, CountedRows
      <4>3. s1 = s2
        BY <2>2, <4>1, <4>2 DEF TrafficInv, RowsInv
      <4> QED
        BY <4>1, <4>2, <4>3
    <3> QED
      BY <3>1, <3>2
  <2>3. now' \in Nat /\ failures' \in Nat /\ unusedIds' \in SUBSET ShortIds
        /\ followed' \in [ShortIds -> Nat] /\ \A id \in unusedIds' : followed'[id] = 0
    BY <1>1, <1>2 DEF TrafficInv, RowsInv
  <2> QED
    BY <1>1, <2>1, <2>2, <2>3 DEF RowsInv
<1>5. RowsStay
  BY <1>1, <1>3 DEF RowsStay
<1>6. PICK j : j = Idle
  OBVIOUS
<1>7. JobsInv'
  <2>1. "pc" \in DOMAIN j /\ KnowsShort(j)'
    BY <1>6 DEF Idle, KnowsShort, ShortSteps
  <2> QED
    BY <1>1, <1>5, <1>6, <2>1, JobsStay DEF TrafficInv
<1>8. ASSUME NEW t \in shortlinks'
      PROVE  /\ t.clicks + Cardinality(Following(t.id)') <= followed'[t.id]
             /\ followed'[t.id] <= t.clicks + Cardinality(Following(t.id)') + failures'
  <2>1. PICK s \in shortlinks :
          /\ t.id = s.id /\ t \in ShortRow
          /\ \/ IncrementShortlinkFails(r) /\ t.clicks = s.clicks
             \/ t.clicks = IF s.id = job[r].id THEN s.clicks + 1 ELSE s.clicks
    BY <1>3
  <2>2. PICK id : id = s.id
    OBVIOUS
  <2>3. id \in ShortIds /\ s.clicks \in Nat /\ followed[id] \in Nat
    BY <2>2 DEF TrafficInv, RowsInv, ShortRow
  <2>4. PICK n, n1 : n = Cardinality(Following(id)) /\ n1 = Cardinality(Following(id)')
    OBVIOUS
  <2>5. s.clicks + n <= followed[id] /\ followed[id] <= s.clicks + n + failures
    BY <2>2, <2>4 DEF TrafficInv, ClicksInv
  <2>6. Following(id)' = Following(id) \ {r}
    <3>1. j.pc # "follow" /\ job' = [job EXCEPT ![r] = j]
      BY <1>1, <1>6 DEF Idle
    <3> QED
      BY <3>1, FollowingAfter DEF TrafficInv
  <2>7. n \in Nat /\ n1 \in Nat /\ n1 = IF id = job[r].id THEN n - 1 ELSE n
    <3>1. r \in Following(id) <=> id = job[r].id
      BY <1>1 DEF Following, At
    <3>2. CASE id = job[r].id
      <4>1. n \in Nat /\ n1 = n - 1
        BY <2>4, <2>6, <3>1, <3>2, FollowingCounts
      <4>2. n # 0
        BY <2>4, <3>1, <3>2, FollowingCounts, FS_EmptySet
      <4> QED
        BY <3>2, <4>1, <4>2
    <3>3. CASE id # job[r].id
      <4>1. Following(id)' = Following(id)
        BY <2>6, <3>1, <3>3
      <4> QED
        BY <2>4, <3>3, <4>1, FollowingCounts
    <3> QED
      BY <3>2, <3>3
  <2>8. t.clicks + n1 <= followed[id] /\ followed[id] <= t.clicks + n1 + failures'
    <3>1. PICK c1 : c1 = t.clicks
      OBVIOUS
    <3>2. \/ IncrementShortlinkFails(r) /\ c1 = s.clicks
          \/ c1 = IF id = job[r].id THEN s.clicks + 1 ELSE s.clicks
      BY <2>1, <2>2, <3>1
    <3> QED
      BY <1>2, <2>3, <2>5, <2>7, <3>1, <3>2
  <2> QED
    BY <1>1, <2>1, <2>2, <2>4, <2>8
<1>9. ClicksInv'
  BY <1>8 DEF ClicksInv
<1> QED
  BY <1>4, <1>7, <1>9 DEF TrafficInv

\* The owner of a row asks for its deletion.
LEMMA UnlinkReceived ==
  ASSUME TrafficInv, NEW r \in Requests, NEW u \in Users, NEW s \in shortlinks,
         HandleDeleteShortlink(r, u, s)
  PROVE  TrafficInv'
<1>1. PICK j : j = [pc |-> "unlink", user |-> u, id |-> s.id, code |-> s.code]
  OBVIOUS
<1>2. /\ ~At(r, "follow") /\ job' = [job EXCEPT ![r] = j] /\ now' = now
      /\ failures' = failures /\ UNCHANGED shortVars /\ s.owner = u
  BY <1>1 DEF HandleDeleteShortlink, Receive, Arrive, Works, At
<1>3. /\ s.id \in ShortIds \ unusedIds
      /\ \A t \in shortlinks : t.id = s.id => t.owner = u
  BY <1>2 DEF TrafficInv, RowsInv, ShortRow
<1>4. "pc" \in DOMAIN j /\ j.pc # "follow" /\ KnowsShort(j)'
  BY <1>1, <1>2, <1>3 DEF KnowsShort, shortVars
<1>5. failures' \in Nat /\ failures <= failures'
  BY <1>2 DEF TrafficInv, RowsInv
<1>6. shortlinks' \subseteq shortlinks /\ UNCHANGED <<unusedIds, followed>>
  BY <1>2 DEF shortVars
<1> QED
  BY <1>2, <1>4, <1>5, <1>6, QuietJob

LEMMA ShortKeeps ==
  ASSUME TrafficInv, NEW r \in Requests, ShortStep(r),
         UNCHANGED <<visitVars, analyticsVars>>
  PROVE  TrafficInv'
<1>1. ASSUME NEW u \in Users, NEW c \in Codes, NEW hours \in {0, 1}, NEW own \in BOOLEAN,
             HandleCreateShortlink(r, u, c, hours, own) \/ LookupFails(r, u, c, hours)
      PROVE  TrafficInv'
  <2>1. /\ Arrive(r, [pc |-> "create", user |-> u, code |-> c, hours |-> hours])
        /\ Works \/ Fails
        /\ UNCHANGED shortVars
    BY <1>1 DEF HandleCreateShortlink, LookupFails, Receive
  <2>2. hours \in Nat
    OBVIOUS
  <2> QED
    BY <2>1, <2>2, CreateReceived
<1>2. ASSUME NEW id \in ShortIds, CreateShortlink(r, id) PROVE TrafficInv'
  BY <1>2, CreateStep
<1>3. CASE CreateShortlinkFails(r)
  <2>1. /\ At(r, "create") /\ Finish(r) /\ (Works \/ Fails)
        /\ shortlinks' \subseteq shortlinks /\ UNCHANGED <<unusedIds, followed>>
    BY <1>3 DEF CreateShortlinkFails, shortVars
  <2> QED
    BY <2>1, QuietEnd
<1>4. ASSUME NEW s \in shortlinks, HandleRedirectShortlink(r, s) PROVE TrafficInv'
  BY <1>4, FollowStep
<1>5. CASE IncrementShortlinkClickCount(r) \/ IncrementShortlinkFails(r)
  BY <1>5, CountClickStep
<1>6. ASSUME NEW u \in Users, NEW s \in shortlinks, HandleDeleteShortlink(r, u, s)
      PROVE  TrafficInv'
  BY <1>6, UnlinkReceived
<1>7. CASE DeleteShortlink(r)
  <2>1. /\ At(r, "unlink") /\ Finish(r) /\ (Works \/ Fails)
        /\ shortlinks' \subseteq shortlinks /\ UNCHANGED <<unusedIds, followed>>
    BY <1>7 DEF DeleteShortlink
  <2> QED
    BY <2>1, QuietEnd
<1>8. CASE ReadShortlinks(r)
  <2>1. UNCHANGED <<job, now, failures, shortVars>>
    BY <1>8 DEF ReadShortlinks
  <2>2. OthersMove
    BY <2>1 DEF OthersMove, TrafficInv, JobsInv
  <2>3. now' \in Nat /\ failures' \in Nat /\ failures <= failures' /\ UNCHANGED shortVars
    BY <2>1 DEF TrafficInv, RowsInv
  <2> QED
    BY <2>2, <2>3, OthersKeep
<1> QED
  BY <1>1, <1>2, <1>3, <1>4, <1>5, <1>6, <1>7, <1>8 DEF ShortStep

\* The process dies: whoever was to count a click is among those it takes along.
LEMMA DieKeeps ==
  ASSUME TrafficInv, Die, UNCHANGED shortVars
  PROVE  TrafficInv'
<1>1. IsFiniteSet(Busy) /\ Cardinality(Busy) \in Nat
  BY FS_Subset, FS_CardinalityType, ServingAssumption DEF Busy
<1>2. /\ job' = [q \in Requests |-> Idle] /\ failures' = failures + Cardinality(Busy)
      /\ now' = now /\ shortlinks' = shortlinks /\ unusedIds' = unusedIds /\ followed' = followed
  BY DEF Die, shortVars
<1>3. RowsInv' /\ failures \in Nat
  BY <1>1, <1>2 DEF TrafficInv, RowsInv
<1>4. JobsInv'
  BY <1>2 DEF JobsInv, KnowsShort, Idle, ShortSteps
<1>5. ASSUME NEW s \in shortlinks'
      PROVE  /\ s.clicks + Cardinality(Following(s.id)') <= followed'[s.id]
             /\ followed'[s.id] <= s.clicks + Cardinality(Following(s.id)') + failures'
  <2>1. PICK id : id = s.id
    OBVIOUS
  <2>2. s.clicks \in Nat /\ followed[id] \in Nat
    BY <1>2, <2>1 DEF TrafficInv, RowsInv, ShortRow
  <2>3. PICK n, n1, b : /\ n = Cardinality(Following(id)) /\ n1 = Cardinality(Following(id)')
                        /\ b = Cardinality(Busy)
    OBVIOUS
  <2>4. s.clicks + n <= followed[id] /\ followed[id] <= s.clicks + n + failures
    BY <1>2, <2>1, <2>3 DEF TrafficInv, ClicksInv
  <2>5. n \in Nat /\ n <= b /\ b \in Nat
    <3>1. Following(id) \subseteq Busy
      BY DEF Following, Busy, At
    <3> QED
      BY <1>1, <2>3, <3>1, FollowingCounts, FS_Subset
  <2>6. n1 = 0
    <3>1. Following(id)' = {}
      BY <1>2 DEF Following, At, Idle
    <3> QED
      BY <2>3, <3>1, FS_EmptySet
  <2>7. s.clicks + n1 <= followed[id] /\ followed[id] <= s.clicks + n1 + failures'
    BY <1>2, <1>3, <2>2, <2>3, <2>4, <2>5, <2>6
  <2> QED
    BY <1>2, <2>1, <2>3, <2>7
<1>6. ClicksInv'
  BY <1>5 DEF ClicksInv
<1> QED
  BY <1>3, <1>4, <1>6 DEF TrafficInv

LEMMA TrafficStep ==
  ASSUME TrafficInv, [Next]_vars
  PROVE  TrafficInv'
<1>0. JobsInv /\ failures \in Nat /\ now \in Nat /\ job = [r \in Requests |-> job[r]]
  BY DEF TrafficInv, RowsInv, JobsInv
<1>1. ASSUME NEW r \in Requests, ShortStep(r), UNCHANGED <<visitVars, analyticsVars>>
      PROVE  TrafficInv'
  BY <1>1, ShortKeeps
<1>2. ASSUME NEW r \in Requests, VisitStep(r) \/ AnalyticsStep(r), UNCHANGED shortVars
      PROVE  TrafficInv'
  <2>1. OthersMove /\ Counts
    BY <1>0, <1>2, VisitMoves, AnalyticsMoves
  <2> QED
    BY <1>0, <1>2, <2>1, OthersKeep DEF Counts
<1>3. CASE DeleteExpiredShortlinks
  <2>1. /\ UNCHANGED <<job, now, unusedIds, followed, failures>>
        /\ shortlinks' \subseteq shortlinks
    BY <1>3 DEF DeleteExpiredShortlinks, Works
  <2>2. \A id : Following(id)' = Following(id)
    BY <2>1 DEF Following, At
  <2>3. RowsInv' /\ RowsStay /\ ClicksInv'
    BY <1>0, <2>1, <2>2, RowsGoAway DEF TrafficInv
  <2>4. JobsInv'
    <3>1. ASSUME NEW q \in Requests PROVE "pc" \in DOMAIN job'[q] /\ KnowsShort(job[q])'
      <4>1. PICK k : k = job[q]
        OBVIOUS
      <4>2. "pc" \in DOMAIN k /\ KnowsShort(k)
        BY <1>0, <4>1 DEF JobsInv
      <4>3. KnowsShort(k)'
        BY <2>3, <4>2, KnowsStill
      <4> QED
        BY <2>1, <4>1, <4>2, <4>3 DEF KnowsShort
    <3> QED
      BY <1>0, <2>1, <3>1 DEF JobsInv
  <2> QED
    BY <2>3, <2>4 DEF TrafficInv
<1>4. ASSUME UNCHANGED <<job, failures, shortVars>>, now' = now \/ now' = now + 1
      PROVE  TrafficInv'
  <2>1. OthersMove
    BY <1>0, <1>4 DEF OthersMove
  <2>2. now' \in Nat /\ failures' \in Nat /\ failures <= failures' /\ UNCHANGED shortVars
    BY <1>0, <1>4
  <2> QED
    BY <2>1, <2>2, OthersKeep
<1>5. ASSUME NEW h, AggregateHourly(h), UNCHANGED shortVars PROVE TrafficInv'
  <2>1. UNCHANGED <<job, failures, shortVars>> /\ now' = now
    BY <1>5 DEF AggregateHourly
  <2> QED
    BY <1>4, <2>1
<1>6. CASE Tick /\ UNCHANGED shortVars
  BY <1>4, <1>6 DEF Tick
<1>7. CASE Die /\ UNCHANGED shortVars
  BY <1>7, DieKeeps
<1>8. CASE UNCHANGED vars
  BY <1>4, <1>8 DEF vars
<1>9. ASSUME NEW l, DropLink(l), UNCHANGED shortVars PROVE TrafficInv'
  <2>1. UNCHANGED <<job, failures, shortVars>> /\ now' = now
    BY <1>9 DEF DropLink, Works
  <2> QED
    BY <1>4, <2>1
<1> QED
  BY <1>1, <1>2, <1>3, <1>5, <1>6, <1>7, <1>8, <1>9 DEF Next

LEMMA TrafficInitially == Init => TrafficInv
<1> SUFFICES ASSUME Init PROVE TrafficInv
  OBVIOUS
<1>1. PICK id \in ShortIds, c \in Codes, u \in Users, e \in {0, Never} :
        /\ shortlinks = {[id |-> id, code |-> c, owner |-> u, expires |-> e, clicks |-> 0]}
        /\ unusedIds = ShortIds \ {id}
  BY DEF Init, ShortInit
<1>2. /\ job = [r \in Requests |-> Idle] /\ now = 0 /\ failures = 0
      /\ followed = [x \in ShortIds |-> 0]
  BY DEF Init, ServingInit, ShortInit
<1>3. RowsInv
  BY <1>1, <1>2 DEF RowsInv, ShortRow
<1>4. JobsInv
  BY <1>2 DEF JobsInv, KnowsShort, Idle, ShortSteps
<1>5. ASSUME NEW s \in shortlinks
      PROVE  /\ s.clicks + Cardinality(Following(s.id)) <= followed[s.id]
             /\ followed[s.id] <= s.clicks + Cardinality(Following(s.id)) + failures
  <2>1. s.clicks = 0 /\ s.id = id
    BY <1>1
  <2>2. Following(id) = {}
    BY <1>2 DEF Following, At, Idle
  <2>3. Cardinality(Following(s.id)) = 0
    BY <2>1, <2>2, FS_EmptySet
  <2> QED
    BY <1>2, <2>1, <2>3
<1>6. ClicksInv
  BY <1>5 DEF ClicksInv
<1> QED
  BY <1>3, <1>4, <1>6 DEF TrafficInv

LEMMA AlwaysTrafficInv == Spec => []TrafficInv
  BY TrafficInitially, TrafficStep, PTL DEF Spec

\* The rows of the short links keep their types, and an id is taken once.
THEOREM ShortTypes == Spec => []RowsInv
<1>1. TrafficInv => RowsInv
  BY DEF TrafficInv
<1> QED
  BY <1>1, AlwaysTrafficInv, PTL

\* A short link's clicks are the visitors it sent on, but for those under way and
\* those whose statement failed or died; never those of another link that got its
\* code (HandleRedirectShortlink, IncrementShortlinkClickCount).
THEOREM ClicksCountFollowers == Spec => []ClicksAreFollowers
<1>1. TrafficInv => ClicksAreFollowers
  BY DEF TrafficInv, ClicksInv, ClicksAreFollowers, Following
<1> QED
  BY <1>1, AlwaysTrafficInv, PTL

\* A row that goes has expired, or its owner's request deletes it.
Authorized ==
  \A s \in shortlinks :
    (\A t \in shortlinks' : t.id # s.id) =>
      Expired(s) \/ \E r \in Requests : At(r, "unlink") /\ job[r].id = s.id
                                          /\ job[r].user = s.owner

LEMMA OwnersDelete ==
  ASSUME TrafficInv, [Next]_vars
  PROVE  [Authorized]_shortlinks
<1> SUFFICES ASSUME shortlinks' # shortlinks, NEW s \in shortlinks,
                    \A t \in shortlinks' : t.id # s.id
             PROVE  Expired(s) \/ \E r \in Requests : At(r, "unlink") /\ job[r].id = s.id
                                                        /\ job[r].user = s.owner
  BY DEF Authorized
<1>1. ASSUME NEW r \in Requests, DeleteShortlink(r)
      PROVE  At(r, "unlink") /\ job[r].id = s.id /\ job[r].user = s.owner
  <2>1. At(r, "unlink") /\ shortlinks' = shortlinks \ {t \in shortlinks : t.id = job[r].id}
    BY <1>1 DEF DeleteShortlink, DeletedRow
  <2>2. job[r].id = s.id
    BY <2>1
  <2> QED
    BY <2>1, <2>2 DEF At, TrafficInv, JobsInv, KnowsShort
<1>2. ASSUME NEW r \in Requests, IncrementShortlinkClickCount(r) PROVE FALSE
  <2>1. PICK t : t = IF s \in ClickedRow(job[r]) THEN [s EXCEPT !.clicks = @ + 1] ELSE s
    OBVIOUS
  <2>2. t \in shortlinks'
    BY <1>2, <2>1 DEF IncrementShortlinkClickCount
  <2>3. s \in ShortRow
    BY DEF TrafficInv, RowsInv
  <2>4. t.id = s.id
    BY <2>1, <2>3 DEF ShortRow
  <2> QED
    BY <2>2, <2>4
<1>3. ASSUME NEW r \in Requests, NEW id, CreateShortlink(r, id) PROVE FALSE
  BY <1>3 DEF CreateShortlink
<1>4. CASE DeleteExpiredShortlinks
  BY <1>4 DEF DeleteExpiredShortlinks
<1>5. ASSUME NEW r \in Requests, ShortStep(r)
      PROVE  \/ DeleteShortlink(r)
             \/ IncrementShortlinkClickCount(r)
             \/ \E id : CreateShortlink(r, id)
  BY <1>5 DEF ShortStep, HandleCreateShortlink, LookupFails, CreateShortlinkFails,
              HandleRedirectShortlink, IncrementShortlinkFails, HandleDeleteShortlink,
              ReadShortlinks, shortVars
<1> QED
  BY <1>1, <1>2, <1>3, <1>4, <1>5 DEF Next, vars, shortVars

\* A short link goes when it has expired or its own owner deletes it, even if an
\* earlier link of the same code is deleted a second time meanwhile.
THEOREM OwnersDeleteShortlinks == Spec => OnlyOwnersDelete
<1>1. TrafficInv /\ [Next]_vars => [Authorized]_shortlinks
  BY OwnersDelete
<1>2. Spec => [][Authorized]_shortlinks
  BY <1>1, AlwaysTrafficInv, PTL DEF Spec
<1> QED
  BY <1>2 DEF OnlyOwnersDelete, Authorized

----------------------------------------------------------------------------
(***************************************************************************)
(* What it means to count the elements of a bag, a query's result.         *)
(***************************************************************************)

\* Each nonempty set of natural numbers has a least element: a property fails
\* nowhere if no set has a least one for which it fails.
LEMMA LeastNatural ==
  ASSUME NEW T \in SUBSET Nat, T # {}
  PROVE  \E n \in T : \A m \in T : n <= m
<1>1. IsWellFoundedOn(OpToRel(<, Nat), Nat)
  BY NatLessThanWellFounded
<1>2. PICK R : R = OpToRel(<, Nat)
  OBVIOUS
<1>3. PICK n \in T : \A m \in T : <<m, n>> \notin R
  BY <1>1, <1>2, WFMin
<1>4. \A m, n2 \in Nat : m < n2 => <<m, n2>> \in R
  BY <1>2 DEF OpToRel
<1>5. \A m \in T : ~(m < n)
  BY <1>3, <1>4
<1>6. \A m \in T : n <= m
  BY <1>5
<1> QED
  BY <1>6

\* A set that has 0, and the successor of each of its members, is all of Nat.
LEMMA Induction ==
  ASSUME NEW T, 0 \in T, \A n \in Nat : n \in T => n + 1 \in T
  PROVE  Nat \subseteq T
<1> SUFFICES ASSUME Nat \ T # {} PROVE FALSE
  OBVIOUS
<1>1. PICK n \in Nat \ T : \A m \in Nat \ T : n <= m
  BY LeastNatural
<1>2. n # 0 /\ n - 1 \in Nat
  BY <1>1
<1>3. n - 1 \in T
  BY <1>1, <1>2
<1> QED
  BY <1>1, <1>2, <1>3

Elt(S) == CHOOSE e \in S : TRUE

LEMMA EltIn == ASSUME NEW S, S # {} PROVE Elt(S) \in S
  BY DEF Elt

\* s gives, for each set of U, the sum of f over it.
Sums(f, U, s) ==
  s = [S \in U |-> IF S = {} THEN 0 ELSE f[Elt(S)] + s[S \ {Elt(S)}]]

\* The sets of at most n elements.
Small(D, n) == {S \in SUBSET D : Cardinality(S) <= n}

LEMMA SmallSets ==
  ASSUME NEW D, IsFiniteSet(D), NEW S \in SUBSET D
  PROVE  /\ IsFiniteSet(S) /\ Cardinality(S) \in Nat
         /\ Cardinality(S) = 0 <=> S = {}
         /\ \A x \in S : Cardinality(S \ {x}) = Cardinality(S) - 1
  BY FS_Subset, FS_CardinalityType, FS_EmptySet, FS_RemoveElement

LEMMA SumsOfSmall ==
  ASSUME NEW f, NEW D, IsFiniteSet(D), NEW n \in Nat
  PROVE  \E s : Sums(f, Small(D, n), s)
<1> DEFINE T == {m \in Nat : \E s : Sums(f, Small(D, m), s)}
<1>1. 0 \in T
  <2>1. PICK s : s = [S \in Small(D, 0) |-> 0]
    OBVIOUS
  <2>2. \A S \in Small(D, 0) : S = {}
    BY SmallSets DEF Small
  <2>3. Sums(f, Small(D, 0), s)
    BY <2>1, <2>2 DEF Sums
  <2> QED
    BY <2>3
<1>2. ASSUME NEW m \in Nat, m \in T PROVE m + 1 \in T
  <2>1. PICK s : Sums(f, Small(D, m), s)
    BY <1>2
  <2>2. PICK t : t = [S \in Small(D, m + 1) |->
                        IF S = {} THEN 0 ELSE f[Elt(S)] + s[S \ {Elt(S)}]]
    OBVIOUS
  <2>3. \A S \in Small(D, m) : S \in Small(D, m + 1) /\ s[S] = t[S]
    <3>1. ASSUME NEW S \in Small(D, m) PROVE S \in Small(D, m + 1)
      BY SmallSets DEF Small
    <3> QED
      BY <2>1, <2>2, <3>1 DEF Sums
  <2>4. ASSUME NEW S \in Small(D, m + 1), S # {} PROVE s[S \ {Elt(S)}] = t[S \ {Elt(S)}]
    <3>1. S \ {Elt(S)} \in Small(D, m)
      BY <2>4, EltIn, SmallSets DEF Small
    <3> QED
      BY <2>3, <3>1
  <2>5. t = [S \in Small(D, m + 1) |-> IF S = {} THEN 0 ELSE f[Elt(S)] + t[S \ {Elt(S)}]]
    BY <2>2, <2>4
  <2>6. Sums(f, Small(D, m + 1), t)
    BY <2>5 DEF Sums
  <2> QED
    BY <2>6
<1>3. Nat \subseteq T
  BY <1>1, <1>2, Induction
<1> QED
  BY <1>3

LEMMA SumsExist ==
  ASSUME NEW f, NEW D, IsFiniteSet(D)
  PROVE  \E s : Sums(f, SUBSET D, s)
<1>1. PICK n : n = Cardinality(D) /\ n \in Nat
  BY FS_CardinalityType
<1>2. Small(D, n) = SUBSET D
  BY <1>1, FS_Subset DEF Small
<1>3. PICK s : Sums(f, Small(D, n), s)
  BY <1>1, SumsOfSmall
<1>4. Sums(f, SUBSET D, s)
  BY <1>2, <1>3
<1> QED
  BY <1>4

\* The sum of the counts of bag B over the set S.
SumOf(B) == CHOOSE s : Sums(B, SUBSET DOMAIN B, s)

Count(B, S) == SumOf(B)[S]

IsBag(B) == IsFiniteSet(DOMAIN B) /\ \A e \in DOMAIN B : B[e] \in Nat \ {0}

LEMMA CountSteps ==
  ASSUME NEW B, IsBag(B), NEW S \in SUBSET DOMAIN B
  PROVE  Count(B, S) = IF S = {} THEN 0 ELSE B[Elt(S)] + Count(B, S \ {Elt(S)})
<1>1. Sums(B, SUBSET DOMAIN B, SumOf(B))
  BY SumsExist DEF SumOf, IsBag
<1> QED
  BY <1>1 DEF Sums, Count

LEMMA CountIsNat ==
  ASSUME NEW B, IsBag(B), NEW S \in SUBSET DOMAIN B
  PROVE  Count(B, S) \in Nat
<1> DEFINE T == {n \in Nat : \A X \in SUBSET DOMAIN B :
                              Cardinality(X) = n => Count(B, X) \in Nat}
<1>1. 0 \in T
  <2>1. ASSUME NEW X \in SUBSET DOMAIN B, Cardinality(X) = 0 PROVE Count(B, X) \in Nat
    <3>1. X = {}
      BY <2>1, SmallSets DEF IsBag
    <3> QED
      BY <3>1, CountSteps
  <2> QED
    BY <2>1
<1>2. ASSUME NEW n \in Nat, n \in T PROVE n + 1 \in T
  <2>1. ASSUME NEW X \in SUBSET DOMAIN B, Cardinality(X) = n + 1 PROVE Count(B, X) \in Nat
    <3>1. X # {}
      BY <2>1, FS_EmptySet
    <3>2. Elt(X) \in X /\ B[Elt(X)] \in Nat
      BY <3>1, EltIn DEF IsBag
    <3>3. Cardinality(X \ {Elt(X)}) = n
      BY <2>1, <3>2, SmallSets DEF IsBag
    <3>4. Count(B, X \ {Elt(X)}) \in Nat
      BY <1>2, <3>3
    <3> QED
      BY <3>1, <3>2, <3>4, CountSteps
  <2> QED
    BY <2>1
<1>3. Nat \subseteq T
  BY <1>1, <1>2, Induction
<1>4. Cardinality(S) \in Nat
  BY SmallSets DEF IsBag
<1> QED
  BY <1>3, <1>4

\* Whichever element is counted first.
LEMMA CountOne ==
  ASSUME NEW B, IsBag(B), NEW S \in SUBSET DOMAIN B, NEW x \in S
  PROVE  Count(B, S) = B[x] + Count(B, S \ {x})
<1> DEFINE T == {n \in Nat : \A X \in SUBSET DOMAIN B : \A y \in X :
                   Cardinality(X) = n => Count(B, X) = B[y] + Count(B, X \ {y})}
<1>1. 0 \in T
  BY SmallSets DEF IsBag
<1>2. ASSUME NEW n \in Nat, n \in T PROVE n + 1 \in T
  <2>1. ASSUME NEW X \in SUBSET DOMAIN B, NEW y \in X, Cardinality(X) = n + 1
        PROVE  Count(B, X) = B[y] + Count(B, X \ {y})
    <3>1. PICK e : e = Elt(X)
      OBVIOUS
    <3>2. e \in X /\ Count(B, X) = B[e] + Count(B, X \ {e})
      BY <3>1, EltIn, CountSteps
    <3>3. CASE e = y
      BY <3>2, <3>3
    <3>4. CASE e # y
      <4>1. Cardinality(X \ {e}) = n /\ Cardinality(X \ {y}) = n
        BY <2>1, <3>2, SmallSets DEF IsBag
      <4>2. Count(B, X \ {e}) = B[y] + Count(B, (X \ {e}) \ {y})
        BY <1>2, <3>2, <3>4, <4>1
      <4>3. Count(B, X \ {y}) = B[e] + Count(B, (X \ {y}) \ {e})
        BY <1>2, <3>2, <3>4, <4>1
      <4>4. (X \ {e}) \ {y} = (X \ {y}) \ {e}
        OBVIOUS
      <4>5. PICK c : c = Count(B, (X \ {e}) \ {y})
        OBVIOUS
      <4>6. c \in Nat /\ B[e] \in Nat /\ B[y] \in Nat
        BY <3>2, <4>5, CountIsNat DEF IsBag
      <4>7. Count(B, X) = B[e] + (B[y] + c) /\ Count(B, X \ {y}) = B[e] + c
        BY <3>2, <4>2, <4>3, <4>4, <4>5
      <4> QED
        BY <4>6, <4>7
    <3> QED
      BY <3>3, <3>4
  <2> QED
    BY <2>1
<1>3. Nat \subseteq T
  BY <1>1, <1>2, Induction
<1>4. Cardinality(S) \in Nat
  BY SmallSets DEF IsBag
<1> QED
  BY <1>3, <1>4

LEMMA CountEmpty == ASSUME NEW B, IsBag(B) PROVE Count(B, {}) = 0
  BY CountSteps

\* Bags that agree on S count it alike.
LEMMA SameCount ==
  ASSUME NEW B, NEW C, IsBag(B), IsBag(C), NEW S \in SUBSET DOMAIN B, S \subseteq DOMAIN C,
         \A e \in S : B[e] = C[e]
  PROVE  Count(B, S) = Count(C, S)
<1> DEFINE T == {n \in Nat : \A X \in SUBSET S : Cardinality(X) = n => Count(B, X) = Count(C, X)}
<1>1. 0 \in T
  <2>1. ASSUME NEW X \in SUBSET S, Cardinality(X) = 0 PROVE Count(B, X) = Count(C, X)
    <3>1. X = {}
      BY <2>1, SmallSets DEF IsBag
    <3> QED
      BY <3>1, CountEmpty
  <2> QED
    BY <2>1
<1>2. ASSUME NEW n \in Nat, n \in T PROVE n + 1 \in T
  <2>1. ASSUME NEW X \in SUBSET S, Cardinality(X) = n + 1 PROVE Count(B, X) = Count(C, X)
    <3>1. PICK e : e = Elt(X)
      OBVIOUS
    <3>2. X # {}
      BY <2>1, FS_EmptySet
    <3>3. e \in X
      BY <3>1, <3>2, EltIn
    <3>4. Cardinality(X \ {e}) = n
      BY <2>1, <3>3, SmallSets DEF IsBag
    <3>5. Count(B, X \ {e}) = Count(C, X \ {e})
      BY <1>2, <3>4
    <3>6. Count(B, X) = B[e] + Count(B, X \ {e})
      BY <3>3, CountOne
    <3>7. Count(C, X) = C[e] + Count(C, X \ {e})
      BY <3>3, CountOne
    <3> QED
      BY <3>3, <3>5, <3>6, <3>7
  <2> QED
    BY <2>1
<1>3. Nat \subseteq T
  BY <1>1, <1>2, Induction
<1>4. Cardinality(S) \in Nat
  BY SmallSets DEF IsBag
<1> QED
  BY <1>3, <1>4

\* Two parts that have nothing in common.
LEMMA CountParts ==
  ASSUME NEW B, IsBag(B), NEW P \in SUBSET DOMAIN B, NEW S \in SUBSET DOMAIN B, P \cap S = {}
  PROVE  Count(B, P \cup S) = Count(B, P) + Count(B, S)
<1> DEFINE T == {n \in Nat : \A X \in SUBSET S : Cardinality(X) = n =>
                   Count(B, P \cup X) = Count(B, P) + Count(B, X)}
<1>1. 0 \in T
  <2>1. ASSUME NEW X \in SUBSET S, Cardinality(X) = 0
        PROVE  Count(B, P \cup X) = Count(B, P) + Count(B, X)
    <3>1. X = {} /\ P \cup X = P
      BY <2>1, SmallSets DEF IsBag
    <3>2. Count(B, X) = 0 /\ Count(B, P) \in Nat
      BY <3>1, CountEmpty, CountIsNat
    <3> QED
      BY <3>1, <3>2
  <2> QED
    BY <2>1
<1>2. ASSUME NEW n \in Nat, n \in T PROVE n + 1 \in T
  <2>1. ASSUME NEW X \in SUBSET S, Cardinality(X) = n + 1
        PROVE  Count(B, P \cup X) = Count(B, P) + Count(B, X)
    <3>1. PICK e \in X : TRUE
      BY <2>1, FS_EmptySet
    <3>2. Cardinality(X \ {e}) = n
      BY <2>1, SmallSets DEF IsBag
    <3>3. Count(B, P \cup (X \ {e})) = Count(B, P) + Count(B, X \ {e})
      BY <1>2, <3>2
    <3>4. Count(B, X) = B[e] + Count(B, X \ {e})
      BY CountOne
    <3>5. Count(B, P \cup X) = B[e] + Count(B, (P \cup X) \ {e})
      BY CountOne
    <3>6. (P \cup X) \ {e} = P \cup (X \ {e})
      OBVIOUS
    <3>7. PICK p, x : p = Count(B, P) /\ x = Count(B, X \ {e})
      OBVIOUS
    <3>8. p \in Nat /\ x \in Nat /\ B[e] \in Nat
      BY <3>7, CountIsNat DEF IsBag
    <3>9. Count(B, P \cup X) = B[e] + (p + x) /\ Count(B, X) = B[e] + x
      BY <3>3, <3>4, <3>5, <3>6, <3>7
    <3> QED
      BY <3>7, <3>8, <3>9
  <2> QED
    BY <2>1
<1>3. Nat \subseteq T
  BY <1>1, <1>2, Induction
<1>4. Cardinality(S) \in Nat
  BY SmallSets DEF IsBag
<1> QED
  BY <1>3, <1>4

LEMMA CountLess ==
  ASSUME NEW B, IsBag(B), NEW S \in SUBSET DOMAIN B, NEW R \in SUBSET S
  PROVE  Count(B, R) <= Count(B, S)
<1>1. R \cup (S \ R) = S
  OBVIOUS
<1>2. Count(B, S) = Count(B, R) + Count(B, S \ R)
  BY <1>1, CountParts
<1>3. Count(B, R) \in Nat /\ Count(B, S \ R) \in Nat
  BY CountIsNat
<1> QED
  BY <1>2, <1>3

\* Each member counts at least once.
LEMMA MembersCount ==
  ASSUME NEW B, IsBag(B), NEW S \in SUBSET DOMAIN B
  PROVE  Cardinality(S) <= Count(B, S)
<1> DEFINE T == {n \in Nat : \A X \in SUBSET S : Cardinality(X) = n => n <= Count(B, X)}
<1>1. 0 \in T
  <2>1. ASSUME NEW X \in SUBSET S PROVE 0 <= Count(B, X)
    <3>1. Count(B, X) \in Nat
      BY CountIsNat
    <3> QED
      BY <3>1
  <2> QED
    BY <2>1
<1>2. ASSUME NEW n \in Nat, n \in T PROVE n + 1 \in T
  <2>1. ASSUME NEW X \in SUBSET S, Cardinality(X) = n + 1 PROVE n + 1 <= Count(B, X)
    <3>1. PICK e \in X : TRUE
      BY <2>1, FS_EmptySet
    <3>2. Cardinality(X \ {e}) = n
      BY <2>1, SmallSets DEF IsBag
    <3>3. n <= Count(B, X \ {e})
      BY <1>2, <3>2
    <3>4. Count(B, X) = B[e] + Count(B, X \ {e})
      BY CountOne
    <3>5. Count(B, X \ {e}) \in Nat /\ B[e] \in Nat \ {0}
      BY CountIsNat DEF IsBag
    <3> QED
      BY <3>3, <3>4, <3>5
  <2> QED
    BY <2>1
<1>3. Nat \subseteq T
  BY <1>1, <1>2, Induction
<1>4. Cardinality(S) \in Nat
  BY SmallSets DEF IsBag
<1> QED
  BY <1>3, <1>4

\* What BagCardinality means.
LEMMA BagSum == ASSUME NEW B PROVE BagCardinality(B) = Count(B, DOMAIN B)
<1>1. BagCardinality(B) =
        LET DSum == CHOOSE DSum : DSum = [S \in SUBSET DOMAIN B |->
                      LET elt == CHOOSE e \in S : TRUE
                      IN  IF S = {} THEN 0 ELSE B[elt] + DSum[S \ {elt}]]
        IN DSum[DOMAIN B]
  BY DEF BagCardinality
<1> QED
  BY <1>1 DEF Count, SumOf, Sums, Elt

LEMMA PartCount ==
  ASSUME NEW B, IsBag(B), NEW S \in SUBSET DOMAIN B
  PROVE  BagCardinality([e \in S |-> B[e]]) = Count(B, S)
<1>1. PICK C : C = [e \in S |-> B[e]]
  OBVIOUS
<1>2. IsBag(C) /\ DOMAIN C = S /\ \A e \in S : C[e] = B[e]
  BY <1>1, SmallSets DEF IsBag
<1>3. Count(C, S) = Count(B, S)
  BY <1>2, SameCount
<1> QED
  BY <1>1, <1>2, <1>3, BagSum

----------------------------------------------------------------------------
(***************************************************************************)
(* Counters, events, reports and hourly rows.                              *)
(***************************************************************************)
Devices == {"mobile", "tablet", "desktop"}

\* The counters, the log and the hours have their types.
EventsInv ==
  /\ now \in Times /\ failures \in Nat /\ cleaned \in Nat
  /\ viewCount \in Nat /\ tracked \in [Subjects -> Nat]
  /\ DOMAIN clickCount \subseteq Links /\ \A l \in DOMAIN clickCount : clickCount[l] \in Nat
  /\ hourly = [h \in Hours |-> hourly[h]]
  /\ IsBag(events) /\ IsBag(sessions)
  /\ \A e \in DOMAIN events : e.link \in Subjects /\ e.at \in Times /\ e.device \in Devices

SummarySteps == {"durations", "devices", "links", "summary"}

ReportSteps == {"visitors", "report"} \cup SummarySteps

\* The columns that a report needs at the step it stands at.
Columns(pc) ==
  CASE pc = "visitors" -> {"times", "views"}
    [] pc = "report" -> {"views", "visitors"}
    [] pc \in {"durations", "devices", "links"} -> {"times", "total", "clicks"}
    [] pc = "summary" -> {"total", "clicks", "whole"}
    [] OTHER -> {}

\* What a job about visits and reports knows.
KnowsEvent(j) ==
  /\ "drift" \in DOMAIN j <=> j.pc \in ReportSteps
  /\ j.pc \in ReportSteps => j.drift \in Nat /\ Columns(j.pc) \subseteq DOMAIN j
  /\ j.pc \in {"count", "track", "insert", "link report"} => j.link \in Subjects
  /\ j.pc \in {"track", "insert"} => j.at \in 0..now
  /\ j.pc = "purge" => j.before \in Nat
  /\ j.pc \in {"visitors", "report"} => j.views \in Nat
  /\ j.pc = "report" => j.visitors \in Nat
  /\ j.pc \in SummarySteps => j.total \in Int /\ j.clicks \in Int
  /\ j.pc = "link report" => j.total \in Nat /\ j.recent \in Nat

\* m and n differ by no more than d.
Near(m, n, d) == m <= n + d /\ n <= m + d

\* What a report has counted, but for its drift.
IsRight(j) ==
  /\ j.pc = "visitors" => CountOf({NoLink}, j.times) <= j.views + j.drift
  /\ j.pc = "report" => j.visitors <= j.views + j.drift
  /\ j.pc \in {"durations", "devices"} => Near(j.total, CountOf(Subjects, j.times), j.drift)
  /\ j.pc \in {"durations", "devices", "links"} =>
       Near(j.clicks, CountOf(Links, j.times), j.drift)
  /\ j.pc \in {"links", "summary"} => j.total <= j.drift /\ 0 <= j.total + j.drift
  /\ j.pc = "summary" => 0 <= j.clicks + j.drift /\ (j.whole => j.clicks <= j.drift)
  /\ j.pc = "link report" => j.recent <= j.total + tracked[j.link] + failures

EventJobs ==
  /\ job = [r \in Requests |-> job[r]]
  /\ \A r \in Requests : "pc" \in DOMAIN job[r] /\ KnowsEvent(job[r]) /\ IsRight(job[r])

Tracking(s) == {r \in Requests : At(r, "track") /\ job[r].link = s}

Counter(s) == tracked[s] + (IF s = NoLink THEN viewCount ELSE clickCount[s])

Logged(s) == CountOf({s}, Times)

UnderWay(s) == Cardinality(Tracking(s))

\* The profile, and the links that are there.
Present == {NoLink} \cup DOMAIN clickCount

CountersInv ==
  \A s \in Present :
    /\ Logged(s) + UnderWay(s) <= Counter(s) + failures
    /\ cleaned > 0 \/ Counter(s) <= Logged(s) + UnderWay(s) + failures

Exact(row, times) ==
  /\ row.views = CountOf({NoLink}, times)
  /\ row.clicks = CountOf(Links, times)
  /\ row.visitors = DistinctOf({NoLink}, times)

\* A row that is sure: its hour is over, nobody is about to add to it, and until
\* its events are deleted it counts them.
SureOf(row, times) ==
  /\ \A t \in times : t < now
  /\ ~Pending(times)
  /\ (\A t \in times : t >= cleaned) => Exact(row, times)

HourlyInv == \A h \in Hours : hourly[h] # NoRow /\ hourly[h].sure => SureOf(hourly[h], Hour(h))

CountInv == EventsInv /\ EventJobs /\ CountersInv /\ HourlyInv

----------------------------------------------------------------------------
\* What the queries count.
LEMMA QueryCounts ==
  ASSUME IsBag(events), NEW L, NEW times
  PROVE  /\ Within(L, times) \in SUBSET DOMAIN events
         /\ CountOf(L, times) = Count(events, Within(L, times))
         /\ CountOf(L, times) \in Nat
<1>1. Within(L, times) \in SUBSET DOMAIN events
  BY DEF Within, BagToSet
<1>2. PICK S : S = Within(L, times)
  OBVIOUS
<1>3. CountOf(L, times) = BagCardinality([e \in S |-> events[e]])
  BY <1>2 DEF CountOf
<1> QED
  BY <1>1, <1>2, <1>3, PartCount, CountIsNat

LEMMA QueryCountsNext ==
  ASSUME IsBag(events)', NEW L, NEW times
  PROVE  /\ Within(L, times)' \in SUBSET DOMAIN events'
         /\ CountOf(L, times)' = Count(events', Within(L, times)')
         /\ CountOf(L, times)' \in Nat
<1>0. IsBag(events')
  BY DEF IsBag
<1>1. Within(L, times)' \in SUBSET DOMAIN events'
  BY DEF Within, BagToSet
<1>2. PICK S : S = Within(L, times)'
  OBVIOUS
<1>3. CountOf(L, times)' = BagCardinality([e \in S |-> events'[e]])
  BY <1>2 DEF CountOf
<1> QED
  BY <1>0, <1>1, <1>2, <1>3, PartCount, CountIsNat

\* A query that selects more counts no less.
LEMMA CountMore ==
  ASSUME IsBag(events), NEW K, NEW L, K \subseteq L, NEW times, NEW more, times \subseteq more
  PROVE  CountOf(K, times) <= CountOf(L, more)
<1>1. PICK R, S : R = Within(K, times) /\ S = Within(L, more)
  OBVIOUS
<1>2. R \subseteq S
  BY <1>1 DEF Within
<1>3. S \in SUBSET DOMAIN events /\ CountOf(K, times) = Count(events, R)
      /\ CountOf(L, more) = Count(events, S)
  BY <1>1, QueryCounts
<1> QED
  BY <1>2, <1>3, CountLess

\* C is B with one x more.
HasOneMore(B, x, C) ==
  /\ IsBag(C) /\ DOMAIN C = DOMAIN B \cup {x}
  /\ \A e \in DOMAIN B : e # x => C[e] = B[e]
  /\ C[x] = IF x \in DOMAIN B THEN B[x] + 1 ELSE 1

LEMMA OneMore ==
  ASSUME NEW B, IsBag(B), NEW x, NEW C, C = B (+) SetToBag({x})
  PROVE  HasOneMore(B, x, C)
<1>1. PICK U : U = SetToBag({x})
  OBVIOUS
<1>2. DOMAIN U = {x} /\ U[x] = 1
  BY <1>1 DEF SetToBag
<1>3. C = [e \in DOMAIN B \cup DOMAIN U |->
             (IF e \in DOMAIN B THEN B[e] ELSE 0) + (IF e \in DOMAIN U THEN U[e] ELSE 0)]
  BY <1>1 DEF (+)
<1>4. DOMAIN C = DOMAIN B \cup {x}
  BY <1>2, <1>3
<1>5. ASSUME NEW e \in DOMAIN B, e # x PROVE C[e] = B[e]
  <2>1. C[e] = B[e] + 0
    BY <1>2, <1>3, <1>5
  <2>2. B[e] \in Nat
    BY DEF IsBag
  <2> QED
    BY <2>1, <2>2
<1>6. C[x] = IF x \in DOMAIN B THEN B[x] + 1 ELSE 1
  BY <1>2, <1>3
<1>7. IsFiniteSet(DOMAIN C)
  BY <1>4, FS_AddElement DEF IsBag
<1>8. ASSUME NEW e \in DOMAIN C PROVE C[e] \in Nat \ {0}
  <2>1. CASE e = x
    BY <1>6, <2>1 DEF IsBag
  <2>2. CASE e # x
    BY <1>4, <1>5, <2>2 DEF IsBag
  <2> QED
    BY <2>1, <2>2
<1> QED
  BY <1>4, <1>5, <1>6, <1>7, <1>8 DEF IsBag, HasOneMore

LEMMA CountOneMore ==
  ASSUME NEW B, IsBag(B), NEW x, NEW C, HasOneMore(B, x, C), NEW S \in SUBSET DOMAIN C
  PROVE  Count(C, S) = Count(B, S \cap DOMAIN B) + (IF x \in S THEN 1 ELSE 0)
<1>1. /\ IsBag(C) /\ DOMAIN C = DOMAIN B \cup {x}
      /\ \A e \in DOMAIN B : e # x => C[e] = B[e]
      /\ C[x] = IF x \in DOMAIN B THEN B[x] + 1 ELSE 1
  BY DEF HasOneMore
<1>2. PICK R : R = S \ {x}
  OBVIOUS
<1>3. R \in SUBSET DOMAIN B /\ R \in SUBSET DOMAIN C /\ \A e \in R : C[e] = B[e]
  BY <1>1, <1>2
<1>4. Count(C, R) = Count(B, R) /\ Count(B, R) \in Nat
  BY <1>1, <1>3, SameCount, CountIsNat
<1>5. CASE x \notin S
  <2>1. S = R /\ S \cap DOMAIN B = R
    BY <1>1, <1>2, <1>5
  <2> QED
    BY <1>4, <1>5, <2>1
<1>6. CASE x \in S
  <2>1. Count(C, S) = C[x] + Count(C, R)
    <3>1. Count(C, S) = C[x] + Count(C, S \ {x})
      BY <1>1, <1>6, CountOne
    <3> QED
      BY <1>2, <3>1
  <2>2. CASE x \in DOMAIN B
    <3>1. x \in S \cap DOMAIN B /\ (S \cap DOMAIN B) \ {x} = R
      BY <1>1, <1>2, <1>6, <2>2
    <3>2. Count(B, S \cap DOMAIN B) = B[x] + Count(B, R)
      BY <3>1, CountOne
    <3>3. B[x] \in Nat
      BY <2>2 DEF IsBag
    <3> QED
      BY <1>1, <1>4, <1>6, <2>1, <2>2, <3>2, <3>3
  <2>3. CASE x \notin DOMAIN B
    <3>1. S \cap DOMAIN B = R
      BY <1>1, <1>2, <2>3
    <3> QED
      BY <1>1, <1>4, <1>6, <2>1, <2>3, <3>1
  <2> QED
    BY <2>2, <2>3
<1> QED
  BY <1>5, <1>6

----------------------------------------------------------------------------
\* An event is stored: each query that selects it counts one more.
LEMMA StoreCounts ==
  ASSUME IsBag(events), NEW x, events' = events (+) SetToBag({x}), NEW L, NEW times
  PROVE  /\ IsBag(events)' /\ DOMAIN events' = DOMAIN events \cup {x}
         /\ CountOf(L, times)' =
              CountOf(L, times) + (IF x.link \in L /\ x.at \in times THEN 1 ELSE 0)
         /\ ~(x.link \in L /\ x.at \in times) => DistinctOf(L, times)' = DistinctOf(L, times)
<1>1. PICK C : C = events'
  OBVIOUS
<1>2. HasOneMore(events, x, C)
  BY <1>1, OneMore
<1>3. IsBag(C) /\ DOMAIN C = DOMAIN events \cup {x}
  BY <1>2 DEF HasOneMore
<1>4. IsBag(events)'
  BY <1>1, <1>3 DEF IsBag
<1>5. PICK S, T : S = Within(L, times) /\ T = Within(L, times)'
  OBVIOUS
<1>6. S = {e \in DOMAIN events : e.link \in L /\ e.at \in times}
  BY <1>5 DEF Within, BagToSet
<1>7. T = {e \in DOMAIN C : e.link \in L /\ e.at \in times}
  BY <1>1, <1>5 DEF Within, BagToSet
<1>8. T \cap DOMAIN events = S /\ (x \in T <=> x.link \in L /\ x.at \in times)
  BY <1>3, <1>6, <1>7
<1>9. CountOf(L, times) = Count(events, S)
  BY <1>5, QueryCounts
<1>10. CountOf(L, times)' = Count(C, T)
  BY <1>1, <1>4, <1>5, QueryCountsNext
<1>11. Count(C, T) = Count(events, T \cap DOMAIN events) + (IF x \in T THEN 1 ELSE 0)
  BY <1>2, <1>7, CountOneMore
<1>12. ~(x.link \in L /\ x.at \in times) => S = T
  BY <1>3, <1>6, <1>7
<1>13. ~(x.link \in L /\ x.at \in times) => DistinctOf(L, times)' = DistinctOf(L, times)
  BY <1>5, <1>12 DEF DistinctOf
<1> QED
  BY <1>1, <1>3, <1>4, <1>8, <1>9, <1>10, <1>11, <1>13

\* What Younger keeps.
LEMMA YoungerIsBag ==
  ASSUME NEW B, IsBag(B), NEW time
  PROVE  /\ IsBag(Younger(B, time)) /\ DOMAIN Younger(B, time) \subseteq DOMAIN B
         /\ \A e \in DOMAIN B : e.at >= time <=> e \in DOMAIN Younger(B, time)
         /\ \A e \in DOMAIN Younger(B, time) : Younger(B, time)[e] = B[e]
<1>1. PICK C : C = Younger(B, time)
  OBVIOUS
<1>2. C = [e \in {x \in DOMAIN B : x.at >= time} |-> B[e]]
  BY <1>1 DEF Younger, BagToSet
<1>3. DOMAIN C \subseteq DOMAIN B /\ \A e \in DOMAIN C : C[e] = B[e]
  BY <1>2
<1>4. IsBag(C)
  BY <1>3, FS_Subset DEF IsBag
<1> QED
  BY <1>1, <1>2, <1>3, <1>4

\* Old events are deleted: no query counts more, it counts less by the old ones at
\* most, and one about younger events counts what it did.
LEMMA DeleteCounts ==
  ASSUME EventsInv, NEW before \in Nat, events' = Younger(events, before), NEW L, NEW times
  PROVE  /\ IsBag(events)' /\ DOMAIN events' \subseteq DOMAIN events
         /\ CountOf(L, times)' <= CountOf(L, times)
         /\ CountOf(L, times) <=
              CountOf(L, times)' + CountOf(Subjects, {t \in times : t < before})
         /\ (\A t \in times : t \in Nat => ~(t < before)) =>
              /\ CountOf(L, times)' = CountOf(L, times)
              /\ DistinctOf(L, times)' = DistinctOf(L, times)
<1>1. PICK C : C = events'
  OBVIOUS
<1>2. PICK B : B = events
  OBVIOUS
<1>3. C = Younger(B, before) /\ IsBag(B) /\ IsBag(events)
  BY <1>1, <1>2 DEF IsBag, EventsInv
<1>4. /\ IsBag(C) /\ DOMAIN C \subseteq DOMAIN B
      /\ \A e \in DOMAIN B : e.at >= before <=> e \in DOMAIN C
      /\ \A e \in DOMAIN C : C[e] = B[e]
  BY <1>3, YoungerIsBag
<1>5. IsBag(events)'
  BY <1>1, <1>4 DEF IsBag
<1>6. PICK S, T : S = Within(L, times) /\ T = Within(L, times)'
  OBVIOUS
<1>7. S = {e \in DOMAIN B : e.link \in L /\ e.at \in times}
  BY <1>2, <1>6 DEF Within, BagToSet
<1>8. T = {e \in DOMAIN C : e.link \in L /\ e.at \in times}
  BY <1>1, <1>6 DEF Within, BagToSet
<1>9. T \subseteq S /\ T \subseteq DOMAIN C /\ S \subseteq DOMAIN B
  BY <1>4, <1>7, <1>8
<1>10. CountOf(L, times) = Count(B, S)
  BY <1>2, <1>3, <1>6, QueryCounts
<1>11. CountOf(L, times)' = Count(C, T)
  BY <1>1, <1>5, <1>6, QueryCountsNext
<1>12. Count(C, T) = Count(B, T)
  BY <1>3, <1>4, <1>9, SameCount
<1>13. Count(B, T) <= Count(B, S)
  BY <1>3, <1>9, CountLess
<1>14. \A e \in DOMAIN B : e.at \in Nat /\ e.link \in Subjects
  BY <1>2, ServingAssumption DEF EventsInv, Times
<1>15. (\A t \in times : t \in Nat => ~(t < before)) => S = T
  <2>1. SUFFICES ASSUME \A t \in times : t \in Nat => ~(t < before) PROVE S \subseteq T
    BY <1>9
  <2>2. \A e \in S : e \in DOMAIN B /\ e.link \in L /\ e.at \in times
    BY <1>7
  <2>3. \A e \in S : e.at >= before
    BY <1>14, <2>1, <2>2
  <2> QED
    BY <1>4, <1>8, <2>2, <2>3
<1>16. S = T => DistinctOf(L, times)' = DistinctOf(L, times)
  BY <1>6 DEF DistinctOf
<1>17. PICK old : old = {t \in times : t < before}
  OBVIOUS
<1>18. PICK W : W = Within(Subjects, old)
  OBVIOUS
<1>19. W \in SUBSET DOMAIN B /\ CountOf(Subjects, old) = Count(B, W)
  BY <1>2, <1>3, <1>18, QueryCounts
<1>20. S \ T \subseteq W
  <2>1. SUFFICES ASSUME NEW e \in S \ T PROVE e \in W
    OBVIOUS
  <2>2. e \in DOMAIN B /\ e.link \in L /\ e.at \in times /\ e \notin DOMAIN C
    BY <1>7, <1>8, <2>1
  <2>3. e.at < before
    BY <1>4, <1>14, <2>2
  <2>4. e.at \in old /\ e.link \in Subjects
    BY <1>14, <1>17, <2>2, <2>3
  <2> QED
    BY <1>2, <1>18, <2>2, <2>4 DEF Within, BagToSet
<1>21. Count(B, S) = Count(B, T) + Count(B, S \ T)
  <2>1. T \in SUBSET DOMAIN B /\ S \ T \in SUBSET DOMAIN B /\ T \cap (S \ T) = {}
        /\ T \cup (S \ T) = S
    BY <1>9
  <2> QED
    BY <1>3, <2>1, CountParts
<1>22. Count(B, S \ T) <= Count(B, W)
  BY <1>3, <1>19, <1>20, CountLess
<1>23. Count(B, T) \in Nat /\ Count(B, S \ T) \in Nat /\ Count(B, W) \in Nat
  <2>1. S \ T \in SUBSET DOMAIN B /\ T \in SUBSET DOMAIN B
    BY <1>9
  <2> QED
    BY <1>3, <1>19, <2>1, CountIsNat
<1>24. Count(B, S) <= Count(B, T) + Count(B, W)
  BY <1>21, <1>22, <1>23
<1>25. CountOf(L, times) <= CountOf(L, times)' + CountOf(Subjects, {t \in times : t < before})
  BY <1>10, <1>11, <1>12, <1>17, <1>19, <1>24
<1>26. IsBag(events)' /\ DOMAIN events' \subseteq DOMAIN events
  BY <1>1, <1>2, <1>4, <1>5
<1>27. CountOf(L, times)' <= CountOf(L, times)
  BY <1>10, <1>11, <1>12, <1>13
<1>28. (\A t \in times : t \in Nat => ~(t < before)) =>
         /\ CountOf(L, times)' = CountOf(L, times)
         /\ DistinctOf(L, times)' = DistinctOf(L, times)
  BY <1>10, <1>11, <1>12, <1>15, <1>16
<1> QED
  BY <1>25, <1>26, <1>27, <1>28

LEMMA SameCounts ==
  ASSUME events' = events, NEW L, NEW times
  PROVE  /\ CountOf(L, times)' = CountOf(L, times)
         /\ DistinctOf(L, times)' = DistinctOf(L, times)
  BY DEF CountOf, DistinctOf, Within

----------------------------------------------------------------------------
(***************************************************************************)
(* What one step does to the jobs: request r gets the job j, and a report  *)
(* may drift under it.                                                     *)
(***************************************************************************)
Drifts(q, n) == "drift" \in DOMAIN job[q] /\ job'[q] = [job[q] EXCEPT !.drift = @ + n]

Moves(r, j) ==
  /\ job' = [q \in Requests |-> job'[q]]
  /\ job'[r] = j
  /\ \A q \in Requests \ {r} : job'[q] = job[q] \/ \E n \in Nat : Drifts(q, n)

\* What a report about these times counts changes by no more than n.
ChangesBy(q, n) ==
  \A L, times : times = job[q].times =>
    /\ CountOf(L, times) \in Nat /\ CountOf(L, times)' \in Nat
    /\ Near(CountOf(L, times)', CountOf(L, times), n)

Grows ==
  /\ now \in Nat /\ now' \in Nat /\ now <= now'
  /\ failures \in Nat /\ failures' \in Nat /\ failures <= failures'
  /\ tracked \in [Subjects -> Nat] /\ tracked' \in [Subjects -> Nat]
  /\ \A s \in Subjects : tracked[s] <= tracked'[s]

\* k is the report j, but for its drift.
Like(j, k, n) ==
  /\ DOMAIN k = DOMAIN j /\ k.pc = j.pc /\ k.drift = j.drift + n
  /\ j.pc \in {"visitors", "durations", "devices", "links"} => k.times = j.times
  /\ j.pc \in {"visitors", "report"} => k.views = j.views
  /\ j.pc = "report" => k.visitors = j.visitors
  /\ j.pc \in SummarySteps => k.total = j.total /\ k.clicks = j.clicks
  /\ j.pc = "summary" => k.whole = j.whole

LEMMA SameIsNear == ASSUME NEW m \in Nat PROVE Near(m, m, 0)
  BY DEF Near

LEMMA MoveOneJob ==
  ASSUME EventJobs, NEW r \in Requests, NEW j, job' = [job EXCEPT ![r] = j]
  PROVE  Moves(r, j) /\ \A q \in Requests \ {r} : job'[q] = job[q]
  BY DEF EventJobs, Moves

\* No query counts anything else than before.
LEMMA NothingChanges ==
  ASSUME IsBag(events), events' = events, NEW q PROVE ChangesBy(q, 0)
<1>1. SUFFICES ASSUME NEW L, NEW times
               PROVE  /\ CountOf(L, times) \in Nat /\ CountOf(L, times)' \in Nat
                      /\ Near(CountOf(L, times)', CountOf(L, times), 0)
  BY DEF ChangesBy
<1>2. CountOf(L, times) \in Nat /\ CountOf(L, times)' = CountOf(L, times)
  BY QueryCounts, SameCounts
<1>3. Near(CountOf(L, times), CountOf(L, times), 0)
  BY <1>2, SameIsNear
<1> QED
  BY <1>2, <1>3

LEMMA DriftedDrifts ==
  ASSUME NEW q \in Requests, NEW n \in Nat, job'[q] = Drifted(q, n)
  PROVE  job'[q] = job[q] \/ Drifts(q, n)
  BY DEF Drifted, Drifts

LEMMA DriftedReport ==
  ASSUME NEW j, "pc" \in DOMAIN j, KnowsEvent(j), j.pc \in ReportSteps, NEW n,
         NEW k, k = [j EXCEPT !.drift = @ + n]
  PROVE  Like(j, k, n)
<1> USE DEF ReportSteps, SummarySteps
<1>1. "drift" \in DOMAIN j /\ Columns(j.pc) \subseteq DOMAIN j
  BY DEF KnowsEvent
<1>2. DOMAIN k = DOMAIN j /\ k.pc = j.pc /\ k.drift = j.drift + n
  BY <1>1
<1>3. j.pc \in {"visitors", "durations", "devices", "links"} => k.times = j.times
  BY <1>1 DEF Columns
<1>4. j.pc \in {"visitors", "report"} => k.views = j.views
  BY <1>1 DEF Columns
<1>5. j.pc = "report" => k.visitors = j.visitors
  BY <1>1 DEF Columns
<1>6. j.pc \in SummarySteps => k.total = j.total /\ k.clicks = j.clicks
  BY <1>1 DEF Columns
<1>7. j.pc = "summary" => k.whole = j.whole
  BY <1>1 DEF Columns
<1> QED
  BY <1>2, <1>3, <1>4, <1>5, <1>6, <1>7 DEF Like

LEMMA UnmovedReport ==
  ASSUME NEW j, KnowsEvent(j), j.pc \in ReportSteps PROVE Like(j, j, 0)
<1>1. j.drift \in Nat
  BY DEF KnowsEvent
<1>2. j.drift = j.drift + 0
  BY <1>1
<1> QED
  BY <1>2 DEF Like

LEMMA StillKnown ==
  ASSUME NEW j, KnowsEvent(j), now \in Nat, now' \in Nat, now <= now'
  PROVE  KnowsEvent(j)'
<1>1. 0..now \subseteq 0..now'
  OBVIOUS
<1> QED
  BY <1>1 DEF KnowsEvent

LEMMA LikeIsKnown ==
  ASSUME NEW j, KnowsEvent(j), j.pc \in ReportSteps, NEW n \in Nat, NEW k, Like(j, k, n)
  PROVE  KnowsEvent(k)'
<1> USE DEF ReportSteps, SummarySteps
<1>1. DOMAIN k = DOMAIN j /\ k.pc = j.pc /\ k.drift = j.drift + n
  BY DEF Like
<1>2. "drift" \in DOMAIN j /\ j.drift \in Nat /\ Columns(j.pc) \subseteq DOMAIN j
  BY DEF KnowsEvent
<1>3. k.drift \in Nat
  BY <1>1, <1>2
<1>4. /\ k.pc \in {"visitors", "report"} => k.views \in Nat
      /\ k.pc = "report" => k.visitors \in Nat
      /\ k.pc \in SummarySteps => k.total \in Int /\ k.clicks \in Int
  BY <1>1 DEF Like, KnowsEvent
<1> QED
  BY <1>1, <1>2, <1>3, <1>4 DEF KnowsEvent

\* What is near stays near, if it drifts as far as it changes.
LEMMA NearStays ==
  ASSUME NEW m \in Int, NEW c \in Nat, NEW c1 \in Nat, NEW d \in Nat, NEW n \in Nat,
         Near(m, c, d), Near(c1, c, n)
  PROVE  Near(m, c1, d + n)
  BY DEF Near

LEMMA ReportStaysRight ==
  ASSUME NEW j, KnowsEvent(j), IsRight(j), j.pc \in ReportSteps, NEW n \in Nat,
         NEW k, Like(j, k, n),
         \A L, times : times = j.times =>
           /\ CountOf(L, times) \in Nat /\ CountOf(L, times)' \in Nat
           /\ Near(CountOf(L, times)', CountOf(L, times), n)
  PROVE  IsRight(k)'
<1> USE DEF ReportSteps, SummarySteps
<1>1. k.pc = j.pc /\ k.drift = j.drift + n /\ j.drift \in Nat
  BY DEF Like, KnowsEvent
<1>2. ASSUME NEW L
      PROVE  /\ CountOf(L, j.times) \in Nat /\ CountOf(L, j.times)' \in Nat
             /\ Near(CountOf(L, j.times)', CountOf(L, j.times), n)
  OBVIOUS
<1>3. ASSUME k.pc = "visitors" PROVE CountOf({NoLink}, k.times)' <= k.views + k.drift
  <2>1. PICK c, c1 : c = CountOf({NoLink}, j.times) /\ c1 = CountOf({NoLink}, j.times)'
    OBVIOUS
  <2>2. c \in Nat /\ c1 \in Nat /\ Near(c1, c, n)
    BY <1>2, <2>1
  <2>3. k.times = j.times /\ k.views = j.views /\ j.views \in Nat
    BY <1>1, <1>3 DEF Like, KnowsEvent
  <2>4. c <= j.views + j.drift
    BY <1>1, <1>3, <2>1 DEF IsRight
  <2>5. c1 <= j.views + (j.drift + n)
    BY <1>1, <2>2, <2>3, <2>4 DEF Near
  <2> QED
    BY <1>1, <2>1, <2>3, <2>5
<1>4. ASSUME k.pc = "report" PROVE k.visitors <= k.views + k.drift
  <2>1. k.visitors = j.visitors /\ k.views = j.views /\ j.views \in Nat /\ j.visitors \in Nat
    BY <1>1, <1>4 DEF Like, KnowsEvent
  <2>2. j.visitors <= j.views + j.drift
    BY <1>1, <1>4 DEF IsRight
  <2> QED
    BY <1>1, <2>1, <2>2
<1>5. ASSUME k.pc \in {"durations", "devices"}
      PROVE  Near(k.total, CountOf(Subjects, k.times)', k.drift)
  <2>1. PICK c, c1 : c = CountOf(Subjects, j.times) /\ c1 = CountOf(Subjects, j.times)'
    OBVIOUS
  <2>2. c \in Nat /\ c1 \in Nat /\ Near(c1, c, n)
    BY <1>2, <2>1
  <2>3. k.times = j.times /\ k.total = j.total /\ j.total \in Int
    BY <1>1, <1>5 DEF Like, KnowsEvent
  <2>4. Near(j.total, c, j.drift)
    BY <1>1, <1>5, <2>1 DEF IsRight
  <2>5. Near(j.total, c1, j.drift + n)
    BY <1>1, <2>2, <2>3, <2>4, NearStays
  <2> QED
    BY <1>1, <2>1, <2>3, <2>5
<1>6. ASSUME k.pc \in {"durations", "devices", "links"}
      PROVE  Near(k.clicks, CountOf(Links, k.times)', k.drift)
  <2>1. PICK c, c1 : c = CountOf(Links, j.times) /\ c1 = CountOf(Links, j.times)'
    OBVIOUS
  <2>2. c \in Nat /\ c1 \in Nat /\ Near(c1, c, n)
    BY <1>2, <2>1
  <2>3. k.times = j.times /\ k.clicks = j.clicks /\ j.clicks \in Int
    BY <1>1, <1>6 DEF Like, KnowsEvent
  <2>4. Near(j.clicks, c, j.drift)
    BY <1>1, <1>6, <2>1 DEF IsRight
  <2>5. Near(j.clicks, c1, j.drift + n)
    BY <1>1, <2>2, <2>3, <2>4, NearStays
  <2> QED
    BY <1>1, <2>1, <2>3, <2>5
<1>7. ASSUME k.pc \in {"links", "summary"} PROVE k.total <= k.drift /\ 0 <= k.total + k.drift
  <2>1. k.total = j.total /\ j.total \in Int
    BY <1>1, <1>7 DEF Like, KnowsEvent
  <2>2. j.total <= j.drift /\ 0 <= j.total + j.drift
    BY <1>1, <1>7 DEF IsRight
  <2> QED
    BY <1>1, <2>1, <2>2
<1>8. ASSUME k.pc = "summary" PROVE 0 <= k.clicks + k.drift /\ (k.whole => k.clicks <= k.drift)
  <2>1. k.clicks = j.clicks /\ j.clicks \in Int /\ k.whole = j.whole
    BY <1>1, <1>8 DEF Like, KnowsEvent
  <2>2. 0 <= j.clicks + j.drift /\ (j.whole => j.clicks <= j.drift)
    BY <1>1, <1>8 DEF IsRight
  <2>3. j.clicks <= j.drift => j.clicks <= j.drift + n
    BY <1>1, <2>1
  <2>4. 0 <= j.clicks + (j.drift + n)
    BY <1>1, <2>1, <2>2
  <2> QED
    BY <1>1, <2>1, <2>2, <2>3, <2>4
<1>9. k.pc # "link report"
  BY <1>1
<1> QED
  BY <1>3, <1>4, <1>5, <1>6, <1>7, <1>8, <1>9 DEF IsRight

\* A job that reports nothing is right.
LEMMA NothingToBeRight ==
  ASSUME NEW j, j.pc \notin ReportSteps, j.pc # "link report"
  PROVE  IsRight(j)
  BY DEF IsRight, ReportSteps, SummarySteps

LEMMA NothingToBeRightNext ==
  ASSUME NEW j, j.pc \notin ReportSteps, j.pc # "link report"
  PROVE  IsRight(j)'
  BY DEF IsRight, ReportSteps, SummarySteps

LEMMA OthersStayRight ==
  ASSUME NEW j, KnowsEvent(j), IsRight(j), Grows, j.pc \notin ReportSteps
  PROVE  IsRight(j)'
<1>1. CASE j.pc = "link report"
  <2>1. j.recent \in Nat /\ j.total \in Nat /\ j.link \in Subjects
        /\ j.recent <= j.total + tracked[j.link] + failures
    BY <1>1 DEF KnowsEvent, IsRight
  <2>2. PICK n, n1 : n = tracked[j.link] /\ n1 = tracked'[j.link]
    OBVIOUS
  <2>3. n \in Nat /\ n1 \in Nat /\ n <= n1
    BY <2>1, <2>2 DEF Grows
  <2>4. failures \in Nat /\ failures' \in Nat /\ failures <= failures'
    BY DEF Grows
  <2>5. j.recent <= j.total + n1 + failures'
    BY <2>1, <2>2, <2>3, <2>4
  <2> QED
    BY <1>1, <2>2, <2>5 DEF IsRight
<1>2. CASE j.pc # "link report"
  BY <1>2, NothingToBeRightNext
<1> QED
  BY <1>1, <1>2

LEMMA StillRight ==
  ASSUME NEW j, KnowsEvent(j), IsRight(j), Grows, IsBag(events), events' = events
  PROVE  IsRight(j)'
<1>1. CASE j.pc \in ReportSteps
  <2>1. ASSUME NEW L, NEW times
        PROVE  /\ CountOf(L, times) \in Nat /\ CountOf(L, times)' \in Nat
               /\ Near(CountOf(L, times)', CountOf(L, times), 0)
    <3>1. CountOf(L, times) \in Nat /\ CountOf(L, times)' = CountOf(L, times)
      BY QueryCounts, SameCounts
    <3>2. Near(CountOf(L, times), CountOf(L, times), 0)
      BY <3>1, SameIsNear
    <3> QED
      BY <3>1, <3>2
  <2>2. Like(j, j, 0)
    BY <1>1, UnmovedReport
  <2> QED
    BY <1>1, <2>1, <2>2, ReportStaysRight
<1>2. CASE j.pc \notin ReportSteps
  BY <1>2, OthersStayRight
<1> QED
  BY <1>1, <1>2

LEMMA JobsStayRight ==
  ASSUME EventJobs, Grows, NEW r \in Requests, NEW j, Moves(r, j), "pc" \in DOMAIN j,
         KnowsEvent(j)', IsRight(j)',
         \A q \in Requests \ {r} : job[q].pc \in ReportSteps =>
           \/ job'[q] = job[q] /\ ChangesBy(q, 0)
           \/ \E n \in Nat : Drifts(q, n) /\ ChangesBy(q, n)
  PROVE  EventJobs'
<1>1. ASSUME NEW q \in Requests
      PROVE  "pc" \in DOMAIN job'[q] /\ KnowsEvent(job[q])' /\ IsRight(job[q])'
  <2>1. PICK k : k = job'[q]
    OBVIOUS
  <2>2. PICK i : i = job[q]
    OBVIOUS
  <2>3. "pc" \in DOMAIN i /\ KnowsEvent(i) /\ IsRight(i)
    BY <2>2 DEF EventJobs
  <2>4. SUFFICES "pc" \in DOMAIN k /\ KnowsEvent(k)' /\ IsRight(k)'
    <3>1. job'[q] = k /\ job[q]' = k
      BY <2>1
    <3>2. KnowsEvent(k)' => KnowsEvent(job[q])'
      BY <3>1 DEF KnowsEvent
    <3>3. IsRight(k)' => IsRight(job[q])'
      BY <3>1 DEF IsRight
    <3> QED
      BY <3>1, <3>2, <3>3
  <2>5. CASE q = r
    <3>1. k = j
      BY <2>1, <2>5 DEF Moves
    <3> QED
      BY <3>1
  <2>6. CASE q # r /\ i.pc \notin ReportSteps
    <3>1. "drift" \notin DOMAIN i
      BY <2>3, <2>6 DEF KnowsEvent
    <3>2. k = i
      BY <2>1, <2>2, <2>6, <3>1 DEF Moves, Drifts
    <3>3. KnowsEvent(i)'
      BY <2>3, StillKnown DEF Grows
    <3>4. IsRight(i)'
      BY <2>3, <2>6, OthersStayRight
    <3> QED
      BY <2>3, <3>2, <3>3, <3>4
  <2>7. CASE q # r /\ i.pc \in ReportSteps
    <3>1. PICK n \in Nat : ChangesBy(q, n) /\ Like(i, k, n)
      <4>1. CASE job'[q] = job[q] /\ ChangesBy(q, 0)
        <5>1. k = i
          BY <2>1, <2>2, <4>1
        <5> QED
          BY <2>3, <2>7, <4>1, <5>1, UnmovedReport
      <4>2. ASSUME NEW n \in Nat, Drifts(q, n), ChangesBy(q, n)
            PROVE  Like(i, k, n)
        <5>1. k = [i EXCEPT !.drift = @ + n]
          BY <2>1, <2>2, <4>2 DEF Drifts
        <5> QED
          BY <2>3, <2>7, <5>1, DriftedReport
      <4> QED
        BY <2>2, <2>7, <4>1, <4>2
    <3>2. \A L, times : times = i.times =>
            /\ CountOf(L, times) \in Nat /\ CountOf(L, times)' \in Nat
            /\ Near(CountOf(L, times)', CountOf(L, times), n)
      BY <2>2, <3>1 DEF ChangesBy
    <3>3. IsRight(k)'
      BY <2>3, <2>7, <3>1, <3>2, ReportStaysRight
    <3>4. KnowsEvent(k)'
      BY <2>3, <2>7, <3>1, LikeIsKnown
    <3>5. "pc" \in DOMAIN k
      BY <2>3, <3>1 DEF Like
    <3> QED
      BY <3>3, <3>4, <3>5
  <2> QED
    BY <2>5, <2>6, <2>7
<1> QED
  BY <1>1 DEF Moves, EventJobs

\* Visits under way are touched by no other request.
LEMMA OthersTrack ==
  ASSUME EventJobs, NEW r \in Requests, NEW j, Moves(r, j), NEW q \in Requests, q # r
  PROVE  /\ job'[q].pc = job[q].pc
         /\ job[q].pc \in {"track", "insert"} => job'[q] = job[q]
<1>1. PICK i, k : i = job[q] /\ k = job'[q]
  OBVIOUS
<1>2. "pc" \in DOMAIN i /\ KnowsEvent(i)
  BY <1>1 DEF EventJobs
<1>3. CASE k = i
  BY <1>1, <1>3
<1>4. ASSUME NEW n \in Nat, Drifts(q, n)
      PROVE  k.pc = i.pc /\ i.pc \notin {"track", "insert"}
  <2>1. "drift" \in DOMAIN i /\ k = [i EXCEPT !.drift = @ + n]
    BY <1>1, <1>4 DEF Drifts
  <2>2. i.pc \in ReportSteps
    BY <1>2, <2>1 DEF KnowsEvent
  <2>3. k.pc = i.pc
    BY <1>2, <2>1
  <2> QED
    BY <2>2, <2>3 DEF ReportSteps, SummarySteps
<1>5. k = i \/ \E n \in Nat : Drifts(q, n)
  BY <1>1 DEF Moves
<1> QED
  BY <1>1, <1>3, <1>4, <1>5

LEMMA TrackingAfter ==
  ASSUME EventJobs, NEW r \in Requests, NEW j, Moves(r, j), NEW s
  PROVE  Tracking(s)' = IF j.pc = "track" /\ j.link = s
                        THEN Tracking(s) \cup {r} ELSE Tracking(s) \ {r}
<1>1. job'[r] = j
  BY DEF Moves
<1>2. ASSUME NEW q \in Requests, q # r PROVE q \in Tracking(s)' <=> q \in Tracking(s)
  BY <1>2, OthersTrack DEF Tracking, At
<1>3. r \in Tracking(s)' <=> j.pc = "track" /\ j.link = s
  BY <1>1 DEF Tracking, At
<1>4. Tracking(s) \subseteq Requests /\ Tracking(s)' \subseteq Requests
  BY DEF Tracking
<1> QED
  BY <1>2, <1>3, <1>4

LEMMA OneSubject ==
  ASSUME EventsInv, NEW s \in Present
  PROVE  /\ s \in Subjects
         /\ Logged(s) \in Nat /\ UnderWay(s) \in Nat /\ Counter(s) \in Nat
         /\ IsFiniteSet(Tracking(s))
<1>1. Logged(s) \in Nat
  BY QueryCounts DEF EventsInv, Logged
<1>2. Tracking(s) \subseteq Requests
  BY DEF Tracking
<1>3. IsFiniteSet(Tracking(s)) /\ Cardinality(Tracking(s)) \in Nat
  BY <1>2, ServingAssumption, FS_Subset, FS_CardinalityType
<1>4. s \in Subjects
  BY DEF Present, Subjects, EventsInv
<1>5. s # NoLink => s \in DOMAIN clickCount
  BY DEF Present
<1>6. Counter(s) \in Nat
  BY <1>4, <1>5 DEF EventsInv, Counter
<1> QED
  BY <1>1, <1>3, <1>4, <1>6 DEF UnderWay

\* One request more, or one less, is about to log an event of this subject.
LEMMA UnderWayAfter ==
  ASSUME EventsInv, EventJobs, NEW r \in Requests, NEW j, Moves(r, j), NEW s \in Present
  PROVE  UnderWay(s)' =
           UnderWay(s) + (IF j.pc = "track" /\ j.link = s THEN 1 ELSE 0)
                       - (IF At(r, "track") /\ job[r].link = s THEN 1 ELSE 0)
<1>1. PICK T, U : T = Tracking(s) /\ U = Tracking(s)'
  OBVIOUS
<1>2. IsFiniteSet(T) /\ Cardinality(T) \in Nat
  BY <1>1, OneSubject DEF UnderWay
<1>3. U = IF j.pc = "track" /\ j.link = s THEN T \cup {r} ELSE T \ {r}
  BY <1>1, TrackingAfter
<1>4. r \in T <=> At(r, "track") /\ job[r].link = s
  BY <1>1 DEF Tracking
<1>5. Cardinality(T \cup {r}) = IF r \in T THEN Cardinality(T) ELSE Cardinality(T) + 1
  BY <1>2, FS_AddElement
<1>6. Cardinality(T \ {r}) = IF r \in T THEN Cardinality(T) - 1 ELSE Cardinality(T)
  BY <1>2, FS_RemoveElement
<1>7. UnderWay(s) = Cardinality(T) /\ UnderWay(s)' = Cardinality(U)
  BY <1>1 DEF UnderWay
<1> QED
  BY <1>2, <1>3, <1>4, <1>5, <1>6, <1>7

\* Rows that are sure stay exact.
LEMMA HourlyStays ==
  ASSUME HourlyInv, hourly' = hourly, now \in Nat, now' \in Nat, now <= now',
         cleaned \in Nat, cleaned' \in Nat, cleaned <= cleaned',
         \A q \in Requests : job'[q].pc \in {"track", "insert"} =>
           \/ job'[q].at = now
           \/ job[q].pc \in {"track", "insert"} /\ job[q].at = job'[q].at,
         \A h \in Hours : hourly[h] # NoRow /\ hourly[h].sure =>
           \A L, times : times = Hour(h) /\ (\A t \in times : t >= cleaned') =>
             /\ CountOf(L, times)' = CountOf(L, times)
             /\ DistinctOf(L, times)' = DistinctOf(L, times)
  PROVE  HourlyInv'
<1>1. ASSUME NEW h \in Hours, hourly'[h] # NoRow, hourly'[h].sure
      PROVE  SureOf(hourly[h], Hour(h))'
  <2>1. PICK row, times : row = hourly[h] /\ times = Hour(h)
    OBVIOUS
  <2>2. hourly[h] # NoRow /\ hourly[h].sure
    BY <1>1
  <2>3. SureOf(row, times)
    BY <2>1, <2>2 DEF HourlyInv
  <2>4. times \subseteq Nat
    BY <2>1, ServingAssumption DEF Hour, Times
  <2>5. \A t \in times : t < now'
    <3>1. SUFFICES ASSUME NEW t \in times PROVE t < now'
      OBVIOUS
    <3>2. t \in Nat /\ t < now
      BY <2>3, <2>4, <3>1 DEF SureOf
    <3> QED
      BY <3>2
  <2>6. ~Pending(times)'
    <3>1. now \notin times
      BY <2>3 DEF SureOf
    <3>2. \A q \in Requests : job[q].pc \in {"track", "insert"} => job[q].at \notin times
      BY <2>3 DEF SureOf, Pending
    <3>3. \A q \in Requests : job'[q].pc \in {"track", "insert"} => job'[q].at \notin times
      BY <3>1, <3>2
    <3> QED
      BY <3>3 DEF Pending
  <2>7. ASSUME \A t \in times : t >= cleaned' PROVE Exact(row, times)'
    <3>1. \A t \in times : t >= cleaned
      BY <2>4, <2>7
    <3>2. Exact(row, times)
      BY <2>3, <3>1 DEF SureOf
    <3>3. \A L : /\ CountOf(L, times)' = CountOf(L, times)
                 /\ DistinctOf(L, times)' = DistinctOf(L, times)
      BY <2>1, <2>2, <2>7
    <3> QED
      BY <3>2, <3>3 DEF Exact
  <2>8. SureOf(row, times)'
    BY <2>5, <2>6, <2>7 DEF SureOf
  <2>9. hourly'[h] = row /\ Hour(h) = times
    BY <2>1
  <2> QED
    BY <2>8, <2>9 DEF SureOf, Exact, Pending, Hour, Times
<1> QED
  BY <1>1 DEF HourlyInv, Hours

----------------------------------------------------------------------------
(***************************************************************************)
(* A step that only reads, or writes what no query selects.                *)
(***************************************************************************)
NothingLogged ==
  /\ UNCHANGED <<events, viewCount, clickCount, tracked, hourly, cleaned, now>>
  /\ failures' \in Nat /\ failures <= failures'
  /\ IsBag(sessions)'

LEMMA QuietlyOn ==
  ASSUME EventsInv, NothingLogged
  PROVE  /\ EventsInv' /\ Grows /\ Present' = Present
         /\ \A s \in Present : Logged(s)' = Logged(s) /\ Counter(s)' = Counter(s)
<1>1. IsBag(events)'
  BY DEF EventsInv, IsBag, NothingLogged
<1>2. EventsInv'
  BY <1>1 DEF EventsInv, NothingLogged
<1>3. Grows
  <2>1. tracked \in [Subjects -> Nat] /\ now \in Nat
    BY ServingAssumption DEF EventsInv, Times
  <2> QED
    BY <2>1 DEF EventsInv, NothingLogged, Grows
<1>4. events' = events
  BY DEF NothingLogged
<1>5. \A s \in Present : Logged(s)' = Logged(s)
  BY <1>4, SameCounts DEF Logged, Times
<1>6. \A s \in Present : Counter(s)' = Counter(s)
  BY DEF Counter, NothingLogged
<1>7. Present' = Present
  BY DEF Present, NothingLogged
<1> QED
  BY <1>2, <1>3, <1>5, <1>6, <1>7

\* A request that is not about to log an event gets a job that is not either.
LEMMA QuietReport ==
  ASSUME CountInv, NothingLogged, NEW r \in Requests, ~At(r, "track"), NEW j,
         job' = [job EXCEPT ![r] = j], "pc" \in DOMAIN j, KnowsEvent(j), IsRight(j),
         j.pc # "track", j.pc = "insert" => j.at = now
  PROVE  CountInv'
<1>1. Moves(r, j) /\ \A q \in Requests \ {r} : job'[q] = job[q]
  BY MoveOneJob DEF CountInv
<1>2. EventsInv' /\ Grows /\ Present' = Present
  BY QuietlyOn DEF CountInv
<1>3. events' = events /\ IsBag(events)
  BY DEF NothingLogged, CountInv, EventsInv
<1>4. EventJobs'
  <2>1. KnowsEvent(j)'
    BY StillKnown, <1>2 DEF Grows
  <2>2. IsRight(j)'
    BY <1>2, <1>3, StillRight
  <2>3. \A q \in Requests : ChangesBy(q, 0)
    BY <1>3, NothingChanges
  <2> QED
    BY <1>1, <1>2, <2>1, <2>2, <2>3, JobsStayRight DEF CountInv
<1>5. CountersInv'
  <2>1. ASSUME NEW s \in Present
        PROVE  /\ Logged(s)' + UnderWay(s)' <= Counter(s)' + failures'
               /\ cleaned' > 0 \/ Counter(s)' <= Logged(s)' + UnderWay(s)' + failures'
    <3>1. Logged(s)' = Logged(s) /\ Counter(s)' = Counter(s)
      BY QuietlyOn DEF CountInv
    <3>2. Logged(s) \in Nat /\ UnderWay(s) \in Nat /\ Counter(s) \in Nat
      BY OneSubject DEF CountInv
    <3>3. UnderWay(s)' = UnderWay(s)
      BY <1>1, <3>2, UnderWayAfter DEF CountInv
    <3>4. /\ Logged(s) + UnderWay(s) <= Counter(s) + failures
          /\ cleaned > 0 \/ Counter(s) <= Logged(s) + UnderWay(s) + failures
      BY DEF CountInv, CountersInv
    <3>5. failures \in Nat /\ failures' \in Nat /\ failures <= failures' /\ cleaned' = cleaned
      BY <1>2 DEF Grows, NothingLogged
    <3> QED
      BY <3>1, <3>2, <3>3, <3>4, <3>5
  <2> QED
    BY <1>2, <2>1 DEF CountersInv
<1>6. HourlyInv'
  <2>1. \A q \in Requests : job'[q].pc \in {"track", "insert"} =>
           \/ job'[q].at = now
           \/ job[q].pc \in {"track", "insert"} /\ job[q].at = job'[q].at
    BY <1>1 DEF Moves
  <2>2. \A L, times : /\ CountOf(L, times)' = CountOf(L, times)
                      /\ DistinctOf(L, times)' = DistinctOf(L, times)
    BY <1>3, SameCounts
  <2>3. hourly' = hourly /\ cleaned' = cleaned /\ cleaned \in Nat
    BY DEF CountInv, EventsInv, NothingLogged
  <2> QED
    BY <1>2, <2>1, <2>2, <2>3, HourlyStays DEF CountInv, Grows
<1> QED
  BY <1>2, <1>4, <1>5, <1>6 DEF CountInv

\* The job of a request that has ended, or whose handler has nothing to do with
\* events.
Plain(j) ==
  /\ "pc" \in DOMAIN j /\ "drift" \notin DOMAIN j
  /\ j.pc \notin {"count", "track", "insert", "purge", "link report"} \cup ReportSteps

LEMMA PlainIsRight ==
  ASSUME NEW j, Plain(j)
  PROVE  "pc" \in DOMAIN j /\ KnowsEvent(j) /\ IsRight(j)
  BY DEF Plain, KnowsEvent, IsRight, ReportSteps, SummarySteps

LEMMA PlainIsRightNext ==
  ASSUME NEW j, Plain(j)
  PROVE  "pc" \in DOMAIN j /\ KnowsEvent(j)' /\ IsRight(j)'
  BY DEF Plain, KnowsEvent, IsRight, ReportSteps, SummarySteps

LEMMA IdleIsPlain == Plain(Idle)
  BY DEF Plain, Idle, ReportSteps, SummarySteps

LEMMA QuietPlain ==
  ASSUME CountInv, NothingLogged, NEW r \in Requests, ~At(r, "track"), NEW j, Plain(j),
         job' = [job EXCEPT ![r] = j]
  PROVE  CountInv'
<1>1. j.pc # "track" /\ j.pc # "insert"
  BY DEF Plain
<1> QED
  BY <1>1, PlainIsRight, QuietReport

----------------------------------------------------------------------------
(***************************************************************************)
(* Visits and clicks.                                                      *)
(***************************************************************************)

\* The counter goes up, or is lost; the event is still to be logged.
LEMMA IncrementStep ==
  ASSUME CountInv, NEW r \in Requests, incrementViewCount(r) \/ incrementClickCount(r),
         UNCHANGED analyticsVars
  PROVE  CountInv'
<1>1. PICK t \in Subjects : job[r].link = t /\ job[r].pc = "count"
  BY DEF CountInv, EventJobs, KnowsEvent, incrementViewCount, incrementClickCount, At
<1>2. PICK j : j = [pc |-> "track", link |-> t, visitor |-> job[r].visitor, at |-> now]
  OBVIOUS
<1>3. job' = [job EXCEPT ![r] = j] /\ now' = now
  BY <1>1, <1>2 DEF incrementViewCount, incrementClickCount, Track, GoOn
<1>4. Moves(r, j) /\ \A q \in Requests \ {r} : job'[q] = job[q]
  BY <1>3, MoveOneJob DEF CountInv
<1>5. UNCHANGED <<events, cleaned, tracked, hourly, sessions>>
  BY DEF incrementViewCount, incrementClickCount, analyticsVars
<1>6. /\ viewCount \in Nat /\ failures \in Nat /\ cleaned \in Nat
      /\ now \in Times /\ now \in Nat /\ tracked \in [Subjects -> Nat]
      /\ DOMAIN clickCount \subseteq Links /\ \A l \in DOMAIN clickCount : clickCount[l] \in Nat
  BY ServingAssumption DEF CountInv, EventsInv, Times
<1>7. \/ /\ failures' = failures /\ DOMAIN clickCount' = DOMAIN clickCount
         /\ viewCount' = viewCount + (IF t = NoLink THEN 1 ELSE 0)
         /\ \A l \in DOMAIN clickCount :
              clickCount'[l] = clickCount[l] + (IF t = l THEN 1 ELSE 0)
      \/ failures' = failures + 1 /\ UNCHANGED <<viewCount, clickCount>>
  <2>1. NoLink \notin DOMAIN clickCount
    BY <1>6, VisitsAssumption
  <2>2. CASE incrementViewCount(r)
    <3>1. t = NoLink /\ clickCount' = clickCount
      BY <1>1, <2>2 DEF incrementViewCount
    <3>2. \/ failures' = failures /\ viewCount' = viewCount + 1
          \/ failures' = failures + 1 /\ viewCount' = viewCount
      BY <2>2 DEF incrementViewCount, NextViewCount, Works, Fails
    <3> QED
      BY <1>6, <2>1, <3>1, <3>2
  <2>3. CASE incrementClickCount(r)
    <3>1. t # NoLink /\ viewCount' = viewCount
      BY <1>1, <2>3 DEF incrementClickCount
    <3>2. \/ /\ failures' = failures
             /\ clickCount' = [l \in DOMAIN clickCount |-> clickCount[l] + (IF l = t THEN 1 ELSE 0)]
          \/ failures' = failures + 1 /\ clickCount' = clickCount
      BY <1>1, <2>3 DEF incrementClickCount, Works, Fails
    <3>3. viewCount = viewCount + 0
      BY <1>6
    <3> QED
      BY <3>1, <3>2, <3>3
  <2> QED
    BY <2>2, <2>3
<1>8. failures' \in Nat /\ failures <= failures' /\ DOMAIN clickCount' = DOMAIN clickCount
  BY <1>6, <1>7
<1>9. Grows
  <2>1. \A s \in Subjects : tracked[s] <= tracked[s]
    BY <1>6
  <2> QED
    BY <1>3, <1>5, <1>6, <1>8, <2>1 DEF Grows
<1>10. EventsInv'
  <2>1. IsBag(events)' /\ IsBag(sessions)'
    BY <1>5 DEF CountInv, EventsInv, IsBag
  <2>2. viewCount' \in Nat
    BY <1>6, <1>7
  <2>3. \A l \in DOMAIN clickCount' : clickCount'[l] \in Nat
    BY <1>6, <1>7
  <2> QED
    BY <1>3, <1>5, <1>6, <1>8, <2>1, <2>2, <2>3 DEF CountInv, EventsInv
<1>11. EventJobs'
  <2>1. "pc" \in DOMAIN j /\ KnowsEvent(j)'
    BY <1>2, <1>3, <1>6 DEF KnowsEvent, ReportSteps, SummarySteps
  <2>2. IsRight(j)'
    BY <1>2, NothingToBeRightNext DEF ReportSteps, SummarySteps
  <2>3. \A q \in Requests : ChangesBy(q, 0)
    BY <1>5, NothingChanges DEF CountInv, EventsInv
  <2> QED
    BY <1>4, <1>9, <2>1, <2>2, <2>3, JobsStayRight DEF CountInv
<1>12. CountersInv'
  <2>1. ASSUME NEW s \in Present
        PROVE  /\ Logged(s)' + UnderWay(s)' <= Counter(s)' + failures'
               /\ cleaned' > 0 \/ Counter(s)' <= Logged(s)' + UnderWay(s)' + failures'
    <3>1. Logged(s)' = Logged(s)
      BY <1>5, SameCounts DEF Logged, Times
    <3>2. s \in Subjects /\ Logged(s) \in Nat /\ UnderWay(s) \in Nat /\ Counter(s) \in Nat
      BY OneSubject DEF CountInv
    <3>3. UnderWay(s)' = UnderWay(s) + (IF s = t THEN 1 ELSE 0)
      <4>1. ~At(r, "track") /\ j.pc = "track" /\ j.link = t
        BY <1>1, <1>2 DEF At
      <4> QED
        BY <1>4, <3>2, <4>1, UnderWayAfter DEF CountInv
    <3>4. \/ failures' = failures /\ Counter(s)' = Counter(s) + (IF s = t THEN 1 ELSE 0)
          \/ failures' = failures + 1 /\ Counter(s)' = Counter(s)
      <4>1. tracked[s] \in Nat /\ tracked'[s] = tracked[s]
        BY <1>5, <1>6, <3>2
      <4>2. CASE s = NoLink
        BY <1>6, <1>7, <4>1, <4>2 DEF Counter
      <4>3. CASE s # NoLink
        <5>1. s \in DOMAIN clickCount
          BY <4>3 DEF Present
        <5>2. clickCount[s] \in Nat
          BY <1>6, <5>1
        <5>3. \/ failures' = failures /\ clickCount'[s] = clickCount[s] + (IF t = s THEN 1 ELSE 0)
              \/ failures' = failures + 1 /\ clickCount'[s] = clickCount[s]
          BY <1>7, <5>1
        <5>4. Counter(s) = tracked[s] + clickCount[s] /\ Counter(s)' = tracked[s] + clickCount'[s]
          BY <4>1, <4>3 DEF Counter
        <5> QED
          BY <4>1, <5>2, <5>3, <5>4
      <4> QED
        BY <4>2, <4>3
    <3>5. /\ Logged(s) + UnderWay(s) <= Counter(s) + failures
          /\ cleaned > 0 \/ Counter(s) <= Logged(s) + UnderWay(s) + failures
      BY DEF CountInv, CountersInv
    <3>6. cleaned' = cleaned /\ failures \in Nat
      BY <1>5, <1>6
    <3> QED
      BY <3>1, <3>2, <3>3, <3>4, <3>5, <3>6
  <2>2. Present' = Present
    BY <1>8 DEF Present
  <2> QED
    BY <2>1, <2>2 DEF CountersInv
<1>13. HourlyInv'
  <2>1. \A q \in Requests : job'[q].pc \in {"track", "insert"} =>
           \/ job'[q].at = now
           \/ job[q].pc \in {"track", "insert"} /\ job[q].at = job'[q].at
    BY <1>2, <1>4 DEF Moves
  <2>2. \A L, times : /\ CountOf(L, times)' = CountOf(L, times)
                      /\ DistinctOf(L, times)' = DistinctOf(L, times)
    BY <1>5, SameCounts
  <2> QED
    BY <1>3, <1>5, <1>6, <2>1, <2>2, HourlyStays DEF CountInv
<1> QED
  BY <1>10, <1>11, <1>12, <1>13 DEF CountInv

\* The same, for all the queries at once.
LEMMA StoreQueries ==
  ASSUME IsBag(events), NEW e, events' = events (+) SetToBag({e})
  PROVE  \A L, times :
           /\ CountOf(L, times) \in Nat
           /\ CountOf(L, times)' =
                CountOf(L, times) + (IF e.link \in L /\ e.at \in times THEN 1 ELSE 0)
           /\ e.at \notin times => DistinctOf(L, times)' = DistinctOf(L, times)
<1>1. SUFFICES ASSUME NEW L, NEW times
               PROVE  /\ CountOf(L, times) \in Nat
                      /\ CountOf(L, times)' =
                           CountOf(L, times) + (IF e.link \in L /\ e.at \in times THEN 1 ELSE 0)
                      /\ e.at \notin times => DistinctOf(L, times)' = DistinctOf(L, times)
  OBVIOUS
<1>2. CountOf(L, times) \in Nat
  BY QueryCounts
<1>3. CountOf(L, times)' =
        CountOf(L, times) + (IF e.link \in L /\ e.at \in times THEN 1 ELSE 0)
  BY StoreCounts
<1>4. ~(e.link \in L /\ e.at \in times) => DistinctOf(L, times)' = DistinctOf(L, times)
  BY StoreCounts
<1> QED
  BY <1>2, <1>3, <1>4

\* An event is logged: by a visitor's request, or by the service, which counts
\* it in "tracked".
LEMMA StoreStep ==
  ASSUME CountInv, NEW r \in Requests, NEW e, StoredBy(r, e),
         e.link \in Subjects, e.link = job[r].link, e.at = job[r].at, e.device \in Devices,
         UNCHANGED <<viewCount, clickCount, cleaned, failures, hourly, sessions>>,
         \/ At(r, "track") /\ tracked' = tracked
         \/ At(r, "insert") /\ tracked' = [tracked EXCEPT ![e.link] = @ + 1]
  PROVE  CountInv'
<1>1. job[r].pc \in {"track", "insert"} /\ e.at \in 0..now
  BY DEF At, CountInv, EventJobs, KnowsEvent
<1>2. /\ now' = now /\ now \in Times /\ now \in Nat /\ failures \in Nat /\ cleaned \in Nat
      /\ tracked \in [Subjects -> Nat]
  BY ServingAssumption DEF CountInv, EventsInv, Times, StoredBy
<1>3. e.at \in Times
  BY <1>1, <1>2, ServingAssumption DEF Times
<1>4. events' = events (+) SetToBag({e}) /\ IsBag(events)
  BY DEF CountInv, EventsInv, StoredBy
<1>queries. \A L, times :
              /\ CountOf(L, times) \in Nat
              /\ CountOf(L, times)' =
                   CountOf(L, times) + (IF e.link \in L /\ e.at \in times THEN 1 ELSE 0)
              /\ e.at \notin times => DistinctOf(L, times)' = DistinctOf(L, times)
  BY <1>4, StoreQueries
<1>5. tracked' \in [Subjects -> Nat] /\ \A s \in Subjects : tracked[s] <= tracked'[s]
  BY <1>2
<1>6. Grows
  BY <1>2, <1>5 DEF Grows
<1>7. EventsInv'
  <2>1. IsBag(events)' /\ DOMAIN events' = DOMAIN events \cup {e}
    BY <1>4, StoreCounts
  <2>2. IsBag(sessions)'
    BY DEF CountInv, EventsInv, IsBag
  <2>3. \A x \in DOMAIN events' : x.link \in Subjects /\ x.at \in Times /\ x.device \in Devices
    BY <1>3, <2>1 DEF CountInv, EventsInv
  <2> QED
    BY <1>2, <1>5, <2>1, <2>2, <2>3 DEF CountInv, EventsInv
<1>8. PICK j : j = Idle
  OBVIOUS
<1>9. /\ job' = [q \in Requests |-> job'[q]] /\ job'[r] = j
      /\ \A q \in Requests \ {r} : job'[q] = Drifted(q, IF e.at \in Reporting(q) THEN 1 ELSE 0)
  BY <1>8 DEF StoredBy
<1>10. Moves(r, j)
  <2>1. ASSUME NEW q \in Requests \ {r}
        PROVE  job'[q] = job[q] \/ \E n \in Nat : Drifts(q, n)
    <3>1. PICK n \in Nat : n = IF e.at \in Reporting(q) THEN 1 ELSE 0
      OBVIOUS
    <3>2. job'[q] = Drifted(q, n)
      BY <1>9, <3>1
    <3> QED
      BY <3>2, DriftedDrifts
  <2> QED
    BY <1>9, <2>1 DEF Moves
<1>11. Plain(j) /\ j.pc = "idle"
  BY <1>8, IdleIsPlain DEF Idle
<1>12. EventJobs'
  <2>1. "pc" \in DOMAIN j /\ KnowsEvent(j)' /\ IsRight(j)'
    BY <1>11, PlainIsRightNext
  <2>2. ASSUME NEW q \in Requests \ {r}, job[q].pc \in ReportSteps
        PROVE  \E n \in Nat : Drifts(q, n) /\ ChangesBy(q, n)
    <3>1. "drift" \in DOMAIN job[q]
      BY <2>2 DEF CountInv, EventJobs, KnowsEvent
    <3>2. PICK n \in Nat : n = IF e.at \in job[q].times THEN 1 ELSE 0
      OBVIOUS
    <3>3. job'[q] = Drifted(q, n)
      BY <1>9, <3>1, <3>2 DEF Reporting
    <3>4. Drifts(q, n)
      BY <3>1, <3>3 DEF Drifted, Drifts
    <3>5. ChangesBy(q, n)
      <4>1. SUFFICES ASSUME NEW L, NEW times, times = job[q].times
                     PROVE  /\ CountOf(L, times) \in Nat /\ CountOf(L, times)' \in Nat
                            /\ Near(CountOf(L, times)', CountOf(L, times), n)
        BY DEF ChangesBy
      <4>2. PICK c, c1 : c = CountOf(L, times) /\ c1 = CountOf(L, times)'
        OBVIOUS
      <4>3. c \in Nat /\ c1 = c + (IF e.link \in L /\ e.at \in times THEN 1 ELSE 0)
        BY <1>queries, <4>2
      <4>4. c1 \in Nat /\ Near(c1, c, n)
        BY <3>2, <4>1, <4>3 DEF Near
      <4> QED
        BY <4>2, <4>3, <4>4
    <3> QED
      BY <3>4, <3>5
  <2> QED
    BY <1>6, <1>10, <2>1, <2>2, JobsStayRight DEF CountInv
<1>13. CountersInv'
  <2>1. ASSUME NEW s \in Present
        PROVE  /\ Logged(s)' + UnderWay(s)' <= Counter(s)' + failures'
               /\ cleaned' > 0 \/ Counter(s)' <= Logged(s)' + UnderWay(s)' + failures'
    <3>1. Logged(s)' = Logged(s) + (IF s = e.link THEN 1 ELSE 0)
      <4>1. CountOf({s}, Times)' = CountOf({s}, Times) + (IF e.link \in {s} /\ e.at \in Times THEN 1 ELSE 0)
        BY <1>queries DEF Times
      <4> QED
        BY <1>3, <4>1 DEF Logged, Times
    <3>2. s \in Subjects /\ Logged(s) \in Nat /\ UnderWay(s) \in Nat /\ Counter(s) \in Nat
      BY OneSubject DEF CountInv
    <3>3. UnderWay(s)' = UnderWay(s) - (IF At(r, "track") /\ s = e.link THEN 1 ELSE 0)
      BY <1>10, <1>11, <3>2, UnderWayAfter DEF CountInv
    <3>4. Counter(s)' = Counter(s) + (IF At(r, "insert") /\ s = e.link THEN 1 ELSE 0)
      <4>1. PICK n : n = IF s = NoLink THEN viewCount ELSE clickCount[s]
        OBVIOUS
      <4>2. n \in Nat
        BY <4>1 DEF CountInv, EventsInv, Present
      <4>3. Counter(s) = tracked[s] + n /\ Counter(s)' = tracked'[s] + n
        BY <4>1 DEF Counter
      <4>4. tracked[s] \in Nat
        BY <1>2, <3>2
      <4>5. tracked'[s] = tracked[s] + (IF At(r, "insert") /\ s = e.link THEN 1 ELSE 0)
        BY <1>2, <3>2, <4>4 DEF At
      <4> QED
        BY <4>2, <4>3, <4>4, <4>5
    <3>5. /\ Logged(s) + UnderWay(s) <= Counter(s) + failures
          /\ cleaned > 0 \/ Counter(s) <= Logged(s) + UnderWay(s) + failures
      BY DEF CountInv, CountersInv
    <3>6. At(r, "track") <=> ~At(r, "insert")
      BY <1>1 DEF At
    <3> QED
      BY <1>2, <3>1, <3>2, <3>3, <3>4, <3>5, <3>6
  <2>2. Present' = Present
    BY DEF Present
  <2> QED
    BY <2>1, <2>2 DEF CountersInv
<1>14. HourlyInv'
  <2>1. \A q \in Requests : job'[q].pc \in {"track", "insert"} =>
           \/ job'[q].at = now
           \/ job[q].pc \in {"track", "insert"} /\ job[q].at = job'[q].at
    <3>1. ASSUME NEW q \in Requests, q # r, job'[q].pc \in {"track", "insert"}
          PROVE  job'[q] = job[q]
      BY <1>10, <3>1, OthersTrack DEF CountInv
    <3>2. job'[r].pc = "idle"
      BY <1>9, <1>11
    <3> QED
      BY <3>1, <3>2
  <2>2. ASSUME NEW h \in Hours, hourly[h] # NoRow, hourly[h].sure
        PROVE  \A L, times : times = Hour(h) =>
                 /\ CountOf(L, times)' = CountOf(L, times)
                 /\ DistinctOf(L, times)' = DistinctOf(L, times)
    <3>1. SureOf(hourly[h], Hour(h))
      BY <2>2 DEF CountInv, HourlyInv
    <3>2. e.at \notin Hour(h)
      BY <1>1, <3>1 DEF SureOf, Pending
    <3>3. ASSUME NEW L, NEW times, times = Hour(h)
          PROVE  /\ CountOf(L, times)' = CountOf(L, times)
                 /\ DistinctOf(L, times)' = DistinctOf(L, times)
      BY <1>queries, <3>2, <3>3
    <3> QED
      BY <3>3
  <2> QED
    BY <1>2, <2>1, <2>2, HourlyStays DEF CountInv
<1> QED
  BY <1>7, <1>12, <1>13, <1>14 DEF CountInv

\* The event of a visitor is lost, and with it the request.
LEMMA LoseStep ==
  ASSUME CountInv, NEW r \in Requests, At(r, "track"), Fails, Finish(r),
         UNCHANGED <<visitVars, analyticsVars>>
  PROVE  CountInv'
<1>1. PICK t \in Subjects : job[r].link = t
  BY DEF At, CountInv, EventJobs, KnowsEvent
<1>2. PICK j : j = Idle
  OBVIOUS
<1>3. job' = [job EXCEPT ![r] = j] /\ now' = now
  BY <1>2 DEF Finish, GoOn
<1>4. Moves(r, j) /\ \A q \in Requests \ {r} : job'[q] = job[q]
  BY <1>3, MoveOneJob DEF CountInv
<1>5. Plain(j) /\ j.pc = "idle"
  BY <1>2, IdleIsPlain DEF Idle
<1>6. failures \in Nat /\ failures' = failures + 1
  BY DEF CountInv, EventsInv, Fails
<1>7. NothingLogged
  <2>1. IsBag(sessions)'
    BY DEF CountInv, EventsInv, IsBag, analyticsVars
  <2> QED
    BY <1>3, <1>6, <2>1 DEF NothingLogged, visitVars, analyticsVars
<1>8. EventsInv' /\ Grows /\ events' = events /\ IsBag(events) /\ Present' = Present
  BY <1>7, QuietlyOn DEF CountInv, EventsInv, NothingLogged
<1>9. EventJobs'
  <2>1. "pc" \in DOMAIN j /\ KnowsEvent(j)' /\ IsRight(j)'
    BY <1>5, PlainIsRightNext
  <2>2. \A q \in Requests : ChangesBy(q, 0)
    BY <1>8, NothingChanges
  <2> QED
    BY <1>4, <1>8, <2>1, <2>2, JobsStayRight DEF CountInv
<1>10. CountersInv'
  <2>1. ASSUME NEW s \in Present
        PROVE  /\ Logged(s)' + UnderWay(s)' <= Counter(s)' + failures'
               /\ cleaned' > 0 \/ Counter(s)' <= Logged(s)' + UnderWay(s)' + failures'
    <3>1. Logged(s)' = Logged(s) /\ Counter(s)' = Counter(s) /\ cleaned' = cleaned
      BY <1>7, QuietlyOn DEF CountInv, NothingLogged
    <3>2. Logged(s) \in Nat /\ UnderWay(s) \in Nat /\ Counter(s) \in Nat
      BY OneSubject DEF CountInv
    <3>3. UnderWay(s)' = UnderWay(s) - (IF s = t THEN 1 ELSE 0)
      BY <1>1, <1>4, <1>5, <3>2, UnderWayAfter DEF CountInv
    <3>4. /\ Logged(s) + UnderWay(s) <= Counter(s) + failures
          /\ cleaned > 0 \/ Counter(s) <= Logged(s) + UnderWay(s) + failures
      BY DEF CountInv, CountersInv
    <3> QED
      BY <1>6, <3>1, <3>2, <3>3, <3>4
  <2> QED
    BY <1>8, <2>1 DEF CountersInv
<1>11. HourlyInv'
  <2>1. \A q \in Requests : job'[q].pc \in {"track", "insert"} =>
           \/ job'[q].at = now
           \/ job[q].pc \in {"track", "insert"} /\ job[q].at = job'[q].at
    BY <1>4, <1>5 DEF Moves
  <2>2. \A L, times : /\ CountOf(L, times)' = CountOf(L, times)
                      /\ DistinctOf(L, times)' = DistinctOf(L, times)
    BY <1>8, SameCounts
  <2>3. hourly' = hourly /\ cleaned' = cleaned /\ cleaned \in Nat
    BY <1>7 DEF CountInv, EventsInv, NothingLogged
  <2> QED
    BY <1>8, <2>1, <2>2, <2>3, HourlyStays DEF CountInv, Grows
<1> QED
  BY <1>8, <1>9, <1>10, <1>11 DEF CountInv

\* A process dies: what was under way is counted as failures.
LEMMA DieStep ==
  ASSUME CountInv, Die, UNCHANGED <<visitVars, analyticsVars>>
  PROVE  CountInv'
<1>1. /\ job' = [r \in Requests |-> Idle] /\ now' = now
      /\ failures' = failures + Cardinality(Busy)
      /\ UNCHANGED <<events, viewCount, clickCount, tracked, hourly, cleaned, sessions>>
  BY DEF Die, visitVars, analyticsVars
<1>2. IsFiniteSet(Busy) /\ Cardinality(Busy) \in Nat
  <2>1. Busy \subseteq Requests
    BY DEF Busy
  <2> QED
    BY <2>1, ServingAssumption, FS_Subset, FS_CardinalityType
<1>3. failures \in Nat /\ failures' \in Nat /\ failures <= failures'
  BY <1>1, <1>2 DEF CountInv, EventsInv
<1>4. NothingLogged
  <2>1. IsBag(sessions)'
    BY <1>1 DEF CountInv, EventsInv, IsBag
  <2> QED
    BY <1>1, <1>3, <2>1 DEF NothingLogged
<1>5. EventsInv' /\ Grows /\ events' = events /\ Present' = Present
  BY <1>1, <1>4, QuietlyOn DEF CountInv
<1>6. PICK j : j = Idle
  OBVIOUS
<1>7. Plain(j) /\ j.pc = "idle" /\ \A r \in Requests : job'[r] = j
  BY <1>1, <1>6, IdleIsPlain DEF Idle
<1>8. EventJobs'
  <2>1. "pc" \in DOMAIN j /\ KnowsEvent(j)' /\ IsRight(j)'
    BY <1>7, PlainIsRightNext
  <2>2. ASSUME NEW r \in Requests
        PROVE  "pc" \in DOMAIN job'[r] /\ KnowsEvent(job[r])' /\ IsRight(job[r])'
    <3>1. job'[r] = j
      BY <1>7
    <3>2. KnowsEvent(job[r])'
      BY <2>1, <3>1 DEF KnowsEvent
    <3>3. IsRight(job[r])'
      BY <2>1, <3>1 DEF IsRight
    <3> QED
      BY <2>1, <3>1, <3>2, <3>3
  <2> QED
    BY <1>1, <2>2 DEF EventJobs
<1>9. CountersInv'
  <2>1. ASSUME NEW s \in Present
        PROVE  /\ Logged(s)' + UnderWay(s)' <= Counter(s)' + failures'
               /\ cleaned' > 0 \/ Counter(s)' <= Logged(s)' + UnderWay(s)' + failures'
    <3>1. Logged(s)' = Logged(s) /\ Counter(s)' = Counter(s)
      BY <1>4, QuietlyOn DEF CountInv
    <3>2. Logged(s) \in Nat /\ UnderWay(s) \in Nat /\ Counter(s) \in Nat
      BY OneSubject DEF CountInv
    <3>3. UnderWay(s)' = 0
      <4>1. Tracking(s)' = {}
        BY <1>7 DEF Tracking, At
      <4> QED
        BY <4>1, FS_EmptySet DEF UnderWay
    <3>4. UnderWay(s) <= Cardinality(Busy)
      <4>1. Tracking(s) \subseteq Busy
        BY DEF Tracking, Busy, At
      <4> QED
        BY <1>2, <4>1, FS_Subset DEF UnderWay
    <3>5. /\ Logged(s) + UnderWay(s) <= Counter(s) + failures
          /\ cleaned > 0 \/ Counter(s) <= Logged(s) + UnderWay(s) + failures
      BY DEF CountInv, CountersInv
    <3> QED
      BY <1>1, <1>2, <1>3, <3>1, <3>2, <3>3, <3>4, <3>5
  <2> QED
    BY <1>5, <2>1 DEF CountersInv
<1>10. HourlyInv'
  <2>1. \A q \in Requests : job'[q].pc \notin {"track", "insert"}
    BY <1>7
  <2>2. \A L, times : /\ CountOf(L, times)' = CountOf(L, times)
                      /\ DistinctOf(L, times)' = DistinctOf(L, times)
    BY <1>5, SameCounts
  <2> QED
    BY <1>1, <1>5, <2>1, <2>2, HourlyStays DEF CountInv, EventsInv, Grows
<1> QED
  BY <1>5, <1>8, <1>9, <1>10 DEF CountInv

\* The jobs are what they were, and so is the log: they are right.
LEMMA JobsRest ==
  ASSUME EventJobs, job' = job, Grows, IsBag(events), events' = events
  PROVE  EventJobs'
<1>1. ASSUME NEW r \in Requests
      PROVE  "pc" \in DOMAIN job'[r] /\ KnowsEvent(job[r])' /\ IsRight(job[r])'
  <2>1. PICK i : i = job[r]
    OBVIOUS
  <2>2. "pc" \in DOMAIN i /\ KnowsEvent(i) /\ IsRight(i)
    BY <2>1 DEF EventJobs
  <2>3. KnowsEvent(i)'
    BY <2>2, StillKnown DEF Grows
  <2>4. IsRight(i)'
    BY <2>2, StillRight
  <2>5. job'[r] = i
    BY <2>1
  <2>6. KnowsEvent(job[r])'
    BY <2>3, <2>5 DEF KnowsEvent
  <2>7. IsRight(job[r])'
    BY <2>4, <2>5 DEF IsRight
  <2> QED
    BY <2>2, <2>5, <2>6, <2>7
<1> QED
  BY <1>1 DEF EventJobs

\* Time passes, a link with its counter goes, or something happens that is not
\* about events.
LEMMA TimeStep ==
  ASSUME CountInv, now \in Nat, now' \in Times, now <= now',
         UNCHANGED <<job, failures, viewCount, events, cleaned, analyticsVars>>,
         DOMAIN clickCount' \subseteq DOMAIN clickCount,
         \A l \in DOMAIN clickCount' : clickCount'[l] = clickCount[l]
  PROVE  CountInv'
<1>1. UNCHANGED <<tracked, hourly, sessions>>
  BY DEF analyticsVars
<1>2. now' \in Nat /\ cleaned \in Nat /\ failures \in Nat /\ tracked \in [Subjects -> Nat]
  BY ServingAssumption DEF CountInv, EventsInv, Times
<1>3. Grows
  <2>1. \A s \in Subjects : tracked[s] <= tracked[s]
    BY <1>2
  <2> QED
    BY <1>1, <1>2, <2>1 DEF Grows
<1>4. EventsInv'
  <2>1. IsBag(events)' /\ IsBag(sessions)'
    BY <1>1 DEF CountInv, EventsInv, IsBag
  <2>2. /\ DOMAIN clickCount' \subseteq Links
        /\ \A l \in DOMAIN clickCount' : clickCount'[l] \in Nat
    BY DEF CountInv, EventsInv
  <2> QED
    BY <1>1, <2>1, <2>2 DEF CountInv, EventsInv
<1>5. EventJobs'
  BY <1>3, JobsRest DEF CountInv, EventsInv
<1>6. CountersInv'
  <2>1. Present' \subseteq Present
    BY DEF Present
  <2>2. ASSUME NEW s \in Present'
        PROVE  /\ Logged(s)' + UnderWay(s)' <= Counter(s)' + failures'
               /\ cleaned' > 0 \/ Counter(s)' <= Logged(s)' + UnderWay(s)' + failures'
    <3>1. Logged(s)' = Logged(s)
      BY SameCounts DEF Logged, Times
    <3>2. UnderWay(s)' = UnderWay(s)
      BY DEF UnderWay, Tracking, At
    <3>3. Counter(s)' = Counter(s)
      <4>1. s # NoLink => s \in DOMAIN clickCount'
        BY <2>2 DEF Present
      <4>2. s # NoLink => clickCount'[s] = clickCount[s]
        BY <4>1
      <4> QED
        BY <1>1, <4>2 DEF Counter
    <3>4. /\ Logged(s) + UnderWay(s) <= Counter(s) + failures
          /\ cleaned > 0 \/ Counter(s) <= Logged(s) + UnderWay(s) + failures
      BY <2>1, <2>2 DEF CountInv, CountersInv
    <3> QED
      BY <3>1, <3>2, <3>3, <3>4
  <2> QED
    BY <2>2 DEF CountersInv
<1>7. HourlyInv'
  <2>1. \A L, times : /\ CountOf(L, times)' = CountOf(L, times)
                      /\ DistinctOf(L, times)' = DistinctOf(L, times)
    BY SameCounts
  <2> QED
    BY <1>1, <1>2, <2>1, HourlyStays DEF CountInv
<1> QED
  BY <1>4, <1>5, <1>6, <1>7 DEF CountInv

\* A link is deleted, and its counter with it.
LEMMA DropStep ==
  ASSUME CountInv, NEW l \in DOMAIN clickCount, DropLink(l), UNCHANGED analyticsVars
  PROVE  CountInv'
<1>1. now \in Nat /\ now \in Times
  BY ServingAssumption DEF CountInv, EventsInv, Times
<1>2. UNCHANGED <<job, now, failures, viewCount, events, cleaned>>
  BY DEF DropLink, Works
<1>3. clickCount' = [k \in DOMAIN clickCount \ {l} |-> clickCount[k]]
  BY DEF DropLink
<1>4. /\ DOMAIN clickCount' \subseteq DOMAIN clickCount
      /\ \A k \in DOMAIN clickCount' : clickCount'[k] = clickCount[k]
  BY <1>3
<1> QED
  BY <1>1, <1>2, <1>4, TimeStep

\* Nothing of visits and analytics changes.
LEMMA RestStep ==
  ASSUME CountInv, now' \in Times, now <= now',
         UNCHANGED <<job, failures, visitVars, analyticsVars>>
  PROVE  CountInv'
<1>1. now \in Nat
  BY ServingAssumption DEF CountInv, EventsInv, Times
<1>2. UNCHANGED <<viewCount, events, cleaned, clickCount, analyticsVars>>
  BY DEF visitVars
<1> QED
  BY <1>1, <1>2, TimeStep

----------------------------------------------------------------------------
(***************************************************************************)
(* Reports.                                                                *)
(***************************************************************************)

\* Nobody visits more often than he is seen.
LEMMA VisitorsAreViewers ==
  ASSUME IsBag(events), NEW L, NEW times
  PROVE  DistinctOf(L, times) \in Nat /\ DistinctOf(L, times) <= CountOf(L, times)
<1>1. PICK W : W = Within(L, times)
  OBVIOUS
<1>2. W \in SUBSET DOMAIN events /\ CountOf(L, times) = Count(events, W)
  BY <1>1, QueryCounts
<1>3. IsFiniteSet(W) /\ Cardinality(W) \in Nat
  BY <1>2, FS_Subset, FS_CardinalityType DEF IsBag
<1>4. PICK I : I = {e.hash : e \in W}
  OBVIOUS
<1>5. PICK f : f = [e \in W |-> e.hash]
  OBVIOUS
<1>6. f \in Surjection(W, I)
  BY <1>4, <1>5, Fun_IsSurj
<1>7. Cardinality(I) <= Cardinality(W) /\ Cardinality(I) \in Nat
  BY <1>3, <1>6, FS_Surjection, FS_CardinalityType
<1>8. Cardinality(W) <= Count(events, W) /\ Count(events, W) \in Nat
  BY <1>2, MembersCount, CountIsNat
<1>9. DistinctOf(L, times) = Cardinality(I)
  BY <1>1, <1>4 DEF DistinctOf
<1> QED
  BY <1>2, <1>3, <1>7, <1>8, <1>9

\* Every event is on one device.
LEMMA DevicesAddUp ==
  ASSUME EventsInv, NEW times
  PROVE  DeviceCount("mobile", times) + DeviceCount("tablet", times) + DeviceCount("desktop", times)
           = CountOf(Subjects, times)
<1>1. PICK B : B = events
  OBVIOUS
<1>2. IsBag(B)
  BY <1>1 DEF EventsInv, IsBag
<1>3. PICK V : V = Within(Subjects, times)
  OBVIOUS
<1>4. V = {e \in DOMAIN B : e.link \in Subjects /\ e.at \in times}
  BY <1>1, <1>3 DEF Within, BagToSet
<1>5. CountOf(Subjects, times) = Count(B, V)
  BY <1>1, <1>2, <1>3, QueryCounts
<1>6. PICK m, t, d : /\ m = {e \in DOMAIN B : e.at \in times /\ e.device = "mobile"}
                     /\ t = {e \in DOMAIN B : e.at \in times /\ e.device = "tablet"}
                     /\ d = {e \in DOMAIN B : e.at \in times /\ e.device = "desktop"}
  OBVIOUS
<1>7. /\ DeviceCount("mobile", times) = BagCardinality([e \in m |-> B[e]])
      /\ DeviceCount("tablet", times) = BagCardinality([e \in t |-> B[e]])
      /\ DeviceCount("desktop", times) = BagCardinality([e \in d |-> B[e]])
  BY <1>1, <1>6 DEF DeviceCount, BagToSet
<1>8. m \in SUBSET DOMAIN B /\ t \in SUBSET DOMAIN B /\ d \in SUBSET DOMAIN B
  BY <1>6
<1>9. /\ DeviceCount("mobile", times) = Count(B, m)
      /\ DeviceCount("tablet", times) = Count(B, t)
      /\ DeviceCount("desktop", times) = Count(B, d)
  BY <1>2, <1>7, <1>8, PartCount
<1>10. \A e \in DOMAIN B : e.link \in Subjects /\ e.device \in {"mobile", "tablet", "desktop"}
  BY <1>1 DEF EventsInv, Devices
<1>11. V = (m \cup t) \cup d
  BY <1>4, <1>6, <1>10
<1>12. m \cap t = {} /\ (m \cup t) \cap d = {}
  BY <1>6
<1>13. m \cup t \in SUBSET DOMAIN B
  BY <1>8
<1>14. Count(B, m \cup t) = Count(B, m) + Count(B, t)
  BY <1>2, <1>8, <1>12, CountParts
<1>15. Count(B, (m \cup t) \cup d) = Count(B, m \cup t) + Count(B, d)
  BY <1>2, <1>8, <1>12, <1>13, CountParts
<1> QED
  BY <1>5, <1>9, <1>11, <1>14, <1>15

\* What is read of recent clicks is part of the log.
LEMMA RecentIsLogged ==
  ASSUME EventsInv, NEW l
  PROVE  /\ CountOf({l}, Recent) \in Nat
         /\ CountOf({l}, Recent) <= Logged(l)
<1>1. IsBag(events)
  BY DEF EventsInv
<1>2. Recent \subseteq Times
  BY DEF Recent
<1> QED
  BY <1>1, <1>2, CountMore, QueryCounts DEF Logged

\* The links that a summary shows were clicked, and whoever shows all of those
\* shows all clicks.
LEMMA ListedAreClicked ==
  ASSUME EventsInv, NEW times, NEW top \in Listed(times)
  PROVE  /\ CountOf(top, times) \in Nat
         /\ CountOf(top, times) <= CountOf(Links, times)
         /\ /\ Clicked(times) \subseteq DOMAIN clickCount
            /\ Cardinality(Clicked(times)) <= TopLinks
            => CountOf(top, times) = CountOf(Links, times)
<1>1. IsBag(events)
  BY DEF EventsInv
<1>2. Clicked(times) \subseteq Links
  BY DEF Clicked, Within
<1>3. top \subseteq Joined(times)
  BY DEF Listed
<1>4. top \subseteq Links
  BY <1>2, <1>3 DEF Joined
<1>5. CountOf(top, times) \in Nat /\ CountOf(top, times) <= CountOf(Links, times)
  BY <1>1, <1>4, CountMore, QueryCounts
<1>6. ASSUME Clicked(times) \subseteq DOMAIN clickCount, Cardinality(Clicked(times)) <= TopLinks
      PROVE  CountOf(top, times) = CountOf(Links, times)
  <2>1. Joined(times) = Clicked(times)
    BY <1>6 DEF Joined
  <2>2. top = Clicked(times)
    BY <1>6, <2>1 DEF Listed
  <2>3. Within(Links, times) \subseteq Within(top, times)
    BY <2>2 DEF Clicked, Within
  <2>4. Within(top, times) \subseteq Within(Links, times)
    BY <1>4 DEF Within
  <2>5. Within(top, times) = Within(Links, times)
    BY <2>3, <2>4
  <2> QED
    BY <2>5 DEF CountOf
<1> QED
  BY <1>5, <1>6

LEMMA SessionsAreCounted ==
  ASSUME EventsInv, NEW times
  PROVE  SessionRows(times) \in Nat
<1>1. PICK S : S = {t \in BagToSet(sessions) : t.at \in times}
  OBVIOUS
<1>2. S \in SUBSET DOMAIN sessions
  BY <1>1 DEF BagToSet
<1>3. SessionRows(times) = BagCardinality([s \in S |-> sessions[s]])
  BY <1>1 DEF SessionRows
<1> QED
  BY <1>2, <1>3, PartCount, CountIsNat DEF EventsInv

----------------------------------------------------------------------------
(***************************************************************************)
(* Aggregation and the deletion of old events.                             *)
(***************************************************************************)

\* An hour ends just before the next one begins.
LEMMA HourIsHourOnly == ASSUME NEW h \in Nat PROVE HourOnly(h) = Hour(h)
<1>1. PICK hour : hour = h * PerHour
  OBVIOUS
<1>2. hour \in Int /\ PerHour \in Int
  BY <1>1, VisitsAssumption
<1>3. Times \subseteq Int
  BY ServingAssumption DEF Times
<1>4. \A t \in Times : t \in hour .. hour + PerHour - 1 <=> t >= hour /\ t < hour + PerHour
  BY <1>2, <1>3
<1>5. Hour(h) = {t \in Times : t \in hour .. hour + PerHour - 1}
  BY <1>1 DEF Hour
<1>6. HourOnly(h) = {t \in Times : t >= hour /\ t < hour + PerHour}
  BY <1>1 DEF HourOnly
<1> QED
  BY <1>4, <1>5, <1>6

LEMMA AggregateStep ==
  ASSUME CountInv, NEW h \in Hours, AggregateHourly(h)
  PROVE  CountInv'
<1>0. PICK times : times = Hour(h) /\ times = HourOnly(h)
  BY HourIsHourOnly DEF Hours
<1>1. PICK rows : rows = SessionRows(times)
  OBVIOUS
<1>2. PICK repeated : repeated = IF rows = 0 THEN 1 ELSE rows
  OBVIOUS
<1>3. PICK row : row = [views |-> repeated * CountOf({NoLink}, times),
                        clicks |-> repeated * CountOf(Links, times),
                        visitors |-> DistinctOf({NoLink}, times),
                        sure |-> (\A t \in times : t < now) /\ rows <= 1 /\ ~Pending(times)]
  OBVIOUS
<1>4. /\ hourly' = [hourly EXCEPT ![h] = row] /\ job' = job /\ now' = now /\ failures' = failures
      /\ UNCHANGED <<events, viewCount, clickCount, cleaned, sessions, tracked>>
  BY <1>0, <1>1, <1>2, <1>3 DEF AggregateHourly, visitVars
<1>5. now \in Nat
  BY ServingAssumption DEF CountInv, EventsInv, Times
<1>6. hourly'[h] = row /\ hourly' = [x \in Hours |-> hourly'[x]]
      /\ \A x \in Hours \ {h} : hourly'[x] = hourly[x]
  BY <1>4 DEF CountInv, EventsInv
<1>7. EventsInv'
  <2>1. IsBag(events)' /\ IsBag(sessions)'
    BY <1>4 DEF CountInv, EventsInv, IsBag
  <2> QED
    BY <1>4, <1>6, <2>1 DEF CountInv, EventsInv, Hours
<1>8. EventJobs'
  <2>1. Grows
    <3>1. tracked \in [Subjects -> Nat] /\ failures \in Nat
      BY DEF CountInv, EventsInv
    <3>2. \A s \in Subjects : tracked[s] <= tracked[s]
      BY <3>1
    <3> QED
      BY <1>4, <1>5, <3>1, <3>2 DEF Grows
  <2> QED
    BY <1>4, <2>1, JobsRest DEF CountInv, EventsInv
<1>9. CountersInv'
  <2>1. ASSUME NEW s
        PROVE  /\ Logged(s)' = Logged(s) /\ Counter(s)' = Counter(s)
               /\ UnderWay(s)' = UnderWay(s)
    BY <1>4, SameCounts DEF Logged, Times, Counter, UnderWay, Tracking, At
  <2>2. Present' = Present
    BY <1>4 DEF Present
  <2> QED
    BY <1>4, <2>1, <2>2 DEF CountInv, CountersInv
<1>10. row.sure => SureOf(row, times)
  <2>1. SUFFICES ASSUME row.sure PROVE SureOf(row, times)
    OBVIOUS
  <2>2. (\A t \in times : t < now) /\ rows <= 1 /\ ~Pending(times)
    BY <1>3, <2>1
  <2>3. rows \in Nat
    BY <1>1, SessionsAreCounted DEF CountInv
  <2>4. repeated = 1
    BY <1>2, <2>2, <2>3
  <2>5. CountOf({NoLink}, times) \in Nat /\ CountOf(Links, times) \in Nat
    BY QueryCounts DEF CountInv, EventsInv
  <2>6. Exact(row, times)
    BY <1>3, <2>4, <2>5 DEF Exact
  <2> QED
    BY <2>2, <2>6 DEF SureOf
<1>11. ASSUME NEW x \in Hours, hourly'[x] # NoRow, hourly'[x].sure
       PROVE  SureOf(hourly[x], Hour(x))'
  <2>1. PICK old, span : old = hourly'[x] /\ span = Hour(x)
    OBVIOUS
  <2>2. SureOf(old, span)
    <3>1. CASE x = h
      BY <1>0, <1>6, <1>10, <1>11, <2>1, <3>1
    <3>2. CASE x # h
      <4>1. hourly[x] = old
        BY <1>6, <2>1, <3>2
      <4> QED
        BY <1>11, <2>1, <4>1 DEF CountInv, HourlyInv
    <3> QED
      BY <3>1, <3>2
  <2>3. \A L : /\ CountOf(L, span)' = CountOf(L, span)
               /\ DistinctOf(L, span)' = DistinctOf(L, span)
    BY <1>4, SameCounts
  <2>4. Exact(old, span)' <=> Exact(old, span)
    BY <2>3 DEF Exact
  <2>5. Pending(span)' <=> Pending(span)
    BY <1>4 DEF Pending
  <2>6. SureOf(old, span)'
    BY <1>4, <2>2, <2>4, <2>5 DEF SureOf
  <2>7. hourly'[x] = old /\ Hour(x) = span
    BY <2>1
  <2> QED
    BY <2>6, <2>7 DEF SureOf, Exact, Pending, Hour, Times
<1>12. HourlyInv'
  BY <1>11 DEF HourlyInv, Hours
<1> QED
  BY <1>7, <1>8, <1>9, <1>12 DEF CountInv

\* What deleting old events does to all the queries at once.
LEMMA DeleteQueries ==
  ASSUME EventsInv, NEW before \in Nat, events' = Younger(events, before)
  PROVE  \A L, times :
           /\ CountOf(L, times) \in Nat /\ CountOf(L, times)' \in Nat
           /\ CountOf(L, times)' <= CountOf(L, times)
           /\ CountOf(L, times) <=
                CountOf(L, times)' + CountOf(Subjects, {t \in times : t < before})
           /\ (\A t \in times : t \in Nat => ~(t < before)) =>
                /\ CountOf(L, times)' = CountOf(L, times)
                /\ DistinctOf(L, times)' = DistinctOf(L, times)
<1>1. IsBag(events)' /\ IsBag(events)
  BY DeleteCounts DEF EventsInv
<1>2. \A L, times : CountOf(L, times) \in Nat /\ CountOf(L, times)' \in Nat
  BY <1>1, QueryCounts, QueryCountsNext
<1> QED
  BY <1>2, DeleteCounts

\* A report drifts by as many events as are deleted under it, and the hours that
\* began before are not vouched for any more.
LEMMA DeleteStep ==
  ASSUME CountInv, NEW r \in Requests, DeleteOldEvents(r), Works
  PROVE  CountInv'
<1>1. PICK before \in Nat : before = job[r].before /\ job[r].pc = "purge"
  BY DEF DeleteOldEvents, At, CountInv, EventJobs, KnowsEvent
<1>2. failures \in Nat /\ failures' = failures
  BY DEF Works, CountInv, EventsInv
<1>deleted. /\ events' = Younger(events, job[r].before)
            /\ cleaned' = IF job[r].before > cleaned THEN job[r].before ELSE cleaned
            /\ job' = [q \in Requests |->
                         IF q = r THEN [job[r] EXCEPT !.pc = "purge sessions"]
                         ELSE Drifted(q, Deleted(q, job[r].before))]
            /\ now' = now
            /\ UNCHANGED <<viewCount, clickCount, analyticsVars>>
  <2>1. ~Fails
    BY <1>2 DEF Fails
  <2> QED
    BY <2>1 DEF DeleteOldEvents
<1>jobs. job' = [q \in Requests |->
                   IF q = r THEN [job[r] EXCEPT !.pc = "purge sessions"]
                   ELSE Drifted(q, Deleted(q, job[r].before))]
  BY <1>deleted
<1>3. /\ events' = Younger(events, before)
      /\ cleaned' = IF before > cleaned THEN before ELSE cleaned
      /\ now' = now
      /\ UNCHANGED <<viewCount, clickCount, sessions, hourly, tracked>>
  BY <1>1, <1>deleted DEF analyticsVars
<1>4. now \in Nat /\ cleaned \in Nat /\ cleaned' \in Nat /\ cleaned <= cleaned' /\ before <= cleaned'
  BY <1>3, ServingAssumption DEF CountInv, EventsInv, Times
<1>5. EventsInv /\ IsBag(events)
  BY DEF CountInv, EventsInv
<1>6. Grows
  <2>1. tracked \in [Subjects -> Nat]
    BY DEF CountInv, EventsInv
  <2>2. \A s \in Subjects : tracked[s] <= tracked[s]
    BY <2>1
  <2> QED
    BY <1>2, <1>3, <1>4, <2>1, <2>2 DEF Grows
<1>queries. \A L, times :
              /\ CountOf(L, times) \in Nat /\ CountOf(L, times)' \in Nat
              /\ CountOf(L, times)' <= CountOf(L, times)
              /\ CountOf(L, times) <=
                   CountOf(L, times)' + CountOf(Subjects, {t \in times : t < before})
              /\ (\A t \in times : t \in Nat => ~(t < before)) =>
                   /\ CountOf(L, times)' = CountOf(L, times)
                   /\ DistinctOf(L, times)' = DistinctOf(L, times)
  BY <1>3, <1>5, DeleteQueries
<1>7. EventsInv'
  <2>1. IsBag(events)' /\ DOMAIN events' \subseteq DOMAIN events
    BY <1>3, <1>5, DeleteCounts
  <2>2. IsBag(sessions)'
    BY <1>3 DEF CountInv, EventsInv, IsBag
  <2> QED
    BY <1>2, <1>3, <1>4, <2>1, <2>2 DEF CountInv, EventsInv
<1>8. PICK i : i = job[r]
  OBVIOUS
<1>9. PICK j : j = [i EXCEPT !.pc = "purge sessions"]
  OBVIOUS
<1>10. "pc" \in DOMAIN i /\ "drift" \notin DOMAIN i
  BY <1>1, <1>8 DEF CountInv, EventJobs, KnowsEvent, ReportSteps, SummarySteps
<1>11. DOMAIN j = DOMAIN i /\ j.pc = "purge sessions"
  BY <1>9, <1>10
<1>12. Plain(j)
  BY <1>10, <1>11 DEF Plain, ReportSteps, SummarySteps
<1>13. /\ job' = [q \in Requests |-> job'[q]] /\ job'[r] = j
       /\ \A q \in Requests \ {r} : job'[q] = Drifted(q, Deleted(q, before))
  BY <1>1, <1>jobs, <1>8, <1>9
<1>14. \A q \in Requests : Deleted(q, before) \in Nat
  BY <1>5, QueryCounts DEF Deleted
<1>15. Moves(r, j)
  <2>1. ASSUME NEW q \in Requests \ {r}
        PROVE  job'[q] = job[q] \/ \E n \in Nat : Drifts(q, n)
    <3>1. PICK n \in Nat : n = Deleted(q, before)
      BY <1>14
    <3>2. job'[q] = Drifted(q, n)
      BY <1>13, <3>1
    <3> QED
      BY <3>2, DriftedDrifts
  <2> QED
    BY <1>13, <2>1 DEF Moves
<1>16. EventJobs'
  <2>1. "pc" \in DOMAIN j /\ KnowsEvent(j)' /\ IsRight(j)'
    BY <1>12, PlainIsRightNext
  <2>2. ASSUME NEW q \in Requests \ {r}, job[q].pc \in ReportSteps
        PROVE  \E n \in Nat : Drifts(q, n) /\ ChangesBy(q, n)
    <3>1. "drift" \in DOMAIN job[q]
      BY <2>2 DEF CountInv, EventJobs, KnowsEvent
    <3>2. PICK n \in Nat : n = Deleted(q, before)
      BY <1>14
    <3>3. n = CountOf(Subjects, {t \in job[q].times : t < before})
      BY <3>1, <3>2 DEF Deleted, Reporting
    <3>4. job'[q] = Drifted(q, n)
      BY <1>13, <3>2
    <3>5. Drifts(q, n)
      BY <3>1, <3>4 DEF Drifted, Drifts
    <3>6. ChangesBy(q, n)
      <4>1. SUFFICES ASSUME NEW L, NEW times, times = job[q].times
                     PROVE  /\ CountOf(L, times) \in Nat /\ CountOf(L, times)' \in Nat
                            /\ Near(CountOf(L, times)', CountOf(L, times), n)
        BY DEF ChangesBy
      <4>2. PICK c, c1 : c = CountOf(L, times) /\ c1 = CountOf(L, times)'
        OBVIOUS
      <4>3. c \in Nat /\ c1 \in Nat /\ c1 <= c /\ c <= c1 + n
        BY <1>queries, <3>3, <4>1, <4>2
      <4>4. Near(c1, c, n)
        BY <3>2, <4>3 DEF Near
      <4> QED
        BY <4>2, <4>3, <4>4
    <3> QED
      BY <3>5, <3>6
  <2> QED
    BY <1>6, <1>15, <2>1, <2>2, JobsStayRight DEF CountInv
<1>17. CountersInv'
  <2>1. ASSUME NEW s \in Present
        PROVE  /\ Logged(s)' + UnderWay(s)' <= Counter(s)' + failures'
               /\ cleaned' > 0 \/ Counter(s)' <= Logged(s)' + UnderWay(s)' + failures'
    <3>1. Logged(s)' \in Nat /\ Logged(s)' <= Logged(s)
      BY <1>queries DEF Logged, Times
    <3>2. cleaned' > 0 \/ (Logged(s)' = Logged(s) /\ ~(cleaned > 0))
      <4>1. ASSUME before = 0 PROVE Logged(s)' = Logged(s)
        <5>1. PICK times : times = Times
          OBVIOUS
        <5>2. \A t \in times : t \in Nat => ~(t < before)
          BY <4>1
        <5>3. CountOf({s}, times)' = CountOf({s}, times)
          BY <1>queries, <5>2
        <5>4. CountOf({s}, Times)' = CountOf({s}, Times)
          BY <5>1, <5>3 DEF Times, CountOf, Within
        <5> QED
          BY <5>4 DEF Logged
      <4> QED
        BY <1>1, <1>3, <1>4, <4>1
    <3>3. Logged(s) \in Nat /\ UnderWay(s) \in Nat /\ Counter(s) \in Nat
      BY OneSubject DEF CountInv
    <3>4. UnderWay(s)' = UnderWay(s)
      <4>1. ~At(r, "track") /\ j.pc # "track"
        BY <1>1, <1>11 DEF At
      <4> QED
        BY <1>15, <3>3, <4>1, UnderWayAfter DEF CountInv
    <3>5. Counter(s)' = Counter(s)
      BY <1>3 DEF Counter
    <3>6. /\ Logged(s) + UnderWay(s) <= Counter(s) + failures
          /\ cleaned > 0 \/ Counter(s) <= Logged(s) + UnderWay(s) + failures
      BY DEF CountInv, CountersInv
    <3> QED
      BY <1>2, <3>1, <3>2, <3>3, <3>4, <3>5, <3>6
  <2>2. Present' = Present
    BY <1>3 DEF Present
  <2> QED
    BY <2>1, <2>2 DEF CountersInv
<1>18. HourlyInv'
  <2>1. \A q \in Requests : job'[q].pc \in {"track", "insert"} =>
           \/ job'[q].at = now
           \/ job[q].pc \in {"track", "insert"} /\ job[q].at = job'[q].at
    <3>1. ASSUME NEW q \in Requests, q # r, job'[q].pc \in {"track", "insert"}
          PROVE  job'[q] = job[q]
      BY <1>15, <3>1, OthersTrack DEF CountInv
    <3>2. job'[r].pc = "purge sessions"
      BY <1>11, <1>13
    <3> QED
      BY <3>1, <3>2
  <2>2. ASSUME NEW h \in Hours, NEW L, NEW times, times = Hour(h), \A t \in times : t >= cleaned'
        PROVE  /\ CountOf(L, times)' = CountOf(L, times)
               /\ DistinctOf(L, times)' = DistinctOf(L, times)
    <3>1. \A t \in times : t \in Nat => ~(t < before)
      BY <1>1, <1>4, <2>2
    <3> QED
      BY <1>queries, <3>1
  <2>3. /\ HourlyInv /\ hourly' = hourly /\ now \in Nat /\ now' \in Nat /\ now <= now'
        /\ cleaned \in Nat /\ cleaned' \in Nat /\ cleaned <= cleaned'
    BY <1>3, <1>4 DEF CountInv
  <2> QED
    BY <2>1, <2>2, <2>3, HourlyStays
<1> QED
  BY <1>7, <1>16, <1>17, <1>18 DEF CountInv

----------------------------------------------------------------------------
(***************************************************************************)
(* All the steps.                                                          *)
(***************************************************************************)
LEMMA ReadsOnly ==
  ASSUME CountInv, UNCHANGED <<visitVars, analyticsVars>>, now' = now, Works \/ Fails
  PROVE  NothingLogged
<1>1. IsBag(sessions)'
  BY DEF CountInv, EventsInv, IsBag, analyticsVars
<1>2. failures' \in Nat /\ failures <= failures'
  BY WorksCounts, FailsCounts DEF CountInv, EventsInv
<1> QED
  BY <1>1, <1>2 DEF NothingLogged, visitVars, analyticsVars

\* A request that is not about to log anything ends.
LEMMA QuietFinish ==
  ASSUME CountInv, NothingLogged, NEW r \in Requests, ~At(r, "track"), Finish(r)
  PROVE  CountInv'
<1>1. PICK j : j = Idle
  OBVIOUS
<1>2. job' = [job EXCEPT ![r] = j] /\ Plain(j)
  BY <1>1, IdleIsPlain DEF Finish, GoOn
<1> QED
  BY <1>2, QuietPlain

LEMMA CountShort ==
  ASSUME CountInv, NEW r \in Requests, ShortStep(r), UNCHANGED <<visitVars, analyticsVars>>
  PROVE  CountInv'
<1>1. ASSUME NEW j, j.pc \in ShortSteps, "pc" \in DOMAIN j, "drift" \notin DOMAIN j,
             Arrive(r, j), Works \/ Fails
      PROVE  CountInv'
  <2>1. NothingLogged
    BY <1>1, ReadsOnly DEF Arrive
  <2>2. Plain(j)
    BY <1>1 DEF Plain, ShortSteps, ReportSteps, SummarySteps
  <2>3. ~At(r, "track") /\ job' = [job EXCEPT ![r] = j]
    BY <1>1 DEF Arrive, At
  <2> QED
    BY <2>1, <2>2, <2>3, QuietPlain
<1>2. ASSUME NEW pc \in ShortSteps, At(r, pc), Finish(r), Works \/ Fails
      PROVE  CountInv'
  <2>1. NothingLogged
    BY <1>2, ReadsOnly DEF Finish, GoOn
  <2>2. ~At(r, "track")
    BY <1>2 DEF At, ShortSteps
  <2> QED
    BY <1>2, <2>1, <2>2, QuietFinish
<1>3. ASSUME NEW u \in Users, NEW c \in Codes, NEW hours \in {0, 1}, NEW own \in BOOLEAN,
             HandleCreateShortlink(r, u, c, hours, own) \/ LookupFails(r, u, c, hours)
      PROVE  CountInv'
  <2>1. PICK j : j = [pc |-> "create", user |-> u, code |-> c, hours |-> hours]
    OBVIOUS
  <2>2. j.pc \in ShortSteps /\ "pc" \in DOMAIN j /\ "drift" \notin DOMAIN j
    BY <2>1 DEF ShortSteps
  <2>3. Arrive(r, j) /\ (Works \/ Fails)
    BY <1>3, <2>1 DEF HandleCreateShortlink, LookupFails, Receive
  <2> QED
    BY <1>1, <2>2, <2>3
<1>4. ASSUME NEW s \in shortlinks, HandleRedirectShortlink(r, s) PROVE CountInv'
  <2>1. PICK j : j = [pc |-> "follow", id |-> s.id, code |-> s.code]
    OBVIOUS
  <2>2. j.pc \in ShortSteps /\ "pc" \in DOMAIN j /\ "drift" \notin DOMAIN j
    BY <2>1 DEF ShortSteps
  <2>3. Arrive(r, j) /\ Works
    BY <1>4, <2>1 DEF HandleRedirectShortlink, Receive
  <2> QED
    BY <1>1, <2>2, <2>3
<1>5. ASSUME NEW u \in Users, NEW s \in shortlinks, HandleDeleteShortlink(r, u, s)
      PROVE  CountInv'
  <2>1. PICK j : j = [pc |-> "unlink", user |-> u, id |-> s.id, code |-> s.code]
    OBVIOUS
  <2>2. j.pc \in ShortSteps /\ "pc" \in DOMAIN j /\ "drift" \notin DOMAIN j
    BY <2>1 DEF ShortSteps
  <2>3. Arrive(r, j) /\ Works
    BY <1>5, <2>1 DEF HandleDeleteShortlink, Receive
  <2> QED
    BY <1>1, <2>2, <2>3
<1>6. ASSUME NEW id \in ShortIds, CreateShortlink(r, id) PROVE CountInv'
  <2>1. At(r, "create") /\ Finish(r) /\ Works
    BY <1>6 DEF CreateShortlink
  <2> QED
    BY <1>2, <2>1 DEF ShortSteps
<1>7. CASE \/ CreateShortlinkFails(r) \/ IncrementShortlinkClickCount(r)
           \/ IncrementShortlinkFails(r) \/ DeleteShortlink(r)
  <2>1. PICK pc \in ShortSteps : At(r, pc) /\ Finish(r) /\ (Works \/ Fails)
    BY <1>7 DEF CreateShortlinkFails, IncrementShortlinkClickCount, IncrementShortlinkFails,
                DeleteShortlink, ShortSteps
  <2> QED
    BY <1>2, <2>1
<1>8. CASE ReadShortlinks(r)
  <2>1. UNCHANGED <<job, failures>> /\ now' = now
    BY <1>8 DEF ReadShortlinks
  <2>2. now' \in Times /\ now <= now'
    BY <2>1, ServingAssumption DEF CountInv, EventsInv, Times
  <2> QED
    BY <2>1, <2>2, RestStep
<1> QED
  BY <1>3, <1>4, <1>5, <1>6, <1>7, <1>8 DEF ShortStep

\* A visit begins: the row of the profile, or of the link, is read.
LEMMA ArriveStep ==
  ASSUME CountInv, NEW r \in Requests, NEW v \in Visitors, UNCHANGED analyticsVars,
         GetPublicProfile(r, v) \/ \E l \in Links : TrackLinkClick(r, v, l)
  PROVE  CountInv'
<1>1. NothingLogged
  BY ReadsOnly DEF GetPublicProfile, TrackLinkClick, Receive, Arrive
<1>2. PICK j : Receive(r, j) /\ "pc" \in DOMAIN j /\ j.pc = "count" /\ "drift" \notin DOMAIN j
                 /\ j.link \in Subjects
  <2>1. CASE GetPublicProfile(r, v)
    <3>1. PICK j : j = [pc |-> "count", link |-> NoLink, visitor |-> v, seen |-> viewCount]
      OBVIOUS
    <3>2. "pc" \in DOMAIN j /\ j.pc = "count" /\ "drift" \notin DOMAIN j /\ j.link \in Subjects
      BY <3>1 DEF Subjects
    <3> QED
      BY <2>1, <3>1, <3>2 DEF GetPublicProfile
  <2>2. ASSUME NEW l \in Links, TrackLinkClick(r, v, l)
        PROVE  \E j : Receive(r, j) /\ "pc" \in DOMAIN j /\ j.pc = "count"
                        /\ "drift" \notin DOMAIN j /\ j.link \in Subjects
    <3>1. PICK j : j = [pc |-> "count", link |-> l, visitor |-> v]
      OBVIOUS
    <3>2. "pc" \in DOMAIN j /\ j.pc = "count" /\ "drift" \notin DOMAIN j /\ j.link \in Subjects
      BY <3>1 DEF Subjects
    <3> QED
      BY <2>2, <3>1, <3>2 DEF TrackLinkClick
  <2> QED
    BY <2>1, <2>2
<1>3. ~At(r, "track") /\ job' = [job EXCEPT ![r] = j]
  BY <1>2 DEF Receive, Arrive, At
<1>4. KnowsEvent(j) /\ IsRight(j)
  BY <1>2 DEF KnowsEvent, IsRight, ReportSteps, SummarySteps
<1> QED
  BY <1>1, <1>2, <1>3, <1>4, QuietReport

LEMMA TrackStep ==
  ASSUME CountInv, NEW r \in Requests, trackView(r), UNCHANGED analyticsVars
  PROVE  CountInv'
<1>1. PICK e : e = [link |-> job[r].link, hash |-> hashIP(job[r].visitor),
                    device |-> detectDeviceType(Agent[job[r].visitor]),
                    at |-> job[r].at]
  OBVIOUS
<1>2. e.link = job[r].link /\ e.at = job[r].at /\ e.device \in Devices
  BY <1>1 DEF detectDeviceType, Devices
<1>3. At(r, "track") /\ job[r].link \in Subjects
  BY DEF trackView, At, CountInv, EventJobs, KnowsEvent
<1>4. UNCHANGED <<viewCount, clickCount, cleaned, hourly, sessions, tracked>>
  BY DEF trackView, analyticsVars
<1>5. (Works /\ StoredBy(r, e)) \/ (Fails /\ Finish(r) /\ events' = events)
  BY <1>1 DEF trackView
<1>6. CASE Works /\ StoredBy(r, e)
  BY <1>2, <1>3, <1>4, <1>6, StoreStep DEF Works
<1>7. CASE Fails /\ Finish(r) /\ events' = events
  <2>1. UNCHANGED <<visitVars, analyticsVars>>
    BY <1>4, <1>7 DEF visitVars, analyticsVars
  <2> QED
    BY <1>3, <1>7, <2>1, LoseStep
<1> QED
  BY <1>5, <1>6, <1>7

\* The owner's report: how many views, and how many visitors.
LEMMA ReportStep ==
  ASSUME CountInv, NEW r \in Requests, UNCHANGED analyticsVars,
         getTotalViews(r) \/ getUniqueVisitors(r)
  PROVE  CountInv'
<1>1. NothingLogged
  BY ReadsOnly DEF getTotalViews, Counted, getUniqueVisitors, Reported, GoOn
<1>2. ~At(r, "track")
  BY DEF getTotalViews, getUniqueVisitors, At
<1>3. IsBag(events)
  BY DEF CountInv, EventsInv
<1>4. CASE getTotalViews(r)
  <2>1. PICK n : n = CountOf({NoLink}, job[r].times)
    OBVIOUS
  <2>2. n \in Nat
    BY <1>3, <2>1, QueryCounts
  <2>3. PICK views, missed : Counted(r, views, missed)
                               /\ ((views = n /\ missed = 0) \/ (views = 0 /\ missed = n))
    BY <1>4, <2>1 DEF getTotalViews
  <2>4. views \in Nat /\ missed \in Nat /\ n <= views + missed
    BY <2>2, <2>3
  <2>5. PICK j : j = [pc |-> "visitors", times |-> job[r].times, views |-> views,
                      drift |-> missed]
    OBVIOUS
  <2>6. /\ {"pc", "drift", "times", "views"} = DOMAIN j /\ j.pc = "visitors"
        /\ j.times = job[r].times /\ j.views = views /\ j.drift = missed
    BY <2>5
  <2>7. KnowsEvent(j)
    BY <2>4, <2>6 DEF KnowsEvent, Columns, ReportSteps, SummarySteps
  <2>8. IsRight(j)
    BY <2>1, <2>4, <2>6 DEF IsRight
  <2>9. job' = [job EXCEPT ![r] = j]
    BY <2>3, <2>5 DEF Counted, GoOn
  <2> QED
    BY <1>1, <1>2, <2>6, <2>7, <2>8, <2>9, QuietReport
<1>5. CASE getUniqueVisitors(r)
  <2>1. PICK i : i = job[r]
    OBVIOUS
  <2>2. KnowsEvent(i) /\ IsRight(i) /\ i.pc = "visitors"
    BY <1>5, <2>1 DEF CountInv, EventJobs, getUniqueVisitors, At
  <2>3. i.views \in Nat /\ i.drift \in Nat
    BY <2>2 DEF KnowsEvent, ReportSteps, SummarySteps
  <2>4. PICK n, d : n = CountOf({NoLink}, i.times) /\ d = DistinctOf({NoLink}, i.times)
    OBVIOUS
  <2>5. n \in Nat /\ d \in Nat /\ d <= n
    BY <1>3, <2>4, QueryCounts, VisitorsAreViewers
  <2>6. n <= i.views + i.drift
    BY <2>2, <2>4 DEF IsRight
  <2>7. PICK visitors : Reported(r, visitors) /\ (visitors = d \/ visitors = 0)
    BY <1>5, <2>1, <2>4 DEF getUniqueVisitors
  <2>8. visitors \in Nat /\ visitors <= i.views + i.drift
    BY <2>3, <2>5, <2>6, <2>7
  <2>9. PICK j : j = [pc |-> "report", times |-> {}, views |-> i.views,
                      visitors |-> visitors, drift |-> i.drift]
    OBVIOUS
  <2>10. /\ {"pc", "drift", "times", "views", "visitors"} = DOMAIN j /\ j.pc = "report"
         /\ j.views = i.views /\ j.visitors = visitors /\ j.drift = i.drift
    BY <2>9
  <2>11. KnowsEvent(j)
    BY <2>3, <2>8, <2>10 DEF KnowsEvent, Columns, ReportSteps, SummarySteps
  <2>12. IsRight(j)
    BY <2>8, <2>10 DEF IsRight
  <2>13. job' = [job EXCEPT ![r] = j]
    BY <2>1, <2>7, <2>9 DEF Reported, GoOn
  <2> QED
    BY <1>1, <1>2, <2>10, <2>11, <2>12, <2>13, QuietReport
<1> QED
  BY <1>4, <1>5

LEMMA LinkReportStep ==
  ASSUME CountInv, NEW r \in Requests, NEW l \in Links, GetLinkAnalytics(r, l),
         UNCHANGED analyticsVars
  PROVE  CountInv'
<1>1. NothingLogged
  BY ReadsOnly DEF GetLinkAnalytics, Receive, Arrive
<1>2. PICK j : j = [pc |-> "link report", link |-> l, total |-> clickCount[l],
                    recent |-> CountOf({l}, Recent)]
  OBVIOUS
<1>3. "pc" \in DOMAIN j /\ "drift" \notin DOMAIN j /\ j.pc = "link report" /\ j.link = l
      /\ j.total = clickCount[l] /\ j.recent = CountOf({l}, Recent)
  BY <1>2
<1>4. l \in Present /\ l \in DOMAIN clickCount /\ l # NoLink /\ l \in Subjects
  BY VisitsAssumption DEF GetLinkAnalytics, Present, Subjects
<1>5. PICK c, k, n, m : c = clickCount[l] /\ k = tracked[l] /\ n = CountOf({l}, Recent)
                          /\ m = Logged(l)
  OBVIOUS
<1>6. c \in Nat /\ k \in Nat /\ failures \in Nat
  BY <1>4, <1>5 DEF CountInv, EventsInv
<1>7. n \in Nat /\ n <= m
  BY <1>5, RecentIsLogged DEF CountInv
<1>8. m \in Nat /\ UnderWay(l) \in Nat
  BY <1>4, <1>5, OneSubject DEF CountInv
<1>9. Counter(l) = k + c
  BY <1>4, <1>5 DEF Counter
<1>10. m + UnderWay(l) <= k + c + failures
  BY <1>4, <1>5, <1>9 DEF CountInv, CountersInv
<1>11. n <= c + k + failures
  BY <1>6, <1>7, <1>8, <1>10
<1>12. KnowsEvent(j)
  BY <1>3, <1>4, <1>5, <1>6, <1>7 DEF KnowsEvent, ReportSteps, SummarySteps
<1>13. IsRight(j)
  BY <1>3, <1>5, <1>11 DEF IsRight
<1>14. ~At(r, "track") /\ job' = [job EXCEPT ![r] = j]
  BY <1>2 DEF GetLinkAnalytics, Receive, Arrive, At
<1> QED
  BY <1>1, <1>3, <1>12, <1>13, <1>14, QuietReport

LEMMA CountVisit ==
  ASSUME CountInv, NEW r \in Requests, VisitStep(r), UNCHANGED analyticsVars
  PROVE  CountInv'
<1>1. ASSUME NEW from \in Times, GetProfileAnalytics(r, from) PROVE CountInv'
  <2>1. NothingLogged
    BY <1>1, ReadsOnly DEF GetProfileAnalytics, Receive, Arrive
  <2>2. PICK j : j = [pc |-> "views", times |-> from..now]
    OBVIOUS
  <2>3. ~At(r, "track") /\ job' = [job EXCEPT ![r] = j]
    BY <1>1, <2>2 DEF GetProfileAnalytics, Receive, Arrive, At
  <2>4. Plain(j)
    BY <2>2 DEF Plain, ReportSteps, SummarySteps
  <2> QED
    BY <2>1, <2>3, <2>4, QuietPlain
<1>2. CASE Respond(r) \/ RespondLinks(r)
  <2>1. Finish(r) /\ Works /\ ~At(r, "track") /\ UNCHANGED visitVars
    BY <1>2 DEF Respond, RespondLinks, At
  <2>2. NothingLogged
    BY <2>1, ReadsOnly DEF Finish, GoOn
  <2> QED
    BY <2>1, <2>2, QuietFinish
<1> QED
  BY <1>1, <1>2, ArriveStep, IncrementStep, TrackStep, ReportStep, LinkReportStep DEF VisitStep

\* The four queries of a summary that this model tells apart.
LEMMA SummaryStep ==
  ASSUME CountInv, NEW r \in Requests,
         GetTotals(r) \/ GetDurations(r) \/ GetDevices(r) \/ GetLinkStats(r)
  PROVE  CountInv'
<1>1. PICK i : i = job[r]
  OBVIOUS
<1>2. "pc" \in DOMAIN i /\ KnowsEvent(i) /\ IsRight(i)
  BY <1>1 DEF CountInv, EventJobs
<1>3. ~At(r, "track")
  BY DEF GetTotals, GetDurations, GetDevices, GetLinkStats, At
<1>4. NothingLogged
  BY ReadsOnly DEF GetTotals, GetDurations, GetDevices, GetLinkStats, GoOn, Finish
<1>5. CASE Finish(r)
  BY <1>3, <1>4, <1>5, QuietFinish
<1>6. ASSUME NEW j, GoOn(r, j), "pc" \in DOMAIN j, j.pc \in SummarySteps,
             {"drift", "times", "total", "clicks"} \subseteq DOMAIN j,
             j.pc = "summary" => "whole" \in DOMAIN j,
             j.drift \in Nat, j.total \in Int, j.clicks \in Int, IsRight(j)
      PROVE  CountInv'
  <2>1. Columns(j.pc) \subseteq DOMAIN j
    BY <1>6 DEF Columns, SummarySteps
  <2>2. KnowsEvent(j)
    BY <1>6, <2>1 DEF KnowsEvent, ReportSteps, SummarySteps
  <2>3. job' = [job EXCEPT ![r] = j] /\ j.pc # "track" /\ j.pc # "insert"
    BY <1>6 DEF GoOn, SummarySteps
  <2> QED
    BY <1>3, <1>4, <1>6, <2>2, <2>3, QuietReport
<1>7. IsBag(events)
  BY DEF CountInv, EventsInv
<1>8. ASSUME i.pc \in {"durations", "devices", "links"}
      PROVE  /\ {"pc", "drift", "times", "total", "clicks"} \subseteq DOMAIN i
             /\ i.drift \in Nat /\ i.total \in Int /\ i.clicks \in Int
  <2>1. {"times", "total", "clicks"} \subseteq DOMAIN i
    BY <1>2, <1>8 DEF KnowsEvent, Columns, ReportSteps, SummarySteps
  <2> QED
    BY <1>2, <1>8, <2>1 DEF KnowsEvent, ReportSteps, SummarySteps
<1>9. PICK n, c : n = CountOf(Subjects, i.times) /\ c = CountOf(Links, i.times)
  OBVIOUS
<1>10. n \in Nat /\ c \in Nat
  BY <1>7, <1>9, QueryCounts
<1>11. CASE GetTotals(r)
  <2>1. PICK j : j = [pc |-> "durations", times |-> i.times, drift |-> 0, total |-> n,
                      clicks |-> c]
    OBVIOUS
  <2>2. GoOn(r, j) \/ Finish(r)
    BY <1>1, <1>9, <1>11, <2>1 DEF GetTotals
  <2>3. /\ DOMAIN j = {"pc", "drift", "times", "total", "clicks"}
        /\ j.pc = "durations" /\ j.times = i.times /\ j.drift = 0 /\ j.total = n /\ j.clicks = c
    BY <2>1
  <2>4. Near(n, n, 0) /\ Near(c, c, 0)
    BY <1>10, SameIsNear
  <2>5. IsRight(j)
    BY <1>9, <2>3, <2>4 DEF IsRight
  <2> QED
    BY <1>5, <1>6, <1>10, <2>2, <2>3, <2>5 DEF SummarySteps
<1>12. CASE GetDurations(r)
  <2>1. i.pc = "durations"
    BY <1>1, <1>12 DEF GetDurations, At
  <2>2. PICK j : j = [i EXCEPT !.pc = "devices"]
    OBVIOUS
  <2>3. GoOn(r, j) \/ Finish(r)
    BY <1>1, <1>12, <2>2 DEF GetDurations
  <2>4. DOMAIN j = DOMAIN i /\ j.pc = "devices" /\ j.times = i.times /\ j.drift = i.drift
        /\ j.total = i.total /\ j.clicks = i.clicks
    BY <1>8, <2>1, <2>2
  <2>5. IsRight(j)
    BY <1>2, <2>1, <2>4 DEF IsRight
  <2> QED
    BY <1>5, <1>6, <1>8, <2>1, <2>3, <2>4, <2>5 DEF SummarySteps
<1>13. CASE GetDevices(r)
  <2>1. i.pc = "devices"
    BY <1>1, <1>13 DEF GetDevices, At
  <2>2. DeviceCount("mobile", i.times) + DeviceCount("tablet", i.times)
          + DeviceCount("desktop", i.times) = n
    BY <1>9, DevicesAddUp DEF CountInv
  <2>3. PICK j : j = [i EXCEPT !.pc = "links", !.total = @ - n]
    OBVIOUS
  <2>4. GoOn(r, j) \/ Finish(r)
    BY <1>1, <1>13, <2>2, <2>3 DEF GetDevices
  <2>5. DOMAIN j = DOMAIN i /\ j.pc = "links" /\ j.times = i.times /\ j.drift = i.drift
        /\ j.total = i.total - n /\ j.clicks = i.clicks
    BY <1>8, <2>1, <2>3
  <2>6. Near(i.total, n, i.drift) /\ Near(i.clicks, c, i.drift)
    BY <1>2, <1>9, <2>1 DEF IsRight
  <2>7. j.total \in Int /\ j.total <= j.drift /\ 0 <= j.total + j.drift
    BY <1>8, <1>10, <2>1, <2>5, <2>6 DEF Near
  <2>8. IsRight(j)
    BY <1>9, <2>5, <2>6, <2>7 DEF IsRight
  <2> QED
    BY <1>5, <1>6, <1>8, <2>1, <2>4, <2>5, <2>7, <2>8 DEF SummarySteps
<1>14. CASE GetLinkStats(r)
  <2>1. i.pc = "links"
    BY <1>1, <1>14 DEF GetLinkStats, At
  <2>2. PICK whole : whole = (/\ Clicked(i.times) \subseteq DOMAIN clickCount
                              /\ Cardinality(Clicked(i.times)) <= TopLinks)
    OBVIOUS
  <2>3. ASSUME NEW top \in Listed(i.times),
               GoOn(r, [pc |-> "summary", times |-> {}, drift |-> i.drift, total |-> i.total,
                        clicks |-> i.clicks - CountOf(top, i.times), whole |-> whole])
        PROVE  CountInv'
    <3>1. PICK t : t = CountOf(top, i.times)
      OBVIOUS
    <3>2. t \in Nat /\ t <= c /\ (whole => t = c)
      BY <1>9, <2>2, <3>1, ListedAreClicked DEF CountInv
    <3>3. PICK j : j = [pc |-> "summary", times |-> {}, drift |-> i.drift, total |-> i.total,
                        clicks |-> i.clicks - t, whole |-> whole]
      OBVIOUS
    <3>4. GoOn(r, j)
      BY <2>3, <3>1, <3>3
    <3>5. /\ DOMAIN j = {"pc", "times", "drift", "total", "clicks", "whole"}
          /\ j.pc = "summary" /\ j.drift = i.drift /\ j.total = i.total
          /\ j.clicks = i.clicks - t /\ j.whole = whole
      BY <3>3
    <3>6. i.total <= i.drift /\ 0 <= i.total + i.drift /\ Near(i.clicks, c, i.drift)
      BY <1>2, <1>9, <2>1 DEF IsRight
    <3>7. j.clicks \in Int /\ 0 <= j.clicks + j.drift
      BY <1>8, <1>10, <2>1, <3>2, <3>5, <3>6 DEF Near
    <3>8. whole => j.clicks <= j.drift
      BY <1>8, <1>10, <2>1, <3>2, <3>5, <3>6 DEF Near
    <3>9. IsRight(j)
      BY <3>5, <3>6, <3>7, <3>8 DEF IsRight
    <3> QED
      BY <1>6, <1>8, <2>1, <3>4, <3>5, <3>7, <3>9 DEF SummarySteps
  <2>4. Finish(r) \/ \E top \in Listed(i.times) :
               GoOn(r, [pc |-> "summary", times |-> {}, drift |-> i.drift, total |-> i.total,
                        clicks |-> i.clicks - CountOf(top, i.times), whole |-> whole])
    BY <1>1, <1>14, <2>2 DEF GetLinkStats
  <2> QED
    BY <1>5, <2>3, <2>4
<1> QED
  BY <1>11, <1>12, <1>13, <1>14

LEMMA SessionStep ==
  ASSUME CountInv, NEW r \in Requests, StoreSession(r) \/ DeleteOldSessions(r)
  PROVE  CountInv'
<1>1. IsBag(sessions)
  BY DEF CountInv, EventsInv
<1>2. \/ sessions' = sessions
      \/ \E x : sessions' = sessions (+) SetToBag({x})
      \/ \E before : sessions' = Younger(sessions, before)
  BY DEF StoreSession, DeleteOldSessions
<1>3. ASSUME NEW C, C = sessions' PROVE IsBag(C)
  <2>1. CASE sessions' = sessions
    BY <1>1, <1>3, <2>1
  <2>2. ASSUME NEW x, sessions' = sessions (+) SetToBag({x}) PROVE IsBag(C)
    <3>1. HasOneMore(sessions, x, C)
      BY <1>1, <1>3, <2>2, OneMore
    <3> QED
      BY <3>1 DEF HasOneMore
  <2>3. ASSUME NEW before, sessions' = Younger(sessions, before) PROVE IsBag(C)
    BY <1>1, <1>3, <2>3, YoungerIsBag
  <2> QED
    BY <1>2, <2>1, <2>2, <2>3
<1>4. IsBag(sessions)'
  BY <1>3 DEF IsBag
<1>5. /\ UNCHANGED <<events, viewCount, clickCount, cleaned, hourly, tracked>>
      /\ Finish(r) /\ now' = now /\ ~At(r, "track") /\ (Works \/ Fails)
  BY DEF StoreSession, DeleteOldSessions, visitVars, Finish, GoOn, At
<1>6. failures' \in Nat /\ failures <= failures'
  BY <1>5, WorksCounts, FailsCounts DEF CountInv, EventsInv
<1>7. NothingLogged
  BY <1>4, <1>5, <1>6 DEF NothingLogged
<1> QED
  BY <1>5, <1>7, QuietFinish

LEMMA InsertStep ==
  ASSUME CountInv, NEW r \in Requests, InsertEvent(r)
  PROVE  CountInv'
<1>1. PICK e : e = [link |-> job[r].link, hash |-> saltedHash(job[r].visitor),
                    device |-> parseDeviceType(Agent[job[r].visitor]),
                    at |-> job[r].at]
  OBVIOUS
<1>2. e.link = job[r].link /\ e.at = job[r].at /\ e.device \in Devices
  BY <1>1 DEF parseDeviceType, Devices
<1>3. At(r, "insert") /\ job[r].link \in Subjects /\ ~At(r, "track")
  BY DEF InsertEvent, At, CountInv, EventJobs, KnowsEvent
<1>4. UNCHANGED <<viewCount, clickCount, cleaned, hourly, sessions>>
  BY DEF InsertEvent
<1>5. \/ Works /\ StoredBy(r, e) /\ tracked' = [tracked EXCEPT ![e.link] = @ + 1]
      \/ Fails /\ Finish(r) /\ events' = events /\ tracked' = tracked
  BY <1>1, <1>2 DEF InsertEvent
<1>6. CASE Works /\ StoredBy(r, e) /\ tracked' = [tracked EXCEPT ![e.link] = @ + 1]
  BY <1>2, <1>3, <1>4, <1>6, StoreStep DEF Works
<1>7. CASE Fails /\ Finish(r) /\ events' = events /\ tracked' = tracked
  <2>1. UNCHANGED <<visitVars, analyticsVars>> /\ now' = now
    BY <1>4, <1>7 DEF visitVars, analyticsVars, Finish, GoOn
  <2>2. NothingLogged
    BY <1>7, <2>1, ReadsOnly
  <2> QED
    BY <1>3, <1>7, <2>2, QuietFinish
<1> QED
  BY <1>5, <1>6, <1>7

LEMMA CountAnalytics ==
  ASSUME CountInv, NEW r \in Requests, AnalyticsStep(r)
  PROVE  CountInv'
<1>1. ASSUME NEW s \in Subjects, NEW v \in Visitors, TrackEvent(r, s, v) PROVE CountInv'
  <2>1. PICK j : j = [pc |-> "insert", link |-> s, visitor |-> v, at |-> now]
    OBVIOUS
  <2>2. NothingLogged
    BY <1>1, ReadsOnly DEF TrackEvent, Receive, Arrive
  <2>3. ~At(r, "track") /\ job' = [job EXCEPT ![r] = j]
    BY <1>1, <2>1 DEF TrackEvent, Receive, Arrive, At
  <2>4. "pc" \in DOMAIN j /\ "drift" \notin DOMAIN j /\ j.pc = "insert" /\ j.link = s
        /\ j.at = now
    BY <2>1
  <2>5. now \in 0..now
    BY ServingAssumption DEF CountInv, EventsInv, Times
  <2>6. KnowsEvent(j) /\ IsRight(j)
    BY <1>1, <2>4, <2>5 DEF KnowsEvent, IsRight, ReportSteps, SummarySteps
  <2> QED
    BY <2>2, <2>3, <2>4, <2>6, QuietReport
<1>2. ASSUME NEW v \in Visitors, TrackView(r, v) \/ \E l \in Links : TrackClick(r, v, l)
      PROVE  CountInv'
  BY <1>1, <1>2 DEF TrackView, TrackClick, Subjects
<1>3. ASSUME NEW s \in Sessions, TrackSession(r, s) PROVE CountInv'
  <2>1. PICK known : known = \E row \in BagToSet(sessions) : row.session = s
    OBVIOUS
  <2>2. PICK j : j = [pc |-> "session", session |-> s, known |-> known]
    OBVIOUS
  <2>3. Plain(j)
    BY <2>2 DEF Plain, ReportSteps, SummarySteps
  <2>4. NothingLogged
    BY <1>3, ReadsOnly DEF TrackSession, Receive, Arrive
  <2>5. ~At(r, "track") /\ job' = [job EXCEPT ![r] = j]
    BY <1>3, <2>1, <2>2 DEF TrackSession, Receive, Arrive, At
  <2> QED
    BY <2>3, <2>4, <2>5, QuietPlain
<1>4. CASE StoreSession(r) \/ DeleteOldSessions(r)
  BY <1>4, SessionStep
<1>5. ASSUME NEW to, GetSummary(r, 0, to) PROVE CountInv'
  <2>1. PICK j : j = [pc |-> "totals", times |-> 0..to - 1]
    OBVIOUS
  <2>2. Plain(j)
    BY <2>1 DEF Plain, ReportSteps, SummarySteps
  <2>3. NothingLogged
    BY <1>5, ReadsOnly DEF GetSummary, Receive, Arrive
  <2>4. ~At(r, "track") /\ job' = [job EXCEPT ![r] = j]
    BY <1>5, <2>1 DEF GetSummary, Receive, Arrive, At
  <2> QED
    BY <2>2, <2>3, <2>4, QuietPlain
<1>6. CASE GetTotals(r) \/ GetDurations(r) \/ GetDevices(r) \/ GetLinkStats(r)
  BY <1>6, SummaryStep
<1>7. CASE GetHourlyStats(r)
  <2>1. Finish(r) /\ ~At(r, "track") /\ NothingLogged
    BY <1>7, ReadsOnly DEF GetHourlyStats, At, Finish, GoOn
  <2> QED
    BY <2>1, QuietFinish
<1>8. CASE CleanupOldData(r)
  <2>1. PICK period \in {Retention, DefaultRetention} :
          /\ Arrive(r, [pc |-> "purge", before |-> IF now < period THEN 0 ELSE now - period])
          /\ Works \/ Fails
    BY <1>8 DEF CleanupOldData
  <2>2. PICK before : before = IF now < period THEN 0 ELSE now - period
    OBVIOUS
  <2>3. before \in Nat
    BY <2>2, ServingAssumption, AnalyticsAssumption DEF CountInv, EventsInv, Times
  <2>4. PICK j : j = [pc |-> "purge", before |-> before]
    OBVIOUS
  <2>5. ~At(r, "track") /\ job' = [job EXCEPT ![r] = j] /\ now' = now
    BY <2>1, <2>2, <2>4 DEF Arrive, At
  <2>6. NothingLogged
    BY <1>8, <2>1, <2>5, ReadsOnly DEF CleanupOldData
  <2>7. "pc" \in DOMAIN j /\ "drift" \notin DOMAIN j /\ j.pc = "purge" /\ j.before \in Nat
    BY <2>3, <2>4
  <2>8. KnowsEvent(j) /\ IsRight(j)
    BY <2>7 DEF KnowsEvent, IsRight, ReportSteps, SummarySteps
  <2> QED
    BY <2>5, <2>6, <2>7, <2>8, QuietReport
<1>9. CASE DeleteOldEvents(r)
  <2>1. CASE Works
    BY <1>9, <2>1, DeleteStep
  <2>2. CASE ~Works
    <3>1. /\ Fails /\ Finish(r) /\ ~At(r, "track") /\ now' = now
          /\ UNCHANGED <<visitVars, analyticsVars>>
      BY <1>9, <2>2 DEF DeleteOldEvents, At, Finish, GoOn, visitVars
    <3>2. NothingLogged
      BY <3>1, ReadsOnly
    <3> QED
      BY <3>1, <3>2, QuietFinish
  <2> QED
    BY <2>1, <2>2
<1> QED
  BY <1>2, <1>3, <1>4, <1>5, <1>6, <1>7, <1>8, <1>9, InsertStep DEF AnalyticsStep

LEMMA CountStep ==
  ASSUME CountInv, [Next]_vars
  PROVE  CountInv'
<1>0. now \in Nat /\ now \in Times
  BY ServingAssumption DEF CountInv, EventsInv, Times
<1>1. ASSUME NEW r \in Requests, ShortStep(r), UNCHANGED <<visitVars, analyticsVars>>
      PROVE  CountInv'
  BY <1>1, CountShort
<1>2. ASSUME NEW r \in Requests, VisitStep(r), UNCHANGED analyticsVars
      PROVE  CountInv'
  BY <1>2, CountVisit
<1>3. ASSUME NEW r \in Requests, AnalyticsStep(r)
      PROVE  CountInv'
  BY <1>3, CountAnalytics
<1>4. ASSUME DeleteExpiredShortlinks, UNCHANGED <<visitVars, analyticsVars>> PROVE CountInv'
  BY <1>0, <1>4, RestStep DEF DeleteExpiredShortlinks, Works
<1>5. ASSUME NEW h \in Hours, AggregateHourly(h) PROVE CountInv'
  BY <1>5, AggregateStep
<1>6. ASSUME NEW l \in DOMAIN clickCount, DropLink(l), UNCHANGED analyticsVars PROVE CountInv'
  BY <1>6, DropStep
<1>7. ASSUME Tick, UNCHANGED <<visitVars, analyticsVars>> PROVE CountInv'
  <2>1. now' \in Times /\ now <= now'
    BY <1>0, <1>7, ServingAssumption DEF Tick, Times
  <2> QED
    BY <1>7, <2>1, RestStep DEF Tick
<1>8. ASSUME Die, UNCHANGED <<visitVars, analyticsVars>> PROVE CountInv'
  BY <1>8, DieStep
<1>9. CASE UNCHANGED vars
  BY <1>0, <1>9, RestStep DEF vars
<1> QED
  BY <1>1, <1>2, <1>3, <1>4, <1>5, <1>6, <1>7, <1>8, <1>9 DEF Next

LEMMA CountInitially == Init => CountInv
<1> SUFFICES ASSUME Init PROVE CountInv
  OBVIOUS
<1>1. /\ job = [r \in Requests |-> Idle] /\ now = 0 /\ failures = 0
      /\ viewCount = 0 /\ clickCount = [l \in Links |-> 0] /\ events = EmptyBag /\ cleaned = 0
      /\ sessions = EmptyBag /\ hourly = [h \in Hours |-> NoRow]
      /\ tracked = [s \in Subjects |-> 0]
  BY DEF Init, ServingInit, VisitsInit, AnalyticsInit
<1>2. DOMAIN EmptyBag = {}
  BY DEF EmptyBag, SetToBag
<1>3. IsBag(events) /\ IsBag(sessions) /\ DOMAIN events = {}
  BY <1>1, <1>2, FS_EmptySet DEF IsBag
<1>4. EventsInv
  <2>1. now \in Times
    BY <1>1, ServingAssumption DEF Times
  <2>2. DOMAIN clickCount \subseteq Links /\ \A l \in DOMAIN clickCount : clickCount[l] \in Nat
    BY <1>1
  <2> QED
    BY <1>1, <1>3, <2>1, <2>2 DEF EventsInv
<1>5. EventJobs
  <2>1. PICK j : j = Idle
    OBVIOUS
  <2>2. "pc" \in DOMAIN j /\ KnowsEvent(j) /\ IsRight(j)
    BY <2>1, IdleIsPlain, PlainIsRight
  <2>3. \A r \in Requests : job[r] = j
    BY <1>1, <2>1
  <2> QED
    BY <1>1, <2>2, <2>3 DEF EventJobs
<1>6. CountersInv
  <2>1. ASSUME NEW s \in Present
        PROVE  Logged(s) = 0 /\ UnderWay(s) = 0 /\ Counter(s) = 0
    <3>1. Within({s}, Times) = {}
      BY <1>3 DEF Within, BagToSet
    <3>2. Logged(s) = 0
      BY <1>3, <3>1, QueryCounts, CountEmpty DEF Logged
    <3>3. Tracking(s) = {}
      BY <1>1 DEF Tracking, At, Idle
    <3>4. UnderWay(s) = 0
      BY <3>3, FS_EmptySet DEF UnderWay
    <3>5. Counter(s) = 0
      BY <1>1, <1>4, <2>1, OneSubject DEF Counter, Present
    <3> QED
      BY <3>2, <3>4, <3>5
  <2> QED
    BY <1>1, <2>1 DEF CountersInv
<1>7. HourlyInv
  BY <1>1 DEF HourlyInv
<1> QED
  BY <1>4, <1>5, <1>6, <1>7 DEF CountInv

LEMMA AlwaysCountInv == Spec => []CountInv
  BY CountInitially, CountStep, PTL DEF Spec

\* The counters and the log agree: incrementViewCount and trackView
\* (public_handlers.go, analytics_handlers.go) are two statements, and whatever
\* falls between them is a visit under way or one that was lost.  Each link that
\* is there has a counter of its own.
THEOREM CountersAndLogAgree == Spec => []CountersAgree
<1>1. CountInv => CountersAgree
  BY DEF CountInv, CountersInv, CountersAgree, Counter, Logged, UnderWay, Tracking, Present
<1> QED
  BY <1>1, AlwaysCountInv, PTL

\* The parts of a report add up but for its drift, that is, for as many events as
\* were logged or deleted within its period between its queries, or missed by one
\* that failed.  The clicks of the links it shows are all the clicks if every link
\* that was clicked is still there and is among the first TopLinks (the JOIN and
\* the LIMIT of GetSummary, analytics_service.go).
THEOREM PartsOfReportsAddUp == Spec => []ReportsAddUp
<1>1. CountInv => ReportsAddUp
  BY DEF CountInv, EventJobs, IsRight, ReportsAddUp, At
<1> QED
  BY <1>1, AlwaysCountInv, PTL

\* An hour that was aggregated after its last event is counted exactly, for as
\* long as every event of it is kept: the deletion of old events (CleanupOldData,
\* analytics_service.go) stops at any moment of an hour.
THEOREM HourlyRowsAreExact == Spec => []HourlyExact
<1>1. CountInv => HourlyExact
  BY DEF CountInv, HourlyInv, SureOf, Exact, HourlyExact
<1> QED
  BY <1>1, AlwaysCountInv, PTL

----------------------------------------------------------------------------
(***************************************************************************)
(* Imports, exports and the services: what an import job says of itself.   *)
(***************************************************************************)

\* The statements of ProfileService.Create and of LinkService.Create.
Creating == {"count profiles", "name", "slug", "insert profile"}
Storing == {"count links", "next position", "insert link"}

\* The job in import_jobs that a request works for, or 0.
ImportOf(j) == IF "import" \in DOMAIN j THEN j.import ELSE 0

Unfinished == {"pending", "processing"}

ImportRow == [owner : Users, status : Unfinished \cup {"completed", "failed"}, imported : Nat]

NothingAdded == [profile |-> FALSE, links |-> 0]

\* What a request knows of its import: until it inserts the profile nothing was
\* added, and then as many links as it has counted.
KnowsImport(j, rows, sums) ==
  /\ "pc" \in DOMAIN j
  /\ ImportOf(j) \in 0 .. Len(rows)
  /\ j.pc \in {"pending", "failure", "result"} => ImportOf(j) # 0
  /\ j.pc \in Creating \cup Storing \cup {"copy"} =>
       {"import", "task"} \subseteq DOMAIN j /\ (j.task = "import" <=> j.import # 0)
  /\ ImportOf(j) # 0 =>
       /\ j.pc \in {"pending", "failure", "result"} \cup Creating \cup Storing
       /\ rows[ImportOf(j)].status \in Unfinished
       /\ j.pc \in {"pending", "failure"} \cup Creating => sums[ImportOf(j)] = NothingAdded
       /\ j.pc \in {"result"} \cup Storing =>
            /\ "imported" \in DOMAIN j /\ j.imported \in Nat
            /\ sums[ImportOf(j)] = [profile |-> TRUE, links |-> j.imported]

\* A job that has an outcome says what it added.
Tallied(row, sum) ==
  /\ row.status = "completed" => sum = [profile |-> TRUE, links |-> row.imported]
  /\ row.status = "failed" => sum = NothingAdded

JobTypes ==
  /\ failures \in Nat
  /\ jobs \in Seq(ImportRow)
  /\ added \in Seq([profile : BOOLEAN, links : Nat]) /\ Len(added) = Len(jobs)
  /\ job = [r \in Requests |-> job[r]]

\* Jobs without an outcome whose request is gone.
Lost == {j \in DOMAIN jobs : jobs[j].status \in Unfinished /\ ~Runs(j)}

ImportsInv ==
  /\ JobTypes
  /\ \A r \in Requests : KnowsImport(job[r], jobs, added)
  /\ \A r, q \in Requests :
       ImportOf(job[r]) # 0 /\ ImportOf(job[r]) = ImportOf(job[q]) => r = q
  /\ \A j \in 1 .. Len(jobs) : Tallied(jobs[j], added[j])
  /\ IsFiniteSet(Lost) /\ Cardinality(Lost) <= failures

----------------------------------------------------------------------------
LEMMA RunsFor ==
  ASSUME ImportsInv, NEW j \in 1 .. Len(jobs)
  PROVE  Runs(j) <=> \E r \in Requests : ImportOf(job[r]) = j
  BY DEF Runs, ImportOf

LEMMA JobsDomain ==
  ASSUME NEW s, NEW S, s \in Seq(S)
  PROVE  DOMAIN s = 1 .. Len(s) /\ Len(s) \in Nat /\ \A i \in 1 .. Len(s) : s[i] \in S
  BY LenProperties

\* The request r goes on, for the same import or for none as before.
LEMMA GoesOn ==
  ASSUME ImportsInv, NEW r \in Requests, NEW k, job' = [job EXCEPT ![r] = k],
         ImportOf(k) = ImportOf(job[r]), KnowsImport(k, jobs', added'),
         failures' \in Nat, failures <= failures',
         jobs' \in Seq(ImportRow), Len(jobs') = Len(jobs),
         added' \in Seq([profile : BOOLEAN, links : Nat]), Len(added') = Len(jobs),
         \A n \in 1 .. Len(jobs) : n # ImportOf(k) => jobs'[n] = jobs[n] /\ added'[n] = added[n]
  PROVE  ImportsInv'
<1>1. \A q \in Requests : job'[q] = IF q = r THEN k ELSE job[q]
  BY DEF ImportsInv, JobTypes
<1>2. JobTypes'
  <2>1. job' = [q \in Requests |-> job'[q]]
    BY DEF ImportsInv, JobTypes
  <2> QED
    BY <2>1 DEF JobTypes
<1>3. \A q \in Requests : ImportOf(job'[q]) = ImportOf(job[q])
  BY <1>1
<1>4. ASSUME NEW q \in Requests PROVE KnowsImport(job'[q], jobs', added')
  <2>1. CASE q = r
    BY <1>1, <2>1
  <2>2. CASE q # r
    <3>1. PICK j : j = job[q] /\ job'[q] = j
      BY <1>1, <2>2
    <3>2. KnowsImport(j, jobs, added)
      BY <3>1 DEF ImportsInv
    <3>3. ImportOf(j) # 0 => ImportOf(j) # ImportOf(k)
      BY <2>2, <3>1 DEF ImportsInv
    <3>4. ImportOf(j) # 0 => /\ jobs'[ImportOf(j)] = jobs[ImportOf(j)]
                             /\ added'[ImportOf(j)] = added[ImportOf(j)]
      <4>1. ImportOf(j) # 0 => ImportOf(j) \in 1 .. Len(jobs)
        BY <3>2, JobsDomain DEF KnowsImport, ImportsInv, JobTypes
      <4> QED
        BY <3>3, <4>1
    <3>5. KnowsImport(j, jobs', added')
      BY <3>2, <3>4 DEF KnowsImport
    <3> QED
      BY <3>1, <3>5
  <2> QED
    BY <2>1, <2>2
<1>5. ASSUME NEW q \in Requests, NEW p \in Requests,
             ImportOf(job'[q]) # 0, ImportOf(job'[q]) = ImportOf(job'[p])
      PROVE  q = p
  BY <1>3, <1>5 DEF ImportsInv
<1>6. ASSUME NEW n \in 1 .. Len(jobs) PROVE Tallied(jobs'[n], added'[n])
  <2>1. CASE n # ImportOf(k)
    <3>1. Tallied(jobs[n], added[n])
      BY DEF ImportsInv
    <3> QED
      BY <2>1, <3>1
  <2>2. CASE n = ImportOf(k)
    <3>1. jobs'[n].status \in Unfinished
      BY <1>6, <2>2, JobsDomain DEF KnowsImport, ImportsInv, JobTypes
    <3> QED
      BY <3>1 DEF Tallied, Unfinished
  <2> QED
    BY <2>1, <2>2
<1>7. Lost' \subseteq Lost
  <2> SUFFICES ASSUME NEW n \in Lost' PROVE n \in Lost
    OBVIOUS
  <2>0. DOMAIN jobs' = 1 .. Len(jobs)
    BY JobsDomain
  <2>1. /\ n \in 1 .. Len(jobs) /\ jobs'[n].status \in Unfinished
        /\ ~(\E q \in Requests : ImportOf(job'[q]) = n)
    <3>1. n \in DOMAIN jobs' /\ jobs'[n].status \in Unfinished /\ ~Runs(n)'
      BY DEF Lost
    <3>2. n \in 1 .. Len(jobs) /\ Len(jobs) \in Nat
      BY <2>0, <3>1, JobsDomain DEF ImportsInv, JobTypes
    <3>3. Runs(n)' <=> \E q \in Requests : ImportOf(job'[q]) = n
      BY <3>2 DEF Runs, ImportOf
    <3> QED
      BY <3>1, <3>2, <3>3
  <2>2. ~(\E q \in Requests : ImportOf(job[q]) = n) /\ n # ImportOf(k)
    BY <1>3, <2>1
  <2>3. jobs[n].status \in Unfinished /\ ~Runs(n)
    BY <2>1, <2>2, RunsFor
  <2> QED
    BY <2>1, <2>3, JobsDomain DEF Lost, ImportsInv, JobTypes
<1>8. IsFiniteSet(Lost') /\ Cardinality(Lost') <= failures'
  <2>1. IsFiniteSet(Lost) /\ Cardinality(Lost) <= failures /\ failures \in Nat
    BY DEF ImportsInv, JobTypes
  <2>2. IsFiniteSet(Lost') /\ Cardinality(Lost') <= Cardinality(Lost)
        /\ Cardinality(Lost) \in Nat /\ Cardinality(Lost') \in Nat
    BY <1>7, <2>1, FS_Subset, FS_CardinalityType
  <2> QED
    BY <2>1, <2>2
<1> QED
  BY <1>2, <1>4, <1>5, <1>6, <1>8 DEF ImportsInv

\* The request of an import ends: with the outcome stored, or with a failure.
LEMMA Ends ==
  ASSUME ImportsInv, NEW r \in Requests, job' = [job EXCEPT ![r] = Idle],
         NEW i \in 1 .. Len(jobs), ImportOf(job[r]) = i, added' = added,
         \/ /\ failures' = failures /\ jobs' \in Seq(ImportRow) /\ Len(jobs') = Len(jobs)
            /\ jobs'[i].status \notin Unfinished /\ Tallied(jobs'[i], added[i])
            /\ \A n \in 1 .. Len(jobs) : n # i => jobs'[n] = jobs[n]
         \/ failures' = failures + 1 /\ jobs' = jobs
  PROVE  ImportsInv'
<1>0. /\ jobs \in Seq(ImportRow) /\ failures \in Nat /\ failures' \in Nat
      /\ jobs' \in Seq(ImportRow) /\ Len(jobs') = Len(jobs)
      /\ \A n \in 1 .. Len(jobs) : n # i => jobs'[n] = jobs[n]
  BY DEF ImportsInv, JobTypes
<1>1. \A q \in Requests : job'[q] = IF q = r THEN Idle ELSE job[q]
  BY DEF ImportsInv, JobTypes
<1>2. JobTypes'
  <2>1. job' = [q \in Requests |-> job'[q]]
    BY DEF ImportsInv, JobTypes
  <2>2. added' \in Seq([profile : BOOLEAN, links : Nat]) /\ Len(added') = Len(jobs)
    BY DEF ImportsInv, JobTypes
  <2> QED
    BY <1>0, <2>1, <2>2 DEF JobTypes
<1>3. ImportOf(Idle) = 0 /\ KnowsImport(Idle, jobs', added')
  BY <1>0, JobsDomain DEF ImportOf, Idle, KnowsImport, Creating, Storing
<1>4. ASSUME NEW q \in Requests PROVE KnowsImport(job'[q], jobs', added')
  <2>1. CASE q = r
    BY <1>1, <1>3, <2>1
  <2>2. CASE q # r
    <3>1. PICK j : j = job[q] /\ job'[q] = j
      BY <1>1, <2>2
    <3>2. KnowsImport(j, jobs, added)
      BY <3>1 DEF ImportsInv
    <3>3. ImportOf(j) # 0 => ImportOf(j) # i
      BY <2>2, <3>1 DEF ImportsInv
    <3>4. ImportOf(j) # 0 => jobs'[ImportOf(j)] = jobs[ImportOf(j)]
      <4>1. ImportOf(j) # 0 => ImportOf(j) \in 1 .. Len(jobs)
        BY <1>0, <3>2, JobsDomain DEF KnowsImport
      <4> QED
        BY <1>0, <3>3, <4>1
    <3>5. KnowsImport(j, jobs', added')
      BY <1>0, <3>2, <3>4 DEF KnowsImport
    <3> QED
      BY <3>1, <3>5
  <2> QED
    BY <2>1, <2>2
<1>5. ASSUME NEW q \in Requests, NEW p \in Requests,
             ImportOf(job'[q]) # 0, ImportOf(job'[q]) = ImportOf(job'[p])
      PROVE  q = p
  BY <1>1, <1>3, <1>5 DEF ImportsInv
<1>6. ASSUME NEW n \in 1 .. Len(jobs) PROVE Tallied(jobs'[n], added'[n])
  BY <1>0 DEF ImportsInv
<1>7. \A n : n \in Lost' <=> /\ n \in 1 .. Len(jobs) /\ jobs'[n].status \in Unfinished
                            /\ ~(\E q \in Requests : ImportOf(job'[q]) = n)
  <2>1. ASSUME NEW n \in 1 .. Len(jobs)
        PROVE  Runs(n)' <=> \E q \in Requests : ImportOf(job'[q]) = n
    BY <2>1 DEF Runs, ImportOf
  <2>2. DOMAIN jobs' = 1 .. Len(jobs)
    BY <1>0, JobsDomain
  <2> QED
    BY <2>1, <2>2 DEF Lost
<1>8. \A n \in Lost' : n = i \/ n \in Lost
  <2> SUFFICES ASSUME NEW n \in Lost', n # i PROVE n \in Lost
    OBVIOUS
  <2>1. n \in 1 .. Len(jobs) /\ jobs'[n].status \in Unfinished
        /\ ~(\E q \in Requests : ImportOf(job'[q]) = n)
    BY <1>7
  <2>2. ~(\E q \in Requests : ImportOf(job[q]) = n)
    BY <1>1, <2>1
  <2>3. jobs[n].status \in Unfinished /\ ~Runs(n)
    BY <1>0, <2>1, <2>2, RunsFor
  <2> QED
    BY <1>0, <2>1, <2>3, JobsDomain DEF Lost
<1>9. IsFiniteSet(Lost) /\ Cardinality(Lost) \in Nat /\ Cardinality(Lost) <= failures
  BY FS_CardinalityType DEF ImportsInv
<1>10. IsFiniteSet(Lost') /\ Cardinality(Lost') <= failures'
  <2>1. CASE failures' = failures /\ jobs'[i].status \notin Unfinished
    <3>1. Lost' \subseteq Lost
      BY <1>7, <1>8, <2>1
    <3>2. IsFiniteSet(Lost') /\ Cardinality(Lost') <= Cardinality(Lost) /\ Cardinality(Lost') \in Nat
      BY <1>9, <3>1, FS_Subset, FS_CardinalityType
    <3> QED
      BY <1>0, <1>9, <2>1, <3>2
  <2>2. CASE failures' = failures + 1
    <3>1. Lost' \subseteq Lost \cup {i}
      BY <1>8
    <3>2. /\ IsFiniteSet(Lost \cup {i}) /\ Cardinality(Lost \cup {i}) <= Cardinality(Lost) + 1
          /\ Cardinality(Lost \cup {i}) \in Nat
      <4>1. PICK S : S = Lost
        OBVIOUS
      <4>2. IsFiniteSet(S \cup {i}) /\ Cardinality(S \cup {i}) \in Nat
            /\ Cardinality(S \cup {i}) = IF i \in S THEN Cardinality(S) ELSE Cardinality(S) + 1
        BY <1>9, <4>1, FS_AddElement, FS_CardinalityType
      <4> QED
        BY <1>9, <4>1, <4>2
    <3>3. /\ IsFiniteSet(Lost') /\ Cardinality(Lost') <= Cardinality(Lost \cup {i})
          /\ Cardinality(Lost') \in Nat
      BY <3>1, <3>2, FS_Subset, FS_CardinalityType
    <3> QED
      BY <1>0, <1>9, <2>2, <3>2, <3>3
  <2> QED
    BY <2>1, <2>2
<1> QED
  BY <1>0, <1>2, <1>4, <1>5, <1>6, <1>10 DEF ImportsInv

\* The ids of rows are numbers that only grow.
IdsInv == inserted \in [profiles : Nat, links : Nat]

\* A request arrives, or goes on, that has nothing to do with imports.
LEMMA Unimported ==
  ASSUME ImportsInv, NEW r \in Requests, NEW k, job' = [job EXCEPT ![r] = k],
         ImportOf(job[r]) = 0, ImportOf(k) = 0, "pc" \in DOMAIN k,
         k.pc \notin {"pending", "failure", "result"},
         k.pc \in Creating \cup Storing \cup {"copy"} =>
           {"import", "task"} \subseteq DOMAIN k /\ (k.task = "import" <=> k.import # 0),
         jobs' = jobs, added' = added, failures' \in Nat, failures <= failures'
  PROVE  ImportsInv'
<1>1. /\ jobs \in Seq(ImportRow) /\ added \in Seq([profile : BOOLEAN, links : Nat])
      /\ Len(added) = Len(jobs) /\ Len(jobs) \in Nat
  BY JobsDomain DEF ImportsInv, JobTypes
<1>2. KnowsImport(k, jobs', added')
  BY <1>1 DEF KnowsImport
<1> QED
  BY <1>1, <1>2, GoesOn

\* The request of an import goes on as k, and nothing is told or added.
LEMMA StaysImport ==
  ASSUME ImportsInv, NEW r \in Requests, NEW k, job' = [job EXCEPT ![r] = k],
         ImportOf(k) = ImportOf(job[r]), KnowsImport(k, jobs, added),
         jobs' = jobs, added' = added, failures' \in Nat, failures <= failures'
  PROVE  ImportsInv'
<1>1. /\ jobs \in Seq(ImportRow) /\ added \in Seq([profile : BOOLEAN, links : Nat])
      /\ Len(added) = Len(jobs)
  BY DEF ImportsInv, JobTypes
<1> QED
  BY <1>1, GoesOn

LEMMA WorksOrFails ==
  ASSUME failures \in Nat, Works \/ Fails
  PROVE  failures' \in Nat /\ failures <= failures'
  BY DEF Works, Fails

LEMMA NotZero ==
  ASSUME NEW m \in Nat, NEW n, n \in 0 .. m /\ n # 0
  PROVE  n \in 1 .. m
  OBVIOUS

\* Where no row is inserted, no account changes.
LEMMA SameAccount ==
  ASSUME ImportsInv, IdsInv, NEW r \in Requests, Account(r),
         \/ inserted' = inserted
         \/ job[r].pc \notin {"insert profile", "insert link"}
         \/ job[r].import = 0
  PROVE  added' = added
<1>1. CASE ~(job[r].pc \in {"insert profile", "insert link"} /\ job[r].import # 0)
  BY <1>1 DEF Account
<1>2. CASE job[r].pc \in {"insert profile", "insert link"} /\ job[r].import # 0
  <2>1. PICK n : n = job[r].import
    OBVIOUS
  <2>2. n \in 1 .. Len(added)
    <3>1. KnowsImport(job[r], jobs, added)
      BY DEF ImportsInv
    <3>2. PICK m \in Nat : m = Len(jobs) /\ m = Len(added)
      BY JobsDomain DEF ImportsInv, JobTypes
    <3>3. ImportOf(job[r]) = n /\ ImportOf(job[r]) \in 0 .. m /\ n # 0
      BY <1>2, <2>1, <3>1, <3>2 DEF KnowsImport, Creating, Storing, ImportOf
    <3>4. n \in 0 .. m /\ n # 0
      BY <3>3
    <3>5. n \in 1 .. m
      BY <3>4, NotZero
    <3> QED
      BY <3>2, <3>5
  <2>3. PICK a : a = added[n] /\ a \in [profile : BOOLEAN, links : Nat]
    BY <2>2, JobsDomain DEF ImportsInv, JobTypes
  <2>4. added' = [added EXCEPT ![n] =
                    [profile |-> added[n].profile \/ inserted'.profiles # inserted.profiles,
                     links |-> added[n].links + inserted'.links - inserted.links]]
    BY <1>2, <2>1 DEF Account
  <2>5. inserted' = inserted /\ inserted.links \in Nat
    BY <1>2 DEF IdsInv
  <2>6. PICK b : b = [profile |-> added[n].profile \/ inserted'.profiles # inserted.profiles,
                      links |-> added[n].links + inserted'.links - inserted.links]
    OBVIOUS
  <2>7. b.profile = a.profile
    BY <2>3, <2>5, <2>6
  <2>8. b.links = a.links
    BY <2>3, <2>5, <2>6
  <2>9. b = a
    BY <2>3, <2>6, <2>7, <2>8
  <2>10. added' = [added EXCEPT ![n] = b] /\ b = added[n]
    BY <2>3, <2>4, <2>6, <2>9
  <2>11. added = [i \in 1 .. Len(added) |-> added[i]]
    <3>1. added \in Seq([profile : BOOLEAN, links : Nat])
      BY DEF ImportsInv, JobTypes
    <3> QED
      BY <3>1, LenProperties
  <2> QED
    BY <2>2, <2>10, <2>11
<1> QED
  BY <1>1, <1>2

----------------------------------------------------------------------------
\* Requests that arrive.
LEMMA ArrivesOther ==
  ASSUME ImportsInv, IdsInv, NEW r \in Requests, NEW k, Arrive(r, k), Works \/ Fails,
         ImportOf(k) = 0, "pc" \in DOMAIN k,
         k.pc \notin {"pending", "failure", "result"},
         k.pc \in Creating \cup Storing \cup {"copy"} =>
           {"import", "task"} \subseteq DOMAIN k /\ (k.task = "import" <=> k.import # 0),
         jobs' = jobs, Account(r) \/ added' = added
  PROVE  ImportsInv'
<1>1. job[r].pc = "idle" /\ job' = [job EXCEPT ![r] = k]
  BY DEF Arrive, At
<1>2. ImportOf(job[r]) = 0
  <2>1. KnowsImport(job[r], jobs, added)
    BY DEF ImportsInv
  <2> QED
    BY <1>1, <2>1 DEF KnowsImport, Creating, Storing
<1>3. added' = added
  BY <1>1, SameAccount
<1>4. failures' \in Nat /\ failures <= failures'
  BY WorksOrFails DEF ImportsInv, JobTypes
<1> QED
  BY <1>1, <1>2, <1>3, <1>4, Unimported

LEMMA IdleIsUnimported ==
  ImportOf(Idle) = 0 /\ "pc" \in DOMAIN Idle /\ Idle.pc = "idle"
  BY DEF Idle, ImportOf

LEMMA ServicesArrive ==
  ASSUME ImportsInv, IdsInv, NEW r \in Requests, Account(r), UNCHANGED <<jobs, downloads>>,
         \/ \E p \in 1 .. inserted.profiles :
              \/ AddLink(r, p) \/ DeleteProfile(r, p)
              \/ \E u \in Users : Duplicate(r, u, p)
              \/ \E name \in Names : UpdateProfile(r, p, Slug(name, "own", 0))
              \/ \E order \in Orders(p) : Reorder(r, p, order)
         \/ \E l \in links : DeleteLink(r, l) \/ Toggle(r, l) \/ ReadLink(r, l)
  PROVE  ImportsInv'
<1> USE DEF Receive
<1>1. ASSUME NEW p, AddLink(r, p) PROVE ImportsInv'
  <2>1. PICK k : k = [pc |-> "count links", task |-> "add", profile |-> p, import |-> 0,
                      k |-> 1, position |-> 0,
                      plan |-> [links |-> <<[valid |-> TRUE, position |-> 0]>>, counted |-> FALSE]]
    OBVIOUS
  <2>2. Arrive(r, k) /\ Works
    BY <1>1, <2>1 DEF AddLink
  <2>3. /\ "pc" \in DOMAIN k /\ {"import", "task"} \subseteq DOMAIN k /\ k.pc = "count links" /\ k.task = "add"
        /\ k.import = 0
    BY <2>1
  <2> QED
    BY <2>2, <2>3, ArrivesOther DEF ImportOf
<1>2. ASSUME NEW p, DeleteProfile(r, p) PROVE ImportsInv'
  BY <1>2, IdleIsUnimported, ArrivesOther DEF DeleteProfile, Creating, Storing
<1>3. ASSUME NEW u, NEW p, Duplicate(r, u, p) PROVE ImportsInv'
  <2>1. PICK row : Arrive(r, [pc |-> "copy", task |-> "duplicate", user |-> u, import |-> 0,
                              tries |-> 0, plan |-> [slug |-> NoSlug, name |-> row.slug.name,
                                                     numbered |-> TRUE]]) /\ Works
    BY <1>3 DEF Duplicate
  <2>2. PICK k : k = [pc |-> "copy", task |-> "duplicate", user |-> u, import |-> 0,
                      tries |-> 0, plan |-> [slug |-> NoSlug, name |-> row.slug.name,
                                             numbered |-> TRUE]]
    OBVIOUS
  <2>3. /\ "pc" \in DOMAIN k /\ {"import", "task"} \subseteq DOMAIN k /\ k.pc = "copy" /\ k.task = "duplicate"
        /\ k.import = 0
    BY <2>2
  <2> QED
    BY <2>1, <2>2, <2>3, ArrivesOther DEF ImportOf
<1>4. ASSUME NEW p, NEW slug, UpdateProfile(r, p, slug) PROVE ImportsInv'
  <2>1. PICK k : k = [pc |-> "new slug", profile |-> p, slug |-> slug]
    OBVIOUS
  <2>2. "pc" \in DOMAIN k /\ "import" \notin DOMAIN k /\ k.pc = "new slug"
    BY <2>1
  <2> QED
    BY <1>4, <2>1, <2>2, ArrivesOther DEF UpdateProfile, ImportOf, Creating, Storing
<1>5. ASSUME NEW p, NEW order, Reorder(r, p, order) PROVE ImportsInv'
  BY <1>5, IdleIsUnimported, ArrivesOther DEF Reorder, Creating, Storing
<1>6. ASSUME NEW l, DeleteLink(r, l) PROVE ImportsInv'
  <2>1. PICK k : k = [pc |-> "delete link", id |-> l.id, profile |-> l.profile,
                      position |-> l.position]
    OBVIOUS
  <2>2. "pc" \in DOMAIN k /\ "import" \notin DOMAIN k /\ k.pc = "delete link"
    BY <2>1
  <2> QED
    BY <1>6, <2>1, <2>2, ArrivesOther DEF DeleteLink, ImportOf, Creating, Storing
<1>7. ASSUME NEW l, Toggle(r, l) PROVE ImportsInv'
  BY <1>7, IdleIsUnimported, ArrivesOther DEF Toggle, Creating, Storing
<1>8. ASSUME NEW l, ReadLink(r, l) PROVE ImportsInv'
  <2>1. PICK k : k = [pc |-> "update link", id |-> l.id, profile |-> l.profile,
                      position |-> l.position, active |-> l.active]
    OBVIOUS
  <2>2. "pc" \in DOMAIN k /\ "import" \notin DOMAIN k /\ k.pc = "update link"
    BY <2>1
  <2> QED
    BY <1>8, <2>1, <2>2, ArrivesOther DEF ReadLink, ImportOf, Creating, Storing
<1> QED
  BY <1>1, <1>2, <1>3, <1>4, <1>5, <1>6, <1>7, <1>8

\* Requests that go on without an import.
LEMMA GoesOnOther ==
  ASSUME ImportsInv, IdsInv, NEW r \in Requests, NEW k, GoOn(r, k), Works \/ Fails,
         job[r].pc \notin {"pending", "failure", "result"} \cup Creating \cup Storing,
         ImportOf(k) = 0, "pc" \in DOMAIN k,
         k.pc \notin {"pending", "failure", "result"},
         k.pc \in Creating \cup Storing \cup {"copy"} =>
           {"import", "task"} \subseteq DOMAIN k /\ (k.task = "import" <=> k.import # 0),
         jobs' = jobs, Account(r) \/ added' = added
  PROVE  ImportsInv'
<1>1. job' = [job EXCEPT ![r] = k]
  BY DEF GoOn
<1>2. ImportOf(job[r]) = 0
  <2>1. KnowsImport(job[r], jobs, added)
    BY DEF ImportsInv
  <2> QED
    BY <2>1 DEF KnowsImport
<1>3. added' = added
  BY SameAccount DEF Creating, Storing
<1>4. failures' \in Nat /\ failures <= failures'
  BY WorksOrFails DEF ImportsInv, JobTypes
<1> QED
  BY <1>1, <1>2, <1>3, <1>4, Unimported

\* What stays of a job whose stage changes.
LEMMA Restaged ==
  ASSUME NEW j, NEW k, "pc" \in DOMAIN j, DOMAIN k = DOMAIN j,
         "import" \in DOMAIN j => k.import = j.import
  PROVE  "pc" \in DOMAIN k /\ ImportOf(k) = ImportOf(j)
  BY DEF ImportOf

LEMMA OthersGoOn ==
  ASSUME ImportsInv, IdsInv, NEW r \in Requests, Account(r), UNCHANGED <<jobs, downloads>>,
         \/ generateUniqueSlug(r) \/ CheckNewSlug(r) \/ StoreProfile(r)
         \/ RemoveLink(r) \/ reorderAfterDelete(r) \/ UpdateLink(r)
  PROVE  ImportsInv'
<1>0. PICK j : j = job[r] /\ KnowsImport(j, jobs, added)
  BY DEF ImportsInv
<1>1. CASE generateUniqueSlug(r)
  <2>1. PICK k : GoOn(r, k) /\ (Works \/ Fails)
                 /\ \/ k = [j EXCEPT !.tries = @ + 1]
                    \/ k = [j EXCEPT !.pc = "count profiles",
                                     !.plan.slug = Slug(j.plan.name, "copy", j.tries)]
    BY <1>0, <1>1 DEF generateUniqueSlug
  <2>2. /\ j.pc = "copy" /\ "pc" \in DOMAIN j /\ {"import", "task"} \subseteq DOMAIN j
        /\ j.task = "import" <=> j.import # 0
    BY <1>0, <1>1 DEF generateUniqueSlug, At, KnowsImport
  <2>3. ImportOf(j) = 0
    BY <1>0, <2>2 DEF KnowsImport, Creating, Storing
  <2>4. /\ DOMAIN k = DOMAIN j /\ k.pc \in {"copy", "count profiles"}
        /\ k.import = j.import /\ k.task = j.task
    <3>1. CASE k = [j EXCEPT !.tries = @ + 1]
      BY <2>2, <3>1
    <3>2. CASE k = [j EXCEPT !.pc = "count profiles",
                             !.plan.slug = Slug(j.plan.name, "copy", j.tries)]
      BY <2>2, <3>2
    <3> QED
      BY <2>1, <3>1, <3>2
  <2>5. "pc" \in DOMAIN k /\ ImportOf(k) = 0 /\ {"import", "task"} \subseteq DOMAIN k
    BY <2>2, <2>3, <2>4, Restaged
  <2> QED
    BY <1>0, <2>1, <2>2, <2>4, <2>5, GoesOnOther DEF Creating, Storing
<1>2. CASE CheckNewSlug(r)
  <2>1. PICK k : GoOn(r, k) /\ (Works \/ Fails)
                 /\ \/ k = [j EXCEPT !.pc = "update profile"]
                    \/ k = Idle
    BY <1>0, <1>2 DEF CheckNewSlug, Finish
  <2>2. j.pc = "new slug" /\ "pc" \in DOMAIN j
    BY <1>0, <1>2 DEF CheckNewSlug, At, KnowsImport
  <2>3. ImportOf(j) = 0
    BY <1>0, <2>2 DEF KnowsImport, Creating, Storing
  <2>4. "pc" \in DOMAIN k /\ k.pc \in {"update profile", "idle"} /\ ImportOf(k) = 0
    <3>1. CASE k = [j EXCEPT !.pc = "update profile"]
      <4>1. DOMAIN k = DOMAIN j /\ k.pc = "update profile" /\ ("import" \in DOMAIN j => k.import = j.import)
        BY <2>2, <3>1
      <4> QED
        BY <2>2, <2>3, <4>1, Restaged
    <3>2. CASE k = Idle
      BY <3>2, IdleIsUnimported
    <3> QED
      BY <2>1, <3>1, <3>2
  <2> QED
    BY <1>0, <2>1, <2>2, <2>4, GoesOnOther DEF Creating, Storing
<1>3. CASE StoreProfile(r) \/ reorderAfterDelete(r) \/ UpdateLink(r)
  <2>1. GoOn(r, Idle) /\ (Works \/ Fails) /\ job[r].pc \in {"update profile", "shift links", "update link"}
    BY <1>3 DEF StoreProfile, reorderAfterDelete, UpdateLink, Finish, At
  <2> QED
    BY <2>1, IdleIsUnimported, GoesOnOther DEF Creating, Storing
<1>4. CASE RemoveLink(r)
  <2>1. PICK k : GoOn(r, k) /\ (Works \/ Fails)
                 /\ \/ k = [j EXCEPT !.pc = "shift links"]
                    \/ k = Idle
    BY <1>0, <1>4 DEF RemoveLink, Finish
  <2>2. j.pc = "delete link" /\ "pc" \in DOMAIN j
    BY <1>0, <1>4 DEF RemoveLink, At, KnowsImport
  <2>3. ImportOf(j) = 0
    BY <1>0, <2>2 DEF KnowsImport, Creating, Storing
  <2>4. "pc" \in DOMAIN k /\ k.pc \in {"shift links", "idle"} /\ ImportOf(k) = 0
    <3>1. CASE k = [j EXCEPT !.pc = "shift links"]
      <4>1. DOMAIN k = DOMAIN j /\ k.pc = "shift links" /\ ("import" \in DOMAIN j => k.import = j.import)
        BY <2>2, <3>1
      <4> QED
        BY <2>2, <2>3, <4>1, Restaged
    <3>2. CASE k = Idle
      BY <3>2, IdleIsUnimported
    <3> QED
      BY <2>1, <3>1, <3>2
  <2> QED
    BY <1>0, <2>1, <2>2, <2>4, GoesOnOther DEF Creating, Storing
<1> QED
  BY <1>1, <1>2, <1>3, <1>4

----------------------------------------------------------------------------
\* Creating the profile.
LEMMA StaysCreating ==
  ASSUME ImportsInv, NEW r \in Requests, NEW k, GoOn(r, k), Works \/ Fails,
         job[r].pc \in Creating, k.pc \in Creating, DOMAIN k = DOMAIN job[r],
         k.import = job[r].import, k.task = job[r].task, jobs' = jobs, added' = added
  PROVE  ImportsInv'
<1>1. PICK j : j = job[r] /\ KnowsImport(j, jobs, added) /\ j.pc \in Creating
  BY DEF ImportsInv
<1>2. ImportOf(k) = ImportOf(j)
  BY <1>1 DEF ImportOf
<1>3. KnowsImport(k, jobs, added)
  BY <1>1, <1>2 DEF KnowsImport, Creating, Storing
<1>4. failures' \in Nat /\ failures <= failures' /\ job' = [job EXCEPT ![r] = k]
  BY WorksOrFails DEF ImportsInv, JobTypes, GoOn
<1> QED
  BY <1>1, <1>2, <1>3, <1>4, StaysImport

LEMMA Refuses ==
  ASSUME ImportsInv, NEW r \in Requests, GoOn(r, AfterRefusal(job[r])), Works \/ Fails,
         job[r].pc \in Creating, jobs' = jobs, added' = added
  PROVE  ImportsInv'
<1>1. PICK j : j = job[r] /\ KnowsImport(j, jobs, added) /\ j.pc \in Creating
  BY DEF ImportsInv
<1>2. /\ "import" \in DOMAIN j /\ (j.task = "import" <=> j.import # 0) /\ ImportOf(j) = j.import
  BY <1>1 DEF KnowsImport, ImportOf
<1>3. PICK k : k = AfterRefusal(j)
  OBVIOUS
<1>4. failures' \in Nat /\ failures <= failures' /\ job' = [job EXCEPT ![r] = k]
  BY <1>1, <1>3, WorksOrFails DEF ImportsInv, JobTypes, GoOn
<1>5. CASE j.task = "import"
  <2>1. k = [pc |-> "failure", import |-> j.import]
    BY <1>3, <1>5 DEF AfterRefusal
  <2>2. DOMAIN k = {"pc", "import"} /\ k.pc = "failure" /\ k.import = j.import
    BY <2>1
  <2>3. ImportOf(k) = ImportOf(j)
    BY <1>2, <2>2 DEF ImportOf
  <2>4. KnowsImport(k, jobs, added)
    BY <1>1, <1>2, <1>5, <2>2, <2>3 DEF KnowsImport, Creating, Storing
  <2> QED
    BY <1>1, <1>4, <2>3, <2>4, StaysImport
<1>6. CASE j.task # "import"
  <2>1. k = Idle /\ ImportOf(j) = 0
    BY <1>2, <1>3, <1>6 DEF AfterRefusal
  <2> QED
    BY <1>1, <1>4, <2>1, IdleIsUnimported, Unimported DEF Creating, Storing
<1> QED
  BY <1>5, <1>6

LEMMA ChecksProfile ==
  ASSUME ImportsInv, IdsInv, NEW r \in Requests, Account(r), UNCHANGED <<jobs, downloads>>,
         CountByUserID(r) \/ generateSlug(r) \/ CheckSlug(r) \/ InsertProfileFails(r)
  PROVE  ImportsInv'
<1>1. PICK j : j = job[r] /\ KnowsImport(j, jobs, added)
  BY DEF ImportsInv
<1>2. job[r].pc \in Creating
  BY DEF CountByUserID, generateSlug, CheckSlug, InsertProfileFails, At, Creating
<1>3. {"pc", "import", "task"} \subseteq DOMAIN j
  BY <1>1, <1>2 DEF KnowsImport
<1>4. added' = added
  <2>1. job[r].pc # "insert link" /\ (job[r].pc = "insert profile" => inserted' = inserted)
    BY DEF CountByUserID, generateSlug, CheckSlug, InsertProfileFails, At, Refuse, serviceVars
  <2> QED
    BY <2>1, SameAccount
<1>5. CASE Refuse(r)
  BY <1>2, <1>4, <1>5, Refuses DEF Refuse, CountByUserID, generateSlug, CheckSlug, InsertProfileFails
<1>6. CASE \E k : /\ GoOn(r, k)
                  /\ \/ k = [j EXCEPT !.pc = IF j.plan.slug = NoSlug THEN "name" ELSE "slug"]
                     \/ k = [j EXCEPT !.tries = @ + 1]
                     \/ k = [j EXCEPT !.pc = "slug",
                                      !.plan.slug = Slug(j.plan.name, "own", j.tries)]
                     \/ k = [j EXCEPT !.pc = "insert profile"]
  <2>1. PICK k : /\ GoOn(r, k)
                  /\ \/ k = [j EXCEPT !.pc = IF j.plan.slug = NoSlug THEN "name" ELSE "slug"]
                     \/ k = [j EXCEPT !.tries = @ + 1]
                     \/ k = [j EXCEPT !.pc = "slug",
                                      !.plan.slug = Slug(j.plan.name, "own", j.tries)]
                     \/ k = [j EXCEPT !.pc = "insert profile"]
    BY <1>6
  <2>2. /\ DOMAIN k = DOMAIN j /\ k.import = j.import /\ k.task = j.task
        /\ k.pc \in Creating
    <3>1. CASE k = [j EXCEPT !.pc = IF j.plan.slug = NoSlug THEN "name" ELSE "slug"]
      BY <1>3, <3>1 DEF Creating
    <3>2. CASE k = [j EXCEPT !.tries = @ + 1]
      BY <1>1, <1>2, <1>3, <3>2
    <3>3. CASE k = [j EXCEPT !.pc = "slug", !.plan.slug = Slug(j.plan.name, "own", j.tries)]
      BY <1>3, <3>3 DEF Creating
    <3>4. CASE k = [j EXCEPT !.pc = "insert profile"]
      BY <1>3, <3>4 DEF Creating
    <3> QED
      BY <2>1, <3>1, <3>2, <3>3, <3>4
  <2>3. Works \/ Fails
    BY DEF CountByUserID, generateSlug, CheckSlug, InsertProfileFails
  <2> QED
    BY <1>1, <1>2, <1>4, <2>1, <2>2, <2>3, StaysCreating
<1>7. \/ Refuse(r)
      \/ \E k : /\ GoOn(r, k)
               /\ \/ k = [j EXCEPT !.pc = IF j.plan.slug = NoSlug THEN "name" ELSE "slug"]
                  \/ k = [j EXCEPT !.tries = @ + 1]
                  \/ k = [j EXCEPT !.pc = "slug",
                                   !.plan.slug = Slug(j.plan.name, "own", j.tries)]
                  \/ k = [j EXCEPT !.pc = "insert profile"]
  <2>1. CASE CountByUserID(r)
    BY <1>1, <2>1 DEF CountByUserID
  <2>2. CASE generateSlug(r)
    BY <1>1, <2>2 DEF generateSlug
  <2>3. CASE CheckSlug(r)
    BY <1>1, <2>3 DEF CheckSlug
  <2>4. CASE InsertProfileFails(r)
    BY <2>4 DEF InsertProfileFails
  <2> QED
    BY <2>1, <2>2, <2>3, <2>4
<1> QED
  BY <1>5, <1>6, <1>7

LEMMA ProfileStored ==
  ASSUME ImportsInv, IdsInv, NEW r \in Requests, Account(r), UNCHANGED <<jobs, downloads>>,
         InsertProfile(r)
  PROVE  ImportsInv'
<1>1. PICK j : j = job[r] /\ KnowsImport(j, jobs, added) /\ j.pc = "insert profile"
  BY DEF ImportsInv, InsertProfile, At
<1>2. /\ "import" \in DOMAIN j /\ (j.task = "import" <=> j.import # 0) /\ ImportOf(j) = j.import
  BY <1>1 DEF KnowsImport, ImportOf, Creating
<1>3. PICK k : k = AfterCreate(j, inserted.profiles + 1) /\ job' = [job EXCEPT ![r] = k]
  BY <1>1 DEF InsertProfile, GoOn
<1>4. /\ failures' \in Nat /\ failures <= failures'
      /\ jobs \in Seq(ImportRow) /\ Len(added) = Len(jobs) /\ Len(jobs) \in Nat
      /\ added \in Seq([profile : BOOLEAN, links : Nat])
  BY JobsDomain, WorksOrFails DEF ImportsInv, JobTypes, InsertProfile
<1>5. CASE j.task = "import"
  <2>1. PICK n : n = j.import /\ n \in 1 .. Len(jobs)
    <3>1. PICK m \in Nat : m = Len(jobs)
      BY <1>4
    <3>2. j.import \in 0 .. m /\ j.import # 0
      BY <1>1, <1>2, <1>5, <3>1 DEF KnowsImport
    <3> QED
      BY <3>1, <3>2, NotZero
  <2>2. /\ jobs[n].status \in Unfinished /\ added[n] = NothingAdded
    BY <1>1, <1>2, <1>5, <2>1 DEF KnowsImport, Creating
  <2>3. added' = [added EXCEPT ![n] = [profile |-> TRUE, links |-> 0]]
    <3>1. /\ inserted'.profiles # inserted.profiles
          /\ added[n].links + inserted'.links - inserted.links = 0
      <4>1. inserted' = [inserted EXCEPT !.profiles = inserted.profiles + 1]
        BY DEF InsertProfile
      <4>2. inserted'.profiles = inserted.profiles + 1 /\ inserted'.links = inserted.links
        BY <4>1 DEF IdsInv
      <4>3. added[n].links = 0
        BY <2>2 DEF NothingAdded
      <4> QED
        BY <4>2, <4>3 DEF IdsInv
    <3>2. added' = [added EXCEPT ![n] =
                      [profile |-> added[n].profile \/ inserted'.profiles # inserted.profiles,
                       links |-> added[n].links + inserted'.links - inserted.links]]
      BY <1>1, <1>2, <1>5, <2>1 DEF Account
    <3>3. added[n].profile = FALSE
      BY <2>2 DEF NothingAdded
    <3> QED
      BY <3>1, <3>2, <3>3
  <2>4. /\ added' \in Seq([profile : BOOLEAN, links : Nat]) /\ Len(added') = Len(jobs)
        /\ added'[n] = [profile |-> TRUE, links |-> 0]
        /\ \A i \in 1 .. Len(jobs) : i # n => added'[i] = added[i]
    BY <1>4, <2>1, <2>3
  <2>5. k = [pc |-> LinkStage(j.plan, 1, "result"), task |-> "import", import |-> j.import,
             plan |-> j.plan, profile |-> inserted.profiles + 1, k |-> 1, position |-> 0,
             imported |-> 0]
    BY <1>3, <1>5 DEF AfterCreate
  <2>6. /\ {"pc", "task", "import", "imported"} \subseteq DOMAIN k
        /\ k.pc \in {"result", "count links"} /\ k.task = "import" /\ k.import = n
        /\ k.imported = 0
    BY <2>1, <2>5 DEF LinkStage
  <2>7. ImportOf(k) = n /\ ImportOf(j) = n /\ n # 0 /\ n \in 0 .. Len(jobs)
    <3>1. ImportOf(k) = n /\ ImportOf(j) = n
      BY <1>2, <2>1, <2>6 DEF ImportOf
    <3>2. PICK m \in Nat : m = Len(jobs) /\ n \in 1 .. m
      BY <1>4, <2>1
    <3>3. n # 0 /\ n \in 0 .. m
      BY <3>2
    <3> QED
      BY <3>1, <3>2, <3>3
  <2>8. KnowsImport(k, jobs, added')
    <3>1. k.imported \in Nat /\ added'[n] = [profile |-> TRUE, links |-> k.imported]
      <4>1. k.imported = 0
        BY <2>6
      <4>2. [profile |-> TRUE, links |-> k.imported] = [profile |-> TRUE, links |-> 0]
        BY <4>1
      <4> QED
        BY <2>4, <4>1, <4>2
    <3>2. k.pc \notin {"pending", "failure", "copy"} \cup Creating
      BY <2>6 DEF Creating
    <3>3. k.task = "import" <=> k.import # 0
      BY <2>6, <2>7
    <3>4. k.pc \in {"result"} \cup Storing
      BY <2>6 DEF Storing
    <3> QED
      BY <2>2, <2>6, <2>7, <3>1, <3>2, <3>3, <3>4 DEF KnowsImport
  <2> QED
    BY <1>1, <1>3, <1>4, <2>4, <2>7, <2>8, GoesOn
<1>6. CASE j.task # "import"
  <2>1. k = Idle /\ ImportOf(j) = 0
    BY <1>2, <1>3, <1>6 DEF AfterCreate
  <2>2. added' = added
    BY <1>1, <1>2, <1>6, SameAccount
  <2> QED
    BY <1>1, <1>3, <1>4, <2>1, <2>2, IdleIsUnimported, Unimported DEF Creating, Storing
<1> QED
  BY <1>5, <1>6

----------------------------------------------------------------------------
\* Storing its links, one after the other.
LEMMA StaysStoring ==
  ASSUME ImportsInv, NEW r \in Requests, NEW k, GoOn(r, k), Works \/ Fails,
         job[r].pc \in Storing, k.pc \in Storing, DOMAIN k = DOMAIN job[r],
         k.import = job[r].import, k.task = job[r].task,
         "imported" \in DOMAIN job[r] => k.imported = job[r].imported,
         jobs' = jobs, added' = added
  PROVE  ImportsInv'
<1>1. PICK j : j = job[r] /\ KnowsImport(j, jobs, added) /\ j.pc \in Storing
  BY DEF ImportsInv
<1>2. ImportOf(k) = ImportOf(j)
  BY <1>1 DEF ImportOf
<1>3. KnowsImport(k, jobs, added)
  BY <1>1, <1>2 DEF KnowsImport, Creating, Storing
<1>4. failures' \in Nat /\ failures <= failures' /\ job' = [job EXCEPT ![r] = k]
  BY WorksOrFails DEF ImportsInv, JobTypes, GoOn
<1> QED
  BY <1>1, <1>2, <1>3, <1>4, StaysImport

LEMMA Replaced ==
  ASSUME NEW S, NEW s \in Seq(S), NEW n \in 1 .. Len(s), NEW x \in S
  PROVE  /\ [s EXCEPT ![n] = x] \in Seq(S) /\ Len([s EXCEPT ![n] = x]) = Len(s)
         /\ [s EXCEPT ![n] = x][n] = x
         /\ \A m \in 1 .. Len(s) : m # n => [s EXCEPT ![n] = x][m] = s[m]
  OBVIOUS

\* A link was stored, or not: a row more in the account, or the account as it was.
LEMMA LinkTried ==
  ASSUME ImportsInv, NEW r \in Requests, NEW stored \in BOOLEAN,
         GoOn(r, NextLink(job[r], stored)), Works \/ Fails, job[r].pc \in Storing, jobs' = jobs,
         added' = IF stored /\ job[r].import # 0
                  THEN [added EXCEPT ![job[r].import] =
                          [profile |-> TRUE, links |-> job[r].imported + 1]]
                  ELSE added
  PROVE  ImportsInv'
<1>1. PICK j : j = job[r] /\ KnowsImport(j, jobs, added) /\ j.pc \in Storing
  BY DEF ImportsInv
<1>2. /\ {"import", "task"} \subseteq DOMAIN j /\ (j.task = "import" <=> j.import # 0)
      /\ ImportOf(j) = j.import
  BY <1>1 DEF KnowsImport, ImportOf
<1>3. PICK k : k = NextLink(j, stored) /\ job' = [job EXCEPT ![r] = k]
  BY <1>1 DEF GoOn
<1>4. /\ failures' \in Nat /\ failures <= failures'
      /\ jobs \in Seq(ImportRow) /\ Len(added) = Len(jobs) /\ Len(jobs) \in Nat
      /\ added \in Seq([profile : BOOLEAN, links : Nat])
  BY JobsDomain, WorksOrFails DEF ImportsInv, JobTypes
<1>5. CASE j.task = "import"
  <2>1. PICK n : n = j.import /\ n \in 1 .. Len(jobs)
    <3>1. PICK m \in Nat : m = Len(jobs)
      BY <1>4
    <3>2. j.import \in 0 .. m /\ j.import # 0
      BY <1>1, <1>2, <1>5, <3>1 DEF KnowsImport
    <3> QED
      BY <3>1, <3>2, NotZero
  <2>2. /\ jobs[n].status \in Unfinished /\ "imported" \in DOMAIN j /\ j.imported \in Nat
        /\ added[n] = [profile |-> TRUE, links |-> j.imported] /\ n # 0
    BY <1>1, <1>2, <1>5, <2>1 DEF KnowsImport
  <2>3. PICK i \in Nat : i = Imported(j, stored) /\ (i = IF stored THEN j.imported + 1 ELSE j.imported)
    BY <2>2 DEF Imported
  <2>4. k = [j EXCEPT !.pc = LinkStage(j.plan, j.k + 1, "result"), !.k = @ + 1, !.imported = i]
    BY <1>3, <1>5, <2>3 DEF NextLink
  <2>5. /\ {"pc", "task", "import", "imported"} \subseteq DOMAIN k
        /\ k.pc \in {"result", "count links"} /\ k.task = "import" /\ k.import = n
        /\ k.imported = i
    <3>1. {"pc", "task", "import", "imported"} \subseteq DOMAIN j
      BY <1>1, <1>2, <2>2 DEF KnowsImport
    <3>2. LinkStage(j.plan, j.k + 1, "result") \in {"result", "count links"}
      BY DEF LinkStage
    <3> QED
      BY <1>5, <2>1, <2>4, <3>1, <3>2
  <2>6. /\ added' \in Seq([profile : BOOLEAN, links : Nat]) /\ Len(added') = Len(jobs)
        /\ added'[n] = [profile |-> TRUE, links |-> i]
        /\ \A m \in 1 .. Len(jobs) : m # n => added'[m] = added[m]
    <3>1. CASE stored
      <4>1. added' = [added EXCEPT ![n] = [profile |-> TRUE, links |-> i]]
        BY <1>1, <2>1, <2>2, <2>3, <3>1
      <4>2. PICK x \in [profile : BOOLEAN, links : Nat] : x = [profile |-> TRUE, links |-> i]
        BY <2>3
      <4>3. n \in 1 .. Len(added) /\ added \in Seq([profile : BOOLEAN, links : Nat])
        BY <1>4, <2>1
      <4>4. /\ [added EXCEPT ![n] = x] \in Seq([profile : BOOLEAN, links : Nat])
            /\ Len([added EXCEPT ![n] = x]) = Len(added) /\ [added EXCEPT ![n] = x][n] = x
            /\ \A m \in 1 .. Len(added) : m # n => [added EXCEPT ![n] = x][m] = added[m]
        BY <4>3, Replaced
      <4>5. added' = [added EXCEPT ![n] = x]
        BY <4>1, <4>2
      <4> QED
        BY <1>4, <4>2, <4>4, <4>5
    <3>2. CASE ~stored
      <4>1. added' = added /\ i = j.imported
        BY <2>3, <3>2
      <4>2. [profile |-> TRUE, links |-> i] = [profile |-> TRUE, links |-> j.imported]
        BY <4>1
      <4> QED
        BY <1>4, <2>2, <4>1, <4>2
    <3> QED
      BY <3>1, <3>2
  <2>7. ImportOf(k) = n /\ ImportOf(j) = n /\ n \in 0 .. Len(jobs)
    <3>1. ImportOf(k) = n /\ ImportOf(j) = n
      BY <1>2, <2>1, <2>5 DEF ImportOf
    <3>2. PICK m \in Nat : m = Len(jobs) /\ n \in 1 .. m
      BY <1>4, <2>1
    <3>3. n \in 0 .. m
      BY <3>2
    <3> QED
      BY <3>1, <3>2, <3>3
  <2>8. KnowsImport(k, jobs, added')
    <3>1. k.imported \in Nat /\ added'[n] = [profile |-> TRUE, links |-> k.imported]
      <4>1. [profile |-> TRUE, links |-> k.imported] = [profile |-> TRUE, links |-> i]
        BY <2>5
      <4> QED
        BY <2>3, <2>5, <2>6, <4>1
    <3>2. k.pc \notin {"pending", "failure", "copy"} \cup Creating
      BY <2>5 DEF Creating
    <3>3. k.task = "import" <=> k.import # 0
      BY <2>2, <2>5
    <3>4. k.pc \in {"result"} \cup Storing
      BY <2>5 DEF Storing
    <3> QED
      BY <2>2, <2>5, <2>7, <3>1, <3>2, <3>3, <3>4 DEF KnowsImport
  <2> QED
    BY <1>1, <1>3, <1>4, <2>6, <2>7, <2>8, GoesOn
<1>6. CASE j.task # "import"
  <2>1. k = Idle /\ ImportOf(j) = 0
    BY <1>2, <1>3, <1>6 DEF NextLink
  <2>2. added' = added
    BY <1>1, <1>2, <1>6
  <2> QED
    BY <1>1, <1>3, <1>4, <2>1, <2>2, IdleIsUnimported, Unimported DEF Creating, Storing
<1> QED
  BY <1>5, <1>6

LEMMA LinkStored ==
  ASSUME ImportsInv, IdsInv, NEW r \in Requests, Account(r), UNCHANGED <<jobs, downloads>>,
         CountByProfileID(r) \/ getNextPosition(r) \/ InsertLink(r)
  PROVE  ImportsInv'
<1>1. PICK j : j = job[r] /\ KnowsImport(j, jobs, added) /\ j.pc \in Storing
  BY DEF ImportsInv, CountByProfileID, getNextPosition, InsertLink, At, Storing
<1>2. {"pc", "import", "task"} \subseteq DOMAIN j
  BY <1>1 DEF KnowsImport
<1>3. Works \/ Fails
  BY DEF CountByProfileID, getNextPosition, InsertLink
<1>4. CASE LinkRefused(r)
  <2>1. inserted' = inserted
    BY <1>4 DEF LinkRefused, serviceVars
  <2>2. added' = added
    BY <2>1, SameAccount
  <2>3. GoOn(r, NextLink(job[r], FALSE))
    BY <1>4 DEF LinkRefused
  <2> QED
    BY <1>1, <1>3, <2>2, <2>3, LinkTried
<1>5. CASE \E k, position : GoOn(r, k) /\ inserted' = inserted
             /\ \/ k = [j EXCEPT !.position = position,
                                 !.pc = IF position = 0 THEN "next position" ELSE "insert link"]
                \/ k = [j EXCEPT !.pc = "insert link", !.position = position]
  <2>1. PICK k, position : GoOn(r, k) /\ inserted' = inserted
             /\ \/ k = [j EXCEPT !.position = position,
                                 !.pc = IF position = 0 THEN "next position" ELSE "insert link"]
                \/ k = [j EXCEPT !.pc = "insert link", !.position = position]
    BY <1>5
  <2>2. /\ DOMAIN k = DOMAIN j /\ k.import = j.import /\ k.task = j.task
        /\ "imported" \in DOMAIN j => k.imported = j.imported
        /\ k.pc \in Storing
    <3>1. CASE k = [j EXCEPT !.position = position,
                             !.pc = IF position = 0 THEN "next position" ELSE "insert link"]
      BY <1>2, <3>1 DEF Storing
    <3>2. CASE k = [j EXCEPT !.pc = "insert link", !.position = position]
      BY <1>2, <3>2 DEF Storing
    <3> QED
      BY <2>1, <3>1, <3>2
  <2>3. added' = added
    BY <2>1, SameAccount
  <2> QED
    BY <1>1, <1>3, <2>1, <2>2, <2>3, StaysStoring
<1>6. CASE /\ j.pc = "insert link" /\ Works /\ inserted' = [inserted EXCEPT !.links = inserted.links + 1]
           /\ GoOn(r, NextLink(j, TRUE))
  <2>1. ASSUME j.import # 0
        PROVE  added' = [added EXCEPT ![j.import] = [profile |-> TRUE, links |-> j.imported + 1]]
    <3>1. PICK n : n = j.import
      OBVIOUS
    <3>2. added[n] = [profile |-> TRUE, links |-> j.imported] /\ j.imported \in Nat
      BY <1>1, <1>2, <2>1, <3>1 DEF KnowsImport, ImportOf
    <3>3. inserted'.profiles = inserted.profiles /\ inserted'.links = inserted.links + 1
          /\ inserted.links \in Nat
      BY <1>6 DEF IdsInv
    <3>4. /\ (added[n].profile \/ inserted'.profiles # inserted.profiles) = TRUE
          /\ added[n].links + inserted'.links - inserted.links = j.imported + 1
      BY <3>2, <3>3
    <3>5. added' = [added EXCEPT ![n] =
                      [profile |-> added[n].profile \/ inserted'.profiles # inserted.profiles,
                       links |-> added[n].links + inserted'.links - inserted.links]]
      BY <1>1, <1>6, <2>1, <3>1 DEF Account
    <3> QED
      BY <3>1, <3>4, <3>5
  <2>2. ASSUME j.import = 0 PROVE added' = added
    BY <1>1, <2>2, SameAccount
  <2> QED
    BY <1>1, <1>3, <1>6, <2>1, <2>2, LinkTried
<1>7. \/ LinkRefused(r)
      \/ \E k, position : GoOn(r, k) /\ inserted' = inserted
             /\ \/ k = [j EXCEPT !.position = position,
                                 !.pc = IF position = 0 THEN "next position" ELSE "insert link"]
                \/ k = [j EXCEPT !.pc = "insert link", !.position = position]
      \/ /\ j.pc = "insert link" /\ Works /\ inserted' = [inserted EXCEPT !.links = inserted.links + 1]
         /\ GoOn(r, NextLink(j, TRUE))
  <2>1. CASE CountByProfileID(r)
    BY <1>1, <2>1 DEF CountByProfileID, serviceVars
  <2>2. CASE getNextPosition(r)
    BY <1>1, <2>2 DEF getNextPosition, serviceVars
  <2>3. CASE InsertLink(r)
    BY <1>1, <2>3 DEF InsertLink, At
  <2> QED
    BY <2>1, <2>2, <2>3
<1> QED
  BY <1>4, <1>5, <1>6, <1>7

----------------------------------------------------------------------------
\* The steps of imports and exports themselves.
LEMMA StatusSet ==
  ASSUME jobs \in Seq(ImportRow), NEW i \in 1 .. Len(jobs), NEW m \in Nat,
         NEW status \in Unfinished \cup {"completed", "failed"}, SetStatus(i, status, m)
  PROVE  /\ jobs' \in Seq(ImportRow) /\ Len(jobs') = Len(jobs)
         /\ jobs'[i].status = status /\ jobs'[i].imported = m
         /\ \A n \in 1 .. Len(jobs) : n # i => jobs'[n] = jobs[n]
<1>1. PICK row \in ImportRow : row = jobs[i]
  BY JobsDomain
<1>2. jobs' = [jobs EXCEPT ![i] = [row EXCEPT !.status = status, !.imported = m]]
  BY <1>1 DEF SetStatus
<1>3. PICK x : x = [row EXCEPT !.status = status, !.imported = m]
  OBVIOUS
<1>4. x \in ImportRow /\ x.status = status /\ x.imported = m
  BY <1>1, <1>3 DEF ImportRow
<1>5. /\ [jobs EXCEPT ![i] = x] \in Seq(ImportRow)
      /\ Len([jobs EXCEPT ![i] = x]) = Len(jobs) /\ [jobs EXCEPT ![i] = x][i] = x
      /\ \A n \in 1 .. Len(jobs) : n # i => [jobs EXCEPT ![i] = x][n] = jobs[n]
  BY <1>4, Replaced
<1> QED
  BY <1>2, <1>3, <1>4, <1>5

LEMMA ImportBegins ==
  ASSUME ImportsInv, NEW r \in Requests, NEW u \in Users, NEW d, createImportJob(r, u, d)
  PROVE  ImportsInv'
<1>1. PICK k : k = [pc |-> "pending", user |-> u, file |-> d, import |-> Len(jobs) + 1]
  OBVIOUS
<1>2. PICK n \in Nat : n = Len(jobs) /\ n = Len(added)
  BY JobsDomain DEF ImportsInv, JobTypes
<1>3. /\ "pc" \in DOMAIN k /\ k.pc = "pending" /\ ImportOf(k) = n + 1
  BY <1>1, <1>2 DEF ImportOf
<1>4. PICK row \in ImportRow : row = [owner |-> u, status |-> "pending", imported |-> 0]
  BY DEF ImportRow, Unfinished
<1>5. /\ jobs' = Append(jobs, row) /\ added' = Append(added, NothingAdded)
      /\ job' = [job EXCEPT ![r] = k] /\ failures' = failures /\ job[r].pc = "idle"
  BY <1>1, <1>4 DEF createImportJob, Receive, Arrive, Works, At, NothingAdded
<1>6. /\ jobs' \in Seq(ImportRow) /\ Len(jobs') = n + 1 /\ jobs'[n + 1] = row
      /\ \A i \in 1 .. n : jobs'[i] = jobs[i]
  BY <1>2, <1>5 DEF ImportsInv, JobTypes
<1>7. /\ added' \in Seq([profile : BOOLEAN, links : Nat]) /\ Len(added') = n + 1
      /\ added'[n + 1] = NothingAdded /\ \A i \in 1 .. n : added'[i] = added[i]
  BY <1>2, <1>5 DEF ImportsInv, JobTypes, NothingAdded
<1>8. \A q \in Requests : job'[q] = IF q = r THEN k ELSE job[q]
  BY <1>5 DEF ImportsInv, JobTypes
<1>9. JobTypes'
  <2>1. job' = [q \in Requests |-> job'[q]]
    BY <1>5 DEF ImportsInv, JobTypes
  <2>2. failures' \in Nat
    BY <1>5 DEF ImportsInv, JobTypes
  <2> QED
    BY <1>6, <1>7, <2>1, <2>2 DEF JobTypes
<1>10. ASSUME NEW q \in Requests
       PROVE  /\ KnowsImport(job'[q], jobs', added')
              /\ q # r => ImportOf(job'[q]) \in 0 .. n
  <2>1. CASE q = r
    <3>1. jobs'[n + 1].status \in Unfinished
      BY <1>4, <1>6 DEF Unfinished
    <3>2. ImportOf(k) \in 0 .. Len(jobs') /\ ImportOf(k) # 0
      BY <1>3, <1>6
    <3>3. KnowsImport(k, jobs', added')
      BY <1>3, <1>7, <3>1, <3>2 DEF KnowsImport, Creating, Storing
    <3> QED
      BY <1>8, <2>1, <3>3
  <2>2. CASE q # r
    <3>1. PICK j : j = job[q] /\ job'[q] = j
      BY <1>8, <2>2
    <3>2. KnowsImport(j, jobs, added)
      BY <3>1 DEF ImportsInv
    <3>3. PICK i : i = ImportOf(j)
      OBVIOUS
    <3>4. i \in 0 .. n
      BY <1>2, <3>2, <3>3 DEF KnowsImport
    <3>5. i \in 0 .. Len(jobs') /\ (i # 0 => jobs'[i] = jobs[i] /\ added'[i] = added[i])
      <4>1. i \in 0 .. n + 1 /\ (i # 0 => i \in 1 .. n)
        BY <3>4
      <4> QED
        BY <1>6, <1>7, <4>1
    <3>6. KnowsImport(j, jobs', added')
      BY <3>2, <3>3, <3>5 DEF KnowsImport
    <3> QED
      BY <3>1, <3>3, <3>4, <3>6
  <2> QED
    BY <2>1, <2>2
<1>11. ASSUME NEW q \in Requests, NEW p \in Requests,
              ImportOf(job'[q]) # 0, ImportOf(job'[q]) = ImportOf(job'[p])
       PROVE  q = p
  <2>1. job'[r] = k
    BY <1>8
  <2>2. CASE q = r
    <3>1. ImportOf(job'[p]) = n + 1 /\ n + 1 \notin 0 .. n
      BY <1>3, <1>11, <2>1, <2>2
    <3> QED
      BY <1>10, <2>2, <3>1
  <2>3. CASE p = r
    <3>1. ImportOf(job'[q]) = n + 1 /\ n + 1 \notin 0 .. n
      BY <1>3, <1>11, <2>1, <2>3
    <3> QED
      BY <1>10, <2>3, <3>1
  <2>4. CASE q # r /\ p # r
    <3>1. job'[q] = job[q] /\ job'[p] = job[p]
      BY <1>8, <2>4
    <3> QED
      BY <1>11, <3>1 DEF ImportsInv
  <2> QED
    BY <2>2, <2>3, <2>4
<1>12. ASSUME NEW i \in 1 .. Len(jobs') PROVE Tallied(jobs'[i], added'[i])
  <2>1. CASE i \in 1 .. n
    <3>1. Tallied(jobs[i], added[i])
      BY <1>2, <2>1 DEF ImportsInv
    <3> QED
      BY <1>6, <1>7, <2>1, <3>1
  <2>2. CASE i = n + 1
    <3>1. jobs'[i].status = "pending"
      BY <1>4, <1>6, <2>2
    <3> QED
      BY <3>1 DEF Tallied
  <2> QED
    BY <1>6, <2>1, <2>2
<1>13. Lost' \subseteq Lost
  <2> SUFFICES ASSUME NEW i \in Lost' PROVE i \in Lost
    OBVIOUS
  <2>1. i \in DOMAIN jobs' /\ jobs'[i].status \in Unfinished /\ ~Runs(i)'
    BY DEF Lost
  <2>2. i \in 1 .. n + 1
    BY <1>6, <2>1, JobsDomain
  <2>3. Runs(i)' <=> \E q \in Requests : ImportOf(job'[q]) = i
    BY <2>2 DEF Runs, ImportOf
  <2>4. i # n + 1
    BY <1>3, <1>8, <2>1, <2>3
  <2>5. i \in 1 .. n /\ i \in 1 .. Len(jobs) /\ jobs[i].status \in Unfinished
    BY <1>2, <1>6, <2>1, <2>2, <2>4
  <2>6. ImportOf(job[r]) = 0
    <3>1. KnowsImport(job[r], jobs, added)
      BY DEF ImportsInv
    <3> QED
      BY <1>5, <3>1 DEF KnowsImport, Creating, Storing
  <2>7. ~(\E q \in Requests : ImportOf(job[q]) = i)
    BY <1>8, <2>1, <2>3, <2>5, <2>6
  <2> QED
    BY <2>5, <2>7, RunsFor, JobsDomain DEF Lost, ImportsInv, JobTypes
<1>14. IsFiniteSet(Lost') /\ Cardinality(Lost') <= failures'
  <2>1. IsFiniteSet(Lost) /\ Cardinality(Lost) <= failures /\ failures \in Nat
    BY DEF ImportsInv, JobTypes
  <2>2. IsFiniteSet(Lost') /\ Cardinality(Lost') <= Cardinality(Lost)
        /\ Cardinality(Lost) \in Nat /\ Cardinality(Lost') \in Nat
    BY <1>13, <2>1, FS_Subset, FS_CardinalityType
  <2> QED
    BY <1>5, <2>1, <2>2
<1>15. \A q \in Requests : KnowsImport(job'[q], jobs', added')
  BY <1>10
<1> QED
  BY <1>9, <1>11, <1>12, <1>14, <1>15 DEF ImportsInv

LEMMA ImportGoesOn ==
  ASSUME ImportsInv, IdsInv, NEW r \in Requests,
         StartProcessing(r) \/ MarkFailed(r) \/ MarkCompleted(r)
  PROVE  ImportsInv'
<1>1. PICK j : j = job[r] /\ KnowsImport(j, jobs, added) /\ j.pc \in {"pending", "failure", "result"}
  BY DEF ImportsInv, StartProcessing, MarkFailed, MarkCompleted, At
<1>2. "import" \in DOMAIN j /\ ImportOf(j) = j.import
  BY <1>1 DEF KnowsImport, ImportOf
<1>3. PICK n : n = j.import /\ n \in 1 .. Len(jobs) /\ n # 0
  <2>1. PICK m \in Nat : m = Len(jobs)
    BY JobsDomain DEF ImportsInv, JobTypes
  <2>2. j.import \in 0 .. m /\ j.import # 0
    BY <1>1, <1>2, <2>1 DEF KnowsImport
  <2> QED
    BY <2>1, <2>2, NotZero
<1>4. /\ jobs \in Seq(ImportRow) /\ Len(added) = Len(jobs) /\ Len(jobs) \in Nat
      /\ added \in Seq([profile : BOOLEAN, links : Nat]) /\ failures \in Nat
  BY JobsDomain DEF ImportsInv, JobTypes
<1>5. CASE Fails /\ Finish(r) /\ jobs' = jobs /\ added' = added
  BY <1>1, <1>2, <1>3, <1>5, Ends DEF Finish, GoOn, Fails
<1>6. CASE /\ j.pc = "pending" /\ Works /\ SetStatus(n, "processing", 0) /\ added' = added
           /\ \E k : /\ GoOn(r, k)
                     /\ \/ k = [pc |-> "count profiles", task |-> "import", import |-> n,
                                user |-> j.user, tries |-> 0, plan |-> PlanOf(j.file)]
                        \/ k = AfterRefusal([task |-> "import", import |-> n])
  <2>1. PICK k : /\ GoOn(r, k)
                 /\ \/ k = [pc |-> "count profiles", task |-> "import", import |-> n,
                            user |-> j.user, tries |-> 0, plan |-> PlanOf(j.file)]
                    \/ k = AfterRefusal([task |-> "import", import |-> n])
    BY <1>6
  <2>2. /\ {"pc", "import"} \subseteq DOMAIN k /\ k.import = n
        /\ k.pc \in {"count profiles", "failure"}
        /\ k.pc = "count profiles" => "task" \in DOMAIN k /\ k.task = "import"
    <3>1. CASE k = [pc |-> "count profiles", task |-> "import", import |-> n,
                    user |-> j.user, tries |-> 0, plan |-> PlanOf(j.file)]
      BY <3>1
    <3>2. CASE k = AfterRefusal([task |-> "import", import |-> n])
      <4>1. k = [pc |-> "failure", import |-> n]
        BY <3>2 DEF AfterRefusal
      <4> QED
        BY <4>1
    <3> QED
      BY <2>1, <3>1, <3>2
  <2>3. ImportOf(k) = n
    BY <2>2 DEF ImportOf
  <2>4. /\ jobs' \in Seq(ImportRow) /\ Len(jobs') = Len(jobs) /\ jobs'[n].status = "processing"
        /\ \A i \in 1 .. Len(jobs) : i # n => jobs'[i] = jobs[i]
    <3>1. "processing" \in Unfinished \cup {"completed", "failed"} /\ 0 \in Nat
      BY DEF Unfinished
    <3>2. jobs \in Seq(ImportRow) /\ n \in 1 .. Len(jobs) /\ SetStatus(n, "processing", 0)
      BY <1>3, <1>4, <1>6
    <3> QED
      BY <3>1, <3>2, StatusSet
  <2>5. added[n] = NothingAdded /\ n \in 0 .. Len(jobs)
    BY <1>1, <1>2, <1>3, <1>6 DEF KnowsImport
  <2>6. KnowsImport(k, jobs', added')
    <3>1. jobs'[n].status \in Unfinished
      BY <2>4 DEF Unfinished
    <3>2. k.pc \notin {"result", "copy"} \cup Storing /\ k.pc \in {"failure"} \cup Creating
      BY <2>2 DEF Creating, Storing
    <3>3. k.pc \in Creating => "task" \in DOMAIN k /\ k.task = "import"
      BY <2>2 DEF Creating
    <3> QED
      BY <1>3, <1>6, <2>2, <2>3, <2>4, <2>5, <3>1, <3>2, <3>3 DEF KnowsImport
  <2>7. job' = [job EXCEPT ![r] = k] /\ failures' = failures
    BY <1>6, <2>1 DEF GoOn, Works
  <2>8. /\ ImportOf(k) = ImportOf(job[r]) /\ failures' \in Nat /\ failures <= failures'
        /\ added' \in Seq([profile : BOOLEAN, links : Nat]) /\ Len(added') = Len(jobs)
        /\ \A i \in 1 .. Len(jobs) : i # ImportOf(k) => jobs'[i] = jobs[i] /\ added'[i] = added[i]
    <3>1. ImportOf(k) = ImportOf(job[r])
      BY <1>1, <1>2, <1>3, <2>3
    <3>2. failures' \in Nat /\ failures <= failures'
      BY <1>4, <2>7
    <3>3. added' = added
      BY <1>6
    <3>4. \A i \in 1 .. Len(jobs) : i # ImportOf(k) => jobs'[i] = jobs[i] /\ added'[i] = added[i]
      BY <2>3, <2>4, <3>3
    <3> QED
      BY <1>4, <3>1, <3>2, <3>3, <3>4
  <2> QED
    BY <2>4, <2>6, <2>7, <2>8, GoesOn
<1>7. CASE /\ Works /\ Finish(r) /\ added' = added
           /\ \/ j.pc = "failure" /\ SetStatus(n, "failed", 0)
              \/ j.pc = "result" /\ SetStatus(n, "completed", j.imported)
  <2>1. /\ jobs' \in Seq(ImportRow) /\ Len(jobs') = Len(jobs) /\ jobs'[n].status \notin Unfinished
        /\ Tallied(jobs'[n], added[n])
        /\ \A i \in 1 .. Len(jobs) : i # n => jobs'[i] = jobs[i]
    <3>1. CASE j.pc = "failure" /\ SetStatus(n, "failed", 0)
      <4>1. /\ jobs' \in Seq(ImportRow) /\ Len(jobs') = Len(jobs) /\ jobs'[n].status = "failed"
            /\ \A i \in 1 .. Len(jobs) : i # n => jobs'[i] = jobs[i]
        <5>1. /\ "failed" \in Unfinished \cup {"completed", "failed"} /\ n \in 1 .. Len(jobs)
              /\ jobs \in Seq(ImportRow) /\ SetStatus(n, "failed", 0)
          BY <1>3, <1>4, <3>1
        <5> QED
          BY <5>1, StatusSet
      <4>2. added[n] = NothingAdded
        BY <1>1, <1>2, <1>3, <3>1 DEF KnowsImport
      <4> QED
        BY <4>1, <4>2 DEF Tallied, Unfinished
    <3>2. CASE j.pc = "result" /\ SetStatus(n, "completed", j.imported)
      <4>1. j.imported \in Nat /\ added[n] = [profile |-> TRUE, links |-> j.imported]
        BY <1>1, <1>2, <1>3, <3>2 DEF KnowsImport
      <4>2. /\ jobs' \in Seq(ImportRow) /\ Len(jobs') = Len(jobs) /\ jobs'[n].status = "completed"
            /\ jobs'[n].imported = j.imported
            /\ \A i \in 1 .. Len(jobs) : i # n => jobs'[i] = jobs[i]
        <5>1. /\ "completed" \in Unfinished \cup {"completed", "failed"} /\ n \in 1 .. Len(jobs)
              /\ jobs \in Seq(ImportRow) /\ SetStatus(n, "completed", j.imported)
          BY <1>3, <1>4, <3>2
        <5> QED
          BY <4>1, <5>1, StatusSet
      <4>3. [profile |-> TRUE, links |-> jobs'[n].imported] = [profile |-> TRUE, links |-> j.imported]
        BY <4>2
      <4> QED
        BY <4>1, <4>2, <4>3 DEF Tallied, Unfinished
    <3> QED
      BY <1>7, <3>1, <3>2
  <2>2. job' = [job EXCEPT ![r] = Idle] /\ failures' = failures
    BY <1>7 DEF Finish, GoOn, Works
  <2> QED
    BY <1>1, <1>2, <1>3, <1>7, <2>1, <2>2, Ends
<1>8. \/ Fails /\ Finish(r) /\ jobs' = jobs /\ added' = added
      \/ /\ j.pc = "pending" /\ Works /\ SetStatus(n, "processing", 0) /\ added' = added
         /\ \E k : /\ GoOn(r, k)
                   /\ \/ k = [pc |-> "count profiles", task |-> "import", import |-> n,
                              user |-> j.user, tries |-> 0, plan |-> PlanOf(j.file)]
                      \/ k = AfterRefusal([task |-> "import", import |-> n])
      \/ /\ Works /\ Finish(r) /\ added' = added
         /\ \/ j.pc = "failure" /\ SetStatus(n, "failed", 0)
            \/ j.pc = "result" /\ SetStatus(n, "completed", j.imported)
  <2>1. CASE StartProcessing(r)
    BY <1>1, <1>3, <2>1 DEF StartProcessing, At
  <2>2. CASE MarkFailed(r)
    BY <1>1, <1>3, <2>2 DEF MarkFailed, At
  <2>3. CASE MarkCompleted(r)
    BY <1>1, <1>3, <2>3 DEF MarkCompleted, At
  <2> QED
    BY <2>1, <2>2, <2>3
<1> QED
  BY <1>5, <1>6, <1>7, <1>8

LEMMA TransferStepKeeps ==
  ASSUME ImportsInv, IdsInv, NEW r \in Requests, TransferStep(r)
  PROVE  ImportsInv'
<1>1. ASSUME NEW u \in Users, NEW d, createImportJob(r, u, d) PROVE ImportsInv'
  BY <1>1, ImportBegins
<1>2. CASE TurnedAway(r)
  BY <1>2, IdleIsUnimported, ArrivesOther DEF TurnedAway, importVars, Creating, Storing
<1>3. CASE StartProcessing(r) \/ MarkFailed(r) \/ MarkCompleted(r)
  BY <1>3, ImportGoesOn
<1>4. CASE UNCHANGED transferVars
  BY <1>4 DEF transferVars, importVars, ImportsInv, JobTypes, Lost, Runs
<1>5. ASSUME NEW u, NEW p, NEW format, HandleExport(r, u, p, format) PROVE ImportsInv'
  <2>1. PICK k, row : k = [pc |-> "export", profile |-> p, slug |-> row.slug, format |-> format]
                      /\ Arrive(r, k) /\ Works
    BY <1>5 DEF HandleExport, Receive
  <2>2. "pc" \in DOMAIN k /\ "import" \notin DOMAIN k /\ k.pc = "export"
    BY <2>1
  <2>3. jobs' = jobs /\ added' = added
    BY <1>5 DEF HandleExport, importVars
  <2> QED
    BY <2>1, <2>2, <2>3, ArrivesOther DEF ImportOf, Creating, Storing
<1>6. CASE ExportLinks(r)
  BY <1>6, IdleIsUnimported, GoesOnOther DEF ExportLinks, Finish, At, Creating, Storing
<1> QED
  BY <1>1, <1>2, <1>3, <1>4, <1>5, <1>6 DEF TransferStep, ReadImportJob

\* When the process dies, the imports of all requests are left as they are.
LEMMA DieKeepsImports ==
  ASSUME ImportsInv, Die, UNCHANGED importVars
  PROVE  ImportsInv'
<1>1. /\ jobs' = jobs /\ added' = added /\ failures' = failures + Cardinality(Busy)
      /\ job' = [r \in Requests |-> Idle]
  BY DEF Die, importVars
<1>2. IsFiniteSet(Busy) /\ Cardinality(Busy) \in Nat
  <2>1. Busy \subseteq Requests /\ IsFiniteSet(Requests)
    BY ServingAssumption DEF Busy
  <2> QED
    BY <2>1, FS_Subset, FS_CardinalityType
<1>3. JobTypes'
  BY <1>1, <1>2 DEF ImportsInv, JobTypes
<1>4. PICK I : I = {ImportOf(job[r]) : r \in Busy}
  OBVIOUS
<1>5. IsFiniteSet(I) /\ Cardinality(I) <= Cardinality(Busy) /\ Cardinality(I) \in Nat
  <2>1. PICK f : f = [r \in Busy |-> ImportOf(job[r])]
    OBVIOUS
  <2>2. f \in Surjection(Busy, I)
    BY <1>4, <2>1, Fun_IsSurj
  <2> QED
    BY <1>2, <2>2, FS_Surjection, FS_CardinalityType
<1>6. Lost' \subseteq Lost \cup I
  <2> SUFFICES ASSUME NEW i \in Lost', i \notin I PROVE i \in Lost
    OBVIOUS
  <2>1. i \in 1 .. Len(jobs) /\ jobs[i].status \in Unfinished
    BY <1>1, JobsDomain DEF Lost, ImportsInv, JobTypes
  <2>2. ASSUME NEW r \in Requests, ImportOf(job[r]) = i PROVE FALSE
    <3>1. r \notin Busy
      BY <1>4, <2>2
    <3>2. job[r].pc = "idle" /\ KnowsImport(job[r], jobs, added)
      BY <3>1 DEF Busy, ImportsInv
    <3>3. ImportOf(job[r]) = 0
      BY <3>2 DEF KnowsImport, Creating, Storing
    <3> QED
      BY <2>1, <2>2, <3>3
  <2> QED
    BY <2>1, <2>2, RunsFor, JobsDomain DEF Lost, ImportsInv, JobTypes
<1>7. IsFiniteSet(Lost') /\ Cardinality(Lost') <= failures'
  <2>1. IsFiniteSet(Lost) /\ Cardinality(Lost) <= failures /\ failures \in Nat
        /\ Cardinality(Lost) \in Nat
    BY FS_CardinalityType DEF ImportsInv, JobTypes
  <2>2. PICK L : L = Lost
    OBVIOUS
  <2>3. IsFiniteSet(L \cup I) /\ Cardinality(L \cup I) <= Cardinality(L) + Cardinality(I)
        /\ Cardinality(L \cup I) \in Nat
    <3>1. IsFiniteSet(L) /\ Cardinality(L \cap I) \in Nat /\ Cardinality(L) \in Nat
      BY <1>5, <2>1, <2>2, FS_Intersection, FS_CardinalityType
    <3>2. IsFiniteSet(L \cup I)
          /\ Cardinality(L \cup I) = Cardinality(L) + Cardinality(I) - Cardinality(L \cap I)
      BY <1>5, <3>1, FS_Union
    <3>3. Cardinality(L \cup I) \in Nat
      BY <3>2, FS_CardinalityType
    <3> QED
      BY <1>5, <3>1, <3>2, <3>3
  <2>4. IsFiniteSet(Lost') /\ Cardinality(Lost') <= Cardinality(L \cup I) /\ Cardinality(Lost') \in Nat
    BY <1>6, <2>2, <2>3, FS_Subset, FS_CardinalityType
  <2> QED
    BY <1>1, <1>2, <1>5, <2>1, <2>2, <2>3, <2>4
<1>8. ASSUME NEW r \in Requests PROVE job'[r] = Idle /\ KnowsImport(Idle, jobs', added')
  <2>1. 0 \in 0 .. Len(jobs')
    BY <1>1, JobsDomain DEF ImportsInv, JobTypes
  <2> QED
    BY <1>1, <2>1, IdleIsUnimported DEF KnowsImport, Creating, Storing
<1>9. \A r \in Requests : KnowsImport(job'[r], jobs', added') /\ ImportOf(job'[r]) = 0
  BY <1>8, IdleIsUnimported
<1> QED
  BY <1>1, <1>3, <1>7, <1>9 DEF ImportsInv

LEMMA ImportsInitially ==
  ASSUME TransferInit
  PROVE  ImportsInv /\ IdsInv
<1>1. IdsInv
  BY DEF TransferInit, ServicesInit, IdsInv
<1>2. /\ job = [r \in Requests |-> Idle] /\ failures = 0 /\ jobs = <<>> /\ added = <<>>
      /\ Len(jobs) = 0
  BY DEF TransferInit, ServingInit
<1>3. JobTypes
  BY <1>2 DEF JobTypes
<1>4. \A r \in Requests : KnowsImport(job[r], jobs, added) /\ ImportOf(job[r]) = 0
  <2>1. KnowsImport(Idle, jobs, added)
    BY <1>2, IdleIsUnimported DEF KnowsImport, Creating, Storing
  <2> QED
    BY <1>2, <2>1, IdleIsUnimported
<1>5. Lost = {}
  BY <1>2, JobsDomain DEF Lost
<1>6. IsFiniteSet(Lost) /\ Cardinality(Lost) <= failures
  BY <1>2, <1>5, FS_EmptySet
<1>7. \A i \in 1 .. Len(jobs) : Tallied(jobs[i], added[i])
  BY <1>2
<1> QED
  BY <1>1, <1>3, <1>4, <1>6, <1>7 DEF ImportsInv

LEMMA ImportsStep ==
  ASSUME ImportsInv, IdsInv, [TransferNext]_transferVars
  PROVE  ImportsInv' /\ IdsInv'
<1>1. ASSUME NEW r \in Requests, TransferStep(r) PROVE ImportsInv' /\ inserted' = inserted
  <2>1. inserted' = inserted
    BY <1>1 DEF TransferStep, createImportJob, TurnedAway, StartProcessing, MarkFailed,
                MarkCompleted, ReadImportJob, HandleExport, ExportLinks, transferVars, serviceVars
  <2> QED
    BY <1>1, <2>1, TransferStepKeeps
<1>2. ASSUME NEW r \in Requests, ServiceStep(r), Account(r), UNCHANGED <<jobs, downloads>>
      PROVE  ImportsInv'
  <2>1. CASE CountByUserID(r) \/ generateSlug(r) \/ CheckSlug(r) \/ InsertProfileFails(r)
    BY <1>2, <2>1, ChecksProfile
  <2>2. CASE InsertProfile(r)
    BY <1>2, <2>2, ProfileStored
  <2>3. CASE \/ generateUniqueSlug(r) \/ CheckNewSlug(r) \/ StoreProfile(r)
             \/ RemoveLink(r) \/ reorderAfterDelete(r) \/ UpdateLink(r)
    BY <1>2, <2>3, OthersGoOn
  <2>4. CASE CountByProfileID(r) \/ getNextPosition(r) \/ InsertLink(r)
    BY <1>2, <2>4, LinkStored
  <2>5. CASE \/ \E p \in 1 .. inserted.profiles :
                  \/ AddLink(r, p) \/ DeleteProfile(r, p)
                  \/ \E u \in Users : Duplicate(r, u, p)
                  \/ \E name \in Names : UpdateProfile(r, p, Slug(name, "own", 0))
                  \/ \E order \in Orders(p) : Reorder(r, p, order)
             \/ \E l \in links : DeleteLink(r, l) \/ Toggle(r, l) \/ ReadLink(r, l)
    BY <1>2, <2>5, ServicesArrive
  <2> QED
    BY <1>2, <2>1, <2>2, <2>3, <2>4, <2>5 DEF ServiceStep
<1>3. ASSUME NEW r \in Requests, ServiceStep(r) PROVE IdsInv'
  <2>1. \/ inserted' = inserted
        \/ inserted' = [inserted EXCEPT !.profiles = inserted.profiles + 1]
        \/ inserted' = [inserted EXCEPT !.links = inserted.links + 1]
    <3>1. CASE \/ CountByUserID(r) \/ generateSlug(r) \/ CheckSlug(r)
               \/ InsertProfile(r) \/ InsertProfileFails(r) \/ generateUniqueSlug(r)
               \/ CheckNewSlug(r) \/ StoreProfile(r)
      BY <3>1 DEF CountByUserID, generateSlug, CheckSlug, InsertProfile, InsertProfileFails, Refuse,
                  generateUniqueSlug, CheckNewSlug, StoreProfile, serviceVars
    <3>2. CASE \/ CountByProfileID(r) \/ getNextPosition(r) \/ InsertLink(r)
               \/ RemoveLink(r) \/ reorderAfterDelete(r) \/ UpdateLink(r)
      BY <3>2 DEF CountByProfileID, getNextPosition, InsertLink, LinkRefused,
                  RemoveLink, reorderAfterDelete, UpdateLink, serviceVars
    <3>3. ASSUME NEW p, \/ AddLink(r, p) \/ DeleteProfile(r, p)
                        \/ \E u \in Users : Duplicate(r, u, p)
                        \/ \E name \in Names : UpdateProfile(r, p, Slug(name, "own", 0))
                        \/ \E order \in Orders(p) : Reorder(r, p, order)
          PROVE  inserted' = inserted
      BY <3>3 DEF AddLink, DeleteProfile, Duplicate, UpdateProfile, Reorder, serviceVars
    <3>4. ASSUME NEW l, DeleteLink(r, l) \/ Toggle(r, l) \/ ReadLink(r, l) PROVE inserted' = inserted
      BY <3>4 DEF DeleteLink, Toggle, ReadLink
    <3> QED
      BY <1>3, <3>1, <3>2, <3>3, <3>4 DEF ServiceStep
  <2> QED
    BY <2>1 DEF IdsInv
<1>4. CASE (Tick \/ Die) /\ UNCHANGED <<serviceVars, importVars>>
  <2>1. IdsInv'
    BY <1>4 DEF IdsInv, serviceVars
  <2>2. ASSUME Tick PROVE ImportsInv'
    <3>1. UNCHANGED <<job, failures, jobs, added>>
      BY <1>4, <2>2 DEF Tick, importVars
    <3> QED
      BY <3>1 DEF ImportsInv, JobTypes, Lost, Runs
  <2>3. ASSUME Die PROVE ImportsInv'
    BY <1>4, <2>3, DieKeepsImports
  <2> QED
    BY <1>4, <2>1, <2>2, <2>3
<1>5. CASE UNCHANGED transferVars
  BY <1>5 DEF transferVars, importVars, serviceVars, ImportsInv, JobTypes, Lost, Runs, IdsInv
<1>6. CASE \E r \in Requests : TransferStep(r)
  BY <1>1, <1>6 DEF IdsInv
<1>7. CASE \E r \in Requests : ServiceStep(r) /\ Account(r) /\ UNCHANGED <<jobs, downloads>>
  BY <1>2, <1>3, <1>7
<1> QED
  BY <1>4, <1>5, <1>6, <1>7 DEF TransferNext

LEMMA AlwaysImportsInv == TransferSpec => []ImportsInv
<1>1. TransferInit => ImportsInv /\ IdsInv
  BY ImportsInitially
<1>2. ImportsInv /\ IdsInv /\ [TransferNext]_transferVars => (ImportsInv /\ IdsInv)'
  BY ImportsStep
<1> QED
  BY <1>1, <1>2, PTL DEF TransferSpec

\* What an import job reports is what it did, and a job is without an outcome only
\* if a statement failed or the process died (ImportData, import_service.go).
THEOREM ImportsAccount == TransferSpec => []JobsAccountFor
<1>1. ASSUME ImportsInv PROVE JobsAccountFor
  <2>1. DOMAIN jobs = 1 .. Len(jobs)
    BY <1>1, JobsDomain DEF ImportsInv, JobTypes
  <2>2. \A j \in DOMAIN jobs : Tallied(jobs[j], added[j])
    BY <1>1, <2>1 DEF ImportsInv
  <2>3. Cardinality(Lost) <= failures
    BY <1>1 DEF ImportsInv
  <2> QED
    BY <2>2, <2>3 DEF JobsAccountFor, Tallied, NothingAdded, Lost, Unfinished
<1>2. ImportsInv => JobsAccountFor
  BY <1>1
<1> QED
  BY <1>2, AlwaysImportsInv, PTL

----------------------------------------------------------------------------
(***************************************************************************)
(* The positions of links: what each request knows of the place it is to   *)
(* write.                                                                  *)
(***************************************************************************)
Moving == Storing \cup {"delete link", "shift links", "update link"}

IsLink(l) ==
  /\ {"id", "profile", "position", "active", "item", "job"} \subseteq DOMAIN l
  /\ l.id \in Nat /\ l.profile \in Nat /\ l.position \in Nat /\ l.item \in Nat

IsDocument(d) ==
  /\ d.source \in {"linktree", "linkstack", "carrd", "aboutme", "csv", "json"}
  /\ d.links \in Seq(ItemType)

\* A plan that numbers its links gives the n-th the place n.
IsPlan(plan) ==
  /\ {"links", "counted", "numbered"} \subseteq DOMAIN plan /\ Len(plan.links) \in Nat
  /\ \A n \in 1 .. Len(plan.links) :
       plan.links[n].position \in Nat /\ (plan.numbered => plan.links[n].position = n)

\* The place of the link that an import stores next: by those it has stored, or
\* by those it has tried.
Place(j) == IF j.plan.counted THEN j.imported + 1 ELSE j.k

\* The place of a new link is behind all others, as long as nobody else moves
\* the links of its profile.
KnowsPlaceInOrder(j, rows) ==
  /\ j.task = "add" =>
       /\ j.plan.links[j.k].position = 0
       /\ j.pc = "insert link" => \A l \in rows : l.profile = j.profile => l.position < j.position
  /\ j.task = "import" =>
       /\ j.plan.numbered /\ j.pc # "next position"
       /\ j.pc = "insert link" => j.position = Place(j)
       /\ \A l \in rows : l.profile = j.profile =>
            l.position < Place(j) /\ (l.job = j.import => l.item < j.k)

KnowsStoring(j, rows, mixed, ids) ==
  /\ {"task", "plan", "k", "position", "profile", "import"} \subseteq DOMAIN j
  /\ j.k \in 1 .. Len(j.plan.links) /\ Len(j.plan.links) \in Nat
  /\ j.position \in Nat /\ j.profile \in 1 .. ids.profiles
  /\ \A n \in 1 .. Len(j.plan.links) : j.plan.links[n].position \in Nat
  /\ j.task = "add" \/ j.task = "import"
  /\ j.task = "add" => j.plan.counted = FALSE /\ j.import = 0
  /\ j.task = "import" => IsPlan(j.plan) /\ "imported" \in DOMAIN j /\ j.imported \in Nat
  /\ j.profile \notin mixed => KnowsPlaceInOrder(j, rows)

\* The link whose row a request has read is where it was, and when it is deleted
\* nobody has taken its place.
KnowsRow(j, rows, mixed, ids) ==
  /\ {"id", "profile", "position"} \subseteq DOMAIN j
  /\ j.id \in 1 .. ids.links /\ j.position \in Nat /\ j.profile \in 1 .. ids.profiles
  /\ \A l \in rows : l.id = j.id => l.profile = j.profile
  /\ j.profile \notin mixed =>
       /\ j.pc # "shift links" => \A l \in rows : l.id = j.id => l.position = j.position
       /\ j.pc = "shift links" => \A l \in rows : l.profile = j.profile => l.position # j.position

KnowsPlace(j, rows, mixed, ids) ==
  /\ "pc" \in DOMAIN j
  /\ j.pc = "pending" => IsDocument(j.file)
  /\ j.pc \in Creating \cup {"copy"} =>
       /\ {"task", "plan"} \subseteq DOMAIN j
       /\ j.task = "import" => IsPlan(j.plan)
       /\ "numbered" \in DOMAIN j.plan
       /\ j.pc = "copy" => j.task # "import"
  /\ j.pc \in Storing => KnowsStoring(j, rows, mixed, ids)
  /\ j.pc \in Moving \ Storing => KnowsRow(j, rows, mixed, ids)

LinkRows ==
  /\ inserted \in [profiles : Nat, links : Nat]
  /\ IsFiniteSet(links)
  /\ \A l \in links : IsLink(l) /\ l.id <= inserted.links /\ l.profile <= inserted.profiles
                      /\ l.id # 0 /\ l.profile # 0
  /\ \A k, l \in links : k.id = l.id => k = l
  /\ job = [r \in Requests |-> job[r]]
  /\ \A d \in downloads : IsDocument(d)

\* One request at a time moves the links of a profile.
OneMover ==
  \A r, q \in Requests :
    /\ job[r].pc \in Moving /\ job[q].pc \in Moving
    /\ job[r].profile = job[q].profile /\ job[r].profile \notin crossed
    => r = q

PlacesInv ==
  /\ LinkRows
  /\ \A r \in Requests : KnowsPlace(job[r], links, crossed, inserted)
  /\ OneMover
  /\ PositionsApart

----------------------------------------------------------------------------
SameLink(k, l) == k.id = l.id /\ k.profile = l.profile /\ k.item = l.item /\ k.job = l.job

\* A step that may give the links of profile p other places, and a new link to it.
Touches(p) ==
  /\ inserted' \in [profiles : Nat, links : Nat]
  /\ inserted.profiles <= inserted'.profiles /\ inserted.links <= inserted'.links
  /\ crossed \subseteq crossed' /\ reordered \subseteq reordered'
  /\ IsFiniteSet(links')
  /\ \A k, l \in links' : k.id = l.id => k = l
  /\ \A l \in links' :
       /\ IsLink(l)
       /\ \/ \E k \in links : SameLink(k, l) /\ (l.profile # p => k.position = l.position)
          \/ /\ l.profile = p /\ p \in 1 .. inserted'.profiles
             /\ l.id = inserted'.links /\ inserted'.links = inserted.links + 1

\* How two links of a profile stand to each other.
Stand(k, l, moved) ==
  /\ k.position # l.position
  /\ k.job # 0 /\ k.job = l.job /\ k.item < l.item /\ k.profile \notin moved =>
       k.position < l.position

Apart(p, rows, mixed, moved) ==
  p \notin mixed =>
    \A k, l \in rows : k # l /\ k.profile = p /\ l.profile = p => Stand(k, l, moved)

LEMMA PositionsApartIs ==
  PositionsApart <=> \A k, l \in links : k # l /\ k.profile = l.profile /\ k.profile \notin crossed
                                           => Stand(k, l, reordered)
  BY DEF PositionsApart, Stand

\* A request that does not move the links of p knows what it knew.
LEMMA OthersKnow ==
  ASSUME LinkRows, NEW p, Touches(p), NEW j, KnowsPlace(j, links, crossed, inserted),
         j.pc \in Moving /\ j.profile = p => p \in crossed'
  PROVE  KnowsPlace(j, links', crossed', inserted')
<1>0. /\ inserted.profiles \in Nat /\ inserted.links \in Nat
      /\ inserted'.profiles \in Nat /\ inserted'.links \in Nat
      /\ inserted.profiles <= inserted'.profiles /\ inserted.links <= inserted'.links
      /\ crossed \subseteq crossed'
  BY DEF LinkRows, Touches
<1>1. ASSUME j.pc \in Moving, j.profile \notin crossed', NEW l \in links', l.profile = j.profile
      PROVE  \E k \in links : SameLink(k, l) /\ k.position = l.position
  BY <1>1 DEF Touches
<1>2. ASSUME j.pc \in Storing PROVE KnowsStoring(j, links', crossed', inserted')
  <2>0. j.pc \in Moving
    BY <1>2 DEF Moving
  <2>1. KnowsStoring(j, links, crossed, inserted)
    BY <1>2 DEF KnowsPlace
  <2>2. j.profile \in 1 .. inserted'.profiles
    BY <1>0, <2>1 DEF KnowsStoring
  <2>3. ASSUME j.profile \notin crossed' PROVE KnowsPlaceInOrder(j, links')
    <3>1. KnowsPlaceInOrder(j, links)
      BY <1>0, <2>1, <2>3 DEF KnowsStoring
    <3>2. ASSUME NEW l \in links', l.profile = j.profile
          PROVE  \E k \in links : /\ k.profile = j.profile /\ k.position = l.position
                                  /\ k.item = l.item /\ k.job = l.job
      BY <1>1, <2>0, <2>3, <3>2 DEF SameLink
    <3> QED
      BY <3>1, <3>2 DEF KnowsPlaceInOrder
  <2> QED
    BY <2>1, <2>2, <2>3 DEF KnowsStoring
<1>3. ASSUME j.pc \in Moving \ Storing PROVE KnowsRow(j, links', crossed', inserted')
  <2>1. KnowsRow(j, links, crossed, inserted)
    BY <1>3 DEF KnowsPlace
  <2>2. j.profile \in 1 .. inserted'.profiles /\ j.id \in 1 .. inserted'.links /\ j.id <= inserted.links
    <3>1. j.profile \in 1 .. inserted.profiles /\ j.id \in 1 .. inserted.links
      BY <2>1 DEF KnowsRow
    <3>2. j.profile \in 1 .. inserted'.profiles
      BY <1>0, <3>1
    <3>3. j.id \in 1 .. inserted'.links /\ j.id <= inserted.links
      BY <1>0, <3>1
    <3> QED
      BY <3>2, <3>3
  <2>3. ASSUME NEW l \in links', l.id = j.id
        PROVE  \E k \in links : SameLink(k, l) /\ (l.profile # p => k.position = l.position)
    <3>1. ~(l.id = inserted'.links /\ inserted'.links = inserted.links + 1)
      BY <1>0, <2>2, <2>3
    <3> QED
      BY <3>1 DEF Touches
  <2>4. ASSUME NEW l \in links', l.id = j.id PROVE l.profile = j.profile
    BY <2>1, <2>3, <2>4 DEF SameLink, KnowsRow
  <2>5. ASSUME j.profile \notin crossed', j.pc # "shift links", NEW l \in links', l.id = j.id
        PROVE  l.position = j.position
    <3>1. PICK k \in links : SameLink(k, l) /\ (l.profile # p => k.position = l.position)
      BY <2>3, <2>5
    <3>2. l.profile = j.profile /\ l.profile # p
      BY <1>3, <2>4, <2>5
    <3>3. k.position = j.position
      BY <1>0, <2>1, <2>5, <3>1 DEF SameLink, KnowsRow
    <3> QED
      BY <3>1, <3>2, <3>3
  <2>6. ASSUME j.profile \notin crossed', j.pc = "shift links", NEW l \in links', l.profile = j.profile
        PROVE  l.position # j.position
    <3>1. PICK k \in links : SameLink(k, l) /\ k.position = l.position
      BY <1>1, <1>3, <2>6
    <3>2. k.position # j.position
      BY <1>0, <2>1, <2>6, <3>1 DEF SameLink, KnowsRow
    <3> QED
      BY <3>1, <3>2
  <2> QED
    BY <2>1, <2>2, <2>4, <2>5, <2>6 DEF KnowsRow
<1> QED
  BY <1>2, <1>3 DEF KnowsPlace

\* Profiles other than p keep their order.
LEMMA ApartAfter ==
  ASSUME LinkRows, PositionsApart, NEW p, Touches(p), Apart(p, links', crossed', reordered')
  PROVE  PositionsApart'
<1> SUFFICES ASSUME NEW k \in links', NEW l \in links',
                    k # l, k.profile = l.profile, k.profile \notin crossed'
             PROVE  Stand(k, l, reordered')
  BY DEF PositionsApart, Stand
<1>1. CASE k.profile = p
  BY <1>1 DEF Apart
<1>2. CASE k.profile # p
  <2>1. PICK m \in links : SameLink(m, k) /\ m.position = k.position
    BY <1>2 DEF Touches
  <2>2. PICK n \in links : SameLink(n, l) /\ n.position = l.position
    BY <1>2 DEF Touches
  <2>3. k.id # l.id
    BY DEF Touches
  <2>4. m # n /\ m.profile = n.profile /\ m.profile \notin crossed
    BY <2>1, <2>2, <2>3 DEF SameLink, Touches
  <2>5. Stand(m, n, reordered)
    BY <2>4, PositionsApartIs
  <2> QED
    BY <2>1, <2>2, <2>5 DEF Stand, SameLink, Touches
<1> QED
  BY <1>1, <1>2

\* The invariant after a step of request r that touches the links of p.
LEMMA PlacesAfter ==
  ASSUME PlacesInv, NEW p, Touches(p), Apart(p, links', crossed', reordered'),
         NEW r \in Requests, NEW k, job' = [job EXCEPT ![r] = k],
         KnowsPlace(k, links', crossed', inserted'),
         \A q \in Requests : q # r /\ job[q].pc \in Moving =>
           /\ job[q].profile = p => p \in crossed'
           /\ k.pc \in Moving /\ k.profile = job[q].profile => k.profile \in crossed',
         \A d \in downloads' : IsDocument(d)
  PROVE  PlacesInv'
<1>1. \A q \in Requests : job'[q] = IF q = r THEN k ELSE job[q]
  BY DEF PlacesInv, LinkRows
<1>2. LinkRows'
  <2>1. job' = [q \in Requests |-> job'[q]]
    BY DEF PlacesInv, LinkRows
  <2>2. ASSUME NEW l \in links'
        PROVE  /\ IsLink(l) /\ l.id <= inserted'.links /\ l.profile <= inserted'.profiles
               /\ l.id # 0 /\ l.profile # 0
    <3>0. /\ inserted'.profiles \in Nat /\ inserted'.links \in Nat
          /\ inserted.profiles \in Nat /\ inserted.links \in Nat
          /\ inserted.profiles <= inserted'.profiles /\ inserted.links <= inserted'.links /\ IsLink(l)
      BY DEF Touches, PlacesInv, LinkRows
    <3>1. CASE \E m \in links : SameLink(m, l)
      <4>1. PICK m \in links : SameLink(m, l)
        BY <3>1
      <4>2. m.id <= inserted.links /\ m.profile <= inserted.profiles /\ m.id # 0 /\ m.profile # 0
        BY DEF PlacesInv, LinkRows
      <4> QED
        BY <3>0, <4>1, <4>2 DEF SameLink, IsLink
    <3>2. CASE /\ l.profile \in 1 .. inserted'.profiles
               /\ l.id = inserted'.links /\ inserted'.links = inserted.links + 1
      BY <3>0, <3>2 DEF IsLink
    <3> QED
      BY <3>1, <3>2 DEF Touches
  <2>3. /\ inserted' \in [profiles : Nat, links : Nat] /\ IsFiniteSet(links')
        /\ \A m, l \in links' : m.id = l.id => m = l
    BY DEF Touches
  <2> QED
    BY <2>1, <2>2, <2>3 DEF LinkRows
<1>3. ASSUME NEW q \in Requests PROVE KnowsPlace(job'[q], links', crossed', inserted')
  <2>1. CASE q = r
    BY <1>1, <2>1
  <2>2. CASE q # r
    <3>1. PICK j : j = job[q] /\ job'[q] = j
      BY <1>1, <2>2
    <3>2. KnowsPlace(j, links, crossed, inserted) /\ LinkRows
      BY <3>1 DEF PlacesInv
    <3>3. j.pc \in Moving /\ j.profile = p => p \in crossed'
      BY <2>2, <3>1
    <3> QED
      BY <3>1, <3>2, <3>3, OthersKnow
  <2> QED
    BY <2>1, <2>2
<1>4. OneMover'
  <2> SUFFICES ASSUME NEW q \in Requests, NEW m \in Requests,
                      job'[q].pc \in Moving, job'[m].pc \in Moving,
                      job'[q].profile = job'[m].profile, job'[q].profile \notin crossed'
               PROVE  q = m
    BY DEF OneMover
  <2>1. CASE q = r
    BY <1>1, <2>1
  <2>2. CASE m = r
    BY <1>1, <2>2
  <2>3. CASE q # r /\ m # r
    <3>1. crossed \subseteq crossed'
      BY DEF Touches
    <3>2. job'[q] = job[q] /\ job'[m] = job[m]
      BY <1>1, <2>3
    <3> QED
      BY <3>1, <3>2 DEF PlacesInv, OneMover
  <2> QED
    BY <2>1, <2>2, <2>3
<1>5. PositionsApart'
  BY ApartAfter DEF PlacesInv
<1> QED
  BY <1>2, <1>3, <1>4, <1>5 DEF PlacesInv

\* The invariant after a step of request r that leaves the links alone.
LEMMA PlacesKept ==
  ASSUME PlacesInv, UNCHANGED <<links, reordered>>, crossed \subseteq crossed',
         inserted' \in [profiles : Nat, links : Nat], inserted'.links = inserted.links,
         inserted.profiles <= inserted'.profiles,
         NEW r \in Requests, NEW k, job' = [job EXCEPT ![r] = k],
         KnowsPlace(k, links, crossed', inserted'),
         k.pc \in Moving =>
           \A q \in Requests : q # r /\ job[q].pc \in Moving /\ job[q].profile = k.profile
                                 => k.profile \in crossed',
         \A d \in downloads' : IsDocument(d)
  PROVE  PlacesInv'
<1>1. Touches(0)
  <2>1. inserted.links \in Nat
    BY DEF PlacesInv, LinkRows
  <2>2. \A l \in links : IsLink(l) /\ SameLink(l, l)
    BY DEF PlacesInv, LinkRows, SameLink
  <2> QED
    BY <2>1, <2>2 DEF PlacesInv, LinkRows, Touches
<1>2. Apart(0, links', crossed', reordered')
  <2>1. \A l \in links : l.profile # 0
    BY DEF PlacesInv, LinkRows
  <2> QED
    BY <2>1 DEF Apart
<1>3. ASSUME NEW q \in Requests, job[q].pc \in Moving PROVE job[q].profile # 0
  <2>1. KnowsPlace(job[q], links, crossed, inserted) /\ inserted.profiles \in Nat
    BY DEF PlacesInv, LinkRows
  <2>2. job[q].profile \in 1 .. inserted.profiles
    BY <1>3, <2>1 DEF KnowsPlace, KnowsStoring, KnowsRow, Moving
  <2> QED
    BY <2>1, <2>2
<1>4. KnowsPlace(k, links', crossed', inserted')
  OBVIOUS
<1>5. \A q \in Requests : q # r /\ job[q].pc \in Moving =>
           /\ job[q].profile = 0 => 0 \in crossed'
           /\ k.pc \in Moving /\ k.profile = job[q].profile => k.profile \in crossed'
  BY <1>3
<1> QED
  BY <1>1, <1>2, <1>4, <1>5, PlacesAfter

LEMMA IdleKnows ==
  ASSUME NEW rows, NEW mixed, NEW ids
  PROVE  KnowsPlace(Idle, rows, mixed, ids) /\ Idle.pc \notin Moving
  BY DEF KnowsPlace, Idle, Creating, Storing, Moving

\* A request that is not about the places of links goes on.
LEMMA GoesOnAside ==
  ASSUME PlacesInv, NEW r \in Requests, NEW k, job' = [job EXCEPT ![r] = k],
         UNCHANGED <<links, reordered, crossed, inserted, downloads>>,
         k.pc \notin Moving, KnowsPlace(k, links, crossed, inserted)
  PROVE  PlacesInv'
<1>1. /\ inserted \in [profiles : Nat, links : Nat] /\ inserted.profiles <= inserted.profiles
      /\ \A d \in downloads : IsDocument(d)
  BY DEF PlacesInv, LinkRows
<1> QED
  BY <1>1, PlacesKept

----------------------------------------------------------------------------
\* Plans and files.
LEMMA NumberedItems ==
  ASSUME NEW n \in Nat, NEW items, DOMAIN items = 1 .. n
  PROVE  /\ Len(Numbered(items)) = n
         /\ \A i \in 1 .. n : Numbered(items)[i].position = i
<1>1. PICK s : s = Numbered(items)
  OBVIOUS
<1>2. s = [i \in 1 .. n |-> [valid |-> items[i].valid, position |-> i]]
  BY <1>1 DEF Numbered
<1>3. Len(s) = n
  BY <1>2
<1> QED
  BY <1>1, <1>2, <1>3

LEMMA NumberedPlan ==
  ASSUME NEW d, NEW slug, NEW n \in Nat, NEW items, DOMAIN items = 1 .. n
  PROVE  /\ IsPlan(Plan(d, slug, Numbered(items)))
         /\ IsPlan([Plan(d, slug, Numbered(items)) EXCEPT !.counted = TRUE])
<1>1. PICK s : s = Numbered(items) /\ Len(s) = n /\ \A i \in 1 .. n : s[i].position = i
  BY NumberedItems
<1>2. IsPlan(Plan(d, slug, s))
  BY <1>1 DEF IsPlan, Plan
<1>3. IsPlan([Plan(d, slug, s) EXCEPT !.counted = TRUE])
  BY <1>1 DEF IsPlan, Plan
<1> QED
  BY <1>1, <1>2, <1>3

LEMMA PlansNumber ==
  ASSUME NEW d, IsDocument(d)
  PROVE  IsPlan(PlanOf(d))
<1>1. PICK n \in Nat : n = Len(d.links) /\ DOMAIN d.links = 1 .. n
                       /\ \A i \in 1 .. n : d.links[i] \in ItemType
  BY JobsDomain DEF IsDocument
<1>2. CASE d.source = "linktree"
  BY <1>1, <1>2, NumberedPlan DEF PlanOf, importFromLinktree
<1>3. CASE d.source = "linkstack"
  <2>1. PICK s : s = [k \in DOMAIN d.links |->
                        [valid |-> d.links[k].valid, position |-> d.links[k].order]]
    OBVIOUS
  <2>2. s = [k \in 1 .. n |-> [valid |-> d.links[k].valid, position |-> d.links[k].order]]
    BY <1>1, <2>1
  <2>3. Len(s) = n /\ \A k \in 1 .. n : s[k].position = d.links[k].order
    BY <2>2
  <2>4. \A k \in 1 .. n : d.links[k].order \in Nat
    BY <1>1 DEF ItemType
  <2>5. PlanOf(d) = [Plan(d, d.slug, s) EXCEPT !.numbered = FALSE]
    BY <1>3, <2>1 DEF PlanOf, importFromLinkstack
  <2>6. PICK plan : plan = [Plan(d, d.slug, s) EXCEPT !.numbered = FALSE]
    OBVIOUS
  <2>7. {"links", "counted", "numbered"} \subseteq DOMAIN plan /\ plan.links = s
        /\ plan.numbered = FALSE
    BY <2>6 DEF Plan
  <2>8. IsPlan(plan)
    BY <2>3, <2>4, <2>7 DEF IsPlan
  <2> QED
    BY <2>5, <2>6, <2>8
<1>4. CASE d.source = "carrd"
  <2>1. PICK web : web = {k \in DOMAIN d.links : d.links[k].web}
    OBVIOUS
  <2>2. IsFiniteSet(web) /\ Cardinality(web) \in Nat
    <3>1. web \subseteq 1 .. n /\ IsFiniteSet(1 .. n)
      BY <1>1, <2>1, FS_Interval
    <3> QED
      BY <3>1, FS_Subset, FS_CardinalityType
  <2>3. DOMAIN WebLinks(d) = 1 .. Cardinality(web)
    BY <2>1 DEF WebLinks
  <2> QED
    BY <1>4, <2>2, <2>3, NumberedPlan DEF PlanOf, importFromCarrd
<1>5. CASE d.source = "aboutme"
  BY <1>1, <1>5, NumberedPlan DEF PlanOf, importFromAboutMe
<1>6. CASE d.source = "csv"
  BY <1>1, <1>6, NumberedPlan DEF PlanOf, importFromCSV
<1>7. CASE d.source = "json"
  BY <1>1, <1>7, NumberedPlan DEF PlanOf, importFromJSON
<1> QED
  BY <1>2, <1>3, <1>4, <1>5, <1>6, <1>7 DEF IsDocument

LEMMA FilesAreDocuments ==
  ASSUME NEW j, NEW rows, IsFiniteSet(rows), NEW f \in {TRUE, FALSE},
         NEW source \in {"json", "csv"}
  PROVE  IsDocument(File(j, source, rows, f))
<1>1. PICK n \in Nat : n = Cardinality(rows)
  BY FS_CardinalityType
<1>2. PICK s : s = [k \in 1 .. n |-> [valid |-> TRUE, web |-> TRUE, order |-> 0]]
  OBVIOUS
<1>3. s \in Seq(ItemType)
  BY <1>2 DEF ItemType
<1>4. PICK d : d = File(j, source, rows, f)
  OBVIOUS
<1>5. d.source = source /\ d.links = s
  BY <1>1, <1>2, <1>4 DEF File
<1> QED
  BY <1>3, <1>4, <1>5 DEF IsDocument

----------------------------------------------------------------------------
\* Creating the profile.
LEMMA RefusalKnows ==
  ASSUME NEW j, NEW rows, NEW mixed, NEW ids
  PROVE  KnowsPlace(AfterRefusal(j), rows, mixed, ids) /\ AfterRefusal(j).pc \notin Moving
<1>1. CASE j.task = "import"
  <2>1. PICK k : k = AfterRefusal(j) /\ k = [pc |-> "failure", import |-> j.import]
    BY <1>1 DEF AfterRefusal
  <2>2. "pc" \in DOMAIN k /\ k.pc = "failure"
    BY <2>1
  <2> QED
    BY <2>1, <2>2 DEF KnowsPlace, Creating, Storing, Moving
<1>2. CASE j.task # "import"
  BY <1>2, IdleKnows DEF AfterRefusal
<1> QED
  BY <1>1, <1>2

LEMMA SlugChosen ==
  ASSUME NEW plan, "numbered" \in DOMAIN plan, NEW slug
  PROVE  /\ "numbered" \in DOMAIN [plan EXCEPT !.slug = slug]
         /\ IsPlan(plan) => IsPlan([plan EXCEPT !.slug = slug])
<1>1. PICK k : k = [plan EXCEPT !.slug = slug]
  OBVIOUS
<1>2. DOMAIN k = DOMAIN plan
  BY <1>1
<1>3. ASSUME IsPlan(plan) PROVE IsPlan(k)
  <2>1. k.links = plan.links /\ k.numbered = plan.numbered
    BY <1>1, <1>3 DEF IsPlan
  <2> QED
    BY <1>2, <1>3, <2>1 DEF IsPlan
<1> QED
  BY <1>1, <1>2, <1>3

LEMMA CreatingGoesOn ==
  ASSUME PlacesInv, NEW r \in Requests, NEW k, GoOn(r, k),
         UNCHANGED <<links, reordered, crossed, inserted, downloads>>,
         job[r].pc \in Creating \cup {"copy"}, k.pc \in Creating \cup {"copy"},
         k.pc = "copy" => job[r].pc = "copy",
         DOMAIN k = DOMAIN job[r], k.task = job[r].task,
         k.plan = job[r].plan \/ \E slug : k.plan = [job[r].plan EXCEPT !.slug = slug]
  PROVE  PlacesInv'
<1>1. PICK j : j = job[r] /\ KnowsPlace(j, links, crossed, inserted)
  BY DEF PlacesInv
<1>2. /\ {"task", "plan", "pc"} \subseteq DOMAIN j /\ (j.task = "import" => IsPlan(j.plan))
      /\ "numbered" \in DOMAIN j.plan /\ (j.pc = "copy" => j.task # "import")
  BY <1>1 DEF KnowsPlace
<1>3. "numbered" \in DOMAIN k.plan /\ (k.task = "import" => IsPlan(k.plan))
  <2>1. CASE k.plan = j.plan
    BY <1>1, <1>2, <2>1
  <2>2. ASSUME NEW slug, k.plan = [j.plan EXCEPT !.slug = slug]
        PROVE  "numbered" \in DOMAIN k.plan /\ (k.task = "import" => IsPlan(k.plan))
    BY <1>1, <1>2, <2>2, SlugChosen
  <2> QED
    BY <1>1, <2>1, <2>2
<1>4. k.pc \notin Moving /\ k.pc \notin Storing /\ k.pc # "pending"
  BY DEF Creating, Storing, Moving
<1>5. KnowsPlace(k, links, crossed, inserted)
  <2>1. {"pc", "task", "plan"} \subseteq DOMAIN k
    BY <1>1, <1>2
  <2>2. k.pc = "copy" => k.task # "import"
    BY <1>1, <1>2
  <2> QED
    BY <1>3, <1>4, <2>1, <2>2 DEF KnowsPlace
<1> QED
  BY <1>4, <1>5, GoesOnAside DEF GoOn

LEMMA CreatingKeepsPlaces ==
  ASSUME PlacesInv, NEW r \in Requests, downloads' = downloads,
         \/ CountByUserID(r) \/ generateSlug(r) \/ CheckSlug(r) \/ InsertProfileFails(r)
         \/ generateUniqueSlug(r)
  PROVE  PlacesInv'
<1>1. PICK j : j = job[r] /\ KnowsPlace(j, links, crossed, inserted)
  BY DEF PlacesInv
<1>2. j.pc \in Creating \cup {"copy"}
  BY <1>1 DEF CountByUserID, generateSlug, CheckSlug, InsertProfileFails, generateUniqueSlug, At,
              Creating
<1>3. {"pc", "plan", "task"} \subseteq DOMAIN j
  BY <1>1, <1>2 DEF KnowsPlace
<1>4. UNCHANGED <<links, reordered, crossed, inserted>>
  BY DEF CountByUserID, generateSlug, CheckSlug, InsertProfileFails, generateUniqueSlug, Refuse,
         serviceVars
<1>5. CASE Refuse(r)
  BY <1>4, <1>5, RefusalKnows, GoesOnAside DEF Refuse, GoOn
<1>6. CASE \E k, n : /\ GoOn(r, k)
                     /\ \/ k = [j EXCEPT !.pc = IF j.plan.slug = NoSlug THEN "name" ELSE "slug"]
                        \/ k = [j EXCEPT !.tries = @ + 1]
                        \/ k = [j EXCEPT !.pc = "slug", !.plan.slug = n]
                        \/ k = [j EXCEPT !.pc = "insert profile"]
                        \/ k = [j EXCEPT !.pc = "count profiles", !.plan.slug = n]
  <2>1. PICK k, n : /\ GoOn(r, k)
                    /\ \/ k = [j EXCEPT !.pc = IF j.plan.slug = NoSlug THEN "name" ELSE "slug"]
                       \/ k = [j EXCEPT !.tries = @ + 1]
                       \/ k = [j EXCEPT !.pc = "slug", !.plan.slug = n]
                       \/ k = [j EXCEPT !.pc = "insert profile"]
                       \/ k = [j EXCEPT !.pc = "count profiles", !.plan.slug = n]
    BY <1>6
  <2>2. /\ DOMAIN k = DOMAIN j /\ k.task = j.task
        /\ k.pc \in Creating \cup {"copy"} /\ (k.pc = "copy" => j.pc = "copy")
        /\ k.plan = j.plan \/ \E slug : k.plan = [j.plan EXCEPT !.slug = slug]
    <3>1. CASE k = [j EXCEPT !.pc = IF j.plan.slug = NoSlug THEN "name" ELSE "slug"]
      BY <1>3, <3>1 DEF Creating
    <3>2. CASE k = [j EXCEPT !.tries = @ + 1]
      BY <1>2, <1>3, <3>2
    <3>3. CASE k = [j EXCEPT !.pc = "slug", !.plan.slug = n]
      <4>1. DOMAIN k = DOMAIN j /\ k.task = j.task /\ k.pc = "slug"
        BY <1>3, <3>3
      <4>2. k.plan = [j.plan EXCEPT !.slug = n]
        BY <1>3, <3>3
      <4> QED
        BY <4>1, <4>2 DEF Creating
    <3>4. CASE k = [j EXCEPT !.pc = "insert profile"]
      BY <1>3, <3>4 DEF Creating
    <3>5. CASE k = [j EXCEPT !.pc = "count profiles", !.plan.slug = n]
      <4>1. DOMAIN k = DOMAIN j /\ k.task = j.task /\ k.pc = "count profiles"
        BY <1>3, <3>5
      <4>2. k.plan = [j.plan EXCEPT !.slug = n]
        BY <1>3, <3>5
      <4> QED
        BY <4>1, <4>2 DEF Creating
    <3> QED
      BY <2>1, <3>1, <3>2, <3>3, <3>4, <3>5
  <2> QED
    BY <1>1, <1>2, <1>4, <2>1, <2>2, CreatingGoesOn
<1>7. \/ Refuse(r)
      \/ \E k, n : /\ GoOn(r, k)
                   /\ \/ k = [j EXCEPT !.pc = IF j.plan.slug = NoSlug THEN "name" ELSE "slug"]
                      \/ k = [j EXCEPT !.tries = @ + 1]
                      \/ k = [j EXCEPT !.pc = "slug", !.plan.slug = n]
                      \/ k = [j EXCEPT !.pc = "insert profile"]
                      \/ k = [j EXCEPT !.pc = "count profiles", !.plan.slug = n]
  <2>1. CASE CountByUserID(r)
    BY <1>1, <2>1 DEF CountByUserID
  <2>2. CASE generateSlug(r)
    BY <1>1, <2>2 DEF generateSlug
  <2>3. CASE CheckSlug(r)
    BY <1>1, <2>3 DEF CheckSlug
  <2>4. CASE InsertProfileFails(r)
    BY <2>4 DEF InsertProfileFails
  <2>5. CASE generateUniqueSlug(r)
    BY <1>1, <2>5 DEF generateUniqueSlug
  <2> QED
    BY <2>1, <2>2, <2>3, <2>4, <2>5
<1> QED
  BY <1>5, <1>6, <1>7

LEMMA CreatedProfile ==
  ASSUME PlacesInv, NEW r \in Requests, downloads' = downloads, InsertProfile(r)
  PROVE  PlacesInv'
<1>1. PICK j : j = job[r] /\ KnowsPlace(j, links, crossed, inserted) /\ j.pc = "insert profile"
  BY DEF PlacesInv, InsertProfile, At
<1>2. {"task", "plan"} \subseteq DOMAIN j /\ (j.task = "import" => IsPlan(j.plan))
  BY <1>1 DEF KnowsPlace, Creating
<1>3. PICK id \in Nat : /\ id = inserted.profiles + 1 /\ inserted.profiles \in Nat
                        /\ inserted \in [profiles : Nat, links : Nat]
  BY DEF PlacesInv, LinkRows
<1>4. /\ inserted' = [inserted EXCEPT !.profiles = id] /\ UNCHANGED <<links, reordered>>
      /\ crossed' = IF j.plan.numbered THEN crossed ELSE crossed \cup {id}
  BY <1>1, <1>3 DEF InsertProfile
<1>5. /\ inserted' \in [profiles : Nat, links : Nat] /\ inserted'.links = inserted.links
      /\ inserted'.profiles = id /\ inserted.profiles <= inserted'.profiles
      /\ crossed \subseteq crossed'
  BY <1>3, <1>4
<1>6. PICK k : k = AfterCreate(j, id) /\ job' = [job EXCEPT ![r] = k]
  BY <1>1, <1>3 DEF InsertProfile, GoOn
<1>7. CASE j.task = "import"
  <2>1. k = [pc |-> LinkStage(j.plan, 1, "result"), task |-> "import", import |-> j.import,
             plan |-> j.plan, profile |-> id, k |-> 1, position |-> 0, imported |-> 0]
    BY <1>6, <1>7 DEF AfterCreate
  <2>2. /\ {"pc", "task", "import", "plan", "profile", "k", "position", "imported"} \subseteq DOMAIN k
        /\ k.pc = LinkStage(j.plan, 1, "result") /\ k.task = "import" /\ k.plan = j.plan
        /\ k.profile = id /\ k.k = 1 /\ k.position = 0 /\ k.imported = 0
    BY <2>1
  <2>3. CASE 1 > Len(j.plan.links)
    <3>1. k.pc = "result"
      BY <2>2, <2>3 DEF LinkStage
    <3>2. KnowsPlace(k, links, crossed', inserted') /\ k.pc \notin Moving
      BY <2>2, <3>1 DEF KnowsPlace, Creating, Storing, Moving
    <3> QED
      BY <1>4, <1>5, <1>6, <3>2, PlacesKept DEF PlacesInv, LinkRows
  <2>4. CASE ~(1 > Len(j.plan.links)) /\ Len(j.plan.links) \in Nat
    <3>1. k.pc = "count links"
      BY <2>2, <2>4 DEF LinkStage
    <3>2. \A l \in links : l.profile # id
      <4>1. \A l \in links : l.profile <= inserted.profiles /\ l.profile \in Nat
        BY DEF PlacesInv, LinkRows, IsLink
      <4> QED
        BY <1>3, <4>1
    <3>3. k.k \in 1 .. Len(k.plan.links) /\ Len(k.plan.links) \in Nat
      BY <2>2, <2>4
    <3>4. k.profile \in 1 .. inserted'.profiles
      BY <1>3, <1>5, <2>2
    <3>5. IsPlan(k.plan) /\ \A n \in 1 .. Len(k.plan.links) : k.plan.links[n].position \in Nat
      BY <1>2, <1>7, <2>2 DEF IsPlan
    <3>6. k.profile \notin crossed' => KnowsPlaceInOrder(k, links)
      <4>1. k.profile \notin crossed' => k.plan.numbered
        BY <1>4, <2>2
      <4> QED
        BY <2>2, <3>1, <3>2, <4>1 DEF KnowsPlaceInOrder
    <3>7. KnowsStoring(k, links, crossed', inserted')
      BY <2>2, <3>3, <3>4, <3>5, <3>6 DEF KnowsStoring
    <3>8. KnowsPlace(k, links, crossed', inserted')
      BY <2>2, <3>1, <3>7 DEF KnowsPlace, Creating, Storing, Moving
    <3>9. ASSUME NEW q \in Requests, job[q].pc \in Moving PROVE job[q].profile # k.profile
      <4>1. KnowsPlace(job[q], links, crossed, inserted)
        BY DEF PlacesInv
      <4>2. job[q].profile \in 1 .. inserted.profiles
        BY <3>9, <4>1 DEF KnowsPlace, KnowsStoring, KnowsRow, Moving
      <4> QED
        BY <1>3, <2>2, <4>2
    <3> QED
      BY <1>4, <1>5, <1>6, <3>8, <3>9, PlacesKept DEF PlacesInv, LinkRows
  <2> QED
    BY <1>2, <1>7, <2>3, <2>4 DEF IsPlan
<1>8. CASE j.task # "import"
  <2>1. k = Idle
    BY <1>6, <1>8 DEF AfterCreate
  <2> QED
    BY <1>4, <1>5, <1>6, <2>1, IdleKnows, PlacesKept DEF PlacesInv, LinkRows
<1> QED
  BY <1>7, <1>8

----------------------------------------------------------------------------
\* Storing a link.

\* A position behind those of all links.
LEMMA HighestExists ==
  ASSUME NEW S, IsFiniteSet(S), S \subseteq Nat, S # {}
  PROVE  Max(S) \in S /\ \A x \in S : x <= Max(S)
<1> DEFINE T == {n \in Nat : \A D \in SUBSET S : D # {} /\ Cardinality(D) <= n =>
                                                   \E x \in D : \A y \in D : y <= x}
<1>1. 0 \in T
  <2>1. \A D \in SUBSET S : Cardinality(D) <= 0 => D = {}
    <3> TAKE D \in SUBSET S
    <3>1. IsFiniteSet(D) /\ Cardinality(D) \in Nat
      BY FS_Subset, FS_CardinalityType
    <3>2. Cardinality(D) = 0 <=> D = {}
      BY <3>1, FS_EmptySet
    <3> QED
      BY <3>1, <3>2
  <2> QED
    BY <2>1
<1>2. ASSUME NEW n \in Nat, n \in T PROVE n + 1 \in T
  <2> SUFFICES ASSUME NEW D \in SUBSET S, D # {}, Cardinality(D) <= n + 1
               PROVE  \E x \in D : \A y \in D : y <= x
    OBVIOUS
  <2>1. PICK e : e \in D
    OBVIOUS
  <2>2. PICK E : E = D \ {e}
    OBVIOUS
  <2>3. IsFiniteSet(D) /\ Cardinality(D) \in Nat /\ Cardinality(E) = Cardinality(D) - 1
    BY <2>1, <2>2, FS_Subset, FS_CardinalityType, FS_RemoveElement
  <2>4. E \in SUBSET S /\ Cardinality(E) <= n /\ D = E \cup {e} /\ e \in Nat
    BY <2>1, <2>2, <2>3
  <2>5. CASE E = {}
    BY <2>4, <2>5
  <2>6. CASE E # {}
    <3>1. PICK x \in E : \A y \in E : y <= x
      BY <1>2, <2>4, <2>6
    <3>2. x \in Nat
      BY <2>4
    <3>3. CASE e <= x
      BY <2>4, <3>1, <3>3
    <3>4. CASE ~(e <= x)
      <4>1. \A y \in E : y \in Nat
        BY <2>4
      <4>2. \A y \in E : y <= e
        BY <2>4, <3>1, <3>2, <3>4, <4>1
      <4> QED
        BY <2>4, <4>2
    <3> QED
      BY <3>3, <3>4
  <2> QED
    BY <2>5, <2>6
<1>3. Nat \subseteq T
  <2> HIDE DEF T
  <2> QED
    BY <1>1, <1>2, Induction
<1>4. Cardinality(S) \in Nat
  BY FS_CardinalityType
<1>5. \E x \in S : \A y \in S : y <= x
  BY <1>3, <1>4
<1>6. \E x \in S : \A y \in S : x >= y
  BY <1>5
<1> QED
  BY <1>6 DEF Max

LEMMA NextPositionIsLast ==
  ASSUME LinkRows, NEW p
  PROVE  NextPosition(p) \in Nat \ {0} /\ \A l \in links : l.profile = p => l.position < NextPosition(p)
<1>1. PICK S : S = {l.position : l \in LinksOf(p)}
  OBVIOUS
<1>2. IsFiniteSet(S)
  <2>1. IsFiniteSet(LinksOf(p))
    BY FS_Subset DEF LinkRows, LinksOf
  <2>2. PICK f : f = [l \in LinksOf(p) |-> l.position]
    OBVIOUS
  <2>3. f \in Surjection(LinksOf(p), S)
    BY <1>1, <2>2, Fun_IsSurj
  <2> QED
    BY <2>1, <2>3, FS_Surjection
<1>3. PICK U : U = S \cup {0}
  OBVIOUS
<1>4. IsFiniteSet(U) /\ U \subseteq Nat /\ U # {}
  <2>1. S \subseteq Nat
    BY <1>1 DEF LinkRows, LinksOf, IsLink
  <2> QED
    BY <1>2, <1>3, <2>1, FS_AddElement
<1>5. Max(U) \in U /\ \A x \in U : x <= Max(U)
  BY <1>4, HighestExists
<1>6. NextPosition(p) = Max(U) + 1
  BY <1>1, <1>3 DEF NextPosition
<1>7. ASSUME NEW l \in links, l.profile = p PROVE l.position \in U
  BY <1>1, <1>3, <1>7 DEF LinksOf
<1>8. PICK m \in Nat : m = Max(U)
  BY <1>4, <1>5
<1>9. \A x \in U : x < m + 1
  BY <1>4, <1>5, <1>8
<1> QED
  BY <1>6, <1>7, <1>8, <1>9

\* A step of a request that stays with the links of the profile it moves.
LEMMA StaysWithProfile ==
  ASSUME PlacesInv, NEW r \in Requests, NEW k, GoOn(r, k), job[r].pc \in Moving,
         UNCHANGED <<links, reordered, crossed, inserted, downloads>>,
         k.pc \in Moving => k.profile = job[r].profile,
         KnowsPlace(k, links, crossed, inserted)
  PROVE  PlacesInv'
<1>1. /\ inserted \in [profiles : Nat, links : Nat] /\ inserted.profiles <= inserted.profiles
      /\ \A d \in downloads : IsDocument(d)
  BY DEF PlacesInv, LinkRows
<1>2. k.pc \in Moving =>
        \A q \in Requests : q # r /\ job[q].pc \in Moving /\ job[q].profile = k.profile
                              => k.profile \in crossed
  BY DEF PlacesInv, OneMover
<1> QED
  BY <1>1, <1>2, PlacesKept DEF GoOn

LEMMA ChecksLink ==
  ASSUME PlacesInv, NEW r \in Requests, downloads' = downloads, serviceVars' = serviceVars,
         CountByProfileID(r) \/ getNextPosition(r), ~LinkRefused(r)
  PROVE  PlacesInv'
<1>1. PICK j : j = job[r] /\ KnowsPlace(j, links, crossed, inserted) /\ j.pc \in Storing
  BY DEF PlacesInv, CountByProfileID, getNextPosition, At, Storing
<1>2. KnowsStoring(j, links, crossed, inserted) /\ "pc" \in DOMAIN j
  BY <1>1 DEF KnowsPlace
<1>3. UNCHANGED <<links, reordered, crossed, inserted>>
  BY DEF serviceVars
<1>4. ASSUME NEW k, GoOn(r, k), DOMAIN k = DOMAIN j, k.pc \in {"next position", "insert link"},
             k.position \in Nat, k.task = j.task, k.plan = j.plan, k.k = j.k,
             k.profile = j.profile, k.import = j.import,
             "imported" \in DOMAIN j => k.imported = j.imported,
             k.profile \notin crossed => KnowsPlaceInOrder(k, links)
      PROVE  PlacesInv'
  <2>1. KnowsStoring(k, links, crossed, inserted)
    BY <1>2, <1>4 DEF KnowsStoring
  <2>2. k.pc \in Storing /\ k.pc \notin {"pending", "copy"} \cup Creating
    BY <1>4 DEF Storing, Creating
  <2>3. KnowsPlace(k, links, crossed, inserted)
    BY <1>2, <1>4, <2>1, <2>2 DEF KnowsPlace
  <2> QED
    BY <1>1, <1>3, <1>4, <2>3, StaysWithProfile DEF Moving
<1>5. CASE CountByProfileID(r)
  <2>1. PICK position : position = PositionOf(j)
    OBVIOUS
  <2>2. PICK k : /\ GoOn(r, k)
                 /\ k = [j EXCEPT !.position = position,
                           !.pc = IF position = 0 THEN "next position" ELSE "insert link"]
    BY <1>1, <1>5, <2>1 DEF CountByProfileID
  <2>3. position \in Nat /\ (j.task = "import" /\ j.plan.numbered => position = Place(j) /\ position # 0)
        /\ (j.task = "add" => position = j.plan.links[j.k].position)
    <3>1. j.plan.links[j.k].position \in Nat /\ j.k # 0
      BY <1>2 DEF KnowsStoring
    <3>2. CASE j.task = "add"
      BY <1>2, <2>1, <3>1, <3>2 DEF KnowsStoring, PositionOf, Entry
    <3>3. CASE j.task = "import"
      <4>1. j.imported \in Nat /\ (j.plan.numbered => j.plan.links[j.k].position = j.k)
        BY <1>2, <3>3 DEF KnowsStoring, IsPlan
      <4> QED
        BY <2>1, <3>1, <3>3, <4>1 DEF PositionOf, Entry, Place
    <3> QED
      BY <1>2, <3>2, <3>3 DEF KnowsStoring
  <2>4. /\ DOMAIN k = DOMAIN j /\ k.position = position
        /\ k.pc = IF position = 0 THEN "next position" ELSE "insert link"
        /\ k.task = j.task /\ k.plan = j.plan /\ k.k = j.k /\ k.profile = j.profile
        /\ k.import = j.import /\ ("imported" \in DOMAIN j => k.imported = j.imported)
    BY <1>2, <2>2 DEF KnowsStoring
  <2>5. ASSUME k.profile \notin crossed PROVE KnowsPlaceInOrder(k, links)
    <3>1. KnowsPlaceInOrder(j, links)
      BY <1>2, <2>4, <2>5 DEF KnowsStoring
    <3>2. Place(k) = Place(j) \/ j.task # "import"
      BY <1>2, <2>4 DEF Place, KnowsStoring
    <3> QED
      BY <2>3, <2>4, <3>1, <3>2 DEF KnowsPlaceInOrder
  <2>6. k.pc \in {"next position", "insert link"}
    BY <2>4
  <2> QED
    BY <1>4, <2>2, <2>3, <2>4, <2>5, <2>6
<1>6. CASE getNextPosition(r)
  <2>1. PICK position \in Nat : /\ position = NextPosition(j.profile)
                                /\ \A l \in links : l.profile = j.profile => l.position < position
    BY NextPositionIsLast DEF PlacesInv
  <2>2. PICK k : GoOn(r, k) /\ k = [j EXCEPT !.pc = "insert link", !.position = position]
    BY <1>1, <1>6, <2>1 DEF getNextPosition
  <2>3. /\ DOMAIN k = DOMAIN j /\ k.position = position /\ k.pc = "insert link"
        /\ k.task = j.task /\ k.plan = j.plan /\ k.k = j.k /\ k.profile = j.profile
        /\ k.import = j.import /\ ("imported" \in DOMAIN j => k.imported = j.imported)
    BY <1>2, <2>2 DEF KnowsStoring
  <2>4. ASSUME k.profile \notin crossed PROVE KnowsPlaceInOrder(k, links)
    <3>1. KnowsPlaceInOrder(j, links) /\ j.pc = "next position"
      BY <1>1, <1>2, <1>6, <2>3, <2>4 DEF KnowsStoring, getNextPosition, At
    <3> QED
      BY <2>1, <2>3, <3>1 DEF KnowsPlaceInOrder
  <2> QED
    BY <1>4, <2>1, <2>2, <2>3, <2>4
<1> QED
  BY <1>5, <1>6

\* After a link that was stored, or was not, the next one comes behind it.
LEMMA NextLinkKnows ==
  ASSUME NEW j, NEW old, NEW rows, NEW mixed, NEW ids, NEW ids2, ids2.profiles = ids.profiles,
         KnowsStoring(j, old, mixed, ids), "pc" \in DOMAIN j, NEW stored \in BOOLEAN,
         j.profile \notin mixed =>
           /\ KnowsPlaceInOrder(j, old)
           /\ \A l \in old : l.profile = j.profile => l.position \in Nat /\ l.item \in Nat
           /\ \A l \in rows : l.profile = j.profile =>
                \/ l \in old
                \/ stored /\ l.position = Place(j) /\ l.item = j.k
  PROVE  /\ KnowsPlace(NextLink(j, stored), rows, mixed, ids2)
         /\ NextLink(j, stored).pc \in Moving => NextLink(j, stored).profile = j.profile
<1>1. PICK k : k = NextLink(j, stored)
  OBVIOUS
<1>2. CASE j.task = "import"
  <2>1. /\ IsPlan(j.plan) /\ "imported" \in DOMAIN j /\ j.imported \in Nat
        /\ {"pc", "task", "plan", "k", "position", "profile", "import"} \subseteq DOMAIN j
        /\ j.k \in Nat /\ j.k # 0 /\ Len(j.plan.links) \in Nat
    BY <1>2 DEF KnowsStoring
  <2>2. PICK i \in Nat : i = Imported(j, stored) /\ (i = IF stored THEN j.imported + 1 ELSE j.imported)
    BY <2>1 DEF Imported
  <2>3. k = [j EXCEPT !.pc = LinkStage(j.plan, j.k + 1, "result"), !.k = @ + 1, !.imported = i]
    BY <1>1, <1>2, <2>2 DEF NextLink
  <2>4. /\ DOMAIN k = DOMAIN j /\ k.pc = LinkStage(j.plan, j.k + 1, "result")
        /\ k.task = "import" /\ k.plan = j.plan /\ k.k = j.k + 1 /\ k.position = j.position
        /\ k.profile = j.profile /\ k.import = j.import /\ k.imported = i
    BY <1>2, <2>1, <2>3
  <2>5. CASE j.k + 1 > Len(j.plan.links)
    <3>1. k.pc = "result"
      BY <2>4, <2>5 DEF LinkStage
    <3> QED
      BY <1>1, <2>1, <2>4, <3>1 DEF KnowsPlace, Creating, Storing, Moving
  <2>6. CASE ~(j.k + 1 > Len(j.plan.links))
    <3>1. k.pc = "count links"
      BY <2>4, <2>6 DEF LinkStage
    <3>2. k.k \in 1 .. Len(k.plan.links)
      BY <2>1, <2>4, <2>6
    <3>3. ASSUME k.profile \notin mixed PROVE KnowsPlaceInOrder(k, rows)
      <4>1. /\ KnowsPlaceInOrder(j, old) /\ j.plan.numbered
            /\ \A l \in old : l.profile = j.profile => l.position \in Nat /\ l.item \in Nat
            /\ \A l \in rows : l.profile = j.profile =>
                \/ l \in old
                \/ stored /\ l.position = Place(j) /\ l.item = j.k
        BY <1>2, <2>4, <3>3 DEF KnowsPlaceInOrder
      <4>2. PICK m \in Nat : m = Place(j)
        BY <2>1 DEF Place
      <4>3. PICK n \in Nat : n = Place(k) /\ m <= n /\ (stored => m < n)
        <5>1. CASE j.plan.counted
          <6>1. m = j.imported + 1 /\ Place(k) = i + 1
            BY <2>4, <4>2, <5>1 DEF Place
          <6> QED
            BY <2>1, <2>2, <6>1
        <5>2. CASE ~j.plan.counted
          <6>1. m = j.k /\ Place(k) = j.k + 1
            BY <2>4, <4>2, <5>2 DEF Place
          <6> QED
            BY <2>1, <6>1
        <5> QED
          BY <5>1, <5>2
      <4>4. ASSUME NEW l \in rows, l.profile = k.profile
            PROVE  l.position < n /\ (l.job = k.import => l.item < k.k)
        <5>1. CASE l \in old
          <6>1. l.position < m /\ (l.job = j.import => l.item < j.k)
                /\ l.position \in Nat /\ l.item \in Nat
            BY <1>2, <2>4, <4>1, <4>2, <4>4, <5>1 DEF KnowsPlaceInOrder
          <6> QED
            BY <2>1, <2>4, <4>3, <6>1
        <5>2. CASE stored /\ l.position = m /\ l.item = j.k
          BY <2>1, <2>4, <4>3, <5>2
        <5> QED
          BY <2>4, <4>1, <4>2, <4>4, <5>1, <5>2
      <4> QED
        BY <2>4, <3>1, <4>1, <4>3, <4>4 DEF KnowsPlaceInOrder
    <3>4. KnowsStoring(k, rows, mixed, ids2)
      <4>1. k.profile \in 1 .. ids2.profiles /\ k.position \in Nat
            /\ \A n \in 1 .. Len(k.plan.links) : k.plan.links[n].position \in Nat
        BY <2>4 DEF KnowsStoring
      <4>2. {"task", "plan", "k", "position", "profile", "import"} \subseteq DOMAIN k
        BY <2>1, <2>4
      <4>3. IsPlan(k.plan) /\ "imported" \in DOMAIN k /\ k.imported \in Nat /\ k.task # "add"
        BY <2>1, <2>2, <2>4
      <4>4. Len(k.plan.links) \in Nat
        BY <2>1, <2>4
      <4> QED
        BY <2>4, <3>2, <3>3, <4>1, <4>2, <4>3, <4>4 DEF KnowsStoring
    <3>5. KnowsPlace(k, rows, mixed, ids2)
      BY <2>1, <2>4, <3>1, <3>4 DEF KnowsPlace, Creating, Storing, Moving
    <3> QED
      BY <1>1, <2>4, <3>5
  <2> QED
    BY <2>5, <2>6
<1>3. CASE j.task # "import"
  BY <1>3, IdleKnows DEF NextLink
<1> QED
  BY <1>2, <1>3

LEMMA RefusedLink ==
  ASSUME PlacesInv, NEW r \in Requests, downloads' = downloads, LinkRefused(r),
         job[r].pc \in Storing
  PROVE  PlacesInv'
<1>1. PICK j : j = job[r] /\ KnowsPlace(j, links, crossed, inserted) /\ j.pc \in Storing
  BY DEF PlacesInv
<1>2. KnowsStoring(j, links, crossed, inserted) /\ "pc" \in DOMAIN j
  BY <1>1 DEF KnowsPlace
<1>3. UNCHANGED <<links, reordered, crossed, inserted>>
  BY DEF LinkRefused, serviceVars
<1>4. PICK k : k = NextLink(j, FALSE) /\ GoOn(r, k)
  BY <1>1 DEF LinkRefused
<1>5. j.profile \notin crossed => KnowsPlaceInOrder(j, links)
  BY <1>2 DEF KnowsStoring
<1>6. \A l \in links : l.position \in Nat /\ l.item \in Nat
  BY DEF PlacesInv, LinkRows, IsLink
<1>7. KnowsPlace(k, links, crossed, inserted) /\ (k.pc \in Moving => k.profile = j.profile)
  BY <1>2, <1>4, <1>5, <1>6, NextLinkKnows
<1> QED
  BY <1>1, <1>3, <1>4, <1>7, StaysWithProfile DEF Moving

LEMMA InsertedLink ==
  ASSUME PlacesInv, NEW r \in Requests, downloads' = downloads, InsertLink(r), ~LinkRefused(r)
  PROVE  PlacesInv'
<1>1. PICK j : j = job[r] /\ KnowsPlace(j, links, crossed, inserted) /\ j.pc = "insert link"
  BY DEF PlacesInv, InsertLink, At
<1>2. KnowsStoring(j, links, crossed, inserted) /\ "pc" \in DOMAIN j /\ j.pc \in Moving
  BY <1>1 DEF KnowsPlace, Storing, Moving
<1>3. PICK id \in Nat : id = inserted.links + 1 /\ inserted.links \in Nat /\ inserted.profiles \in Nat
  BY DEF PlacesInv, LinkRows
<1>4. PICK x : x = [id |-> id, profile |-> j.profile, position |-> j.position,
                    active |-> TRUE, item |-> j.k, job |-> j.import]
  OBVIOUS
<1>5. /\ links' = links \cup {x} /\ inserted' = [inserted EXCEPT !.links = id]
      /\ GoOn(r, NextLink(j, TRUE)) /\ UNCHANGED <<crossed, reordered>>
  BY <1>1, <1>3, <1>4 DEF InsertLink
<1>6. /\ x.id = id /\ x.profile = j.profile /\ x.position = j.position /\ x.item = j.k
      /\ x.job = j.import /\ IsLink(x)
  BY <1>2, <1>3, <1>4 DEF IsLink, KnowsStoring
<1>7. /\ inserted' \in [profiles : Nat, links : Nat] /\ inserted'.links = id
      /\ inserted'.profiles = inserted.profiles
  BY <1>3, <1>5 DEF PlacesInv, LinkRows
<1>8. \A l \in links : /\ IsLink(l) /\ l.id # id /\ l.id \in Nat /\ l.position \in Nat
                       /\ l.item \in Nat /\ SameLink(l, l)
  <2>1. \A l \in links : IsLink(l) /\ l.id <= inserted.links
    BY DEF PlacesInv, LinkRows
  <2> QED
    BY <1>3, <2>1 DEF IsLink, SameLink
<1>9. Touches(j.profile)
  <2>1. IsFiniteSet(links')
    BY <1>5, FS_AddElement DEF PlacesInv, LinkRows
  <2>2. \A k, l \in links' : k.id = l.id => k = l
    BY <1>5, <1>6, <1>8 DEF PlacesInv, LinkRows
  <2>3. \A l \in links' :
          /\ IsLink(l)
          /\ \/ \E k \in links : SameLink(k, l) /\ (l.profile # j.profile => k.position = l.position)
             \/ /\ l.profile = j.profile /\ j.profile \in 1 .. inserted'.profiles
                /\ l.id = inserted'.links /\ inserted'.links = inserted.links + 1
    BY <1>2, <1>3, <1>5, <1>6, <1>7, <1>8 DEF KnowsStoring
  <2> QED
    BY <1>3, <1>5, <1>7, <2>1, <2>2, <2>3 DEF Touches
<1>10. ASSUME j.profile \notin crossed
       PROVE  /\ \A l \in links : l.profile = j.profile => l.position < j.position
              /\ j.task = "import" => \A l \in links : l.profile = j.profile /\ l.job = j.import
                                                       => l.item < j.k
  <2>1. KnowsPlaceInOrder(j, links) /\ j.task \in {"add", "import"}
    BY <1>2, <1>10 DEF KnowsStoring
  <2> QED
    BY <1>1, <2>1 DEF KnowsPlaceInOrder
<1>11. Apart(j.profile, links', crossed', reordered')
  <2> SUFFICES ASSUME j.profile \notin crossed, NEW k \in links', NEW l \in links',
                      k # l, k.profile = j.profile, l.profile = j.profile
               PROVE  Stand(k, l, reordered')
    BY <1>5 DEF Apart
  <2>1. CASE k \in links /\ l \in links
    <3>1. Stand(k, l, reordered)
      BY <2>1, PositionsApartIs DEF PlacesInv
    <3> QED
      BY <1>5, <3>1
  <2>2. CASE k \in links /\ l = x
    <3>1. k.position < l.position /\ k.position \in Nat /\ l.position \in Nat
      BY <1>2, <1>6, <1>8, <1>10, <2>2 DEF KnowsStoring
    <3> QED
      BY <3>1 DEF Stand
  <2>3. CASE k = x /\ l \in links
    <3>1. l.position < k.position /\ l.position \in Nat /\ k.position \in Nat
      BY <1>2, <1>6, <1>8, <1>10, <2>3 DEF KnowsStoring
    <3>2. ~(k.job # 0 /\ k.job = l.job /\ k.item < l.item)
      <4>1. CASE j.task = "add"
        <5>1. k.job = 0
          BY <1>2, <1>6, <2>3, <4>1 DEF KnowsStoring
        <5> QED
          BY <5>1
      <4>2. CASE j.task # "add"
        <5>1. k.job # 0 /\ k.job = l.job => l.item < j.k
          BY <1>2, <1>6, <1>10, <2>3, <4>2 DEF KnowsStoring
        <5>2. l.item \in Nat /\ j.k \in Nat /\ k.item = j.k
          BY <1>2, <1>6, <1>8, <2>3 DEF KnowsStoring
        <5> QED
          BY <5>1, <5>2
      <4> QED
        BY <4>1, <4>2
    <3> QED
      BY <3>1, <3>2 DEF Stand
  <2> QED
    BY <1>5, <2>1, <2>2, <2>3
<1>12. PICK k : k = NextLink(j, TRUE) /\ job' = [job EXCEPT ![r] = k]
  BY <1>5 DEF GoOn
<1>13. KnowsPlace(k, links', crossed', inserted') /\ (k.pc \in Moving => k.profile = j.profile)
  <2>1. j.profile \notin crossed => KnowsPlaceInOrder(j, links)
    BY <1>2 DEF KnowsStoring
  <2>2. ASSUME j.profile \notin crossed, j.task = "import", NEW l \in links', l.profile = j.profile
        PROVE  l \in links \/ (l.position = Place(j) /\ l.item = j.k)
    BY <1>1, <1>5, <1>6, <2>1, <2>2 DEF KnowsPlaceInOrder
  <2>3. CASE j.task = "import"
    <3>1. j.profile \notin crossed =>
           /\ KnowsPlaceInOrder(j, links)
           /\ \A l \in links : l.profile = j.profile => l.position \in Nat /\ l.item \in Nat
           /\ \A l \in links' : l.profile = j.profile =>
                \/ l \in links
                \/ TRUE /\ l.position = Place(j) /\ l.item = j.k
      BY <1>8, <2>1, <2>2, <2>3
    <3> QED
      BY <1>2, <1>5, <1>7, <1>12, <3>1, NextLinkKnows
  <2>4. CASE j.task # "import"
    BY <1>12, <2>4, IdleKnows DEF NextLink
  <2> QED
    BY <2>3, <2>4
<1>14. \A q \in Requests : q # r /\ job[q].pc \in Moving =>
         /\ job[q].profile = j.profile => j.profile \in crossed'
         /\ k.pc \in Moving /\ k.profile = job[q].profile => k.profile \in crossed'
  <2>1. ASSUME NEW q \in Requests, q # r, job[q].pc \in Moving, job[q].profile = j.profile
        PROVE  j.profile \in crossed
    BY <1>1, <1>2, <2>1 DEF PlacesInv, OneMover
  <2> QED
    BY <1>5, <1>13, <2>1
<1>15. \A d \in downloads' : IsDocument(d)
  BY DEF PlacesInv, LinkRows
<1>16. PICK p : p = j.profile
  OBVIOUS
<1>17. Touches(p) /\ Apart(p, links', crossed', reordered')
  BY <1>9, <1>11, <1>16
<1>18. \A q \in Requests : q # r /\ job[q].pc \in Moving =>
         /\ job[q].profile = p => p \in crossed'
         /\ k.pc \in Moving /\ k.profile = job[q].profile => k.profile \in crossed'
  BY <1>14, <1>16
<1>19. KnowsPlace(k, links', crossed', inserted')
  BY <1>13
<1>20. job' = [job EXCEPT ![r] = k]
  BY <1>12
<1> QED
  BY <1>15, <1>17, <1>18, <1>19, <1>20, PlacesAfter

----------------------------------------------------------------------------
\* Requests that begin to move links, and those that move nothing.
LEMMA BeginsMove ==
  ASSUME PlacesInv, NEW r \in Requests, NEW k, Receive(r, k), NEW p, MoveBegins(p),
         k.profile = p, UNCHANGED <<links, reordered, inserted, downloads>>,
         KnowsPlace(k, links, crossed', inserted)
  PROVE  PlacesInv'
<1>1. crossed' = IF Movers(p) = {} THEN crossed ELSE crossed \cup {p}
  BY DEF MoveBegins
<1>2. \A q \in Requests : job[q].pc \in Moving /\ job[q].profile = p => q \in Movers(p)
  BY DEF Movers, Moving, Storing
<1>3. /\ inserted \in [profiles : Nat, links : Nat] /\ inserted.profiles <= inserted.profiles
      /\ \A d \in downloads : IsDocument(d)
  BY DEF PlacesInv, LinkRows
<1>4. \A q \in Requests : q # r /\ job[q].pc \in Moving /\ job[q].profile = k.profile
                            => k.profile \in crossed'
  BY <1>1, <1>2
<1>5. job' = [job EXCEPT ![r] = k] /\ crossed \subseteq crossed'
  BY <1>1 DEF Receive, Arrive
<1> QED
  BY <1>3, <1>4, <1>5, PlacesKept

LEMMA AddsLink ==
  ASSUME PlacesInv, NEW r \in Requests, downloads' = downloads, NEW p \in 1 .. inserted.profiles,
         AddLink(r, p)
  PROVE  PlacesInv'
<1>1. PICK item : item = [valid |-> TRUE, position |-> 0]
  OBVIOUS
<1>2. PICK plan : plan = [links |-> <<item>>, counted |-> FALSE]
  OBVIOUS
<1>3. PICK k : k = [pc |-> "count links", task |-> "add", profile |-> p, import |-> 0,
                    k |-> 1, position |-> 0, plan |-> plan]
  OBVIOUS
<1>4. Receive(r, k) /\ MoveBegins(p) /\ UNCHANGED <<links, inserted, reordered>>
  BY <1>1, <1>2, <1>3 DEF AddLink
<1>5. plan.links = <<item>> /\ plan.counted = FALSE /\ item.position = 0
  BY <1>1, <1>2
<1>6. PICK s : s = plan.links /\ Len(s) = 1 /\ s[1].position = 0
  BY <1>5
<1>7. /\ {"pc", "task", "profile", "import", "k", "position", "plan"} \subseteq DOMAIN k
      /\ k.pc = "count links" /\ k.task = "add" /\ k.profile = p /\ k.import = 0 /\ k.k = 1
      /\ k.position = 0 /\ k.plan.links = s /\ k.plan.counted = FALSE
  BY <1>3, <1>5, <1>6
<1>8. KnowsPlaceInOrder(k, links)
  BY <1>6, <1>7 DEF KnowsPlaceInOrder
<1>9. KnowsStoring(k, links, crossed', inserted)
  <2>1. 1 \in 1 .. Len(s) /\ Len(s) \in Nat
    BY <1>6
  <2>2. \A n \in 1 .. Len(s) : s[n].position \in Nat
    BY <1>6
  <2>3. k.k \in 1 .. Len(k.plan.links) /\ Len(k.plan.links) \in Nat
    BY <1>7, <2>1
  <2>4. \A n \in 1 .. Len(k.plan.links) : k.plan.links[n].position \in Nat
    BY <1>7, <2>2
  <2>5. k.position \in Nat /\ k.profile \in 1 .. inserted.profiles /\ k.task # "import"
    <3>1. inserted.profiles \in Nat
      BY DEF PlacesInv, LinkRows
    <3>2. k.profile \in 1 .. inserted.profiles
      BY <1>7, <3>1
    <3>3. k.task # "import"
      BY <1>7
    <3>4. k.position = 0
      BY <1>7
    <3>5. k.position \in Nat
      BY <3>4
    <3> QED
      BY <3>2, <3>3, <3>5
  <2> QED
    BY <1>7, <1>8, <2>3, <2>4, <2>5 DEF KnowsStoring
<1>10. KnowsPlace(k, links, crossed', inserted)
  BY <1>7, <1>9 DEF KnowsPlace, Creating, Storing, Moving
<1> QED
  BY <1>4, <1>7, <1>10, BeginsMove

LEMMA ReadsLink ==
  ASSUME PlacesInv, NEW r \in Requests, downloads' = downloads, NEW l \in links,
         DeleteLink(r, l) \/ ReadLink(r, l)
  PROVE  PlacesInv'
<1>1. PICK k : /\ Receive(r, k) /\ MoveBegins(l.profile) /\ UNCHANGED <<links, inserted, reordered>>
               /\ {"pc", "id", "profile", "position"} \subseteq DOMAIN k
               /\ k.pc \in {"delete link", "update link"}
               /\ k.id = l.id /\ k.profile = l.profile /\ k.position = l.position
  <2>1. CASE DeleteLink(r, l)
    <3>1. PICK k : k = [pc |-> "delete link", id |-> l.id, profile |-> l.profile,
                        position |-> l.position]
      OBVIOUS
    <3>2. Receive(r, k) /\ MoveBegins(l.profile) /\ UNCHANGED <<links, inserted, reordered>>
      BY <2>1, <3>1 DEF DeleteLink
    <3>3. /\ {"pc", "id", "profile", "position"} \subseteq DOMAIN k
          /\ k.pc = "delete link" /\ k.id = l.id /\ k.profile = l.profile
          /\ k.position = l.position
      BY <3>1
    <3> QED
      BY <3>2, <3>3
  <2>2. CASE ReadLink(r, l)
    <3>1. PICK k : k = [pc |-> "update link", id |-> l.id, profile |-> l.profile,
                        position |-> l.position, active |-> l.active]
      OBVIOUS
    <3>2. Receive(r, k) /\ MoveBegins(l.profile) /\ UNCHANGED <<links, inserted, reordered>>
      BY <2>2, <3>1 DEF ReadLink
    <3>3. /\ {"pc", "id", "profile", "position"} \subseteq DOMAIN k
          /\ k.pc = "update link" /\ k.id = l.id /\ k.profile = l.profile
          /\ k.position = l.position
      BY <3>1
    <3> QED
      BY <3>2, <3>3
  <2> QED
    BY <2>1, <2>2
<1>2. /\ IsLink(l) /\ l.id <= inserted.links /\ l.profile <= inserted.profiles
      /\ l.id # 0 /\ l.profile # 0 /\ inserted.links \in Nat /\ inserted.profiles \in Nat
      /\ \A m \in links : m.id = l.id => m = l
  BY DEF PlacesInv, LinkRows
<1>3. l.id \in 1 .. inserted.links /\ l.profile \in 1 .. inserted.profiles /\ l.position \in Nat
  BY <1>2 DEF IsLink
<1>4. KnowsRow(k, links, crossed', inserted)
  BY <1>1, <1>2, <1>3 DEF KnowsRow
<1>5. KnowsPlace(k, links, crossed', inserted)
  BY <1>1, <1>4 DEF KnowsPlace, Creating, Storing, Moving
<1> QED
  BY <1>1, <1>5, BeginsMove

LEMMA MovesNothing ==
  ASSUME PlacesInv, NEW r \in Requests, downloads' = downloads,
         \/ \E p \in 1 .. inserted.profiles :
              \/ DeleteProfile(r, p) \/ \E u \in Users : Duplicate(r, u, p)
              \/ \E name \in Names : UpdateProfile(r, p, Slug(name, "own", 0))
         \/ CheckNewSlug(r) \/ StoreProfile(r)
  PROVE  PlacesInv'
<1>1. UNCHANGED <<links, reordered, crossed, inserted>>
  BY DEF DeleteProfile, Duplicate, UpdateProfile, CheckNewSlug, StoreProfile, serviceVars
<1>2. ASSUME job' = [job EXCEPT ![r] = Idle] PROVE PlacesInv'
  BY <1>1, <1>2, IdleKnows, GoesOnAside
<1>3. ASSUME NEW k, job' = [job EXCEPT ![r] = k], "pc" \in DOMAIN k,
             k.pc \in {"new slug", "update profile"}
      PROVE  PlacesInv'
  <2>1. KnowsPlace(k, links, crossed, inserted) /\ k.pc \notin Moving
    BY <1>3 DEF KnowsPlace, Creating, Storing, Moving
  <2> QED
    BY <1>1, <1>3, <2>1, GoesOnAside
<1>4. ASSUME NEW p \in 1 .. inserted.profiles, DeleteProfile(r, p) PROVE PlacesInv'
  BY <1>2, <1>4 DEF DeleteProfile, Receive, Arrive
<1>5. ASSUME NEW p \in 1 .. inserted.profiles, NEW u \in Users, Duplicate(r, u, p) PROVE PlacesInv'
  <2>1. PICK row \in GetByID(p) :
          Receive(r, [pc |-> "copy", task |-> "duplicate", user |-> u, import |-> 0, tries |-> 0,
                      plan |-> [slug |-> NoSlug, name |-> row.slug.name, numbered |-> TRUE]])
    BY <1>5 DEF Duplicate
  <2>2. PICK plan : plan = [slug |-> NoSlug, name |-> row.slug.name, numbered |-> TRUE]
    OBVIOUS
  <2>3. PICK k : k = [pc |-> "copy", task |-> "duplicate", user |-> u, import |-> 0, tries |-> 0,
                      plan |-> plan]
    OBVIOUS
  <2>4. /\ {"pc", "task", "plan"} \subseteq DOMAIN k /\ k.pc = "copy" /\ k.task = "duplicate"
        /\ k.plan = plan /\ "numbered" \in DOMAIN plan
    BY <2>2, <2>3
  <2>5. KnowsPlace(k, links, crossed, inserted) /\ k.pc \notin Moving
    BY <2>4 DEF KnowsPlace, Creating, Storing, Moving
  <2>6. job' = [job EXCEPT ![r] = k]
    BY <2>1, <2>2, <2>3 DEF Receive, Arrive
  <2> QED
    BY <1>1, <2>5, <2>6, GoesOnAside
<1>6. ASSUME NEW p, NEW slug, UpdateProfile(r, p, slug) PROVE PlacesInv'
  <2>1. PICK k : k = [pc |-> "new slug", profile |-> p, slug |-> slug]
    OBVIOUS
  <2>2. job' = [job EXCEPT ![r] = k] /\ "pc" \in DOMAIN k /\ k.pc = "new slug"
    BY <1>6, <2>1 DEF UpdateProfile, Receive, Arrive
  <2> QED
    BY <1>3, <2>2
<1>7. CASE CheckNewSlug(r)
  <2>1. CASE GoOn(r, [job[r] EXCEPT !.pc = "update profile"])
    <3>1. PICK j : j = job[r] /\ KnowsPlace(j, links, crossed, inserted)
      BY DEF PlacesInv
    <3>2. PICK k : k = [j EXCEPT !.pc = "update profile"]
      OBVIOUS
    <3>3. "pc" \in DOMAIN k /\ k.pc = "update profile"
      BY <3>1, <3>2 DEF KnowsPlace
    <3> QED
      BY <1>3, <2>1, <3>1, <3>2, <3>3 DEF GoOn
  <2>2. CASE Finish(r)
    BY <1>2, <2>2 DEF Finish, GoOn
  <2> QED
    BY <1>7, <2>1, <2>2 DEF CheckNewSlug
<1>8. CASE StoreProfile(r)
  BY <1>2, <1>8 DEF StoreProfile, Finish, GoOn
<1> QED
  BY <1>4, <1>5, <1>6, <1>7, <1>8

----------------------------------------------------------------------------
\* Requests that move links.

\* The rows of the links are written anew, each in its place or, if it is of
\* profile p, in another.
LEMMA Rewritten ==
  ASSUME LinkRows, NEW p, NEW f, links' = {f[l] : l \in links}, inserted' = inserted,
         crossed \subseteq crossed', reordered \subseteq reordered',
         \A l \in links : /\ IsLink(f[l]) /\ SameLink(l, f[l])
                          /\ l.profile # p => l.position = f[l].position
  PROVE  Touches(p)
<1>1. IsFiniteSet(links')
  <2>1. PICK S : S = {f[l] : l \in links}
    OBVIOUS
  <2>2. PICK g : g = [l \in links |-> f[l]]
    OBVIOUS
  <2>3. g \in Surjection(links, S)
    BY <2>1, <2>2, Fun_IsSurj
  <2>4. IsFiniteSet(S)
    BY <2>3, FS_Surjection DEF LinkRows
  <2> QED
    BY <2>1, <2>4
<1>2. \A l \in links' : \E k \in links : l = f[k]
  OBVIOUS
<1>3. ASSUME NEW k \in links', NEW l \in links', k.id = l.id PROVE k = l
  <2>1. PICK m \in links, n \in links : k = f[m] /\ l = f[n]
    BY <1>2
  <2>2. m.id = n.id
    BY <1>3, <2>1 DEF SameLink
  <2> QED
    BY <2>1, <2>2 DEF LinkRows
<1>4. ASSUME NEW l \in links'
      PROVE  IsLink(l) /\ \E k \in links : SameLink(k, l) /\ (l.profile # p => k.position = l.position)
  <2>1. PICK k \in links : l = f[k]
    BY <1>2
  <2>2. IsLink(l) /\ SameLink(k, l) /\ (k.profile # p => k.position = l.position)
    BY <2>1
  <2> QED
    BY <2>2 DEF SameLink
<1>5. inserted \in [profiles : Nat, links : Nat]
  BY DEF LinkRows
<1> QED
  BY <1>1, <1>3, <1>4, <1>5 DEF Touches

\* Nobody else moves the links of the profile that a request is about.
LEMMA MovesAlone ==
  ASSUME PlacesInv, crossed \subseteq crossed', NEW r \in Requests, job[r].pc \in Moving,
         NEW p, p = job[r].profile, NEW k, k.pc \in Moving => k.profile = p
  PROVE  \A q \in Requests : q # r /\ job[q].pc \in Moving =>
           /\ job[q].profile = p => p \in crossed'
           /\ k.pc \in Moving /\ k.profile = job[q].profile => k.profile \in crossed'
<1>1. ASSUME NEW q \in Requests, q # r, job[q].pc \in Moving, job[q].profile = p
      PROVE  p \in crossed'
  BY <1>1 DEF PlacesInv, OneMover
<1> QED
  BY <1>1

LEMMA EndsMove ==
  ASSUME PlacesInv, NEW r \in Requests, job' = [job EXCEPT ![r] = Idle], NEW p,
         Touches(p), Apart(p, links', crossed', reordered'), downloads' = downloads,
         \/ job[r].pc \in Moving /\ job[r].profile = p
         \/ \A q \in Requests : job[q].pc \in Moving /\ job[q].profile = p => p \in crossed'
  PROVE  PlacesInv'
<1>1. PICK k : k = Idle /\ job' = [job EXCEPT ![r] = k]
  OBVIOUS
<1>2. KnowsPlace(k, links', crossed', inserted') /\ k.pc \notin Moving
  BY <1>1, IdleKnows
<1>3. \A q \in Requests : q # r /\ job[q].pc \in Moving =>
         /\ job[q].profile = p => p \in crossed'
         /\ k.pc \in Moving /\ k.profile = job[q].profile => k.profile \in crossed'
  BY <1>2, MovesAlone DEF Touches
<1>4. \A d \in downloads' : IsDocument(d)
  BY DEF PlacesInv, LinkRows
<1>5. KnowsPlace(k, links', crossed', inserted') /\ job' = [job EXCEPT ![r] = k]
  BY <1>1, <1>2
<1> QED
  BY <1>3, <1>4, <1>5, PlacesAfter

LEMMA RemovedLink ==
  ASSUME PlacesInv, NEW r \in Requests, downloads' = downloads, RemoveLink(r)
  PROVE  PlacesInv'
<1>1. PICK j : j = job[r] /\ KnowsPlace(j, links, crossed, inserted) /\ j.pc = "delete link"
  BY DEF PlacesInv, RemoveLink, At
<1>2. /\ KnowsRow(j, links, crossed, inserted) /\ "pc" \in DOMAIN j /\ j.pc \in Moving
      /\ j.pc # "shift links"
  BY <1>1 DEF KnowsPlace, Storing, Moving
<1>3. UNCHANGED <<inserted, crossed, reordered>>
  BY DEF RemoveLink
<1>4. CASE UNCHANGED links /\ Finish(r)
  <2>1. GoOn(r, Idle)
    BY <1>4 DEF Finish
  <2> QED
    BY <1>1, <1>2, <1>3, <1>4, <2>1, IdleKnows, StaysWithProfile
<1>5. CASE ~(UNCHANGED links /\ Finish(r))
  <2>1. PICK gone \in links : gone.id = j.id
    BY <1>1, <1>5 DEF RemoveLink
  <2>2. links' = links \ {gone}
    <3>1. {l \in links : l.id = j.id} = {gone}
      BY <2>1 DEF PlacesInv, LinkRows
    <3> QED
      BY <1>1, <1>5, <3>1 DEF RemoveLink
  <2>3. PICK k : k = [j EXCEPT !.pc = "shift links"] /\ job' = [job EXCEPT ![r] = k]
    BY <1>1, <1>5 DEF RemoveLink, GoOn
  <2>4. /\ DOMAIN k = DOMAIN j /\ k.pc = "shift links"
        /\ k.id = j.id /\ k.profile = j.profile /\ k.position = j.position
    BY <1>2, <2>3 DEF KnowsRow
  <2>5. PICK p : p = j.profile
    OBVIOUS
  <2>6. Touches(p)
    <3>1. IsFiniteSet(links') /\ inserted.profiles <= inserted.profiles
          /\ inserted.links <= inserted.links /\ inserted \in [profiles : Nat, links : Nat]
      BY <2>2, FS_Subset DEF PlacesInv, LinkRows
    <3>2. \A l \in links' : l \in links /\ IsLink(l) /\ SameLink(l, l)
      BY <2>2 DEF PlacesInv, LinkRows, SameLink
    <3>3. \A l, m \in links' : l.id = m.id => l = m
      BY <2>2 DEF PlacesInv, LinkRows
    <3> QED
      BY <1>3, <3>1, <3>2, <3>3 DEF Touches
  <2>7. Apart(p, links', crossed', reordered')
    <3>1. \A l, m \in links' : l # m /\ l.profile = m.profile /\ l.profile \notin crossed
                                 => Stand(l, m, reordered)
      BY <2>2, PositionsApartIs DEF PlacesInv
    <3> QED
      BY <1>3, <3>1 DEF Apart
  <2>8. ASSUME k.profile \notin crossed, NEW l \in links', l.profile = k.profile
        PROVE  l.position # k.position
    <3>1. gone.profile = j.profile /\ gone.position = j.position
      BY <1>2, <2>1, <2>4, <2>8 DEF KnowsRow
    <3>2. l \in links /\ l # gone
      BY <2>2
    <3>3. Stand(l, gone, reordered)
      BY <2>4, <2>8, <3>1, <3>2, PositionsApartIs DEF PlacesInv
    <3> QED
      BY <2>4, <3>1, <3>3 DEF Stand
  <2>9. KnowsRow(k, links', crossed', inserted')
    <3>1. \A l \in links' : l.id # k.id
      BY <2>1, <2>2, <2>4 DEF PlacesInv, LinkRows
    <3>2. {"id", "profile", "position"} \subseteq DOMAIN k
      BY <1>2, <2>4 DEF KnowsRow
    <3>3. k.id \in 1 .. inserted.links /\ k.position \in Nat /\ k.profile \in 1 .. inserted.profiles
      BY <1>2, <2>4 DEF KnowsRow
    <3> QED
      BY <1>3, <2>4, <2>8, <3>1, <3>2, <3>3 DEF KnowsRow
  <2>10. KnowsPlace(k, links', crossed', inserted')
    BY <1>2, <2>4, <2>9 DEF KnowsPlace, Creating, Storing, Moving
  <2>11. job[r].pc \in Moving /\ p = job[r].profile /\ (k.pc \in Moving => k.profile = p)
    BY <1>1, <1>2, <2>4, <2>5
  <2>12. \A q \in Requests : q # r /\ job[q].pc \in Moving =>
           /\ job[q].profile = p => p \in crossed'
           /\ k.pc \in Moving /\ k.profile = job[q].profile => k.profile \in crossed'
    BY <1>3, <2>11, MovesAlone
  <2>13. \A d \in downloads' : IsDocument(d)
    BY <1>3 DEF PlacesInv, LinkRows
  <2>14. job' = [job EXCEPT ![r] = k]
    BY <2>3
  <2> QED
    BY <2>6, <2>7, <2>10, <2>12, <2>13, <2>14, PlacesAfter
<1> QED
  BY <1>4, <1>5

\* Moving up what is behind a free position keeps positions apart and in order.
LEMMA ShiftKeepsOrder ==
  ASSUME NEW x \in Nat, NEW y \in Nat, NEW free \in Nat, x # free, y # free,
         NEW up, up = IF x > free THEN x - 1 ELSE x, NEW vp, vp = IF y > free THEN y - 1 ELSE y
  PROVE  /\ up \in Nat /\ vp \in Nat
         /\ x # y => up # vp
         /\ x < y => up < vp
  OBVIOUS

LEMMA ShiftedLinks ==
  ASSUME PlacesInv, NEW r \in Requests, downloads' = downloads, reorderAfterDelete(r)
  PROVE  PlacesInv'
<1>1. PICK j : j = job[r] /\ KnowsPlace(j, links, crossed, inserted) /\ j.pc = "shift links"
  BY DEF PlacesInv, reorderAfterDelete, At
<1>2. KnowsRow(j, links, crossed, inserted) /\ j.pc \in Moving
  BY <1>1 DEF KnowsPlace, Storing, Moving
<1>3. UNCHANGED <<inserted, crossed, reordered>> /\ GoOn(r, Idle) /\ job' = [job EXCEPT ![r] = Idle]
  BY DEF reorderAfterDelete, Finish, GoOn
<1>4. CASE UNCHANGED links
  BY <1>1, <1>2, <1>3, <1>4, IdleKnows, StaysWithProfile
<1>5. CASE ~UNCHANGED links
  <2>1. PICK f : f = [l \in links |->
                        IF l.profile = j.profile /\ l.position > j.position
                        THEN [l EXCEPT !.position = @ - 1] ELSE l]
    OBVIOUS
  <2>2. links' = {f[l] : l \in links}
    <3>1. links' = {IF l.profile = j.profile /\ l.position > j.position
                    THEN [l EXCEPT !.position = @ - 1] ELSE l : l \in links}
      BY <1>1, <1>5 DEF reorderAfterDelete
    <3> QED
      BY <2>1, <3>1
  <2>3. ASSUME NEW l \in links
        PROVE  /\ IsLink(f[l]) /\ SameLink(l, f[l])
               /\ l.profile # j.profile => l.position = f[l].position
               /\ l.profile = j.profile =>
                    f[l].position = IF l.position > j.position THEN l.position - 1 ELSE l.position
    <3>1. IsLink(l) /\ j.position \in Nat
      BY <1>2 DEF PlacesInv, LinkRows, KnowsRow
    <3>2. CASE l.profile = j.profile /\ l.position > j.position
      <4>1. f[l] = [l EXCEPT !.position = l.position - 1]
        BY <2>1, <3>2
      <4>2. /\ DOMAIN f[l] = DOMAIN l /\ f[l].position = l.position - 1 /\ f[l].id = l.id
            /\ f[l].profile = l.profile /\ f[l].item = l.item /\ f[l].job = l.job
        BY <3>1, <4>1 DEF IsLink
      <4>3. l.position - 1 \in Nat
        BY <3>1, <3>2 DEF IsLink
      <4> QED
        BY <3>1, <3>2, <4>2, <4>3 DEF IsLink, SameLink
    <3>3. CASE ~(l.profile = j.profile /\ l.position > j.position)
      <4>1. f[l] = l
        BY <2>1, <3>3
      <4> QED
        BY <3>1, <3>3, <4>1 DEF SameLink
    <3> QED
      BY <3>2, <3>3
  <2>4. PICK p : p = j.profile
    OBVIOUS
  <2>5. Touches(p)
    <3>1. \A l \in links : /\ IsLink(f[l]) /\ SameLink(l, f[l])
                           /\ l.profile # p => l.position = f[l].position
      BY <2>3, <2>4
    <3>2. LinkRows /\ crossed \subseteq crossed' /\ reordered \subseteq reordered'
      BY <1>3 DEF PlacesInv
    <3> QED
      BY <1>3, <2>2, <3>1, <3>2, Rewritten
  <2>6. Apart(p, links', crossed', reordered')
    <3> SUFFICES ASSUME p \notin crossed, NEW k \in links', NEW l \in links', k # l,
                        k.profile = p, l.profile = p
                 PROVE  Stand(k, l, reordered)
      BY <1>3 DEF Apart
    <3>1. PICK m \in links, n \in links : k = f[m] /\ l = f[n]
      BY <2>2
    <3>2. /\ m # n /\ SameLink(m, k) /\ SameLink(n, l)
          /\ k.position = IF m.position > j.position THEN m.position - 1 ELSE m.position
          /\ l.position = IF n.position > j.position THEN n.position - 1 ELSE n.position
      BY <2>3, <2>4, <3>1 DEF SameLink
    <3>3. Stand(m, n, reordered) /\ m.position # j.position /\ n.position # j.position
      BY <1>1, <1>2, <2>4, <3>2, PositionsApartIs DEF PlacesInv, SameLink, KnowsRow
    <3>4. m.position \in Nat /\ n.position \in Nat /\ j.position \in Nat
      BY <1>2 DEF PlacesInv, LinkRows, IsLink, KnowsRow
    <3>5. /\ m.position # n.position => k.position # l.position
          /\ m.position < n.position => k.position < l.position
      BY <3>2, <3>3, <3>4, ShiftKeepsOrder
    <3> QED
      BY <3>2, <3>3, <3>5 DEF Stand, SameLink
  <2> QED
    BY <1>1, <1>2, <1>3, <2>4, <2>5, <2>6, EndsMove
<1> QED
  BY <1>4, <1>5

LEMMA UpdatedLink ==
  ASSUME PlacesInv, NEW r \in Requests, downloads' = downloads, UpdateLink(r)
  PROVE  PlacesInv'
<1>1. PICK j : j = job[r] /\ KnowsPlace(j, links, crossed, inserted) /\ j.pc = "update link"
  BY DEF PlacesInv, UpdateLink, At
<1>2. KnowsRow(j, links, crossed, inserted) /\ j.pc \in Moving /\ j.pc # "shift links"
  BY <1>1 DEF KnowsPlace, Storing, Moving
<1>3. UNCHANGED <<inserted, crossed, reordered>> /\ GoOn(r, Idle) /\ job' = [job EXCEPT ![r] = Idle]
  BY DEF UpdateLink, Finish, GoOn
<1>4. CASE UNCHANGED links
  BY <1>1, <1>2, <1>3, <1>4, IdleKnows, StaysWithProfile
<1>5. CASE ~UNCHANGED links
  <2>1. PICK f : f = [l \in links |->
                        IF l.id = j.id
                        THEN [l EXCEPT !.position = j.position, !.active = j.active] ELSE l]
    OBVIOUS
  <2>2. links' = {f[l] : l \in links}
    <3>1. links' = {IF l.id = j.id
                    THEN [l EXCEPT !.position = j.position, !.active = j.active] ELSE l : l \in links}
      BY <1>1, <1>5 DEF UpdateLink
    <3> QED
      BY <2>1, <3>1
  <2>3. ASSUME NEW l \in links
        PROVE  /\ IsLink(f[l]) /\ SameLink(l, f[l])
               /\ l.profile # j.profile \/ j.profile \notin crossed => l.position = f[l].position
    <3>1. IsLink(l) /\ j.position \in Nat
      BY <1>2 DEF PlacesInv, LinkRows, KnowsRow
    <3>2. CASE l.id = j.id
      <4>1. f[l] = [l EXCEPT !.position = j.position, !.active = j.active]
        BY <2>1, <3>2
      <4>2. /\ DOMAIN f[l] = DOMAIN l /\ f[l].position = j.position /\ f[l].id = l.id
            /\ f[l].profile = l.profile /\ f[l].item = l.item /\ f[l].job = l.job
        BY <3>1, <4>1 DEF IsLink
      <4>3. l.profile = j.profile /\ (j.profile \notin crossed => l.position = j.position)
        BY <1>2, <3>2 DEF KnowsRow
      <4> QED
        BY <3>1, <4>2, <4>3 DEF IsLink, SameLink
    <3>3. CASE l.id # j.id
      <4>1. f[l] = l
        BY <2>1, <3>3
      <4> QED
        BY <3>1, <4>1 DEF SameLink
    <3> QED
      BY <3>2, <3>3
  <2>4. PICK p : p = j.profile
    OBVIOUS
  <2>5. Touches(p)
    <3>1. \A l \in links : /\ IsLink(f[l]) /\ SameLink(l, f[l])
                           /\ l.profile # p => l.position = f[l].position
      BY <2>3, <2>4
    <3>2. LinkRows /\ crossed \subseteq crossed' /\ reordered \subseteq reordered'
      BY <1>3 DEF PlacesInv
    <3> QED
      BY <1>3, <2>2, <3>1, <3>2, Rewritten
  <2>6. Apart(p, links', crossed', reordered')
    <3> SUFFICES ASSUME p \notin crossed, NEW k \in links', NEW l \in links', k # l,
                        k.profile = p, l.profile = p
                 PROVE  Stand(k, l, reordered)
      BY <1>3 DEF Apart
    <3>1. PICK m \in links, n \in links : k = f[m] /\ l = f[n]
      BY <2>2
    <3>2. /\ m # n /\ SameLink(m, k) /\ SameLink(n, l)
          /\ k.position = m.position /\ l.position = n.position
      BY <2>3, <2>4, <3>1
    <3>3. Stand(m, n, reordered)
      BY <3>2, PositionsApartIs DEF PlacesInv, SameLink
    <3> QED
      BY <3>2, <3>3 DEF Stand, SameLink
  <2> QED
    BY <1>1, <1>2, <1>3, <2>4, <2>5, <2>6, EndsMove
<1> QED
  BY <1>4, <1>5

\* No link is of profile 0, so a step that touches only that profile moves none.
LEMMA NobodyMovesNone ==
  ASSUME PlacesInv, NEW q \in Requests, job[q].pc \in Moving
  PROVE  job[q].profile # 0
<1>1. KnowsPlace(job[q], links, crossed, inserted) /\ inserted.profiles \in Nat
  BY DEF PlacesInv, LinkRows
<1>2. job[q].profile \in 1 .. inserted.profiles
  BY <1>1 DEF KnowsPlace, KnowsStoring, KnowsRow, Moving
<1> QED
  BY <1>1, <1>2

LEMMA ToggledLink ==
  ASSUME PlacesInv, NEW r \in Requests, downloads' = downloads, NEW switched \in links,
         Toggle(r, switched)
  PROVE  PlacesInv'
<1>1. UNCHANGED <<inserted, crossed, reordered>> /\ job' = [job EXCEPT ![r] = Idle]
  BY DEF Toggle, Receive, Arrive
<1>2. PICK f : f = [l \in links |-> IF l = switched THEN [l EXCEPT !.active = ~@] ELSE l]
  OBVIOUS
<1>3. links' = {f[l] : l \in links}
  BY <1>2 DEF Toggle
<1>4. ASSUME NEW l \in links
      PROVE  IsLink(f[l]) /\ SameLink(l, f[l]) /\ l.position = f[l].position
  <2>1. IsLink(l)
    BY DEF PlacesInv, LinkRows
  <2>2. CASE l = switched
    <3>1. f[l] = [l EXCEPT !.active = ~@]
      BY <1>2, <2>2
    <3>2. /\ DOMAIN f[l] = DOMAIN l /\ f[l].position = l.position /\ f[l].id = l.id
          /\ f[l].profile = l.profile /\ f[l].item = l.item /\ f[l].job = l.job
      BY <2>1, <3>1 DEF IsLink
    <3> QED
      BY <2>1, <3>2 DEF IsLink, SameLink
  <2>3. CASE l # switched
    <3>1. f[l] = l
      BY <1>2, <2>3
    <3> QED
      BY <2>1, <3>1 DEF SameLink
  <2> QED
    BY <2>2, <2>3
<1>5. LinkRows /\ crossed \subseteq crossed' /\ reordered \subseteq reordered' /\ inserted' = inserted
  BY <1>1 DEF PlacesInv
<1>6. Touches(0)
  BY <1>3, <1>4, <1>5, Rewritten
<1>7. \A l \in links' : l.profile # 0
  BY <1>3, <1>4 DEF PlacesInv, LinkRows, SameLink
<1>8. Apart(0, links', crossed', reordered')
  BY <1>7 DEF Apart
<1>9. \A q \in Requests : job[q].pc \in Moving /\ job[q].profile = 0 => 0 \in crossed'
  BY NobodyMovesNone
<1> QED
  BY <1>1, <1>6, <1>8, <1>9, EndsMove

LEMMA ReorderedLinks ==
  ASSUME PlacesInv, NEW r \in Requests, downloads' = downloads, NEW p \in 1 .. inserted.profiles,
         NEW order \in Orders(p), Reorder(r, p, order)
  PROVE  PlacesInv'
<1>1. PICK listed : listed = {order[i] : i \in DOMAIN order}
  OBVIOUS
<1>2. PICK f : f = [l \in links |->
                      IF l.profile = p /\ l.id \in listed
                      THEN [l EXCEPT !.position = CHOOSE i \in DOMAIN order : order[i] = l.id]
                      ELSE l]
  OBVIOUS
<1>3. /\ links' = {IF l.profile = p /\ l.id \in listed
                   THEN [l EXCEPT !.position = CHOOSE i \in DOMAIN order : order[i] = l.id]
                   ELSE l : l \in links}
      /\ inserted' = inserted /\ job' = [job EXCEPT ![r] = Idle]
      /\ crossed' = IF Movers(p) = {} /\ {l.id : l \in LinksOf(p)} = listed
                    THEN crossed ELSE crossed \cup {p}
      /\ reordered' = reordered \cup {p}
  BY <1>1 DEF Reorder, Receive, Arrive
<1>4. links' = {f[l] : l \in links}
  BY <1>2, <1>3
<1>5. DOMAIN order \subseteq Nat
  <2>1. PICK ids : ids = {l.id : l \in LinksOf(p)}
    OBVIOUS
  <2>2. PICK n : order \in {s \in [1 .. n -> ids] : \A i, j \in 1 .. n : i # j => s[i] # s[j]}
    BY <2>1 DEF Orders
  <2>3. DOMAIN order = 1 .. n
    BY <2>2
  <2>4. 1 .. n \subseteq Nat
    OBVIOUS
  <2> QED
    BY <2>3, <2>4
<1>6. ASSUME NEW l \in links
      PROVE  /\ IsLink(f[l]) /\ SameLink(l, f[l]) /\ (l.profile # p => l.position = f[l].position)
             /\ l.profile = p /\ l.id \in listed =>
                  f[l].position \in DOMAIN order /\ order[f[l].position] = l.id
  <2>1. IsLink(l)
    BY DEF PlacesInv, LinkRows
  <2>2. CASE l.profile = p /\ l.id \in listed
    <3>1. PICK i : i = (CHOOSE m \in DOMAIN order : order[m] = l.id)
      OBVIOUS
    <3>2. i \in DOMAIN order /\ order[i] = l.id
      BY <1>1, <2>2, <3>1
    <3>3. f[l] = [l EXCEPT !.position = i]
      BY <1>2, <2>2, <3>1
    <3>4. /\ DOMAIN f[l] = DOMAIN l /\ f[l].position = i /\ f[l].id = l.id
          /\ f[l].profile = l.profile /\ f[l].item = l.item /\ f[l].job = l.job
      BY <2>1, <3>3 DEF IsLink
    <3> QED
      BY <1>5, <2>1, <2>2, <3>2, <3>4 DEF IsLink, SameLink
  <2>3. CASE ~(l.profile = p /\ l.id \in listed)
    <3>1. f[l] = l
      BY <1>2, <2>3
    <3> QED
      BY <2>1, <2>3, <3>1 DEF SameLink
  <2> QED
    BY <2>2, <2>3
<1>7. LinkRows /\ crossed \subseteq crossed' /\ reordered \subseteq reordered' /\ inserted' = inserted
  BY <1>3 DEF PlacesInv
<1>8. Touches(p)
  <2>1. \A l \in links : /\ IsLink(f[l]) /\ SameLink(l, f[l])
                         /\ l.profile # p => l.position = f[l].position
    BY <1>6
  <2> QED
    BY <1>4, <1>7, <2>1, Rewritten
<1>9. Apart(p, links', crossed', reordered')
  <2> SUFFICES ASSUME p \notin crossed', NEW k \in links', NEW l \in links', k # l,
                      k.profile = p, l.profile = p
               PROVE  Stand(k, l, reordered')
    BY DEF Apart
  <2>1. PICK m \in links, n \in links : k = f[m] /\ l = f[n]
    BY <1>4
  <2>2. m # n /\ SameLink(m, k) /\ SameLink(n, l)
    BY <1>6, <2>1
  <2>3. {x.id : x \in LinksOf(p)} = listed
    BY <1>3
  <2>4. m.id \in listed /\ n.id \in listed /\ m.profile = p /\ n.profile = p
    BY <2>2, <2>3 DEF LinksOf, SameLink
  <2>5. order[k.position] = m.id /\ order[l.position] = n.id
    BY <1>6, <2>1, <2>4
  <2>6. m.id # n.id
    BY <2>2 DEF PlacesInv, LinkRows
  <2>7. k.position # l.position /\ k.profile \in reordered'
    BY <1>3, <2>5, <2>6
  <2> QED
    BY <2>7 DEF Stand
<1>10. \A q \in Requests : job[q].pc \in Moving /\ job[q].profile = p => p \in crossed'
  <2>1. \A q \in Requests : job[q].pc \in Moving /\ job[q].profile = p => q \in Movers(p)
    BY DEF Movers, Moving, Storing
  <2> QED
    BY <1>3, <2>1
<1> QED
  BY <1>3, <1>8, <1>9, <1>10, EndsMove

----------------------------------------------------------------------------
LEMMA ServicesKeepPlaces ==
  ASSUME PlacesInv, NEW r \in Requests, ServiceStep(r), downloads' = downloads
  PROVE  PlacesInv'
<1>1. CASE \/ CountByUserID(r) \/ generateSlug(r) \/ CheckSlug(r) \/ InsertProfileFails(r)
           \/ generateUniqueSlug(r)
  BY <1>1, CreatingKeepsPlaces
<1>2. CASE InsertProfile(r)
  BY <1>2, CreatedProfile
<1>3. CASE CountByProfileID(r) \/ getNextPosition(r)
  <2>1. CASE LinkRefused(r)
    <3>1. job[r].pc \in Storing
      BY <1>3 DEF CountByProfileID, getNextPosition, At, Storing
    <3> QED
      BY <2>1, <3>1, RefusedLink
  <2>2. CASE ~LinkRefused(r)
    <3>1. serviceVars' = serviceVars
      BY <1>3, <2>2 DEF CountByProfileID, getNextPosition
    <3> QED
      BY <1>3, <2>2, <3>1, ChecksLink
  <2> QED
    BY <2>1, <2>2
<1>4. CASE InsertLink(r)
  <2>1. CASE LinkRefused(r)
    <3>1. job[r].pc \in Storing
      BY <1>4 DEF InsertLink, At, Storing
    <3> QED
      BY <2>1, <3>1, RefusedLink
  <2>2. CASE ~LinkRefused(r)
    BY <1>4, <2>2, InsertedLink
  <2> QED
    BY <2>1, <2>2
<1>5. CASE RemoveLink(r)
  BY <1>5, RemovedLink
<1>6. CASE reorderAfterDelete(r)
  BY <1>6, ShiftedLinks
<1>7. CASE UpdateLink(r)
  BY <1>7, UpdatedLink
<1>8. CASE \/ \E p \in 1 .. inserted.profiles :
                \/ DeleteProfile(r, p) \/ \E u \in Users : Duplicate(r, u, p)
                \/ \E name \in Names : UpdateProfile(r, p, Slug(name, "own", 0))
           \/ CheckNewSlug(r) \/ StoreProfile(r)
  BY <1>8, MovesNothing
<1>9. ASSUME NEW p \in 1 .. inserted.profiles, AddLink(r, p) PROVE PlacesInv'
  BY <1>9, AddsLink
<1>10. ASSUME NEW p \in 1 .. inserted.profiles, NEW order \in Orders(p), Reorder(r, p, order)
       PROVE  PlacesInv'
  BY <1>10, ReorderedLinks
<1>11. ASSUME NEW l \in links, DeleteLink(r, l) \/ Toggle(r, l) \/ ReadLink(r, l) PROVE PlacesInv'
  BY <1>11, ReadsLink, ToggledLink
<1> QED
  BY <1>1, <1>2, <1>3, <1>4, <1>5, <1>6, <1>7, <1>8, <1>9, <1>10, <1>11 DEF ServiceStep

----------------------------------------------------------------------------
\* The steps of imports and exports move no link.
LEMMA UploadsFile ==
  ASSUME PlacesInv, NEW r \in Requests, NEW u, NEW d \in Documents \cup downloads,
         createImportJob(r, u, d)
  PROVE  PlacesInv'
<1>1. IsDocument(d)
  BY TransferAssumption DEF PlacesInv, LinkRows, IsDocument
<1>2. PICK n : n = Len(jobs) + 1
  OBVIOUS
<1>3. PICK k : k = [pc |-> "pending", user |-> u, file |-> d, import |-> n]
  OBVIOUS
<1>4. "pc" \in DOMAIN k /\ k.pc = "pending" /\ k.file = d
  BY <1>3
<1>5. KnowsPlace(k, links, crossed, inserted) /\ k.pc \notin Moving
  BY <1>1, <1>4 DEF KnowsPlace, Creating, Storing, Moving
<1>6. /\ job' = [job EXCEPT ![r] = k]
      /\ UNCHANGED <<links, reordered, crossed, inserted, downloads>>
  BY <1>2, <1>3 DEF createImportJob, Receive, Arrive, serviceVars
<1> QED
  BY <1>5, <1>6, GoesOnAside

LEMMA StartsImport ==
  ASSUME PlacesInv, NEW r \in Requests, StartProcessing(r)
  PROVE  PlacesInv'
<1>1. PICK j : j = job[r] /\ KnowsPlace(j, links, crossed, inserted) /\ j.pc = "pending"
  BY DEF PlacesInv, StartProcessing, At
<1>2. IsPlan(PlanOf(j.file))
  BY <1>1, PlansNumber DEF KnowsPlace
<1>3. PICK plan : plan = PlanOf(j.file)
  OBVIOUS
<1>4. PICK create : create = [pc |-> "count profiles", task |-> "import", import |-> j.import,
                              user |-> j.user, tries |-> 0, plan |-> plan]
  OBVIOUS
<1>5. UNCHANGED <<links, reordered, crossed, inserted, downloads>>
  BY DEF StartProcessing, serviceVars
<1>6. CASE GoOn(r, create)
  <2>1. /\ {"pc", "task", "plan"} \subseteq DOMAIN create /\ create.pc = "count profiles"
        /\ create.plan = plan
    BY <1>4
  <2>2. "numbered" \in DOMAIN plan /\ IsPlan(plan)
    BY <1>2, <1>3 DEF IsPlan
  <2>3. KnowsPlace(create, links, crossed, inserted) /\ create.pc \notin Moving
    BY <2>1, <2>2 DEF KnowsPlace, Creating, Storing, Moving
  <2> QED
    BY <1>5, <1>6, <2>3, GoesOnAside DEF GoOn
<1>7. ASSUME NEW k, GoOn(r, AfterRefusal(k)) PROVE PlacesInv'
  BY <1>5, <1>7, RefusalKnows, GoesOnAside DEF GoOn
<1>8. CASE Finish(r)
  BY <1>5, <1>8, IdleKnows, GoesOnAside DEF Finish, GoOn
<1>9. \/ GoOn(r, create) \/ Finish(r)
      \/ GoOn(r, AfterRefusal([task |-> "import", import |-> j.import]))
  BY <1>1, <1>3, <1>4 DEF StartProcessing
<1> QED
  BY <1>6, <1>7, <1>8, <1>9

LEMMA ReadsLinks ==
  ASSUME PlacesInv, NEW r \in Requests, ExportLinks(r)
  PROVE  PlacesInv'
<1>1. PICK j : j = job[r]
  OBVIOUS
<1>2. PICK rows : rows = LinksOf(j.profile) /\ IsFiniteSet(rows)
  BY FS_Subset DEF PlacesInv, LinkRows, LinksOf
<1>3. /\ job' = [job EXCEPT ![r] = Idle] /\ UNCHANGED <<links, reordered, crossed, inserted>>
  BY DEF ExportLinks, Finish, GoOn, serviceVars
<1>4. downloads' \subseteq downloads \cup {File(j, "json", rows, TRUE), File(j, "csv", rows, FALSE)}
  BY <1>1, <1>2 DEF ExportLinks, GetByProfileID, exportToJSON, exportToCSV, exportToHTML
<1>5. \A d \in downloads' : IsDocument(d)
  <2>1. IsDocument(File(j, "json", rows, TRUE)) /\ IsDocument(File(j, "csv", rows, FALSE))
    BY <1>2, FilesAreDocuments
  <2> QED
    BY <1>4, <2>1 DEF PlacesInv, LinkRows
<1>6. /\ inserted' \in [profiles : Nat, links : Nat] /\ inserted'.links = inserted.links
      /\ inserted.profiles <= inserted'.profiles /\ crossed \subseteq crossed'
  BY <1>3 DEF PlacesInv, LinkRows
<1>7. PICK k : /\ k = Idle /\ KnowsPlace(k, links, crossed', inserted') /\ k.pc \notin Moving
  BY IdleKnows
<1>8. UNCHANGED <<links, reordered>> /\ job' = [job EXCEPT ![r] = k]
  BY <1>3, <1>7
<1> QED
  BY <1>5, <1>6, <1>7, <1>8, PlacesKept

LEMMA PlacesUnmoved ==
  ASSUME PlacesInv, UNCHANGED <<links, reordered, crossed, inserted, downloads, job>>
  PROVE  PlacesInv'
<1>1. LinkRows'
  BY DEF PlacesInv, LinkRows
<1>2. \A r \in Requests : KnowsPlace(job'[r], links', crossed', inserted')
  BY DEF PlacesInv
<1>3. OneMover' /\ PositionsApart'
  BY DEF PlacesInv, OneMover, PositionsApart
<1> QED
  BY <1>1, <1>2, <1>3 DEF PlacesInv

LEMMA TransfersKeepPlaces ==
  ASSUME PlacesInv, NEW r \in Requests, TransferStep(r)
  PROVE  PlacesInv'
<1>1. ASSUME NEW u, NEW d \in Documents \cup downloads, createImportJob(r, u, d) PROVE PlacesInv'
  BY <1>1, UploadsFile
<1>2. CASE TurnedAway(r) \/ MarkFailed(r) \/ MarkCompleted(r)
  <2>1. /\ job' = [job EXCEPT ![r] = Idle]
        /\ UNCHANGED <<links, reordered, crossed, inserted, downloads>>
    BY <1>2 DEF TurnedAway, MarkFailed, MarkCompleted, Arrive, Finish, GoOn, serviceVars, importVars
  <2> QED
    BY <2>1, IdleKnows, GoesOnAside
<1>3. CASE StartProcessing(r)
  BY <1>3, StartsImport
<1>4. CASE ReadImportJob(r)
  BY <1>4, PlacesUnmoved DEF ReadImportJob, transferVars, serviceVars, importVars
<1>5. ASSUME NEW u, NEW p, NEW format, HandleExport(r, u, p, format) PROVE PlacesInv'
  <2>1. PICK row : Receive(r, [pc |-> "export", profile |-> p, slug |-> row.slug, format |-> format])
    BY <1>5 DEF HandleExport
  <2>2. PICK k : k = [pc |-> "export", profile |-> p, slug |-> row.slug, format |-> format]
    OBVIOUS
  <2>3. "pc" \in DOMAIN k /\ k.pc = "export"
    BY <2>2
  <2>4. KnowsPlace(k, links, crossed, inserted) /\ k.pc \notin Moving
    BY <2>3 DEF KnowsPlace, Creating, Storing, Moving
  <2>5. /\ job' = [job EXCEPT ![r] = k]
        /\ UNCHANGED <<links, reordered, crossed, inserted, downloads>>
    BY <1>5, <2>1, <2>2 DEF HandleExport, Receive, Arrive, serviceVars, importVars
  <2> QED
    BY <2>4, <2>5, GoesOnAside
<1>6. CASE ExportLinks(r)
  BY <1>6, ReadsLinks
<1> QED
  BY <1>1, <1>2, <1>3, <1>4, <1>5, <1>6 DEF TransferStep

LEMMA PlacesHoldAtFirst ==
  ASSUME TransferInit
  PROVE  PlacesInv
<1>1. /\ job = [r \in Requests |-> Idle] /\ downloads = {} /\ crossed = {} /\ reordered = {}
  BY DEF TransferInit, ServingInit, ServicesInit
<1>2. PICK k \in {0, 2} :
        /\ links = {[id |-> i, profile |-> 1, position |-> i, active |-> TRUE,
                     item |-> 0, job |-> 0] : i \in 1 .. k}
        /\ inserted = [profiles |-> 1, links |-> k]
  BY DEF TransferInit, ServicesInit
<1>3. k \in Nat /\ inserted.links = k /\ inserted.profiles = 1
      /\ inserted \in [profiles : Nat, links : Nat]
  BY <1>2
<1>4. PICK f : f = [i \in 1 .. k |-> [id |-> i, profile |-> 1, position |-> i, active |-> TRUE,
                                      item |-> 0, job |-> 0]]
  OBVIOUS
<1>5. links = {f[i] : i \in 1 .. k}
  BY <1>2, <1>4
<1>6. ASSUME NEW i \in 1 .. k
      PROVE  /\ {"id", "profile", "position", "active", "item", "job"} \subseteq DOMAIN f[i]
             /\ f[i].id = i /\ f[i].profile = 1 /\ f[i].position = i /\ f[i].item = 0 /\ f[i].job = 0
  <2>1. f[i] = [id |-> i, profile |-> 1, position |-> i, active |-> TRUE, item |-> 0, job |-> 0]
    BY <1>4
  <2> QED
    BY <2>1
<1>7. IsFiniteSet(links)
  <2>1. IsFiniteSet(1 .. k)
    BY <1>3, FS_Interval
  <2>2. DOMAIN f = 1 .. k
    BY <1>4
  <2>3. PICK S : S = {f[i] : i \in 1 .. k}
    OBVIOUS
  <2>4. f \in Surjection(1 .. k, S)
    BY <1>4, <2>3, Fun_IsSurj
  <2> QED
    BY <1>5, <2>1, <2>3, <2>4, FS_Surjection
<1>8. ASSUME NEW l \in links
      PROVE  \E i \in 1 .. k : /\ l.id = i /\ l.position = i /\ l.profile = 1 /\ l.job = 0
                               /\ IsLink(l) /\ i <= k /\ i # 0 /\ l = f[i]
  <2>1. PICK i \in 1 .. k : l = f[i]
    BY <1>5
  <2>2. i \in Nat /\ i <= k /\ i # 0
    BY <1>3
  <2> QED
    BY <1>6, <2>1, <2>2 DEF IsLink
<1>9. LinkRows
  <2>1. \A l \in links : IsLink(l) /\ l.id <= inserted.links /\ l.profile <= inserted.profiles
                         /\ l.id # 0 /\ l.profile # 0
    BY <1>3, <1>8
  <2>2. \A m, l \in links : m.id = l.id => m = l
    BY <1>8
  <2>3. job = [r \in Requests |-> job[r]]
    BY <1>1
  <2> QED
    BY <1>1, <1>3, <1>7, <2>1, <2>2, <2>3 DEF LinkRows
<1>10. \A r \in Requests : KnowsPlace(job[r], links, crossed, inserted) /\ job[r].pc \notin Moving
  BY <1>1, IdleKnows
<1>11. PositionsApart
  BY <1>8 DEF PositionsApart
<1> QED
  BY <1>9, <1>10, <1>11 DEF PlacesInv, OneMover

LEMMA PlacesKeptByAll ==
  ASSUME PlacesInv, [TransferNext]_transferVars
  PROVE  PlacesInv'
<1>1. ASSUME NEW r \in Requests, TransferStep(r) PROVE PlacesInv'
  BY <1>1, TransfersKeepPlaces
<1>2. ASSUME NEW r \in Requests, ServiceStep(r), downloads' = downloads PROVE PlacesInv'
  BY <1>2, ServicesKeepPlaces
<1>3. CASE Tick /\ UNCHANGED <<serviceVars, importVars>>
  BY <1>3, PlacesUnmoved DEF Tick, serviceVars, importVars
<1>4. CASE Die /\ UNCHANGED <<serviceVars, importVars>>
  <2>1. /\ job' = [r \in Requests |-> Idle]
        /\ UNCHANGED <<links, reordered, crossed, inserted, downloads>>
    BY <1>4 DEF Die, serviceVars, importVars
  <2>2. \A r \in Requests : /\ KnowsPlace(job'[r], links, crossed, inserted)
                            /\ job'[r].pc \notin Moving
    BY <2>1, IdleKnows
  <2>3. job' = [r \in Requests |-> job'[r]]
    BY <2>1
  <2>4. LinkRows'
    BY <2>1, <2>3 DEF PlacesInv, LinkRows
  <2>5. PositionsApart'
    BY <2>1 DEF PlacesInv, PositionsApart
  <2> QED
    BY <2>1, <2>2, <2>4, <2>5 DEF PlacesInv, OneMover
<1>5. CASE UNCHANGED transferVars
  BY <1>5, PlacesUnmoved DEF transferVars, serviceVars, importVars
<1> QED
  BY <1>1, <1>2, <1>3, <1>4, <1>5 DEF TransferNext

\* However imports, additions, deletions and reorders interleave and whatever
\* statements are lost, two links of a profile never share a position, and those
\* of an import stand in the order of the file, unless two requests moved the
\* links at once or a caller chose the positions.
THEOREM PositionsStayApart == TransferSpec => []PositionsApart
<1>1. TransferInit => PlacesInv
  BY PlacesHoldAtFirst
<1>2. PlacesInv /\ [TransferNext]_transferVars => PlacesInv'
  BY PlacesKeptByAll
<1>3. PlacesInv => PositionsApart
  BY DEF PlacesInv
<1> QED
  BY <1>1, <1>2, <1>3, PTL DEF TransferSpec

----------------------------------------------------------------------------
(***************************************************************************)
(* The profile quota of each user.                                         *)
(***************************************************************************)

\* The statements of a request that may still insert a profile, and of those
\* the ones after the limit was read.
Creators == Creating \cup {"copy", "pending"}
PastLimit == {"name", "slug", "insert profile"}

KnowsCreator(j) ==
  /\ "pc" \in DOMAIN j
  /\ j.pc \in Creators => "user" \in DOMAIN j /\ j.user \in Users

InsertersToBe == {r \in Requests : job[r].pc \in Creators}

ProfileRows ==
  /\ inserted \in [profiles : Nat, links : Nat]
  /\ IsFiniteSet(profiles)
  /\ \A p \in profiles : {"id", "owner"} \subseteq DOMAIN p /\ p.id \in 1 .. inserted.profiles
  /\ \A p, q \in profiles : p.id = q.id => p = q
  /\ blind = [u \in Users |-> blind[u]]

\* Every profile but the first takes a request of its own.
QuotaInv ==
  /\ ProfileRows
  /\ job = [r \in Requests |-> job[r]]
  /\ \A r \in Requests : KnowsCreator(job[r])
  /\ served \in Nat /\ served <= MaxServed
  /\ inserted.profiles + Cardinality(InsertersToBe) <= served + 1

RowIds(u) == {p.id : p \in ProfilesOf(u)}

MayCreate(u) == {r \in Requests : job[r].pc \in PastLimit /\ job[r].user = u}

QuotaStep(u) == [ProfileQuota(u)!Next]_(ProfileQuota(u)!vars)

----------------------------------------------------------------------------
\* The steps of the abstract quota in terms of the services.
LEMMA QuotaStays ==
  ASSUME NEW u \in Users, RowIds(u)' = RowIds(u), MayCreate(u)' = MayCreate(u), blind'[u] = blind[u]
  PROVE  QuotaStep(u)
  BY DEF QuotaStep, ProfileQuota!vars, RowIds, MayCreate, PastLimit

LEMMA QuotaChecks ==
  ASSUME NEW u \in Users, NEW r \in Requests, r \notin MayCreate(u),
         Cardinality(RowIds(u)) < MaxProfiles, MayCreate(u)' = MayCreate(u) \cup {r},
         RowIds(u)' = RowIds(u), blind'[u] = blind[u]
  PROVE  QuotaStep(u)
<1>1. ProfileQuota(u)!Cardinality(RowIds(u)) = Cardinality(RowIds(u))
  BY DEF Cardinality, IsFiniteSet, ProfileQuota!Cardinality, ProfileQuota!IsFiniteSet
<1>2. ProfileQuota(u)!HasRoom
  BY <1>1 DEF ProfileQuota!HasRoom, RowIds
<1>3. ProfileQuota(u)!Check(r)
  BY <1>2 DEF ProfileQuota!Check, RowIds, MayCreate, PastLimit
<1> QED
  BY <1>3 DEF QuotaStep, ProfileQuota!Next

LEMMA QuotaChecksBlindly ==
  ASSUME NEW u \in Users, NEW r \in Requests, r \notin MayCreate(u),
         MayCreate(u)' = MayCreate(u) \cup {r}, RowIds(u)' = RowIds(u), blind'[u] = blind[u] + 1
  PROVE  QuotaStep(u)
<1>1. ProfileQuota(u)!BlindCheck(r)
  BY DEF ProfileQuota!BlindCheck, RowIds, MayCreate, PastLimit
<1> QED
  BY <1>1 DEF QuotaStep, ProfileQuota!Next

LEMMA QuotaInserts ==
  ASSUME NEW u \in Users, NEW r \in MayCreate(u), NEW x \in 1 .. (MaxServed + 1), x \notin RowIds(u),
         RowIds(u)' = RowIds(u) \cup {x}, MayCreate(u)' = MayCreate(u) \ {r}, blind'[u] = blind[u]
  PROVE  QuotaStep(u)
<1>1. ProfileQuota(u)!Insert(r, x) /\ r \in Requests
  BY DEF ProfileQuota!Insert, RowIds, MayCreate, PastLimit
<1> QED
  BY <1>1 DEF QuotaStep, ProfileQuota!Next

LEMMA QuotaAbandons ==
  ASSUME NEW u \in Users, NEW R \in SUBSET Requests, MayCreate(u)' = MayCreate(u) \ R,
         RowIds(u)' = RowIds(u), blind'[u] = blind[u]
  PROVE  QuotaStep(u)
<1>1. ProfileQuota(u)!Abandon(R)
  BY DEF ProfileQuota!Abandon, RowIds, MayCreate, PastLimit
<1> QED
  BY <1>1 DEF QuotaStep, ProfileQuota!Next

LEMMA QuotaRemoves ==
  ASSUME NEW u \in Users, NEW X \in SUBSET (1 .. (MaxServed + 1)), RowIds(u)' = RowIds(u) \ X,
         MayCreate(u)' = MayCreate(u), blind'[u] = blind[u]
  PROVE  QuotaStep(u)
<1>1. ProfileQuota(u)!Remove(X)
  BY DEF ProfileQuota!Remove, RowIds, MayCreate, PastLimit
<1> QED
  BY <1>1 DEF QuotaStep, ProfileQuota!Next

----------------------------------------------------------------------------
LEMMA InsertersCount ==
  ASSUME QuotaInv, NEW r \in Requests, NEW k, job' = [job EXCEPT ![r] = k]
  PROVE  /\ Cardinality(InsertersToBe) \in Nat /\ Cardinality(InsertersToBe') \in Nat
         /\ Cardinality(InsertersToBe') <= Cardinality(InsertersToBe) + 1
         /\ (k.pc \in Creators => job[r].pc \in Creators) =>
              Cardinality(InsertersToBe') <= Cardinality(InsertersToBe)
         /\ k.pc \notin Creators /\ job[r].pc \in Creators =>
              Cardinality(InsertersToBe') = Cardinality(InsertersToBe) - 1
<1>1. \A q \in Requests : job'[q] = IF q = r THEN k ELSE job[q]
  BY DEF QuotaInv
<1>2. IsFiniteSet(InsertersToBe) /\ Cardinality(InsertersToBe) \in Nat
  BY ServingAssumption, FS_Subset, FS_CardinalityType DEF InsertersToBe
<1>3. CASE k.pc \in Creators
  <2>1. InsertersToBe' = InsertersToBe \cup {r}
    BY <1>1, <1>3 DEF InsertersToBe
  <2>2. Cardinality(InsertersToBe') = IF r \in InsertersToBe THEN Cardinality(InsertersToBe)
                                                             ELSE Cardinality(InsertersToBe) + 1
    BY <1>2, <2>1, FS_AddElement
  <2>3. job[r].pc \in Creators => r \in InsertersToBe
    BY DEF InsertersToBe
  <2> QED
    BY <1>2, <1>3, <2>2, <2>3
<1>4. CASE k.pc \notin Creators
  <2>1. InsertersToBe' = InsertersToBe \ {r}
    BY <1>1, <1>4 DEF InsertersToBe
  <2>2. Cardinality(InsertersToBe') = IF r \in InsertersToBe THEN Cardinality(InsertersToBe) - 1
                                                             ELSE Cardinality(InsertersToBe)
    BY <1>2, <2>1, FS_RemoveElement
  <2>3. job[r].pc \in Creators => r \in InsertersToBe
    BY DEF InsertersToBe
  <2>4. r \in InsertersToBe => Cardinality(InsertersToBe) # 0
    BY <1>2, FS_EmptySet
  <2> QED
    BY <1>2, <1>4, <2>2, <2>3, <2>4
<1> QED
  BY <1>3, <1>4

LEMMA QuotaInvAfter ==
  ASSUME QuotaInv, NEW r \in Requests, NEW k, KnowsCreator(k), ProfileRows',
         \/ Arrive(r, k) /\ inserted'.profiles = inserted.profiles
         \/ /\ GoOn(r, k) /\ inserted'.profiles = inserted.profiles
            /\ k.pc \in Creators => job[r].pc \in Creators
         \/ /\ GoOn(r, k) /\ inserted'.profiles = inserted.profiles + 1
            /\ k.pc \notin Creators /\ job[r].pc \in Creators
  PROVE  QuotaInv'
<1>1. job' = [job EXCEPT ![r] = k]
  BY DEF Arrive, GoOn
<1>2. \A q \in Requests : job'[q] = IF q = r THEN k ELSE job[q]
  BY <1>1 DEF QuotaInv
<1>3. job' = [q \in Requests |-> job'[q]]
  BY <1>1 DEF QuotaInv
<1>4. \A q \in Requests : KnowsCreator(job'[q])
  BY <1>2 DEF QuotaInv
<1>5. served' \in Nat /\ served' <= MaxServed
  BY ServingAssumption DEF QuotaInv, Arrive, GoOn
<1>6. inserted'.profiles + Cardinality(InsertersToBe') <= served' + 1
  <2>1. PICK m \in Nat, n \in Nat : m = Cardinality(InsertersToBe) /\ n = Cardinality(InsertersToBe')
    BY <1>1, InsertersCount
  <2>2. /\ n <= m + 1
        /\ (k.pc \in Creators => job[r].pc \in Creators) => n <= m
        /\ k.pc \notin Creators /\ job[r].pc \in Creators => n = m - 1
    BY <1>1, <2>1, InsertersCount
  <2>3. PICK i \in Nat : i = inserted.profiles /\ i + m <= served + 1 /\ served \in Nat
    BY <2>1 DEF QuotaInv, ProfileRows
  <2>4. CASE Arrive(r, k) /\ inserted'.profiles = inserted.profiles
    BY <2>1, <2>2, <2>3, <2>4 DEF Arrive
  <2>5. CASE /\ GoOn(r, k) /\ inserted'.profiles = inserted.profiles
             /\ k.pc \in Creators => job[r].pc \in Creators
    BY <2>1, <2>2, <2>3, <2>5 DEF GoOn
  <2>6. CASE /\ GoOn(r, k) /\ inserted'.profiles = inserted.profiles + 1
             /\ k.pc \notin Creators /\ job[r].pc \in Creators
    BY <2>1, <2>2, <2>3, <2>6 DEF GoOn
  <2> QED
    BY <2>4, <2>5, <2>6
<1> QED
  BY <1>3, <1>4, <1>5, <1>6 DEF QuotaInv

LEMMA MayCreateAfter ==
  ASSUME QuotaInv, NEW r \in Requests, NEW k, Arrive(r, k) \/ GoOn(r, k), NEW u
  PROVE  MayCreate(u)' = IF k.pc \in PastLimit /\ k.user = u THEN MayCreate(u) \cup {r}
                                                             ELSE MayCreate(u) \ {r}
<1>1. \A q \in Requests : job'[q] = IF q = r THEN k ELSE job[q]
  BY DEF QuotaInv, Arrive, GoOn
<1> QED
  BY <1>1 DEF MayCreate

LEMMA RowsUnchanged ==
  ASSUME ProfileRows, profiles' = profiles, blind' = blind,
         inserted' \in [profiles : Nat, links : Nat], inserted'.profiles = inserted.profiles
  PROVE  ProfileRows' /\ \A u : RowIds(u)' = RowIds(u) /\ blind'[u] = blind[u]
  BY DEF ProfileRows, RowIds, ProfilesOf

\* The time, and who reads only.
LEMMA QuotaUnmoved ==
  ASSUME QuotaInv, job' = job, served' = served, profiles' = profiles, blind' = blind,
         inserted' = inserted
  PROVE  QuotaInv' /\ \A u \in Users : QuotaStep(u)
<1>1. ProfileRows' /\ \A u : RowIds(u)' = RowIds(u) /\ blind'[u] = blind[u]
  BY RowsUnchanged DEF QuotaInv, ProfileRows
<1>2. InsertersToBe' = InsertersToBe
  BY DEF InsertersToBe
<1>3. QuotaInv'
  BY <1>1, <1>2 DEF QuotaInv
<1>4. ASSUME NEW u \in Users PROVE QuotaStep(u)
  <2>1. MayCreate(u)' = MayCreate(u)
    BY DEF MayCreate
  <2> QED
    BY <1>1, <2>1, QuotaStays
<1> QED
  BY <1>3, <1>4

\* A step that is not about creations.
LEMMA QuotaAside ==
  ASSUME QuotaInv, NEW r \in Requests, NEW k, KnowsCreator(k),
         Arrive(r, k) \/ (GoOn(r, k) /\ (k.pc \in Creators => job[r].pc \in Creators)),
         k.pc \notin PastLimit, job[r].pc \notin PastLimit, profiles' = profiles, blind' = blind,
         inserted' \in [profiles : Nat, links : Nat], inserted'.profiles = inserted.profiles
  PROVE  QuotaInv' /\ \A u \in Users : QuotaStep(u)
<1>1. ProfileRows' /\ \A u : RowIds(u)' = RowIds(u) /\ blind'[u] = blind[u]
  BY RowsUnchanged DEF QuotaInv
<1>2. QuotaInv'
  BY <1>1, QuotaInvAfter
<1>3. ASSUME NEW u \in Users PROVE QuotaStep(u)
  <2>1. MayCreate(u)' = MayCreate(u) \ {r} /\ r \notin MayCreate(u)
    BY MayCreateAfter DEF MayCreate
  <2> QED
    BY <1>1, <2>1, QuotaStays
<1> QED
  BY <1>2, <1>3

\* A step of a request past the limit, that goes on there or gives up.
LEMMA QuotaGoesOn ==
  ASSUME QuotaInv, NEW r \in Requests, NEW k, KnowsCreator(k), GoOn(r, k), job[r].pc \in Creators,
         \/ k.pc \notin PastLimit
         \/ k.pc \in PastLimit /\ job[r].pc \in PastLimit /\ k.user = job[r].user,
         serviceVars' = serviceVars
  PROVE  QuotaInv' /\ \A u \in Users : QuotaStep(u)
<1>1. /\ profiles' = profiles /\ blind' = blind /\ inserted' \in [profiles : Nat, links : Nat]
      /\ inserted'.profiles = inserted.profiles
  BY DEF serviceVars, QuotaInv, ProfileRows
<1>2. ProfileRows' /\ \A u : RowIds(u)' = RowIds(u) /\ blind'[u] = blind[u]
  BY <1>1, RowsUnchanged DEF QuotaInv
<1>3. QuotaInv'
  BY <1>1, <1>2, QuotaInvAfter
<1>4. ASSUME NEW u \in Users PROVE QuotaStep(u)
  <2>1. CASE k.pc \notin PastLimit
    <3>1. MayCreate(u)' = MayCreate(u) \ {r} /\ {r} \in SUBSET Requests
      BY <2>1, MayCreateAfter
    <3> QED
      BY <1>2, <3>1, QuotaAbandons
  <2>2. CASE k.pc \in PastLimit /\ job[r].pc \in PastLimit /\ k.user = job[r].user
    <3>1. r \in MayCreate(u) <=> k.user = u
      BY <2>2 DEF MayCreate
    <3>2. MayCreate(u)' = MayCreate(u)
      BY <2>2, <3>1, MayCreateAfter
    <3> QED
      BY <1>2, <3>2, QuotaStays
  <2> QED
    BY <2>1, <2>2
<1> QED
  BY <1>3, <1>4

LEMMA IdleCreates ==
  ASSUME NEW j
  PROVE  /\ KnowsCreator(Idle) /\ Idle.pc \notin Creators \cup PastLimit
         /\ KnowsCreator(AfterRefusal(j)) /\ AfterRefusal(j).pc \notin Creators \cup PastLimit
<1>1. KnowsCreator(Idle) /\ Idle.pc \notin Creators \cup PastLimit
  BY DEF KnowsCreator, Idle, Creators, Creating, PastLimit
<1>2. CASE j.task = "import"
  <2>1. PICK k : k = [pc |-> "failure", import |-> j.import] /\ k = AfterRefusal(j)
    BY <1>2 DEF AfterRefusal
  <2>2. "pc" \in DOMAIN k /\ k.pc = "failure"
    BY <2>1
  <2> QED
    BY <1>1, <2>1, <2>2 DEF KnowsCreator, Creators, Creating, PastLimit
<1>3. CASE j.task # "import"
  BY <1>1, <1>3 DEF AfterRefusal
<1> QED
  BY <1>1, <1>2, <1>3

LEMMA QuotaRefuses ==
  ASSUME QuotaInv, NEW r \in Requests, job[r].pc \in Creators, Refuse(r)
  PROVE  QuotaInv' /\ \A u \in Users : QuotaStep(u)
  BY IdleCreates, QuotaGoesOn DEF Refuse

\* Who counts room for a profile: there are no more ids than rows.
LEMMA RowsBoundIds ==
  ASSUME ProfileRows, NEW u
  PROVE  /\ Cardinality(RowIds(u)) \in Nat /\ Cardinality(ProfilesOf(u)) \in Nat
         /\ Cardinality(RowIds(u)) <= Cardinality(ProfilesOf(u))
<1>1. IsFiniteSet(ProfilesOf(u))
  BY FS_Subset DEF ProfileRows, ProfilesOf
<1>2. PICK S : S = RowIds(u)
  OBVIOUS
<1>3. PICK f : f = [p \in ProfilesOf(u) |-> p.id]
  OBVIOUS
<1>4. f \in Surjection(ProfilesOf(u), S)
  BY <1>2, <1>3, Fun_IsSurj DEF RowIds
<1>5. IsFiniteSet(S) /\ Cardinality(S) <= Cardinality(ProfilesOf(u))
  BY <1>1, <1>4, FS_Surjection
<1> QED
  BY <1>1, <1>2, <1>5, FS_CardinalityType

LEMMA QuotaCounted ==
  ASSUME QuotaInv, NEW r \in Requests, CountByUserID(r)
  PROVE  QuotaInv' /\ \A u \in Users : QuotaStep(u)
<1>1. PICK j : /\ j = job[r] /\ j.pc = "count profiles" /\ KnowsCreator(j)
               /\ {"pc", "user"} \subseteq DOMAIN j /\ j.user \in Users
  BY DEF QuotaInv, CountByUserID, At, KnowsCreator, Creators, Creating
<1>2. CASE Refuse(r)
  BY <1>1, <1>2, QuotaRefuses DEF Creators, Creating
<1>3. CASE ~Refuse(r)
  <2>1. PICK k : k = [j EXCEPT !.pc = IF j.plan.slug = NoSlug THEN "name" ELSE "slug"]
    OBVIOUS
  <2>2. DOMAIN k = DOMAIN j /\ k.user = j.user /\ k.pc \in PastLimit /\ k.pc \in Creators
    BY <1>1, <2>1 DEF PastLimit, Creators, Creating
  <2>3. KnowsCreator(k)
    BY <1>1, <2>2 DEF KnowsCreator
  <2>4. /\ GoOn(r, k) /\ profiles' = profiles /\ inserted' = inserted
        /\ \/ /\ blind' = blind /\ ~ProfileLimitReached(j.user)
           \/ blind' = [blind EXCEPT ![j.user] = @ + 1]
    BY <1>1, <1>3, <2>1 DEF CountByUserID, serviceVars
  <2>5. ProfileRows' /\ \A u : RowIds(u)' = RowIds(u)
    BY <2>4 DEF QuotaInv, ProfileRows, RowIds, ProfilesOf
  <2>6. QuotaInv'
    <3>1. job[r].pc \in Creators
      BY <1>1 DEF Creators, Creating
    <3> QED
      BY <2>3, <2>4, <2>5, <3>1, QuotaInvAfter
  <2>7. ASSUME NEW u \in Users PROVE QuotaStep(u)
    <3>1. r \notin MayCreate(u)
      BY <1>1 DEF MayCreate, PastLimit
    <3>2. CASE u # j.user
      <4>1. MayCreate(u)' = MayCreate(u)
        <5>1. k.user # u /\ GoOn(r, k)
          BY <2>2, <2>4, <3>2
        <5>2. MayCreate(u)' = MayCreate(u) \ {r}
          BY <5>1, MayCreateAfter
        <5> QED
          BY <3>1, <5>2
      <4>2. blind'[u] = blind[u]
        BY <2>4, <3>2 DEF QuotaInv, ProfileRows
      <4> QED
        BY <2>5, <4>1, <4>2, QuotaStays
    <3>3. CASE u = j.user
      <4>1. MayCreate(u)' = MayCreate(u) \cup {r}
        BY <1>1, <2>2, <2>4, <3>3, MayCreateAfter
      <4>2. CASE blind' = blind /\ ~ProfileLimitReached(j.user)
        <5>1. MaxProfiles \in Nat
          BY ServicesAssumption
        <5>2. ~(Cardinality(ProfilesOf(u)) >= MaxProfiles)
          BY <3>3, <4>2 DEF ProfileLimitReached
        <5>3. PICK m \in Nat, n \in Nat :
                m = Cardinality(RowIds(u)) /\ n = Cardinality(ProfilesOf(u)) /\ m <= n
          BY RowsBoundIds DEF QuotaInv
        <5>4. Cardinality(RowIds(u)) < MaxProfiles
          BY <5>1, <5>2, <5>3
        <5>5. blind'[u] = blind[u]
          BY <4>2
        <5> QED
          BY <2>5, <3>1, <4>1, <5>4, <5>5, QuotaChecks
      <4>3. CASE blind' = [blind EXCEPT ![j.user] = @ + 1]
        <5>1. blind'[u] = blind[u] + 1
          BY <3>3, <4>3 DEF QuotaInv, ProfileRows
        <5> QED
          BY <2>5, <3>1, <4>1, <5>1, QuotaChecksBlindly
      <4> QED
        BY <2>4, <4>2, <4>3
    <3> QED
      BY <3>2, <3>3
  <2> QED
    BY <2>6, <2>7
<1> QED
  BY <1>2, <1>3

LEMMA QuotaNamed ==
  ASSUME QuotaInv, NEW r \in Requests,
         generateSlug(r) \/ CheckSlug(r) \/ InsertProfileFails(r) \/ generateUniqueSlug(r)
  PROVE  QuotaInv' /\ \A u \in Users : QuotaStep(u)
<1>1. PICK j : j = job[r] /\ j.pc \in {"name", "slug", "insert profile", "copy"}
  BY DEF generateSlug, CheckSlug, InsertProfileFails, generateUniqueSlug, At
<1>2. job[r].pc \in Creators /\ j.pc \in Creators
  BY <1>1 DEF Creators, Creating
<1>3. {"pc", "user"} \subseteq DOMAIN j /\ j.user \in Users
  BY <1>1, <1>2 DEF QuotaInv, KnowsCreator
<1>4. CASE Refuse(r)
  BY <1>2, <1>4, QuotaRefuses
<1>5. ASSUME NEW k, GoOn(r, k), serviceVars' = serviceVars, DOMAIN k = DOMAIN j, k.user = j.user,
             \/ k.pc \in {"copy", "count profiles"} /\ j.pc = "copy"
             \/ k.pc \in PastLimit /\ j.pc \in PastLimit
      PROVE  QuotaInv' /\ \A u \in Users : QuotaStep(u)
  <2>1. KnowsCreator(k)
    BY <1>3, <1>5 DEF KnowsCreator
  <2>2. k.pc \notin PastLimit \/ (k.pc \in PastLimit /\ job[r].pc \in PastLimit /\ k.user = job[r].user)
    BY <1>1, <1>5 DEF PastLimit
  <2> QED
    BY <1>2, <1>5, <2>1, <2>2, QuotaGoesOn
<1>6. CASE generateSlug(r) /\ ~Refuse(r)
  <2>1. PICK k, n : /\ GoOn(r, k) /\ serviceVars' = serviceVars
                    /\ k = [j EXCEPT !.tries = @ + 1] \/ k = [j EXCEPT !.pc = "slug", !.plan.slug = n]
    BY <1>1, <1>6 DEF generateSlug
  <2>2. j.pc \in PastLimit
    BY <1>1, <1>6 DEF generateSlug, At, PastLimit
  <2>3. DOMAIN k = DOMAIN j /\ k.user = j.user /\ k.pc \in PastLimit
    BY <1>3, <2>1, <2>2 DEF PastLimit
  <2> QED
    BY <1>5, <2>1, <2>2, <2>3
<1>7. CASE CheckSlug(r) /\ ~Refuse(r)
  <2>1. PICK k : /\ GoOn(r, k) /\ serviceVars' = serviceVars
                 /\ k = [j EXCEPT !.pc = "insert profile"]
    BY <1>1, <1>7 DEF CheckSlug
  <2>2. j.pc \in PastLimit
    BY <1>1, <1>7 DEF CheckSlug, At, PastLimit
  <2>3. DOMAIN k = DOMAIN j /\ k.user = j.user /\ k.pc \in PastLimit
    BY <1>3, <2>1, <2>2 DEF PastLimit
  <2> QED
    BY <1>5, <2>1, <2>2, <2>3
<1>8. CASE generateUniqueSlug(r)
  <2>1. PICK k, n : /\ GoOn(r, k) /\ serviceVars' = serviceVars
                    /\ \/ k = [j EXCEPT !.tries = @ + 1]
                       \/ k = [j EXCEPT !.pc = "count profiles", !.plan.slug = n]
    BY <1>1, <1>8 DEF generateUniqueSlug
  <2>2. j.pc = "copy"
    BY <1>1, <1>8 DEF generateUniqueSlug, At
  <2>3. DOMAIN k = DOMAIN j /\ k.user = j.user /\ k.pc \in {"copy", "count profiles"}
    BY <1>3, <2>1, <2>2
  <2> QED
    BY <1>5, <2>1, <2>2, <2>3
<1>9. CASE InsertProfileFails(r)
  BY <1>4, <1>9 DEF InsertProfileFails
<1> QED
  BY <1>4, <1>6, <1>7, <1>8, <1>9

LEMMA QuotaInserted ==
  ASSUME QuotaInv, NEW r \in Requests, InsertProfile(r)
  PROVE  QuotaInv' /\ \A u \in Users : QuotaStep(u)
<1>1. PICK j : j = job[r] /\ j.pc = "insert profile" /\ j.pc \in Creators
  BY DEF InsertProfile, At, Creators, Creating
<1>2. PICK id \in Nat : /\ id = inserted.profiles + 1 /\ inserted.profiles \in Nat
                        /\ inserted \in [profiles : Nat, links : Nat]
  BY DEF QuotaInv, ProfileRows
<1>3. PICK row : row = [id |-> id, owner |-> j.user, slug |-> j.plan.slug, full |-> TRUE]
  OBVIOUS
<1>4. /\ profiles' = profiles \cup {row} /\ inserted' = [inserted EXCEPT !.profiles = id]
      /\ blind' = blind /\ GoOn(r, AfterCreate(j, id))
  BY <1>1, <1>2, <1>3 DEF InsertProfile
<1>5. {"id", "owner"} \subseteq DOMAIN row /\ row.id = id /\ row.owner = j.user
  BY <1>3
<1>6. inserted' \in [profiles : Nat, links : Nat] /\ inserted'.profiles = id
  BY <1>2, <1>4
<1>7. ProfileRows'
  <2>1. IsFiniteSet(profiles')
    BY <1>4, FS_AddElement DEF QuotaInv, ProfileRows
  <2>2. \A p \in profiles' : {"id", "owner"} \subseteq DOMAIN p /\ p.id \in 1 .. id
    <3>1. \A p \in profiles : {"id", "owner"} \subseteq DOMAIN p /\ p.id \in 1 .. inserted.profiles
      BY DEF QuotaInv, ProfileRows
    <3> QED
      BY <1>2, <1>4, <1>5, <3>1
  <2>3. \A p, q \in profiles' : p.id = q.id => p = q
    <3>1. \A p \in profiles : p.id # id
      BY <1>2 DEF QuotaInv, ProfileRows
    <3> QED
      BY <1>4, <1>5, <3>1 DEF QuotaInv, ProfileRows
  <2> QED
    BY <1>4, <1>6, <2>1, <2>2, <2>3 DEF QuotaInv, ProfileRows
<1>8. PICK k : k = AfterCreate(j, id) /\ GoOn(r, k) /\ KnowsCreator(k) /\ k.pc \notin Creators \cup PastLimit
  <2>1. CASE j.task = "import"
    <3>0. PICK stage : stage = LinkStage(j.plan, 1, "result") /\ stage \in {"result", "count links"}
      BY DEF LinkStage
    <3>1. PICK k : /\ k = AfterCreate(j, id)
                   /\ k = [pc |-> stage, task |-> "import", import |-> j.import,
                           plan |-> j.plan, profile |-> id, k |-> 1, position |-> 0, imported |-> 0]
      BY <2>1, <3>0 DEF AfterCreate
    <3>2. "pc" \in DOMAIN k /\ k.pc \in {"result", "count links"}
      <4>1. k = [pc |-> stage, task |-> "import", import |-> j.import,
                 plan |-> j.plan, profile |-> id, k |-> 1, position |-> 0, imported |-> 0]
        BY <3>1
      <4>2. "pc" \in DOMAIN k /\ k.pc = stage
        BY <4>1
      <4> QED
        BY <3>0, <4>2
    <3> QED
      BY <1>4, <3>1, <3>2 DEF KnowsCreator, Creators, Creating, PastLimit
  <2>2. CASE j.task # "import"
    BY <1>4, <2>2, IdleCreates DEF AfterCreate
  <2> QED
    BY <2>1, <2>2
<1>9. QuotaInv'
  BY <1>1, <1>2, <1>6, <1>7, <1>8, QuotaInvAfter
<1>10. id \in 1 .. (MaxServed + 1)
  <2>1. r \in InsertersToBe /\ IsFiniteSet(InsertersToBe)
    BY <1>1, ServingAssumption, FS_Subset DEF InsertersToBe
  <2>2. PICK n \in Nat : n = Cardinality(InsertersToBe) /\ n # 0
    BY <2>1, FS_EmptySet, FS_CardinalityType
  <2>3. inserted.profiles + n <= served + 1 /\ served \in Nat /\ served <= MaxServed
    BY <2>2 DEF QuotaInv
  <2> QED
    BY <1>2, <2>2, <2>3, ServingAssumption
<1>11. ASSUME NEW u \in Users PROVE QuotaStep(u)
  <2>1. MayCreate(u)' = MayCreate(u) \ {r} /\ blind'[u] = blind[u]
    BY <1>4, <1>8, MayCreateAfter
  <2>2. CASE u = j.user
    <3>1. ProfilesOf(u)' = ProfilesOf(u) \cup {row}
      BY <1>4, <1>5, <2>2 DEF ProfilesOf
    <3>2. RowIds(u)' = RowIds(u) \cup {id}
      BY <1>5, <3>1 DEF RowIds
    <3>3. id \notin RowIds(u)
      <4>1. \A p \in profiles : p.id \in 1 .. inserted.profiles
        BY DEF QuotaInv, ProfileRows
      <4> QED
        BY <1>2, <4>1 DEF RowIds, ProfilesOf
    <3>4. r \in MayCreate(u)
      BY <1>1, <2>2 DEF MayCreate, PastLimit
    <3> QED
      BY <1>10, <2>1, <3>2, <3>3, <3>4, QuotaInserts
  <2>3. CASE u # j.user
    <3>1. ProfilesOf(u)' = ProfilesOf(u)
      BY <1>4, <1>5, <2>3 DEF ProfilesOf
    <3>2. RowIds(u)' = RowIds(u)
      BY <3>1 DEF RowIds
    <3>3. r \notin MayCreate(u)
      BY <1>1, <2>3 DEF MayCreate
    <3> QED
      BY <2>1, <3>2, <3>3, QuotaStays
  <2> QED
    BY <2>2, <2>3
<1> QED
  BY <1>9, <1>11

----------------------------------------------------------------------------
\* A request that goes on or ends, and inserts no profile from here on.
LEMMA QuotaPasses ==
  ASSUME QuotaInv, NEW r \in Requests, NEW k, Arrive(r, k) \/ GoOn(r, k),
         "pc" \in DOMAIN k, k.pc \notin Creators \cup PastLimit, job[r].pc \notin PastLimit,
         profiles' = profiles, blind' = blind, inserted' \in [profiles : Nat, links : Nat],
         inserted'.profiles = inserted.profiles
  PROVE  QuotaInv' /\ \A u \in Users : QuotaStep(u)
<1>1. KnowsCreator(k)
  BY DEF KnowsCreator
<1> QED
  BY <1>1, QuotaAside

LEMMA QuotaOfLinks ==
  ASSUME QuotaInv, NEW r \in Requests,
         \/ CountByProfileID(r) \/ getNextPosition(r) \/ InsertLink(r)
         \/ RemoveLink(r) \/ reorderAfterDelete(r) \/ UpdateLink(r) \/ CheckNewSlug(r)
  PROVE  QuotaInv' /\ \A u \in Users : QuotaStep(u)
<1>1. PICK j : j = job[r] /\ "pc" \in DOMAIN j
  BY DEF QuotaInv, KnowsCreator
<1>2. job[r].pc \notin PastLimit
  BY DEF CountByProfileID, getNextPosition, InsertLink, RemoveLink, reorderAfterDelete, UpdateLink,
         CheckNewSlug, At, PastLimit
<1>3. /\ profiles' = profiles /\ blind' = blind
      /\ inserted' \in [profiles : Nat, links : Nat] /\ inserted'.profiles = inserted.profiles
  <2>1. inserted \in [profiles : Nat, links : Nat]
    BY DEF QuotaInv, ProfileRows
  <2>2. CASE InsertLink(r) /\ ~LinkRefused(r)
    <3>1. PICK id \in Nat : id = inserted.links + 1
      BY <2>1
    <3>2. profiles' = profiles /\ blind' = blind /\ inserted' = [inserted EXCEPT !.links = id]
      BY <2>2, <3>1 DEF InsertLink
    <3> QED
      BY <2>1, <3>1, <3>2
  <2>3. CASE ~(InsertLink(r) /\ ~LinkRefused(r))
    <3>1. profiles' = profiles /\ blind' = blind /\ inserted' = inserted
      BY <2>3 DEF CountByProfileID, getNextPosition, InsertLink, RemoveLink, reorderAfterDelete,
                  UpdateLink, CheckNewSlug, LinkRefused, serviceVars
    <3> QED
      BY <2>1, <3>1, Zenon
  <2> QED
    BY <2>2, <2>3
<1>4. ASSUME NEW k, GoOn(r, k), "pc" \in DOMAIN k,
             k.pc \in {"result", "count links", "next position", "insert link", "shift links",
                       "update profile", "idle"}
      PROVE  QuotaInv' /\ \A u \in Users : QuotaStep(u)
  <2>1. k.pc \notin Creators \cup PastLimit
    BY <1>4 DEF Creators, Creating, PastLimit
  <2> QED
    BY <1>2, <1>3, <1>4, <2>1, QuotaPasses
<1>5. CASE Finish(r)
  <2>1. "pc" \in DOMAIN Idle /\ Idle.pc = "idle" /\ GoOn(r, Idle)
    BY <1>5 DEF Idle, Finish
  <2> QED
    BY <1>4, <2>1
<1>6. ASSUME NEW stored \in BOOLEAN, GoOn(r, NextLink(j, stored))
      PROVE  QuotaInv' /\ \A u \in Users : QuotaStep(u)
  <2>1. CASE j.task = "import"
    <3>1. PICK stage : stage = LinkStage(j.plan, j.k + 1, "result") /\ stage \in {"result", "count links"}
      BY DEF LinkStage
    <3>2. PICK i : i = Imported(j, stored)
      OBVIOUS
    <3>3. PICK k : k = [j EXCEPT !.pc = stage, !.k = @ + 1, !.imported = i]
      OBVIOUS
    <3>4. "pc" \in DOMAIN k /\ k.pc = stage
      BY <1>1, <3>3
    <3>5. GoOn(r, k)
      BY <1>6, <2>1, <3>1, <3>2, <3>3 DEF NextLink
    <3> QED
      BY <1>4, <3>1, <3>4, <3>5
  <2>2. CASE j.task # "import"
    BY <1>5, <1>6, <2>2 DEF NextLink, Finish
  <2> QED
    BY <2>1, <2>2
<1>7. CASE \E pc, x : /\ GoOn(r, [j EXCEPT !.position = x, !.pc = pc])
                      /\ pc \in {"next position", "insert link"}
  <2>1. PICK pc, x, k : /\ GoOn(r, k) /\ k = [j EXCEPT !.position = x, !.pc = pc]
                        /\ pc \in {"next position", "insert link"}
    BY <1>7
  <2>2. "pc" \in DOMAIN k /\ k.pc = pc
    BY <1>1, <2>1
  <2> QED
    BY <1>4, <2>1, <2>2
<1>8. CASE \E pc, x : /\ GoOn(r, [j EXCEPT !.pc = pc, !.position = x]) /\ pc = "insert link"
  <2>1. PICK pc, x, k : GoOn(r, k) /\ k = [j EXCEPT !.pc = pc, !.position = x] /\ pc = "insert link"
    BY <1>8
  <2>2. "pc" \in DOMAIN k /\ k.pc = pc
    BY <1>1, <2>1
  <2> QED
    BY <1>4, <2>1, <2>2
<1>9. CASE \E pc : GoOn(r, [j EXCEPT !.pc = pc]) /\ pc \in {"shift links", "update profile"}
  <2>1. PICK pc, k : GoOn(r, k) /\ k = [j EXCEPT !.pc = pc] /\ pc \in {"shift links", "update profile"}
    BY <1>9
  <2>2. "pc" \in DOMAIN k /\ k.pc = pc
    BY <1>1, <2>1
  <2> QED
    BY <1>4, <2>1, <2>2
<1>10. CASE CountByProfileID(r)
  <2>1. CASE LinkRefused(r)
    BY <1>1, <1>6, <2>1 DEF LinkRefused
  <2>2. CASE ~LinkRefused(r)
    <3>1. PICK x, pc : /\ GoOn(r, [j EXCEPT !.position = x, !.pc = pc])
                       /\ pc = IF x = 0 THEN "next position" ELSE "insert link"
      BY <1>1, <1>10, <2>2 DEF CountByProfileID
    <3>2. pc \in {"next position", "insert link"}
      BY <3>1
    <3> QED
      BY <1>7, <3>1, <3>2
  <2> QED
    BY <2>1, <2>2
<1>11. CASE getNextPosition(r)
  <2>1. CASE LinkRefused(r)
    BY <1>1, <1>6, <2>1 DEF LinkRefused
  <2>2. CASE ~LinkRefused(r)
    BY <1>1, <1>8, <1>11, <2>2 DEF getNextPosition
  <2> QED
    BY <2>1, <2>2
<1>12. CASE InsertLink(r)
  <2>1. CASE LinkRefused(r)
    BY <1>1, <1>6, <2>1 DEF LinkRefused
  <2>2. CASE ~LinkRefused(r)
    BY <1>1, <1>6, <1>12, <2>2 DEF InsertLink
  <2> QED
    BY <2>1, <2>2
<1>13. CASE RemoveLink(r) \/ CheckNewSlug(r)
  BY <1>1, <1>5, <1>9, <1>13 DEF RemoveLink, CheckNewSlug
<1>14. CASE reorderAfterDelete(r) \/ UpdateLink(r)
  BY <1>5, <1>14 DEF reorderAfterDelete, UpdateLink
<1> QED
  BY <1>10, <1>11, <1>12, <1>13, <1>14

LEMMA QuotaOfArrivals ==
  ASSUME QuotaInv, NEW r \in Requests,
         \/ \E p \in 1 .. inserted.profiles :
              \/ AddLink(r, p)
              \/ \E name \in Names : UpdateProfile(r, p, Slug(name, "own", 0))
              \/ \E order \in Orders(p) : Reorder(r, p, order)
         \/ \E l \in links : DeleteLink(r, l) \/ Toggle(r, l) \/ ReadLink(r, l)
  PROVE  QuotaInv' /\ \A u \in Users : QuotaStep(u)
<1>1. PICK k : /\ Arrive(r, k) /\ "pc" \in DOMAIN k
               /\ k.pc \in {"count links", "new slug", "delete link", "update link", "idle"}
               /\ profiles' = profiles /\ blind' = blind /\ inserted' = inserted
  <2>1. ASSUME NEW p, AddLink(r, p)
        PROVE  \E k : /\ Arrive(r, k) /\ "pc" \in DOMAIN k /\ k.pc = "count links"
                      /\ profiles' = profiles /\ blind' = blind /\ inserted' = inserted
    <3>1. PICK plan : plan = [links |-> <<[valid |-> TRUE, position |-> 0]>>, counted |-> FALSE]
      OBVIOUS
    <3>2. PICK k : k = [pc |-> "count links", task |-> "add", profile |-> p, import |-> 0,
                        k |-> 1, position |-> 0, plan |-> plan]
      OBVIOUS
    <3>3. "pc" \in DOMAIN k /\ k.pc = "count links"
      BY <3>2
    <3> QED
      BY <2>1, <3>1, <3>2, <3>3 DEF AddLink, Receive
  <2>2. ASSUME NEW p, NEW slug, UpdateProfile(r, p, slug)
        PROVE  \E k : /\ Arrive(r, k) /\ "pc" \in DOMAIN k /\ k.pc = "new slug"
                      /\ profiles' = profiles /\ blind' = blind /\ inserted' = inserted
    <3>1. PICK k : k = [pc |-> "new slug", profile |-> p, slug |-> slug]
      OBVIOUS
    <3>2. "pc" \in DOMAIN k /\ k.pc = "new slug"
      BY <3>1
    <3> QED
      BY <2>2, <3>1, <3>2 DEF UpdateProfile, Receive, serviceVars
  <2>3. ASSUME NEW l, DeleteLink(r, l)
        PROVE  \E k : /\ Arrive(r, k) /\ "pc" \in DOMAIN k /\ k.pc = "delete link"
                      /\ profiles' = profiles /\ blind' = blind /\ inserted' = inserted
    <3>1. PICK k : k = [pc |-> "delete link", id |-> l.id, profile |-> l.profile,
                        position |-> l.position]
      OBVIOUS
    <3>2. "pc" \in DOMAIN k /\ k.pc = "delete link"
      BY <3>1
    <3> QED
      BY <2>3, <3>1, <3>2 DEF DeleteLink, Receive
  <2>4. ASSUME NEW l, ReadLink(r, l)
        PROVE  \E k : /\ Arrive(r, k) /\ "pc" \in DOMAIN k /\ k.pc = "update link"
                      /\ profiles' = profiles /\ blind' = blind /\ inserted' = inserted
    <3>1. PICK k : k = [pc |-> "update link", id |-> l.id, profile |-> l.profile,
                        position |-> l.position, active |-> l.active]
      OBVIOUS
    <3>2. "pc" \in DOMAIN k /\ k.pc = "update link"
      BY <3>1
    <3> QED
      BY <2>4, <3>1, <3>2 DEF ReadLink, Receive
  <2>5. ASSUME NEW l, NEW p, NEW order, Toggle(r, l) \/ Reorder(r, p, order)
        PROVE  /\ Arrive(r, Idle) /\ "pc" \in DOMAIN Idle /\ Idle.pc = "idle"
               /\ profiles' = profiles /\ blind' = blind /\ inserted' = inserted
    BY <2>5 DEF Toggle, Reorder, Receive, Idle
  <2> QED
    BY <2>1, <2>2, <2>3, <2>4, <2>5
<1>2. k.pc \notin Creators \cup PastLimit
  BY <1>1 DEF Creators, Creating, PastLimit
<1>3. job[r].pc \notin PastLimit
  BY <1>1 DEF Arrive, At, PastLimit
<1>4. inserted' \in [profiles : Nat, links : Nat] /\ inserted'.profiles = inserted.profiles
  BY <1>1 DEF QuotaInv, ProfileRows
<1> QED
  BY <1>1, <1>2, <1>3, <1>4, QuotaPasses

LEMMA QuotaOfDuplicates ==
  ASSUME QuotaInv, NEW r \in Requests, NEW u \in Users, NEW p, Duplicate(r, u, p)
  PROVE  QuotaInv' /\ \A v \in Users : QuotaStep(v)
<1>1. PICK row : Receive(r, [pc |-> "copy", task |-> "duplicate", user |-> u, import |-> 0, tries |-> 0,
                      plan |-> [slug |-> NoSlug, name |-> row.slug.name, numbered |-> TRUE]])
  BY DEF Duplicate
<1>2. PICK plan : plan = [slug |-> NoSlug, name |-> row.slug.name, numbered |-> TRUE]
  OBVIOUS
<1>3. PICK k : k = [pc |-> "copy", task |-> "duplicate", user |-> u, import |-> 0, tries |-> 0,
                    plan |-> plan]
  OBVIOUS
<1>4. {"pc", "user"} \subseteq DOMAIN k /\ k.pc = "copy" /\ k.user = u
  BY <1>3
<1>5. Arrive(r, k)
  BY <1>1, <1>2, <1>3 DEF Receive
<1>6. KnowsCreator(k) /\ k.pc \notin PastLimit /\ job[r].pc \notin PastLimit
  BY <1>4, <1>5 DEF KnowsCreator, PastLimit, Arrive, At
<1>7. /\ profiles' = profiles /\ blind' = blind
      /\ inserted' \in [profiles : Nat, links : Nat] /\ inserted'.profiles = inserted.profiles
  BY DEF Duplicate, serviceVars, QuotaInv, ProfileRows
<1> QED
  BY <1>5, <1>6, <1>7, QuotaAside

\* A new slug and the columns that were NULL: the row keeps its id and owner.
LEMMA QuotaOfUpdates ==
  ASSUME QuotaInv, NEW r \in Requests, StoreProfile(r)
  PROVE  QuotaInv' /\ \A u \in Users : QuotaStep(u)
<1>1. PICK j : j = job[r] /\ j.pc = "update profile"
  BY DEF StoreProfile, At
<1>2. GoOn(r, Idle) /\ blind' = blind /\ inserted' = inserted
  BY DEF StoreProfile, Finish
<1>3. CASE UNCHANGED profiles
  <2>1. "pc" \in DOMAIN Idle /\ Idle.pc \notin Creators \cup PastLimit
    BY IdleCreates DEF Idle
  <2>2. job[r].pc \notin PastLimit
    BY <1>1 DEF PastLimit
  <2>3. inserted' \in [profiles : Nat, links : Nat] /\ inserted'.profiles = inserted.profiles
    BY <1>2 DEF QuotaInv, ProfileRows
  <2> QED
    BY <1>2, <1>3, <2>1, <2>2, <2>3, QuotaPasses
<1>4. CASE ~UNCHANGED profiles
  <2>1. PICK f : f = [p \in profiles |-> IF p.id = j.profile
                                         THEN [p EXCEPT !.slug = j.slug, !.full = TRUE] ELSE p]
    OBVIOUS
  <2>2. profiles' = {f[p] : p \in profiles}
    <3>1. profiles' = (profiles \ ById(j.profile)) \cup
                        {[p EXCEPT !.slug = j.slug, !.full = TRUE] : p \in ById(j.profile)}
      BY <1>1, <1>4 DEF StoreProfile
    <3> QED
      BY <2>1, <3>1 DEF ById
  <2>3. \A p \in profiles : /\ {"id", "owner"} \subseteq DOMAIN f[p] /\ f[p].id = p.id
                            /\ f[p].owner = p.owner /\ p.id \in 1 .. inserted.profiles
    BY <2>1 DEF QuotaInv, ProfileRows
  <2>4. IsFiniteSet(profiles')
    <3>1. PICK S : S = {f[p] : p \in profiles}
      OBVIOUS
    <3>2. PICK g : g = [p \in profiles |-> f[p]]
      OBVIOUS
    <3>3. g \in Surjection(profiles, S)
      BY <3>1, <3>2, Fun_IsSurj
    <3>4. IsFiniteSet(S)
      BY <3>3, FS_Surjection DEF QuotaInv, ProfileRows
    <3> QED
      BY <2>2, <3>1, <3>4
  <2>5. ProfileRows'
    BY <1>2, <2>2, <2>3, <2>4 DEF QuotaInv, ProfileRows
  <2>6. \A u : RowIds(u)' = RowIds(u)
    BY <2>2, <2>3 DEF RowIds, ProfilesOf
  <2>7. KnowsCreator(Idle) /\ Idle.pc \notin Creators \cup PastLimit
    BY IdleCreates
  <2>8. QuotaInv'
    BY <1>2, <2>5, <2>7, QuotaInvAfter
  <2>9. ASSUME NEW u \in Users PROVE QuotaStep(u)
    <3>1. MayCreate(u)' = MayCreate(u) \ {r}
      <4>1. Idle.pc \notin PastLimit
        BY <2>7
      <4> QED
        BY <1>2, <4>1, MayCreateAfter
    <3>2. r \notin MayCreate(u)
      BY <1>1 DEF MayCreate, PastLimit
    <3>3. MayCreate(u)' = MayCreate(u)
      BY <3>1, <3>2
    <3> QED
      BY <1>2, <2>6, <3>3, QuotaStays
  <2> QED
    BY <2>8, <2>9
<1> QED
  BY <1>3, <1>4

LEMMA QuotaOfDeletions ==
  ASSUME QuotaInv, NEW r \in Requests, NEW p \in 1 .. inserted.profiles, DeleteProfile(r, p)
  PROVE  QuotaInv' /\ \A u \in Users : QuotaStep(u)
<1>1. /\ Arrive(r, Idle) /\ profiles' = profiles \ ById(p) /\ blind' = blind /\ inserted' = inserted
  BY DEF DeleteProfile, Receive
<1>2. ProfileRows'
  <2>1. IsFiniteSet(profiles')
    BY <1>1, FS_Subset DEF QuotaInv, ProfileRows
  <2> QED
    BY <1>1, <2>1 DEF QuotaInv, ProfileRows
<1>3. KnowsCreator(Idle) /\ Idle.pc \notin Creators \cup PastLimit
  BY IdleCreates
<1>4. QuotaInv'
  BY <1>1, <1>2, <1>3, QuotaInvAfter
<1>5. {p} \in SUBSET (1 .. (MaxServed + 1))
  <2>1. Cardinality(InsertersToBe) \in Nat
    BY ServingAssumption, FS_Subset, FS_CardinalityType DEF InsertersToBe
  <2>2. inserted.profiles \in Nat /\ inserted.profiles <= MaxServed + 1
    BY <2>1, ServingAssumption DEF QuotaInv, ProfileRows
  <2> QED
    BY <2>2, ServingAssumption
<1>6. ASSUME NEW u \in Users PROVE QuotaStep(u)
  <2>1. RowIds(u)' = RowIds(u) \ {p}
    BY <1>1 DEF RowIds, ProfilesOf, ById
  <2>2. MayCreate(u)' = MayCreate(u)
    <3>1. MayCreate(u)' = MayCreate(u) \ {r}
      <4>1. Idle.pc \notin PastLimit /\ Arrive(r, Idle)
        BY <1>1, <1>3
      <4> QED
        BY <4>1, MayCreateAfter
    <3>2. r \notin MayCreate(u)
      BY <1>1 DEF MayCreate, PastLimit, Arrive, At
    <3> QED
      BY <3>1, <3>2
  <2> QED
    BY <1>1, <1>5, <2>1, <2>2, QuotaRemoves
<1> QED
  BY <1>4, <1>6

LEMMA QuotaOfServices ==
  ASSUME QuotaInv, NEW r \in Requests, ServiceStep(r)
  PROVE  QuotaInv' /\ \A u \in Users : QuotaStep(u)
<1>1. CASE CountByUserID(r)
  BY <1>1, QuotaCounted
<1>2. CASE generateSlug(r) \/ CheckSlug(r) \/ InsertProfileFails(r) \/ generateUniqueSlug(r)
  BY <1>2, QuotaNamed
<1>3. CASE InsertProfile(r)
  BY <1>3, QuotaInserted
<1>4. CASE \/ CountByProfileID(r) \/ getNextPosition(r) \/ InsertLink(r)
           \/ RemoveLink(r) \/ reorderAfterDelete(r) \/ UpdateLink(r) \/ CheckNewSlug(r)
  BY <1>4, QuotaOfLinks
<1>5. CASE StoreProfile(r)
  BY <1>5, QuotaOfUpdates
<1>6. CASE \/ \E p \in 1 .. inserted.profiles :
                \/ AddLink(r, p)
                \/ \E name \in Names : UpdateProfile(r, p, Slug(name, "own", 0))
                \/ \E order \in Orders(p) : Reorder(r, p, order)
           \/ \E l \in links : DeleteLink(r, l) \/ Toggle(r, l) \/ ReadLink(r, l)
  BY <1>6, QuotaOfArrivals
<1>7. ASSUME NEW p \in 1 .. inserted.profiles,
             DeleteProfile(r, p) \/ \E u \in Users : Duplicate(r, u, p)
      PROVE  QuotaInv' /\ \A u \in Users : QuotaStep(u)
  BY <1>7, QuotaOfDeletions, QuotaOfDuplicates
<1> QED
  BY <1>1, <1>2, <1>3, <1>4, <1>5, <1>6, <1>7 DEF ServiceStep

\* Imports and exports: a creation begins with a job, and the limit is not read yet.
LEMMA QuotaOfTransfers ==
  ASSUME QuotaInv, NEW r \in Requests, TransferStep(r)
  PROVE  QuotaInv' /\ \A u \in Users : QuotaStep(u)
<1>1. ASSUME serviceVars' = serviceVars
      PROVE  /\ profiles' = profiles /\ blind' = blind
             /\ inserted' \in [profiles : Nat, links : Nat] /\ inserted'.profiles = inserted.profiles
  BY <1>1 DEF serviceVars, QuotaInv, ProfileRows
<1>2. ASSUME NEW k, Arrive(r, k), serviceVars' = serviceVars, KnowsCreator(k), k.pc \notin PastLimit
      PROVE  QuotaInv' /\ \A u \in Users : QuotaStep(u)
  <2>1. job[r].pc \notin PastLimit
    BY <1>2 DEF Arrive, At, PastLimit
  <2> QED
    BY <1>1, <1>2, <2>1, QuotaAside
<1>3. ASSUME NEW u \in Users, NEW d, createImportJob(r, u, d)
      PROVE  QuotaInv' /\ \A v \in Users : QuotaStep(v)
  <2>1. PICK k : k = [pc |-> "pending", user |-> u, file |-> d, import |-> Len(jobs) + 1]
    OBVIOUS
  <2>2. {"pc", "user"} \subseteq DOMAIN k /\ k.pc = "pending" /\ k.user = u
    BY <2>1
  <2>3. Arrive(r, k) /\ serviceVars' = serviceVars
    BY <1>3, <2>1 DEF createImportJob, Receive, serviceVars
  <2>4. KnowsCreator(k) /\ k.pc \notin PastLimit
    BY <2>2 DEF KnowsCreator, PastLimit
  <2> QED
    BY <1>2, <2>3, <2>4
<1>4. CASE TurnedAway(r)
  BY <1>2, <1>4, IdleCreates DEF TurnedAway, serviceVars
<1>5. CASE StartProcessing(r)
  <2>1. job[r].pc = "pending" /\ job[r].pc \in Creators /\ job[r].user \in Users
    BY <1>5 DEF StartProcessing, At, Creators, QuotaInv, KnowsCreator
  <2>2. serviceVars' = serviceVars
    BY <1>5 DEF StartProcessing, serviceVars
  <2>3. PICK j : j = job[r]
    OBVIOUS
  <2>4. PICK create : create = [pc |-> "count profiles", task |-> "import", import |-> j.import,
                                user |-> j.user, tries |-> 0, plan |-> PlanOf(j.file)]
    OBVIOUS
  <2>5. {"pc", "user"} \subseteq DOMAIN create /\ create.pc = "count profiles" /\ create.user = j.user
    BY <2>4
  <2>6. KnowsCreator(create) /\ create.pc \notin PastLimit
    BY <2>1, <2>3, <2>5 DEF KnowsCreator, PastLimit
  <2>7. PICK k : /\ GoOn(r, k)
                 /\ \/ k = create
                    \/ k = AfterRefusal([task |-> "import", import |-> j.import])
                    \/ k = Idle
    BY <1>5, <2>3, <2>4 DEF StartProcessing, Finish
  <2>8. KnowsCreator(k) /\ k.pc \notin PastLimit
    <3>1. CASE k = create
      BY <2>6, <3>1
    <3>2. CASE k = AfterRefusal([task |-> "import", import |-> j.import])
      BY <3>2, IdleCreates
    <3>3. CASE k = Idle
      BY <3>3, IdleCreates
    <3> QED
      BY <2>7, <3>1, <3>2, <3>3
  <2>9. GoOn(r, k)
    BY <2>7
  <2> QED
    BY <2>1, <2>2, <2>8, <2>9, QuotaGoesOn
<1>6. CASE MarkFailed(r) \/ MarkCompleted(r) \/ ExportLinks(r)
  <2>1. job[r].pc \in {"failure", "result", "export"} /\ GoOn(r, Idle) /\ serviceVars' = serviceVars
    BY <1>6 DEF MarkFailed, MarkCompleted, ExportLinks, At, Finish, serviceVars
  <2>2. "pc" \in DOMAIN Idle /\ Idle.pc \notin Creators \cup PastLimit
    BY IdleCreates DEF Idle
  <2>3. job[r].pc \notin PastLimit
    BY <2>1 DEF PastLimit
  <2> QED
    BY <1>1, <2>1, <2>2, <2>3, QuotaPasses
<1>7. ASSUME NEW u, NEW p, NEW format, HandleExport(r, u, p, format)
      PROVE  QuotaInv' /\ \A v \in Users : QuotaStep(v)
  <2>1. PICK row : Receive(r, [pc |-> "export", profile |-> p, slug |-> row.slug, format |-> format])
    BY <1>7 DEF HandleExport
  <2>2. PICK k : k = [pc |-> "export", profile |-> p, slug |-> row.slug, format |-> format]
    OBVIOUS
  <2>3. "pc" \in DOMAIN k /\ k.pc = "export"
    BY <2>2
  <2>4. Arrive(r, k) /\ serviceVars' = serviceVars
    BY <1>7, <2>1, <2>2 DEF HandleExport, Receive, serviceVars
  <2>5. KnowsCreator(k) /\ k.pc \notin PastLimit
    BY <2>3 DEF KnowsCreator, PastLimit, Creators, Creating
  <2> QED
    BY <1>2, <2>4, <2>5
<1>8. CASE ReadImportJob(r)
  BY <1>8, QuotaUnmoved DEF ReadImportJob, transferVars, serviceVars
<1> QED
  BY <1>3, <1>4, <1>5, <1>6, <1>7, <1>8 DEF TransferStep

LEMMA QuotaOfDying ==
  ASSUME QuotaInv, Die, UNCHANGED serviceVars
  PROVE  QuotaInv' /\ \A u \in Users : QuotaStep(u)
<1>1. /\ job' = [r \in Requests |-> Idle] /\ served' = served
      /\ profiles' = profiles /\ blind' = blind /\ inserted' = inserted
  BY DEF Die, serviceVars
<1>2. \A r \in Requests : /\ KnowsCreator(job'[r]) /\ job'[r].pc \notin Creators
                          /\ job'[r].pc \notin PastLimit
  BY <1>1, IdleCreates
<1>3. ProfileRows' /\ \A u : RowIds(u)' = RowIds(u) /\ blind'[u] = blind[u]
  BY <1>1, RowsUnchanged DEF QuotaInv, ProfileRows
<1>4. Cardinality(InsertersToBe') = 0
  <2>1. InsertersToBe' = {}
    BY <1>2 DEF InsertersToBe
  <2> QED
    BY <2>1, FS_EmptySet
<1>5. inserted.profiles + 0 <= served + 1
  <2>1. Cardinality(InsertersToBe) \in Nat
    BY ServingAssumption, FS_Subset, FS_CardinalityType DEF InsertersToBe
  <2> QED
    BY <2>1 DEF QuotaInv, ProfileRows
<1>6. job' = [r \in Requests |-> job'[r]]
  BY <1>1
<1>7. QuotaInv'
  BY <1>1, <1>2, <1>3, <1>4, <1>5, <1>6 DEF QuotaInv
<1>8. ASSUME NEW u \in Users PROVE QuotaStep(u)
  <2>1. MayCreate(u)' = MayCreate(u) \ Requests /\ Requests \in SUBSET Requests
    BY <1>2 DEF MayCreate
  <2> QED
    BY <1>3, <2>1, QuotaAbandons
<1> QED
  BY <1>7, <1>8

LEMMA QuotaHoldsAtFirst ==
  ASSUME TransferInit
  PROVE  QuotaInv
<1>1. job = [r \in Requests |-> Idle] /\ served = 0
  BY DEF TransferInit, ServingInit
<1>2. PICK u \in Users, name \in Names, full \in BOOLEAN, k \in {0, 2} :
        /\ profiles = {[id |-> 1, owner |-> u, slug |-> Slug(name, "own", 0), full |-> full]}
        /\ inserted = [profiles |-> 1, links |-> k] /\ blind = [v \in Users |-> 0]
  BY DEF TransferInit, ServicesInit
<1>3. PICK row : row = [id |-> 1, owner |-> u, slug |-> Slug(name, "own", 0), full |-> full]
  OBVIOUS
<1>4. {"id", "owner"} \subseteq DOMAIN row /\ row.id = 1
  BY <1>3
<1>5. ProfileRows
  <2>1. profiles = {row}
    BY <1>2, <1>3
  <2>2. IsFiniteSet(profiles)
    BY <2>1, FS_Singleton
  <2>3. inserted \in [profiles : Nat, links : Nat] /\ inserted.profiles = 1
    BY <1>2
  <2>4. blind = [v \in Users |-> blind[v]]
    BY <1>2
  <2> QED
    BY <1>4, <2>1, <2>2, <2>3, <2>4 DEF ProfileRows
<1>6. \A r \in Requests : KnowsCreator(job[r]) /\ job[r].pc \notin Creators
  BY <1>1, IdleCreates
<1>7. Cardinality(InsertersToBe) = 0
  <2>1. InsertersToBe = {}
    BY <1>6 DEF InsertersToBe
  <2> QED
    BY <2>1, FS_EmptySet
<1>8. inserted.profiles = 1
  BY <1>2
<1>9. job = [r \in Requests |-> job[r]]
  BY <1>1
<1> QED
  BY <1>1, <1>5, <1>6, <1>7, <1>8, <1>9, ServingAssumption DEF QuotaInv

LEMMA QuotaOfAll ==
  ASSUME QuotaInv, [TransferNext]_transferVars
  PROVE  QuotaInv' /\ \A u \in Users : QuotaStep(u)
<1>1. ASSUME NEW r \in Requests, TransferStep(r) \/ ServiceStep(r)
      PROVE  QuotaInv' /\ \A u \in Users : QuotaStep(u)
  BY <1>1, QuotaOfTransfers, QuotaOfServices
<1>2. CASE Tick /\ UNCHANGED <<serviceVars, importVars>>
  BY <1>2, QuotaUnmoved DEF Tick, serviceVars
<1>3. CASE Die /\ UNCHANGED <<serviceVars, importVars>>
  BY <1>3, QuotaOfDying
<1>4. CASE UNCHANGED transferVars
  BY <1>4, QuotaUnmoved DEF transferVars, serviceVars
<1> QED
  BY <1>1, <1>2, <1>3, <1>4 DEF TransferNext

\* Create counts a user's profiles in one statement and inserts in a later one,
\* and other requests come between.  However they do, a profile is inserted only
\* by a request that had found room for it, or whose reading of the limit had
\* failed (CountByUserID, profile_service.go): every step is one of the abstract
\* quota of each user, or a stutter.
THEOREM ServicesKeepQuota == TransferSpec => ProfileQuotaKept
<1>1. TransferInit => QuotaInv
  BY QuotaHoldsAtFirst
<1>2. QuotaInv /\ [TransferNext]_transferVars => QuotaInv'
  BY QuotaOfAll
<1>3. QuotaInv /\ [TransferNext]_transferVars =>
        \A u \in Users : [ProfileQuota(u)!Next]_(ProfileQuota(u)!vars)
  BY QuotaOfAll DEF QuotaStep
<1> QED
  BY <1>1, <1>2, <1>3, PTL DEF TransferSpec, ProfileQuotaKept

----------------------------------------------------------------------------
\* The bound that the abstract quota keeps, for one user: the requests that may
\* still insert are part of the sum.
ServicesLimitOvershootBounded(u) ==
  Cardinality(ProfilesOf(u)) + Cardinality(MayCreate(u))
    <= MaxProfiles + (Cardinality(Requests) - 1) + blind[u]

BoundInv(u) == blind[u] \in Nat /\ ServicesLimitOvershootBounded(u)

\* Ids tell profiles apart, so counting ids counts profiles.
LEMMA IdsCountRows ==
  ASSUME NEW rows, IsFiniteSet(rows), \A p, q \in rows : p.id = q.id => p = q
  PROVE  /\ Cardinality({p.id : p \in rows}) = Cardinality(rows)
         /\ IsFiniteSet({p.id : p \in rows})
<1>1. PICK S : S = {p.id : p \in rows}
  OBVIOUS
<1>2. PICK f : f = [p \in rows |-> p.id]
  OBVIOUS
<1>3. f \in [rows -> S] /\ \A p, q \in rows : f[p] = f[q] => p = q
  BY <1>1, <1>2
<1>4. f \in Surjection(rows, S)
  BY <1>1, <1>2, Fun_IsSurj
<1>5. f \in Injection(rows, S)
  BY <1>3, Fun_IsInj
<1>6. f \in Bijection(rows, S)
  BY <1>4, <1>5 DEF Bijection
<1>7. IsFiniteSet(S) /\ Cardinality(rows) = Cardinality(S)
  BY <1>6, FS_Bijection DEF ExistsBijection
<1> QED
  BY <1>1, <1>7

LEMMA BoundKept ==
  ASSUME QuotaInv, QuotaInv', NEW u \in Users, Requests # {}, BoundInv(u), QuotaStep(u)
  PROVE  BoundInv(u)'
<1>0. /\ IsFiniteSet(ProfilesOf(u)) /\ \A p, q \in ProfilesOf(u) : p.id = q.id => p = q
      /\ IsFiniteSet(ProfilesOf(u)') /\ \A p, q \in ProfilesOf(u)' : p.id = q.id => p = q
  BY FS_Subset DEF QuotaInv, ProfileRows, ProfilesOf
<1>1. PICK R0, P0, R1, P1 : R0 = RowIds(u) /\ P0 = MayCreate(u) /\ R1 = RowIds(u)' /\ P1 = MayCreate(u)'
  OBVIOUS
<1>2. PICK L \in Nat, N \in Nat : /\ L = MaxProfiles /\ N = Cardinality(Requests)
                                  /\ \A r \in Requests : N # 0
  BY ServicesAssumption, ServingAssumption, FS_CardinalityType, FS_EmptySet
<1>3. /\ P0 \in SUBSET Requests /\ P1 \in SUBSET Requests /\ IsFiniteSet(P0) /\ IsFiniteSet(P1)
      /\ IsFiniteSet(R0) /\ IsFiniteSet(R1)
  <2>1. P0 \in SUBSET Requests /\ P1 \in SUBSET Requests
    BY <1>1 DEF MayCreate
  <2>2. IsFiniteSet(R0)
    BY <1>0, <1>1, IdsCountRows DEF RowIds
  <2>3. IsFiniteSet(R1)
    BY <1>0, <1>1, IdsCountRows DEF RowIds
  <2> QED
    BY <2>1, <2>2, <2>3, FS_Subset, ServingAssumption
<1>4. PICK m \in Nat, n \in Nat, mm \in Nat, nn \in Nat :
        /\ m = Cardinality(R0) /\ n = Cardinality(P0) /\ mm = Cardinality(R1) /\ nn = Cardinality(P1)
        /\ n <= N /\ nn <= N
  BY <1>2, <1>3, FS_CardinalityType, FS_Subset, ServingAssumption
<1>5. m + n <= L + (N - 1) + blind[u] /\ blind[u] \in Nat
  <2>1. m = Cardinality(ProfilesOf(u))
    BY <1>0, <1>1, <1>4, IdsCountRows DEF RowIds
  <2> QED
    BY <1>1, <1>2, <1>4, <2>1 DEF BoundInv, ServicesLimitOvershootBounded
<1>6. mm + nn <= L + (N - 1) + blind'[u] /\ blind'[u] \in Nat
  <2>1. CASE UNCHANGED ProfileQuota(u)!vars
    <3>1. R1 = R0 /\ P1 = P0 /\ blind'[u] = blind[u]
      BY <1>1, <2>1 DEF ProfileQuota!vars, RowIds, MayCreate, PastLimit
    <3> QED
      BY <1>4, <1>5, <3>1
  <2>2. ASSUME NEW r \in Requests, ProfileQuota(u)!Check(r)
        PROVE  mm + nn <= L + (N - 1) + blind'[u] /\ blind'[u] \in Nat
    <3>1. R1 = R0 /\ blind'[u] = blind[u] /\ ProfileQuota(u)!Cardinality(R0) < MaxProfiles
      BY <1>1, <2>2 DEF ProfileQuota!Check, ProfileQuota!HasRoom, RowIds
    <3>2. ProfileQuota(u)!Cardinality(R0) = Cardinality(R0)
      BY DEF Cardinality, IsFiniteSet, ProfileQuota!Cardinality, ProfileQuota!IsFiniteSet
    <3>3. mm = m /\ m < L
      BY <1>2, <1>4, <3>1, <3>2
    <3> QED
      BY <1>2, <1>4, <1>5, <3>1, <3>3
  <2>3. ASSUME NEW r \in Requests, ProfileQuota(u)!BlindCheck(r)
        PROVE  mm + nn <= L + (N - 1) + blind'[u] /\ blind'[u] \in Nat
    <3>1. R1 = R0 /\ blind'[u] = blind[u] + 1 /\ r \notin P0 /\ P1 = P0 \cup {r}
      BY <1>1, <2>3 DEF ProfileQuota!BlindCheck, RowIds, MayCreate, PastLimit
    <3>2. nn = n + 1 /\ mm = m
      BY <1>3, <1>4, <3>1, FS_AddElement
    <3> QED
      BY <1>4, <1>5, <3>1, <3>2
  <2>4. ASSUME NEW r \in Requests, NEW x \in 1 .. (MaxServed + 1), ProfileQuota(u)!Insert(r, x)
        PROVE  mm + nn <= L + (N - 1) + blind'[u] /\ blind'[u] \in Nat
    <3>1. /\ r \in P0 /\ x \notin R0 /\ R1 = R0 \cup {x} /\ P1 = P0 \ {r} /\ blind'[u] = blind[u]
      BY <1>1, <2>4 DEF ProfileQuota!Insert, RowIds, MayCreate, PastLimit
    <3>2. mm = m + 1
      BY <1>3, <1>4, <3>1, FS_AddElement
    <3>3. nn = n - 1
      BY <1>3, <1>4, <3>1, FS_RemoveElement
    <3> QED
      BY <1>4, <1>5, <3>1, <3>2, <3>3
  <2>5. ASSUME NEW R \in SUBSET Requests, ProfileQuota(u)!Abandon(R)
        PROVE  mm + nn <= L + (N - 1) + blind'[u] /\ blind'[u] \in Nat
    <3>1. R1 = R0 /\ P1 = P0 \ R /\ blind'[u] = blind[u]
      BY <1>1, <2>5 DEF ProfileQuota!Abandon, RowIds, MayCreate, PastLimit
    <3>2. nn <= n /\ mm = m
      BY <1>3, <1>4, <3>1, FS_Subset
    <3> QED
      BY <1>4, <1>5, <3>1, <3>2
  <2>6. ASSUME NEW X \in SUBSET (1 .. (MaxServed + 1)), ProfileQuota(u)!Remove(X)
        PROVE  mm + nn <= L + (N - 1) + blind'[u] /\ blind'[u] \in Nat
    <3>1. R1 = R0 \ X /\ P1 = P0 /\ blind'[u] = blind[u]
      BY <1>1, <2>6 DEF ProfileQuota!Remove, RowIds, MayCreate, PastLimit
    <3>2. mm <= m /\ nn = n
      BY <1>3, <1>4, <3>1, FS_Subset
    <3> QED
      BY <1>4, <1>5, <3>1, <3>2
  <2> QED
    BY <2>1, <2>2, <2>3, <2>4, <2>5, <2>6 DEF QuotaStep, ProfileQuota!Next
<1>7. mm = Cardinality(ProfilesOf(u)')
  BY <1>0, <1>1, <1>4, IdsCountRows DEF RowIds
<1> QED
  BY <1>1, <1>2, <1>4, <1>6, <1>7 DEF BoundInv, ServicesLimitOvershootBounded

\* No user ever has more profiles than the limit by more than the creations that
\* run beside the last one and those that could not read the limit.
THEOREM ServicesLimitBound ==
  ASSUME Requests # {}
  PROVE  TransferSpec => [](\A u \in Users : ServicesLimitOvershootBounded(u))
<1>1. TransferInit => QuotaInv /\ \A u \in Users : BoundInv(u)
  <2> SUFFICES ASSUME TransferInit, NEW v \in Users PROVE BoundInv(v)
    BY QuotaHoldsAtFirst
  <2>1. PICK row : profiles = {row} /\ blind = [w \in Users |-> 0]
    BY DEF TransferInit, ServicesInit
  <2>2. Cardinality(ProfilesOf(v)) <= 1 /\ Cardinality(ProfilesOf(v)) \in Nat
    <3>1. IsFiniteSet({row}) /\ Cardinality({row}) = 1
      BY FS_Singleton
    <3>2. ProfilesOf(v) \subseteq {row}
      BY <2>1 DEF ProfilesOf
    <3> QED
      BY <3>1, <3>2, FS_Subset, FS_CardinalityType
  <2>3. Cardinality(MayCreate(v)) = 0
    <3>1. \A r \in Requests : job[r].pc \notin PastLimit
      BY IdleCreates DEF TransferInit, ServingInit
    <3>2. MayCreate(v) = {}
      BY <3>1 DEF MayCreate
    <3> QED
      BY <3>2, FS_EmptySet
  <2>4. Cardinality(Requests) \in Nat \ {0} /\ MaxProfiles \in Nat \ {0}
    BY ServingAssumption, ServicesAssumption, FS_CardinalityType, FS_EmptySet
  <2> QED
    BY <2>1, <2>2, <2>3, <2>4 DEF BoundInv, ServicesLimitOvershootBounded
<1>2. QuotaInv /\ (\A u \in Users : BoundInv(u)) /\ [TransferNext]_transferVars
        => (QuotaInv /\ \A u \in Users : BoundInv(u))'
  BY QuotaOfAll, BoundKept
<1>3. (\A u \in Users : BoundInv(u)) => \A u \in Users : ServicesLimitOvershootBounded(u)
  BY DEF BoundInv
<1> QED
  BY <1>1, <1>2, <1>3, PTL DEF TransferSpec
=============================================================================
