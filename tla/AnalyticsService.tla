-------------------------- MODULE AnalyticsService --------------------------
(***************************************************************************)
(* AnalyticsService (src/src/server/service/analytics_service.go): its own *)
(* events, sessions, hourly rows and summaries, and the deletion of what   *)
(* is old.                                                                 *)
(*                                                                         *)
(* Nothing in the program calls it: the scheduled task                     *)
(* analytics_aggregation only writes a line to the log.  Its operations    *)
(* are modelled as a caller would run them beside the handlers.            *)
(***************************************************************************)
EXTENDS Visits

CONSTANTS
  Sessions,          \* session ids that a browser sends
  NoRow,             \* no row for this hour
  TopLinks,          \* 20: how many links a summary shows
  Retention,         \* setting analytics_retention_days
  DefaultRetention   \* 90 days

ASSUME AnalyticsAssumption ==
  TopLinks \in Nat /\ Retention \in Nat /\ DefaultRetention \in Nat /\ NoRow \notin [views : Nat]

VARIABLES
  sessions,  \* analytics_sessions: a bag of rows
  hourly,    \* analytics_hourly: hour -> row, or NoRow
  tracked    \* ghost: how many views, and clicks of each link, the service stored

analyticsVars == <<sessions, hourly, tracked>>

Hours == 0..MaxTime \div PerHour

\* The moments of an hour.
Hour(h) == {t \in Times : t \in h * PerHour .. h * PerHour + PerHour - 1}

AnalyticsInit ==
  /\ sessions = EmptyBag
  /\ hourly = [h \in Hours |-> NoRow]
  /\ tracked = [s \in Subjects |-> 0]

\* The handlers neither look at the owner's switch nor salt the hash, and they
\* find other tablets.
saltedHash(ip) == [ip |-> ip, salted |-> TRUE]

parseDeviceType(agent) ==
  IF agent \cap {"tablet", "ipad"} # {} THEN "tablet"
  ELSE IF agent \cap {"mobile", "android", "iphone", "blackberry"} # {} THEN "mobile"
  ELSE "desktop"

----------------------------------------------------------------------------
(***************************************************************************)
(* TrackView and TrackClick.  When the owner has switched analytics off,   *)
(* or that cannot be looked up, a call stores nothing and says nothing: it *)
(* is no step at all.  TrackSession begins likewise.                       *)
(***************************************************************************)
TrackEvent(r, s, v) ==
  /\ Receive(r, [pc |-> "insert", link |-> s, visitor |-> v, at |-> now])
  /\ UNCHANGED <<visitVars, analyticsVars>>

TrackView(r, v) == TrackEvent(r, NoLink, v)

TrackClick(r, v, l) == TrackEvent(r, l, v)

InsertEvent(r) ==
  /\ At(r, "insert")
  /\ \/ /\ Works
        /\ StoredBy(r, [link |-> job[r].link, hash |-> saltedHash(job[r].visitor),
                        device |-> parseDeviceType(Agent[job[r].visitor]),
                        at |-> job[r].at])
        /\ tracked' = [tracked EXCEPT ![job[r].link] = @ + 1]
     \/ Fails /\ Finish(r) /\ UNCHANGED <<events, tracked>>
  /\ UNCHANGED <<viewCount, clickCount, cleaned, sessions, hourly>>

----------------------------------------------------------------------------
(***************************************************************************)
(* TrackSession                                                            *)
(***************************************************************************)

\* sessionExists: the session id is not UNIQUE.
TrackSession(r, s) ==
  /\ Receive(r, [pc |-> "session", session |-> s,
                 known |-> \E row \in BagToSet(sessions) : row.session = s])
  /\ UNCHANGED <<visitVars, analyticsVars>>

\* A row that is there gets a new duration, which nothing here depends on.
StoreSession(r) ==
  /\ At(r, "session")
  /\ \/ Works /\ sessions' = IF job[r].known THEN sessions
                             ELSE sessions (+) SetToBag({[session |-> job[r].session, at |-> now]})
     \/ Fails /\ UNCHANGED sessions
  /\ Finish(r)
  /\ UNCHANGED <<visitVars, hourly, tracked>>

SessionRows(times) ==
  BagCardinality([s \in {t \in BagToSet(sessions) : t.at \in times} |-> sessions[s]])

----------------------------------------------------------------------------
(***************************************************************************)
(* AggregateHourly                                                         *)
(***************************************************************************)

\* Mutant: created_at <= hourEnd.
HourAndEnd(h) ==
  LET hour == h * PerHour
  IN {t \in Times : t >= hour /\ t <= hour + PerHour}

\* created_at >= hour AND created_at < hourEnd
HourOnly(h) ==
  LET hour == h * PerHour
  IN {t \in Times : t >= hour /\ t < hour + PerHour}

\* Some request is about to store an event of these times.
Pending(times) == \E r \in Requests : job[r].pc \in {"track", "insert"} /\ job[r].at \in times

\* One statement.  The LEFT JOIN repeats every event for each session row of
\* the hour.  ON CONFLICT replaces the row that is there.  "sure" is a ghost:
\* the hour was over, all its events were in, and nothing was repeated.
AggregateHourly(h) ==
  LET rows == SessionRows(HourOnly(h))
      repeated == IF rows = 0 THEN 1 ELSE rows
      row == [views |-> repeated * CountOf({NoLink}, HourOnly(h)),
              clicks |-> repeated * CountOf(Links, HourOnly(h)),
              visitors |-> DistinctOf({NoLink}, HourOnly(h)),
              sure |-> (\A t \in Hour(h) : t < now) /\ rows <= 1 /\ ~Pending(Hour(h))]
  IN /\ h * PerHour < now
     /\ hourly[h] # row
     /\ hourly' = [hourly EXCEPT ![h] = row]
     /\ UNCHANGED <<job, served, now, failures, visitVars, sessions, tracked>>

----------------------------------------------------------------------------
(***************************************************************************)
(* GetSummary: one query after the other, and the first error ends it.     *)
(***************************************************************************)

\* created_at >= startDate AND created_at < endDate
GetSummary(r, from, to) ==
  /\ Receive(r, [pc |-> "totals", times |-> from..to - 1])
  /\ UNCHANGED <<visitVars, analyticsVars>>

GetTotals(r) ==
  /\ At(r, "totals")
  /\ \/ Works /\ GoOn(r, [pc |-> "durations", times |-> job[r].times, drift |-> 0,
                          total |-> CountOf(Subjects, job[r].times),
                          clicks |-> CountOf(Links, job[r].times)])
     \/ Fails /\ Finish(r)
  /\ UNCHANGED <<visitVars, analyticsVars>>

\* The average is read into an integer: one that is not whole is an error.
GetDurations(r) ==
  /\ At(r, "durations")
  /\ \/ Works /\ GoOn(r, [job[r] EXCEPT !.pc = "devices"])
     \/ (Fails \/ (Works /\ SessionRows(job[r].times) > 1)) /\ Finish(r)
  /\ UNCHANGED <<visitVars, analyticsVars>>

\* Mutant: the breakdown is of views only.
DeviceViews(device, times) ==
  BagCardinality([e \in {x \in Within({NoLink}, times) : x.device = device} |-> events[e]])

\* GROUP BY device_type
DeviceCount(device, times) ==
  BagCardinality([e \in {x \in BagToSet(events) : x.at \in times /\ x.device = device} |->
                    events[e]])

\* The queries for referrers and countries, before it, are alike.
GetDevices(r) ==
  /\ At(r, "devices")
  /\ \/ Works /\ GoOn(r, [job[r] EXCEPT !.pc = "links",
                          !.total = @ - (DeviceCount("mobile", job[r].times)
                                           + DeviceCount("tablet", job[r].times)
                                           + DeviceCount("desktop", job[r].times))])
     \/ Fails /\ Finish(r)
  /\ UNCHANGED <<visitVars, analyticsVars>>

\* The links with clicks in the log, and of them those that are still there.
Clicked(times) == {e.link : e \in Within(Links, times)}
Joined(times) == Clicked(times) \cap DOMAIN clickCount

\* JOIN links ... ORDER BY click_count DESC LIMIT 20: those with the most clicks,
\* in no certain order where they have as many.
Listed(times) ==
  IF Cardinality(Joined(times)) <= TopLinks THEN {Joined(times)}
  ELSE {top \in SUBSET Joined(times) :
          /\ Cardinality(top) = TopLinks
          /\ \A l \in top, k \in Joined(times) \ top : CountOf({k}, times) <= CountOf({l}, times)}

\* The clicks of each of them; then the hourly rows.  "whole" is a ghost: every
\* link that was clicked is shown.
GetLinkStats(r) ==
  /\ At(r, "links")
  /\ \/ /\ Works
        /\ \E top \in Listed(job[r].times) :
             GoOn(r, [pc |-> "summary", times |-> {}, drift |-> job[r].drift, total |-> job[r].total,
                      clicks |-> job[r].clicks - CountOf(top, job[r].times),
                      whole |-> /\ Clicked(job[r].times) \subseteq DOMAIN clickCount
                                /\ Cardinality(Clicked(job[r].times)) <= TopLinks])
     \/ Fails /\ Finish(r)
  /\ UNCHANGED <<visitVars, analyticsVars>>

GetHourlyStats(r) ==
  /\ At(r, "summary")
  /\ Works \/ Fails
  /\ Finish(r)
  /\ UNCHANGED <<visitVars, analyticsVars>>

----------------------------------------------------------------------------
(***************************************************************************)
(* CleanupOldData: two deletes, older than the retention period.           *)
(***************************************************************************)

\* getRetentionDays: a setting that cannot be read is the default.
CleanupOldData(r) ==
  /\ \E period \in {Retention, DefaultRetention} :
       /\ Arrive(r, [pc |-> "purge", before |-> IF now < period THEN 0 ELSE now - period])
       /\ IF period = Retention THEN Works ELSE Fails
  /\ UNCHANGED <<visitVars, analyticsVars>>

Younger(bag, time) == [x \in {y \in BagToSet(bag) : y.at >= time} |-> bag[x]]

\* How many events are deleted under a report.
Deleted(q, before) == CountOf(Subjects, {t \in Reporting(q) : t < before})

DeleteOldEvents(r) ==
  /\ At(r, "purge")
  /\ \/ /\ Works
        /\ events' = Younger(events, job[r].before)
        /\ cleaned' = IF job[r].before > cleaned THEN job[r].before ELSE cleaned
        /\ job' = [q \in Requests |->
                     IF q = r THEN [job[r] EXCEPT !.pc = "purge sessions"]
                     ELSE Drifted(q, Deleted(q, job[r].before))]
        /\ UNCHANGED <<served, now>>
     \/ Fails /\ Finish(r) /\ UNCHANGED <<events, cleaned>>
  /\ UNCHANGED <<viewCount, clickCount, analyticsVars>>

DeleteOldSessions(r) ==
  /\ At(r, "purge sessions")
  /\ (Works /\ sessions' = Younger(sessions, job[r].before)) \/ (Fails /\ UNCHANGED sessions)
  /\ Finish(r)
  /\ UNCHANGED <<visitVars, hourly, tracked>>

AnalyticsStep(r) ==
  \/ \E v \in Visitors : TrackView(r, v)
  \/ \E v \in Visitors, l \in Links : TrackClick(r, v, l)
  \/ InsertEvent(r)
  \/ \E s \in Sessions : TrackSession(r, s)
  \/ StoreSession(r)
  \/ \E to \in 1..now + 1 : GetSummary(r, 0, to)
  \/ GetTotals(r) \/ GetDurations(r) \/ GetDevices(r) \/ GetLinkStats(r) \/ GetHourlyStats(r)
  \/ CleanupOldData(r) \/ DeleteOldEvents(r) \/ DeleteOldSessions(r)

----------------------------------------------------------------------------
\* The counter that the profile shows and the log that the reports count agree,
\* but for the visits under way, the statements that were lost and the events
\* of AnalyticsService, which count nothing up; and likewise the clicks of each
\* link that is there.
CountersAgree ==
  \A s \in {NoLink} \cup DOMAIN clickCount :
    LET count == tracked[s] + (IF s = NoLink THEN viewCount ELSE clickCount[s])
        logged == CountOf({s}, Times)
        underWay == Cardinality({r \in Requests : At(r, "track") /\ job[r].link = s})
    IN /\ logged + underWay <= count + failures
       /\ cleaned > 0 \/ count <= logged + underWay + failures

\* The parts of one report add up, but for the events of its period that were
\* stored or deleted between its queries and those that a failed query missed:
\* no more visitors than views, every event on one device, and no more clicks of
\* links than clicks; as many, if every link that was clicked is still there and
\* is among the first TopLinks.  And a link shows no more recent clicks than
\* clicks, but for those that the service stored and those whose counting failed.
ReportsAddUp ==
  \A r \in Requests :
    /\ At(r, "report") => job[r].visitors <= job[r].views + job[r].drift
    /\ At(r, "summary") =>
         /\ job[r].total <= job[r].drift /\ 0 <= job[r].total + job[r].drift
         /\ 0 <= job[r].clicks + job[r].drift
         /\ job[r].whole => job[r].clicks <= job[r].drift
    /\ At(r, "link report") =>
         job[r].recent <= job[r].total + tracked[job[r].link] + failures

\* The row of an hour that was aggregated after its last event is exact for as
\* long as all the events of that hour are kept, if no two sessions began in it.
\* What is deleted need not end with an hour: a row can be all that tells of the
\* first half of one.
HourlyExact ==
  \A h \in Hours :
    hourly[h] # NoRow /\ hourly[h].sure /\ (\A t \in Hour(h) : t >= cleaned) =>
      /\ hourly[h].views = CountOf({NoLink}, Hour(h))
      /\ hourly[h].clicks = CountOf(Links, Hour(h))
      /\ hourly[h].visitors = DistinctOf({NoLink}, Hour(h))
============================================================================
