------------------------------- MODULE Visits -------------------------------
(***************************************************************************)
(* Visitors of a public profile, the counters and the event log they leave *)
(* behind, and the owner's report, which is computed from the log          *)
(* (src/src/server/handler/{public,analytics}_handlers.go, utils.go and    *)
(* router.go).                                                             *)
(***************************************************************************)
EXTENDS Serving, Bags

CONSTANTS
  Visitors,  \* IP addresses
  Agent,     \* the words of each visitor's user agent
  Links,     \* ids of the links that the profile has at first
  NoLink,    \* the link of an event that is a view
  PerHour    \* how many moments an hour has

ASSUME VisitsAssumption ==
  /\ Visitors # {} /\ Agent \in [Visitors -> SUBSET STRING]
  /\ NoLink \notin Links /\ PerHour \in Nat \ {0}

VARIABLES
  viewCount,   \* profiles.view_count
  clickCount,  \* links.click_count, of each link that there is
  events,      \* analytics: a bag of rows
  cleaned      \* ghost: events of earlier times have been deleted

visitVars == <<viewCount, clickCount, events, cleaned>>

\* What is counted: views of the profile, and clicks of each link.
Subjects == Links \cup {NoLink}

\* One public profile that is tracked, with active links: a visit to a private
\* profile or through an inactive link is refused at its first statement and
\* leaves nothing.  A row with a link is a click, one without a view.
Event == [link : Subjects, hash : [ip : Visitors, salted : BOOLEAN],
          device : {"mobile", "tablet", "desktop"}, at : Nat]

Times == 0..MaxTime

VisitsInit ==
  /\ viewCount = 0 /\ clickCount = [l \in Links |-> 0]
  /\ events = EmptyBag
  /\ cleaned = 0

hashIP(ip) == [ip |-> ip, salted |-> FALSE]

\* An Android tablet is a "mobile".
detectDeviceType(agent) ==
  IF agent \cap {"mobile", "android", "iphone", "ipod", "blackberry", "windows phone",
                 "palm", "smartphone"} # {} THEN "mobile"
  ELSE IF agent \cap {"ipad", "tablet", "kindle"} # {} THEN "tablet"
  ELSE "desktop"

\* SELECT ... FROM analytics WHERE event_type ... AND created_at ...
Within(links, times) == {e \in BagToSet(events) : e.link \in links /\ e.at \in times}

\* COUNT( * )
CountOf(links, times) == BagCardinality([e \in Within(links, times) |-> events[e]])

\* COUNT(DISTINCT ip_hash)
DistinctOf(links, times) == Cardinality({e.hash : e \in Within(links, times)})

----------------------------------------------------------------------------
(***************************************************************************)
(* GetPublicProfile, serveProfilePage and TrackLinkClick: the row is read, *)
(* the counter goes up, the event is stored.  Errors are dropped.          *)
(***************************************************************************)
GetPublicProfile(r, v) ==
  /\ Receive(r, [pc |-> "count", link |-> NoLink, visitor |-> v, seen |-> viewCount])
  /\ UNCHANGED visitVars

TrackLinkClick(r, v, l) ==
  /\ l \in DOMAIN clickCount
  /\ Receive(r, [pc |-> "count", link |-> l, visitor |-> v])
  /\ UNCHANGED visitVars

Track(r) == GoOn(r, [pc |-> "track", link |-> job[r].link, visitor |-> job[r].visitor,
                     at |-> now])

\* Mutant: one more than in the row that the handler read.
ViewCountFromCopy(r) == job[r].seen + 1

\* view_count = view_count + 1
NextViewCount(r) == viewCount + 1

incrementViewCount(r) ==
  /\ At(r, "count") /\ job[r].link = NoLink
  /\ (Works /\ viewCount' = NextViewCount(r)) \/ (Fails /\ UNCHANGED viewCount)
  /\ Track(r)
  /\ UNCHANGED <<clickCount, events, cleaned>>

\* The click of a link that was deleted meanwhile is counted nowhere.
incrementClickCount(r) ==
  /\ At(r, "count") /\ job[r].link # NoLink
  /\ \/ Works /\ clickCount' = [l \in DOMAIN clickCount |->
                                  clickCount[l] + (IF l = job[r].link THEN 1 ELSE 0)]
     \/ Fails /\ UNCHANGED clickCount
  /\ Track(r)
  /\ UNCHANGED <<viewCount, events, cleaned>>

\* A request deletes a link (LinkHandlers), and with it its counter; its events
\* stay.
DropLink(l) ==
  /\ served < MaxServed /\ served' = served + 1
  /\ clickCount' = [k \in DOMAIN clickCount \ {l} |-> clickCount[k]]
  /\ Works
  /\ UNCHANGED <<job, now, viewCount, events, cleaned>>

\* The times that a report is about, once it has counted something.  Its "drift"
\* is a ghost: how many events of these times came or went since.
Reporting(q) == IF "drift" \in DOMAIN job[q] THEN job[q].times ELSE {}

Drifted(q, n) == IF "drift" \in DOMAIN job[q] THEN [job[q] EXCEPT !.drift = @ + n] ELSE job[q]

\* The event comes too late for the first count of a report that is under way.
StoredBy(r, e) ==
  /\ events' = events (+) SetToBag({e})
  /\ job' = [q \in Requests |->
               IF q = r THEN Idle ELSE Drifted(q, IF e.at \in Reporting(q) THEN 1 ELSE 0)]
  /\ UNCHANGED <<served, now>>

trackView(r) ==
  /\ At(r, "track")
  /\ \/ Works /\ StoredBy(r, [link |-> job[r].link, hash |-> hashIP(job[r].visitor),
                             device |-> detectDeviceType(Agent[job[r].visitor]),
                             at |-> job[r].at])
     \/ Fails /\ Finish(r) /\ UNCHANGED events
  /\ UNCHANGED <<viewCount, clickCount, cleaned>>

----------------------------------------------------------------------------
(***************************************************************************)
(* GetProfileAnalytics: one query after the other, all up to the moment    *)
(* the report began.  The queries after the first two are alike.  A query  *)
(* that fails reads as zero.                                               *)
(***************************************************************************)
GetProfileAnalytics(r, from) ==
  /\ from <= now
  /\ Receive(r, [pc |-> "views", times |-> from..now])
  /\ UNCHANGED visitVars

Counted(r, views, missed) ==
  GoOn(r, [pc |-> "visitors", times |-> job[r].times, views |-> views, drift |-> missed])

getTotalViews(r) ==
  LET views == CountOf({NoLink}, job[r].times)
  IN /\ At(r, "views")
     /\ (Works /\ Counted(r, views, 0)) \/ (Fails /\ Counted(r, 0, views))
     /\ UNCHANGED visitVars

Reported(r, visitors) ==
  GoOn(r, [pc |-> "report", times |-> {}, views |-> job[r].views, visitors |-> visitors,
           drift |-> job[r].drift])

getUniqueVisitors(r) ==
  /\ At(r, "visitors")
  /\ \/ Works /\ Reported(r, DistinctOf({NoLink}, job[r].times))
     \/ Fails /\ Reported(r, 0)
  /\ UNCHANGED visitVars

Respond(r) == At(r, "report") /\ Finish(r) /\ Works /\ UNCHANGED visitVars

\* The last 30 days.
Recent == {t \in Times : t + 30 * 24 * PerHour >= now}

\* GetLinkAnalytics: the counter of each link and its clicks in the log, in one
\* query; here one row of its answer.
GetLinkAnalytics(r, l) ==
  /\ l \in DOMAIN clickCount
  /\ Receive(r, [pc |-> "link report", link |-> l, total |-> clickCount[l],
                 recent |-> CountOf({l}, Recent)])
  /\ UNCHANGED visitVars

RespondLinks(r) == At(r, "link report") /\ Finish(r) /\ Works /\ UNCHANGED visitVars

VisitStep(r) ==
  \/ \E v \in Visitors : GetPublicProfile(r, v)
  \/ \E v \in Visitors, l \in Links : TrackLinkClick(r, v, l)
  \/ incrementViewCount(r) \/ incrementClickCount(r) \/ trackView(r)
  \/ \E from \in Times : GetProfileAnalytics(r, from)
  \/ getTotalViews(r) \/ getUniqueVisitors(r) \/ Respond(r)
  \/ \E l \in Links : GetLinkAnalytics(r, l)
  \/ RespondLinks(r)
============================================================================
