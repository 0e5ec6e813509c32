------------------------------- MODULE Traffic ------------------------------
(***************************************************************************)
(* The public side of a site: visits, clicks and short links, the reports  *)
(* about them, and the tasks that run beside them, in one process that may *)
(* die between two statements of any request.                              *)
(***************************************************************************)
EXTENDS ShortLinks, AnalyticsService

vars == <<job, served, now, failures, shortVars, visitVars, analyticsVars>>

Init == ServingInit /\ ShortInit /\ VisitsInit /\ AnalyticsInit

Next ==
  \/ \E r \in Requests : ShortStep(r) /\ UNCHANGED <<visitVars, analyticsVars>>
  \/ \E r \in Requests : VisitStep(r) /\ UNCHANGED <<shortVars, analyticsVars>>
  \/ \E r \in Requests : AnalyticsStep(r) /\ UNCHANGED shortVars
  \/ DeleteExpiredShortlinks /\ UNCHANGED <<visitVars, analyticsVars>>
  \/ \E h \in Hours : AggregateHourly(h) /\ UNCHANGED shortVars
  \/ \E l \in DOMAIN clickCount : DropLink(l) /\ UNCHANGED <<shortVars, analyticsVars>>
  \/ (Tick \/ Die) /\ UNCHANGED <<shortVars, visitVars, analyticsVars>>

Spec == Init /\ [][Next]_vars
============================================================================
