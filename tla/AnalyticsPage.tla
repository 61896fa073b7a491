--------------------------- MODULE AnalyticsPage ---------------------------
(***************************************************************************)
(* The pages that show traffic (OverviewPage.jsx, AnalyticsPage.jsx): the  *)
(* counters with the chart on one, the list of events on the other; and    *)
(* the part of the API that they call, with the traffic behind it.         *)
(***************************************************************************)
EXTENDS App, ChartData

CONSTANTS
  OldEvents,      \* numbers of events that may be stored at the start
  MaxRequests,    \* bound, for each page: requests that arrive
  MaxMore         \* bound: times more events are asked for

ASSUME AnalyticsBounds == OldEvents \subseteq Nat /\ MaxRequests \in [Pages -> Nat] /\ MaxMore \in Nat

\* The time of a behaviour, in minutes.
Minutes == {0, 20, 40}

NoTraffic ==
  [requests |-> 0, rejected |-> 0, allowed |-> 0, minute |-> 0, old |-> 0,
   stored |-> [allowed |-> [m \in Minutes |-> 0], rejected |-> [m \in Minutes |-> 0]]]

-----------------------------------------------------------------------------
(* Traffic: a request is counted when it arrives, again when it is decided, *)
(* and stored as an event some time after.                                  *)

Undecided == traffic.requests - traffic.allowed - traffic.rejected

Total(f) == f[0] + f[20] + f[40]

\* A load is between the first counter and the last.
Gathering(t) == Awaits(t, "allowed") /\ "requests" \notin task[t].got.waiting

Arrive ==
  /\ traffic.requests < MaxRequests[page]
  /\ traffic' = [traffic EXCEPT !.requests = @ + 1]
  /\ task' = [t \in Task |-> IF Gathering(t) THEN [task[t] EXCEPT !.got.stats.arrived = @ + 1]
                             ELSE task[t]]
  /\ UNCHANGED <<page, server, app, panel, timer, history>>

\* Mutant: a rejected request is counted as allowed, too.
CountsBoth(verdict) == [traffic EXCEPT !.rejected = @ + 1, !.allowed = @ + 1]

Counts(verdict) == [traffic EXCEPT ![verdict] = @ + 1]

Decide ==
  /\ Undecided > 0
  /\ \E verdict \in {"allowed", "rejected"} : traffic' = Counts(verdict)
  /\ UNCHANGED <<page, server, app, panel, task, timer, history>>

Store ==
  /\ \E verdict \in {"allowed", "rejected"} :
       /\ Total(traffic.stored[verdict]) < traffic[verdict]
       /\ traffic' = [traffic EXCEPT !.stored[verdict][traffic.minute] = @ + 1]
  /\ UNCHANGED <<page, server, app, panel, task, timer, history>>

TimePasses ==
  /\ traffic.minute + 20 \in Minutes
  /\ traffic' = [traffic EXCEPT !.minute = @ + 20]
  /\ UNCHANGED <<page, server, app, panel, task, timer, history>>

-----------------------------------------------------------------------------
(* What a load receives *)

Counters == {"requests", "rejected", "allowed"}

\* The counters are gathered one after the other.
Earlier(counter) ==
  CASE counter = "requests" -> {}
    [] counter = "rejected" -> {"requests"}
    [] counter = "allowed" -> {"requests", "rejected"}

ReadCounter(t, counter) ==
  /\ Awaits(t, counter)
  /\ Earlier(counter) \cap task[t].got.waiting = {}
  /\ task' = [task EXCEPT ![t].got =
                [task[t].got EXCEPT !.stats[counter] = traffic[counter], !.waiting = @ \ {counter}]]
  /\ UNCHANGED <<page, server, traffic, app, panel, timer, history>>

\* They come in one answer: all of them are zero when that does not come.
ReadStatsFails(t) ==
  /\ Awaits(t, "allowed")
  /\ task' = [task EXCEPT ![t].got =
                [task[t].got EXCEPT !.stats = NoStats, !.waiting = @ \ Counters]]
  /\ UNCHANGED <<page, server, traffic, app, panel, timer, history>>

\* The buckets of the last thirty minutes that have an event.
Timeline ==
  LET stored(m) == Point(m, traffic.stored.allowed[m], traffic.stored.rejected[m])
  IN {stored(m) : m \in {n \in Minutes : /\ n > traffic.minute - 30
                                         /\ traffic.stored.allowed[n] + traffic.stored.rejected[n] > 0}}

ReadTimeline(t) == Receives(t, "timeline", Timeline)

\* Mutant: the limit that is too large is a hundred.
ClampSooner(limit) == IF limit <= 0 \/ limit > 100 THEN 50 ELSE limit

Clamp(limit) == IF limit <= 0 \/ limit > 200 THEN 50 ELSE limit

\* The latest events, up to the limit that the load asks for.
Recent(limit) ==
  LET stored == traffic.old + Total(traffic.stored.allowed) + Total(traffic.stored.rejected)
  IN IF stored < Clamp(limit) THEN stored ELSE Clamp(limit)

ReadEvents(t) == Receives(t, "events", Recent(task[t].sees.limit))

-----------------------------------------------------------------------------
(* What the administrator does *)

\* The effect runs again: it loads, and replaces the timer.
LoadMore(t) ==
  LET render == [Render EXCEPT !.limit = @ + 30]
  IN  /\ Idle(t)
      /\ app.limit < 30 + 30 * MaxMore
      /\ app' = [app EXCEPT !.limit = render.limit]
      /\ timer' = render
      /\ BeginLoad(t, render)
      /\ UNCHANGED <<page, server, traffic, panel, history>>

PickRange ==
  /\ \E r \in DOMAIN rangeConfig \ {app.range} : app' = [app EXCEPT !.range = r]
  /\ UNCHANGED <<page, server, traffic, panel, task, timer, history>>

\* What the chart shows when it is drawn now, which happens when a load ends
\* and when the administrator picks a range.
Chart == buildChartData(app.timeline, app.range, app.stats, traffic.minute)

TrafficNext ==
  /\ page \in {"overview", "analytics"}
  /\ \/ Arrive
     \/ Decide
     \/ Store

OverviewNext ==
  /\ At("overview")
  /\ \/ TimePasses
     \/ PickRange
     \/ \E t \in Task :
          \/ \E counter \in Counters : ReadCounter(t, counter)
          \/ ReadStatsFails(t)
          \/ ReadTimeline(t)

AnalyticsNext ==
  /\ At("analytics")
  /\ \E t \in Task : ReadEvents(t) \/ LoadMore(t)
=============================================================================
