------------------------------ MODULE Dashboard ------------------------------
(***************************************************************************)
(* The dashboard (frontend/src/App.jsx) with all its pages, and what it    *)
(* promises to the administrator.                                          *)
(***************************************************************************)
EXTENDS KeysPage, PoliciesPage, RoutesPage, AnalyticsPage

ASSUME SomePage == Pages # {}

\* The tables are empty but for a policy that the migrations insert, and a
\* route policy of an earlier day.
Init ==
  /\ page \in Pages
  /\ server = [rows |-> CASE At("policies") -> {SeedPolicy} [] At("routes") -> {OldRoute} [] OTHER -> {},
               writes |-> 0, lastId |-> 1]
  /\ traffic \in {[NoTraffic EXCEPT !.old = n] : n \in IF At("analytics") THEN OldEvents ELSE {0}}
  /\ app = [policies |-> <<>>, rows |-> {}, stats |-> NoStats, timeline |-> {}, events |-> 0,
            createdKey |-> Nothing, confirm |-> NoDialog,
            range |-> "30m", limit |-> 30, newPolicy |-> emptyPolicy, slot |-> 1, selected |-> Nothing]
  /\ panel = ClosedPanel(0)
  /\ task = [t \in Task |-> Resting]
  /\ timer = [selected |-> Nothing, limit |-> 30]
  /\ history = [secrets |-> {}, lost |-> {}, deleted |-> {}]

Next ==
  \/ KeysNext
  \/ PoliciesNext
  \/ RoutesNext
  \/ TrafficNext
  \/ OverviewNext
  \/ AnalyticsNext
  \/ Dismiss
  \/ Cancel
  \/ Revisit
  \/ \E t \in Task :
       \/ Poll(t)
       \/ Refresh(t)
       \/ ReadPolicies(t)
       \/ ReadRows(t)
       \/ \E list \in Lists(page) \ Counters : ReadFails(t, list)
       \/ EndLoad(t)
       \/ Confirm(t)
       \/ Fail(t)
       \/ LoseAnswer(t)
       \/ ActionDone(t)

Spec == Init /\ [][Next]_vars

-----------------------------------------------------------------------------
(* Properties *)

Ids == 0..(MaxWrites[page] + 1)

\* Ids, selections, and what stays true of the tables: no two route policies
\* share a slot, and a key has a policy.
TypeOK ==
  /\ server.writes \in 0..MaxWrites[page]
  /\ server.lastId \in Ids
  /\ \A r \in server.rows :
       /\ r.id \in 1..server.lastId /\ r.stamp \in 0..server.writes
       /\ At("keys") => r.value.policy \in ToSet(Policies)
       /\ At("routes") => \A s \in server.rows : s.value.slot = r.value.slot => s = r
  /\ app.policies \in {<<>>, Policies}
  /\ {app.selected, timer.selected} \subseteq {Nothing} \cup ToSet(Policies)
  /\ {app.createdKey, app.confirm.id, panel.editing} \subseteq Ids
  /\ \A t \in Task :
       /\ task[t].at \in {"idle", "sent", "done", "load"}
       /\ task[t].job.what \in Requests
       /\ task[t].job.stamp \in 0..server.writes
  /\ history.secrets \cup history.lost \cup history.deleted \subseteq Ids

\* "The full API key is shown only once after creation" (README.md:261): every
\* key in the database had its secret displayed, unless its answer was lost or
\* is on its way; double clicks and overlapping loads lose none.
SecretsAccounted ==
  At("keys") =>
    {r.id : r \in server.rows} =
      history.secrets \cup history.lost
        \cup {task[t].job.id : t \in {u \in Task : task[u].at = "done" /\ task[u].job.what = "createKey"}}

\* "This key will stop authenticating requests immediately" (App.jsx:181): no
\* request that is sent when a key has been revoked is let in with it, however
\* long the page goes on showing that key and its secret.
RevocationIsImmediate ==
  \A t \in Task :
    (task[t].at = "done" /\ task[t].job.answer = "authenticated") =>
      \A r \in server.rows :
        (r.id = task[t].job.id /\ r.value.revoked) => r.stamp > task[t].job.stamp

\* A step in which a load ends.
Loaded(t) == task[t].at = "load" /\ task'[t].at # "load"

Missing(rows, id, stamp) == ~ \E r \in rows : r.id = id /\ r.stamp >= stamp

\* A handler that ends well shows what it did: the load that follows a write
\* does not miss it, whichever loads overlap it.  (A later answer to an older
\* load may hide it again, until the next one.)
ReadsItsWrites ==
  [][\A t \in Task :
       LET job == task[t].job
       IN (Loaded(t) /\ job.what \in Writes /\ "rows" \notin task[t].got.failed) =>
            IF job.what \in {"deletePolicy", "deleteRoute"}
            THEN Missing(app'.rows, job.id, 0)
            ELSE Missing(app'.rows, job.id, job.stamp) => job.id \in history.deleted]_vars

\* What is saved for a row was made from that row: an editor that was opened
\* while another was being saved, or whose row was away for a while, never
\* sends the draft of one row to another (saveEdit, PolicyPanel.jsx:28).
SavesWhatWasEdited == panel.editing # Nothing => panel.draft.of = panel.editing

\* An editor closes when the administrator cancels it or leaves, or when a
\* save that was begun in the same visit ends; a save of an earlier visit does
\* not close it.  (A save of another row does: PolicyPanel.jsx:30.)
EditorClosesOnlyBySave ==
  [][panel.editing # Nothing /\ panel'.editing = Nothing =>
       \/ Cancel \/ Revisit
       \/ \E t \in Task :
            /\ task[t].job.what \in {"updatePolicy", "updateRoute"}
            /\ task[t].job.visit = panel.visit
            /\ task'[t].at = "idle"]_vars

\* A policy's burst capacity is its limit, or what the form for new policies
\* has from the start: no sequence of edits leaves the burst capacity of an
\* older limit behind (PolicyPanel.jsx:61 and 105).
BurstIsLimitOrDefault ==
  At("policies") => \A r \in server.rows : r.value.burst \in {r.value.limit, emptyPolicy.burst}

\* The counters on display add up, but for the requests that arrived while
\* they were being gathered (stats.go:18).
StatsAddUp == app.stats.allowed + app.stats.rejected <= app.stats.requests + app.stats.arrived

\* "View all" on the analytics page takes no events away: a load shows at
\* least as many as there were when it began.  A limit above two hundred, which
\* the server takes for fifty, shrinks the list to fifty, but no further
\* (App.jsx:184 and request_event_repository.go:31).
MoreShowsMore ==
  [][\A t \in Task :
       (At("analytics") /\ Loaded(t) /\ task[t].got.failed = {}) =>
         \/ app'.events >= task[t].got.before
         \/ task[t].sees.limit > 200 /\ app'.events >= 50]_vars

\* "Live request timeline from backend telemetry" (TrafficChart.jsx:15): when
\* the last timeline has a bucket in the range that is picked, every
\* point is a bucket, with no more requests than are stored for it.
ChartShowsStoredTraffic ==
  filtered(app.timeline, app.range, traffic.minute) # {} =>
    \A p \in Chart :
      /\ p.t \in Minutes
      /\ p.allowed <= traffic.stored.allowed[p.t]
      /\ p.rejected <= traffic.stored.rejected[p.t]

\* A key is created under the policy assigned to it (README.md:9): a policy
\* that is selected stays selected until the administrator selects another.
SelectionIsKept ==
  [][app.selected # Nothing /\ app'.selected # app.selected => Select]_vars
=============================================================================
