-------------------------- MODULE DashboardProofs --------------------------
(***************************************************************************)
(* What the dashboard keeps for any number of tasks, policies, writes and  *)
(* visits.  The inductive invariant has two parts.  TablesOK is about the  *)
(* table behind a page, the rows on display, the dialog, the editor and    *)
(* the requests on their way; TrafficOK about counters, timeline and       *)
(* events.  Their parts are stated of values (a table, the state of App, a *)
(* task), so that what a step does to one of them is a fact of its own.    *)
(***************************************************************************)
EXTENDS Dashboard, FiniteSetTheorems, TLAPS

ValueFields == {"policy", "slot", "limit", "burst", "revoked"}

TaskRecord(x) ==
  /\ DOMAIN x = {"at", "job", "sees", "got"}
  /\ DOMAIN x.job = {"what", "id", "value", "stamp", "visit", "answer"}
  /\ DOMAIN x.sees = {"selected", "limit"}
  /\ DOMAIN x.got = {"policies", "rows", "stats", "timeline", "events", "waiting", "failed", "before"}
  /\ DOMAIN x.got.stats = {"requests", "rejected", "allowed", "arrived"}

\* The fields that the variables have.
AppRecord(a) ==
  /\ DOMAIN a = {"policies", "rows", "stats", "timeline", "events", "createdKey", "confirm",
                 "range", "limit", "newPolicy", "slot", "selected"}
  /\ DOMAIN a.newPolicy = ValueFields

PanelRecord(n) ==
  /\ DOMAIN n = {"editing", "draft", "visit"}
  /\ DOMAIN n.draft = {"of", "value"}

HistoryRecord(h) == DOMAIN h = {"secrets", "lost", "deleted"}

-----------------------------------------------------------------------------
(* Tables: s is a table, h a history, p a page. *)

RowIds(s) == {r.id : r \in s.rows}

\* A row that is, or was, in the table.
Known(i, s, h) == i \in RowIds(s) \cup h.deleted

BurstOK(value) == value.burst \in {value.limit, 100}

RowOK(r, s, p) ==
  /\ r.id \in 1..s.lastId
  /\ r.stamp \in 0..s.writes
  /\ DOMAIN r.value = ValueFields
  /\ p = "policies" => BurstOK(r.value)

ServerOK(s, p) ==
  /\ s.writes \in Nat
  /\ s.lastId \in 1..(s.writes + 1)
  /\ \A r \in s.rows : RowOK(r, s, p)
  /\ p = "keys" => \A r \in s.rows : r.value.policy \in ToSet(Policies)
  /\ \A r, q \in s.rows : r.id = q.id => r = q
  /\ p = "routes" => \A r, q \in s.rows : r.value.slot = q.value.slot => r = q

HistoryOK(h, s) ==
  /\ h.secrets \cup h.lost \cup h.deleted \subseteq 1..s.lastId
  /\ \A r \in s.rows : r.id \notin h.deleted

DisplayOK(rows, s, h, p) == \A r \in rows : RowOK(r, s, p) /\ Known(r.id, s, h)

Selectable == {Nothing} \cup ToSet(Policies)

Dialogs == {"revokeKey", "deletePolicy", "deleteRoute"}

TablePages == {"keys", "policies", "routes"}

DialogOK(c, s, h, p) ==
  c # NoDialog => c.what \in Dialogs /\ Known(c.id, s, h) /\ p \in TablePages

AppOK(a, s, h, p) ==
  /\ a.policies \in {<<>>, Policies}
  /\ a.selected \in Selectable
  /\ DisplayOK(a.rows, s, h, p)
  /\ a.createdKey \in 0..s.lastId
  /\ DialogOK(a.confirm, s, h, p)
  /\ a.newPolicy.burst = 100

PanelOK(n, s, p) ==
  /\ n.editing \in 0..s.lastId
  /\ DOMAIN n.draft.value = ValueFields
  /\ n.editing # Nothing => n.draft.of = n.editing /\ (p = "policies" => BurstOK(n.draft.value))

JobOK(j, s, h, p) ==
  /\ j.what \in Requests
  /\ j.id \in 0..s.lastId
  /\ j.stamp \in 0..s.writes
  /\ DOMAIN j.value = ValueFields
  /\ j.what \in {"createPolicy", "updatePolicy"} /\ p = "policies" => BurstOK(j.value)
  /\ j.what \in Dialogs => Known(j.id, s, h)

Deletions == {"deletePolicy", "deleteRoute"}

\* A list of rows does not miss what a job has written.
Shown(j, rows, h) ==
  IF j.what \in Deletions THEN Missing(rows, j.id, 0)
  ELSE Missing(rows, j.id, j.stamp) => j.id \in h.deleted

WrittenOK(j, s, h) ==
  j.what \in Writes =>
    /\ Shown(j, s.rows, h)
    /\ j.what \in Deletions => j.id \in h.deleted

\* A key that was let in was not revoked before the request was sent.
LetInOK(j, s) ==
  j.answer = "authenticated" =>
    \A r \in s.rows : (r.id = j.id /\ r.value.revoked) => r.stamp > j.stamp

LoadOK(x, s, h, p) ==
  /\ x.got.policies \in {<<>>, Policies}
  /\ DisplayOK(x.got.rows, s, h, p)
  /\ x.job.what \in Writes /\ "rows" \notin x.got.waiting \cup x.got.failed =>
       Shown(x.job, x.got.rows, h)

TaskOK(x, s, h, p) ==
  /\ x.at \in {"idle", "sent", "done", "load"}
  /\ x.at = "idle" => x.job = NoJob
  /\ x.at \in {"sent", "done"} => p \in TablePages
  /\ x.at = "sent" => x.job.answer = "none"
  /\ x.job.what \in Writes => p \in TablePages
  /\ JobOK(x.job, s, h, p)
  /\ x.at \in {"done", "load"} => WrittenOK(x.job, s, h)
  /\ x.at = "done" => LetInOK(x.job, s)
  /\ x.at = "load" => LoadOK(x, s, h, p)

Writing(x) == x.at = "sent" /\ x.job.what \in Writes

\* A secret that is on its way.
Telling(x) == x.at = "done" /\ x.job.what = "createKey"

Writers(T) == {t \in Task : Writing(T[t])}

\* Every secret was displayed or lost, or is on its way.
SecretsOK(s, h, T) ==
  \A i : i \in RowIds(s) <=>
          i \in h.secrets \cup h.lost \/ \E t \in Task : Telling(T[t]) /\ T[t].job.id = i

TimerOK(m) == DOMAIN m = {"selected", "limit"} /\ m.selected \in Selectable

TablesHold(p, s, h, a, n, T, m) ==
  /\ p \in Pages
  /\ ServerOK(s, p)
  /\ HistoryRecord(h) /\ HistoryOK(h, s)
  /\ AppRecord(a) /\ AppOK(a, s, h, p)
  /\ PanelRecord(n) /\ PanelOK(n, s, p)
  /\ DOMAIN T = Task
  /\ \A t \in Task : TaskRecord(T[t]) /\ TaskOK(T[t], s, h, p)
  /\ TimerOK(m)
  /\ p = "keys" => SecretsOK(s, h, T)
  /\ s.writes + Cardinality(Writers(T)) <= MaxWrites[p]

TablesOK == TablesHold(page, server, history, app, panel, task, timer)

-----------------------------------------------------------------------------
(* What is true of rows, forms and tasks stays true while the table grows. *)

\* The table s with the history h has become s2 with h2: rows were added,
\* changed or deleted, each with a new stamp.
Grows(s, h, s2, h2) ==
  /\ s.writes <= s2.writes /\ s.lastId <= s2.lastId
  /\ h.deleted \subseteq h2.deleted
  /\ \A r \in s.rows :
       r.id \in h2.deleted \/ \E q \in s2.rows : q.id = r.id /\ q.stamp >= r.stamp
  /\ \A q \in s2.rows : q \in s.rows \/ q.stamp > s.writes

LEMMA RowKept ==
  ASSUME NEW s, NEW s2, NEW p, s.writes \in Nat, s2.writes \in Nat, s.lastId \in Nat, s2.lastId \in Nat,
         s.writes <= s2.writes, s.lastId <= s2.lastId, NEW r, RowOK(r, s, p)
  PROVE  RowOK(r, s2, p)
BY DEF RowOK

LEMMA KnownKept ==
  ASSUME NEW s, NEW h, NEW s2, NEW h2, Grows(s, h, s2, h2), NEW i, Known(i, s, h)
  PROVE  Known(i, s2, h2)
<1>1. CASE i \in h.deleted
  BY <1>1 DEF Known, Grows
<1>2. CASE i \in RowIds(s)
  <2>1. PICK r \in s.rows : i = r.id
    BY <1>2 DEF RowIds
  <2>2. r.id \in h2.deleted \/ \E q \in s2.rows : q.id = r.id
    BY DEF Grows
  <2> QED
    BY <2>1, <2>2 DEF Known, RowIds
<1> QED
  BY <1>1, <1>2 DEF Known

LEMMA Sizes ==
  ASSUME NEW s, NEW p, ServerOK(s, p)
  PROVE  /\ s.writes \in Nat /\ s.lastId \in Nat /\ 1 <= s.lastId
         /\ \A r \in s.rows : r.stamp \in Nat /\ r.stamp <= s.writes /\ r.id \in Nat /\ 1 <= r.id
                              /\ r.id <= s.lastId
BY DEF ServerOK, RowOK

LEMMA DisplayKept ==
  ASSUME NEW s, NEW h, NEW s2, NEW h2, NEW p, ServerOK(s, p), ServerOK(s2, p), Grows(s, h, s2, h2),
         NEW rows, DisplayOK(rows, s, h, p)
  PROVE  DisplayOK(rows, s2, h2, p)
<1> SUFFICES ASSUME NEW r \in rows
             PROVE  RowOK(r, s2, p) /\ Known(r.id, s2, h2)
  BY DEF DisplayOK
<1>1. RowOK(r, s, p) /\ Known(r.id, s, h)
  BY DEF DisplayOK
<1>2. s.writes <= s2.writes /\ s.lastId <= s2.lastId
  BY DEF Grows
<1> QED
  BY <1>1, <1>2, Sizes, RowKept, KnownKept

LEMMA AppKept ==
  ASSUME NEW s, NEW h, NEW s2, NEW h2, NEW p, ServerOK(s, p), ServerOK(s2, p), Grows(s, h, s2, h2),
         NEW a, AppOK(a, s, h, p)
  PROVE  AppOK(a, s2, h2, p)
<1>1. DisplayOK(a.rows, s2, h2, p)
  BY DisplayKept DEF AppOK
<1>2. DialogOK(a.confirm, s2, h2, p)
  BY KnownKept DEF AppOK, DialogOK
<1>3. a.createdKey \in 0..s2.lastId
  BY Sizes DEF AppOK, Grows
<1> QED
  BY <1>1, <1>2, <1>3 DEF AppOK

LEMMA PanelKept ==
  ASSUME NEW s, NEW h, NEW s2, NEW h2, NEW p, ServerOK(s, p), ServerOK(s2, p), Grows(s, h, s2, h2),
         NEW n, PanelOK(n, s, p)
  PROVE  PanelOK(n, s2, p)
BY Sizes DEF PanelOK, Grows

LEMMA JobKept ==
  ASSUME NEW s, NEW h, NEW s2, NEW h2, NEW p, ServerOK(s, p), ServerOK(s2, p), Grows(s, h, s2, h2),
         NEW j, JobOK(j, s, h, p)
  PROVE  JobOK(j, s2, h2, p)
<1>1. j.id \in 0..s2.lastId /\ j.stamp \in 0..s2.writes
  BY Sizes DEF JobOK, Grows
<1> QED
  BY <1>1, KnownKept DEF JobOK

\* A deleted row does not come back, and another one is not lost.
LEMMA WrittenKept ==
  ASSUME NEW s, NEW h, NEW s2, NEW h2, NEW p, ServerOK(s, p), ServerOK(s2, p), Grows(s, h, s2, h2),
         HistoryOK(h2, s2), NEW j, JobOK(j, s, h, p), WrittenOK(j, s, h)
  PROVE  WrittenOK(j, s2, h2)
<1> SUFFICES ASSUME j.what \in Writes
             PROVE  /\ Shown(j, s2.rows, h2)
                    /\ j.what \in Deletions => j.id \in h2.deleted
  BY DEF WrittenOK
<1>1. Shown(j, s.rows, h) /\ (j.what \in Deletions => j.id \in h.deleted)
  BY DEF WrittenOK
<1>2. CASE j.what \in Deletions
  <2>1. j.id \in h2.deleted
    BY <1>1, <1>2 DEF Grows
  <2> QED
    BY <1>2, <2>1 DEF Shown, Missing, HistoryOK
<1>3. CASE j.what \notin Deletions
  <2>1. j.stamp \in Nat
    BY DEF JobOK
  <2>2. ASSUME NEW r \in s.rows, r.id = j.id, r.stamp >= j.stamp
        PROVE  Shown(j, s2.rows, h2)
    <3>1. r.stamp \in Nat
      BY Sizes
    <3>2. r.id \in h2.deleted \/ \E q \in s2.rows : q.id = r.id /\ q.stamp >= r.stamp
      BY DEF Grows
    <3>3. \A q \in s2.rows : q.stamp \in Nat
      BY Sizes
    <3> QED
      BY <1>3, <2>1, <2>2, <3>1, <3>2, <3>3 DEF Shown, Missing
  <2>3. CASE j.id \in h.deleted
    BY <1>3, <2>3 DEF Shown, Grows
  <2> QED
    BY <1>1, <1>3, <2>2, <2>3 DEF Shown, Missing
<1> QED
  BY <1>2, <1>3

LEMMA LetInKept ==
  ASSUME NEW s, NEW h, NEW s2, NEW h2, NEW p, ServerOK(s, p), ServerOK(s2, p), Grows(s, h, s2, h2),
         NEW j, JobOK(j, s, h, p), LetInOK(j, s)
  PROVE  LetInOK(j, s2)
<1> SUFFICES ASSUME j.answer = "authenticated", NEW q \in s2.rows, q.id = j.id, q.value.revoked
             PROVE  q.stamp > j.stamp
  BY DEF LetInOK
<1>1. CASE q \in s.rows
  BY <1>1 DEF LetInOK
<1>2. CASE q.stamp > s.writes
  <2>1. j.stamp \in 0..s.writes /\ s.writes \in Nat /\ q.stamp \in Nat
    BY Sizes DEF JobOK
  <2> QED
    BY <1>2, <2>1
<1> QED
  BY <1>1, <1>2 DEF Grows

LEMMA TaskKept ==
  ASSUME NEW s, NEW h, NEW s2, NEW h2, NEW p, ServerOK(s, p), ServerOK(s2, p), Grows(s, h, s2, h2),
         HistoryOK(h2, s2), NEW x, TaskOK(x, s, h, p)
  PROVE  TaskOK(x, s2, h2, p)
<1>1. JobOK(x.job, s, h, p) /\ JobOK(x.job, s2, h2, p)
  BY JobKept DEF TaskOK
<1>2. x.at \in {"done", "load"} => WrittenOK(x.job, s2, h2)
  BY <1>1, WrittenKept DEF TaskOK
<1>3. x.at = "done" => LetInOK(x.job, s2)
  BY <1>1, LetInKept DEF TaskOK
<1>4. ASSUME x.at = "load"
      PROVE  LoadOK(x, s2, h2, p)
  <2>1. LoadOK(x, s, h, p)
    BY <1>4 DEF TaskOK
  <2>2. DisplayOK(x.got.rows, s2, h2, p)
    BY <2>1, DisplayKept DEF LoadOK
  <2>3. Shown(x.job, x.got.rows, h) => Shown(x.job, x.got.rows, h2)
    BY DEF Shown, Grows
  <2> QED
    BY <2>1, <2>2, <2>3 DEF LoadOK
<1> QED
  BY <1>1, <1>2, <1>3, <1>4 DEF TaskOK

-----------------------------------------------------------------------------
(* A step that puts the task t into the state x. *)

LEMMA SecretsSame ==
  ASSUME NEW s, NEW h, NEW T, DOMAIN T = Task, SecretsOK(s, h, T), NEW t \in Task, NEW x,
         Telling(x) <=> Telling(T[t]),
         Telling(x) => x.job.id = T[t].job.id
  PROVE  SecretsOK(s, h, [T EXCEPT ![t] = x])
<1> DEFINE T2 == [T EXCEPT ![t] = x]
<1>1. \A u \in Task : T2[u] = IF u = t THEN x ELSE T[u]
  OBVIOUS
<1> HIDE DEF T2
<1>2. \A u \in Task : /\ Telling(T2[u]) <=> Telling(T[u])
                      /\ Telling(T2[u]) => T2[u].job.id = T[u].job.id
  BY <1>1
<1>3. \A i : (\E u \in Task : Telling(T2[u]) /\ T2[u].job.id = i)
              <=> (\E u \in Task : Telling(T[u]) /\ T[u].job.id = i)
  BY <1>2
<1> QED
  BY <1>3 DEF SecretsOK, T2

LEMMA WritersFinite ==
  ASSUME NEW T
  PROVE  IsFiniteSet(Writers(T)) /\ Cardinality(Writers(T)) \in Nat
<1>1. Writers(T) \in SUBSET Task
  BY DEF Writers
<1> QED
  BY <1>1, AppBounds, FS_Subset, FS_CardinalityType

LEMMA WritersStep ==
  ASSUME NEW T, DOMAIN T = Task, NEW t \in Task, NEW x
  PROVE  LET old == Cardinality(Writers(T))
             new == Cardinality(Writers([T EXCEPT ![t] = x]))
         IN  /\ Writing(T[t]) /\ ~Writing(x) => new = old - 1
             /\ Writing(x) /\ ~Writing(T[t]) => new = old + 1
             /\ (Writing(x) <=> Writing(T[t])) => new = old
<1> DEFINE T2 == [T EXCEPT ![t] = x]
<1>1. \A u \in Task : T2[u] = IF u = t THEN x ELSE T[u]
  OBVIOUS
<1> HIDE DEF T2
<1>2. IsFiniteSet(Writers(T))
  BY WritersFinite
<1>3. CASE Writing(T[t]) /\ ~Writing(x)
  <2>1. Writers(T2) = Writers(T) \ {t} /\ t \in Writers(T)
    BY <1>1, <1>3 DEF Writers
  <2> QED
    BY <1>2, <1>3, <2>1, FS_RemoveElement DEF T2
<1>4. CASE Writing(x) /\ ~Writing(T[t])
  <2>1. Writers(T2) = Writers(T) \cup {t} /\ t \notin Writers(T)
    BY <1>1, <1>4 DEF Writers
  <2> QED
    BY <1>2, <1>4, <2>1, FS_AddElement DEF T2
<1>5. CASE Writing(x) <=> Writing(T[t])
  <2>1. Writers(T2) = Writers(T)
    BY <1>1, <1>5 DEF Writers
  <2> QED
    BY <1>5, <2>1 DEF T2
<1> QED
  BY <1>3, <1>4, <1>5

LEMMA BoundIsNumber ==
  ASSUME NEW p \in Pages
  PROVE  MaxWrites[p] \in Nat /\ MaxTasks[p] \in Nat /\ MaxVisits[p] \in Nat
BY AppBounds

LEMMA Parts ==
  ASSUME TablesOK
  PROVE  /\ page \in Pages
         /\ ServerOK(server, page)
         /\ HistoryRecord(history) /\ HistoryOK(history, server)
         /\ AppRecord(app) /\ AppOK(app, server, history, page)
         /\ PanelRecord(panel) /\ PanelOK(panel, server, page)
         /\ DOMAIN task = Task
         /\ \A t \in Task : TaskRecord(task[t]) /\ TaskOK(task[t], server, history, page)
         /\ TimerOK(timer)
         /\ page = "keys" => SecretsOK(server, history, task)
         /\ server.writes + Cardinality(Writers(task)) <= MaxWrites[page]
BY DEF TablesOK, TablesHold

\* A step that leaves the table alone.
LEMMA TaskStep ==
  ASSUME TablesOK, UNCHANGED <<page, server>>,
         HistoryRecord(history'), HistoryOK(history', server), history'.deleted = history.deleted,
         AppRecord(app'), AppOK(app', server, history, page),
         PanelRecord(panel'), PanelOK(panel', server, page), TimerOK(timer'),
         NEW t \in Task, NEW x, TaskRecord(x), TaskOK(x, server, history, page),
         task' = [task EXCEPT ![t] = x],
         Writing(x) => Writing(task[t]) \/ WritesAsked < MaxWrites[page],
         page = "keys" => SecretsOK(server, history', task')
  PROVE  TablesOK'
<1>1. Grows(server, history, server, history')
  BY Sizes, Parts DEF Grows
<1>2. AppOK(app', server, history', page)
  BY <1>1, AppKept, Parts
<1>3. \A u \in Task : task'[u] = IF u = t THEN x ELSE task[u]
  BY Parts
<1>4. DOMAIN task' = Task
  BY Parts
<1>5. \A u \in Task : TaskRecord(task'[u]) /\ TaskOK(task'[u], server, history', page)
  BY <1>1, <1>3, TaskKept, Parts
<1>6. server.writes + Cardinality(Writers(task')) <= MaxWrites[page]
  <2>1. /\ Writing(task[t]) /\ ~Writing(x) =>
             Cardinality(Writers(task')) = Cardinality(Writers(task)) - 1
        /\ Writing(x) /\ ~Writing(task[t]) =>
             Cardinality(Writers(task')) = Cardinality(Writers(task)) + 1
        /\ (Writing(x) <=> Writing(task[t])) =>
             Cardinality(Writers(task')) = Cardinality(Writers(task))
    BY WritersStep, Parts
  <2>2. /\ Cardinality(Writers(task)) \in Nat /\ server.writes \in Nat /\ MaxWrites[page] \in Nat
    BY WritersFinite, BoundIsNumber, Sizes, Parts
  <2>3. server.writes + Cardinality(Writers(task)) <= MaxWrites[page]
    BY Parts
  <2>4. WritesAsked = server.writes + Cardinality(Writers(task))
    BY DEF WritesAsked, Writers, Writing
  <2>5. Writing(x) => Writing(task[t]) \/ WritesAsked < MaxWrites[page]
    OBVIOUS
  <2> QED
    BY ONLY <2>1, <2>2, <2>3, <2>4, <2>5
<1>7. /\ page \in Pages /\ ServerOK(server, page)
      /\ HistoryRecord(history') /\ HistoryOK(history', server)
      /\ AppRecord(app') /\ PanelRecord(panel') /\ PanelOK(panel', server, page) /\ TimerOK(timer')
      /\ page = "keys" => SecretsOK(server, history', task')
  BY Parts
<1> QED
  BY ONLY <1>2, <1>4, <1>5, <1>6, <1>7, page' = page, server' = server DEF TablesOK, TablesHold

\* A write, which the task t has asked for.
LEMMA WriteStep ==
  ASSUME TablesOK, UNCHANGED <<page, app, panel, timer>>,
         ServerOK(server', page), server'.writes = server.writes + 1,
         HistoryRecord(history'), HistoryOK(history', server'),
         Grows(server, history, server', history'),
         NEW t \in Task, Writing(task[t]),
         NEW x, TaskRecord(x), TaskOK(x, server', history', page), x.at = "done",
         task' = [task EXCEPT ![t] = x],
         page = "keys" => SecretsOK(server', history', task')
  PROVE  TablesOK'
<1>1. AppOK(app, server', history', page) /\ PanelOK(panel, server', page)
  BY AppKept, PanelKept, Parts
<1>2. \A u \in Task : task'[u] = IF u = t THEN x ELSE task[u]
  BY Parts
<1>3. DOMAIN task' = Task
  BY Parts
<1>4. \A u \in Task : TaskRecord(task'[u]) /\ TaskOK(task'[u], server', history', page)
  BY <1>2, TaskKept, Parts
<1>5. ~Writing(x)
  BY DEF Writing
<1>6. server'.writes + Cardinality(Writers(task')) <= MaxWrites[page]
  <2>1. Cardinality(Writers(task')) = Cardinality(Writers(task)) - 1
    BY <1>5, WritersStep, Parts
  <2>2. Cardinality(Writers(task)) \in Nat /\ server.writes \in Nat /\ MaxWrites[page] \in Nat
    BY WritersFinite, BoundIsNumber, Sizes, Parts
  <2>3. server.writes + Cardinality(Writers(task)) <= MaxWrites[page]
    BY Parts
  <2> QED
    BY <2>1, <2>2, <2>3
<1>7. /\ page \in Pages /\ ServerOK(server', page)
      /\ HistoryRecord(history') /\ HistoryOK(history', server')
      /\ AppRecord(app) /\ PanelRecord(panel) /\ TimerOK(timer)
      /\ page = "keys" => SecretsOK(server', history', task')
  BY Parts
<1> QED
  BY ONLY <1>1, <1>3, <1>4, <1>6, <1>7, page' = page, app' = app, panel' = panel, timer' = timer
     DEF TablesOK, TablesHold

\* A step of the administrator that no task is about.
LEMMA FormStep ==
  ASSUME TablesOK, UNCHANGED <<page, server, history, task, timer>>,
         AppRecord(app'), AppOK(app', server, history, page),
         PanelRecord(panel'), PanelOK(panel', server, page)
  PROVE  TablesOK'
<1>1. TablesHold(page, server, history, app', panel', task, timer)
  BY Parts DEF TablesHold
<1> QED
  BY <1>1 DEF TablesOK

-----------------------------------------------------------------------------
(* Tasks that load *)

LEMMA RestingOK ==
  ASSUME NEW s, NEW h, NEW p, ServerOK(s, p)
  PROVE  TaskRecord(Resting) /\ TaskOK(Resting, s, h, p) /\ ~Writing(Resting) /\ ~Telling(Resting)
<1> DEFINE x == Resting
<1>1. TaskRecord(x)
  BY DEF Resting, NoJob, NoRender, NoLoad, NothingRead, NoStats, TaskRecord
<1>2. x.at = "idle" /\ x.job = NoJob
  BY DEF Resting
<1>3. JobOK(NoJob, s, h, p)
  BY Sizes DEF JobOK, NoJob, Blank, ValueFields, Requests, Nothing, Dialogs
<1>4. NoJob.what \notin Writes
  BY DEF NoJob, Writes
<1> QED
  BY <1>1, <1>2, <1>3, <1>4 DEF TaskOK, Writing, Telling

\* A load that begins.
LEMMA LoadingOK ==
  ASSUME NEW s, NEW h, ServerOK(s, page), NEW t, NEW job, NEW render,
         DOMAIN job = {"what", "id", "value", "stamp", "visit", "answer"},
         DOMAIN render = {"selected", "limit"},
         JobOK(job, s, h, page), WrittenOK(job, s, h), job.what \in Writes => page \in TablePages
  PROVE  LET x == Loading(t, job, render)
         IN  TaskRecord(x) /\ TaskOK(x, s, h, page) /\ ~Writing(x) /\ ~Telling(x)
<1> DEFINE x == Loading(t, job, render)
<1>1. x.at = "load" /\ x.job = job /\ x.sees = render /\ x.got = NothingRead
  BY DEF Loading, Reads
<1>2. TaskRecord(x)
  BY <1>1 DEF TaskRecord, Loading, NothingRead, NoStats
<1>3. /\ NothingRead.policies = <<>> /\ NothingRead.rows = {}
      /\ NothingRead.waiting = Lists(page)
  BY DEF NothingRead
<1>4. page \in TablePages => "rows" \in Lists(page)
  BY DEF TablePages, Lists
<1>5. LoadOK(x, s, h, page)
  BY <1>1, <1>3, <1>4 DEF LoadOK, DisplayOK
<1> QED
  BY <1>1, <1>2, <1>5 DEF TaskOK, Writing, Telling

\* A step of the task t that writes nothing and tells no secret.
LEMMA QuietStep ==
  ASSUME TablesOK, NEW t \in Task, NEW x,
         TaskRecord(x), TaskOK(x, server, history, page), ~Writing(x), ~Telling(x), ~Telling(task[t]),
         AppRecord(app'), AppOK(app', server, history, page),
         PanelRecord(panel'), PanelOK(panel', server, page), TimerOK(timer'),
         task' = [task EXCEPT ![t] = x], UNCHANGED <<page, server, history>>
  PROVE  TablesOK'
<1>1. page = "keys" => SecretsOK(server, history, task')
  BY Parts, SecretsSame
<1> QED
  BY <1>1, Parts, TaskStep

LEMMA Renders ==
  ASSUME TablesOK
  PROVE  /\ DOMAIN Render = {"selected", "limit"}
         /\ Render.selected \in Selectable
BY Parts DEF Render, AppOK

LEMMA NoJobOK ==
  ASSUME TablesOK, NEW t \in Task, task[t].at = "idle"
  PROVE  /\ task[t].job = NoJob
         /\ DOMAIN NoJob = {"what", "id", "value", "stamp", "visit", "answer"}
         /\ NoJob.what \notin Writes
         /\ JobOK(NoJob, server, history, page) /\ WrittenOK(NoJob, server, history)
         /\ ~Telling(task[t])
<1>1. task[t].job = NoJob
  BY Parts DEF TaskOK
<1>2. DOMAIN NoJob = {"what", "id", "value", "stamp", "visit", "answer"} /\ NoJob.what \notin Writes
  BY DEF NoJob, Writes
<1>3. JobOK(NoJob, server, history, page) /\ WrittenOK(NoJob, server, history)
  BY <1>1, <1>2, Parts DEF TaskOK, WrittenOK
<1> QED
  BY <1>1, <1>2, <1>3 DEF Telling

\* A load of its own, which no request came before.
LEMMA NewLoad ==
  ASSUME TablesOK, NEW t \in Task, Idle(t), NEW render, DOMAIN render = {"selected", "limit"},
         AppRecord(app'), AppOK(app', server, history, page), TimerOK(timer'),
         BeginLoad(t, render), UNCHANGED <<page, server, panel, history>>
  PROVE  TablesOK'
<1> DEFINE x == Loading(t, task[t].job, render)
<1>1. TaskRecord(x) /\ TaskOK(x, server, history, page) /\ ~Writing(x) /\ ~Telling(x)
  BY NoJobOK, LoadingOK, Parts DEF Idle
<1>2. ~Telling(task[t])
  BY NoJobOK DEF Idle
<1>3. task' = [task EXCEPT ![t] = x]
  BY DEF BeginLoad
<1> HIDE DEF x
<1> QED
  BY <1>1, <1>2, <1>3, Parts, QuietStep

LEMMA PollKeeps ==
  ASSUME TablesOK, NEW t \in Task, Poll(t)
  PROVE  TablesOK'
BY Parts, NewLoad DEF Poll, TimerOK

LEMMA RefreshKeeps ==
  ASSUME TablesOK, NEW t \in Task, Refresh(t)
  PROVE  TablesOK'
BY Parts, Renders, NewLoad DEF Refresh

LEMMA LoadMoreKeeps ==
  ASSUME TablesOK, NEW t \in Task, LoadMore(t)
  PROVE  TablesOK'
<1> DEFINE render == [Render EXCEPT !.limit = @ + 30]
<1>1. TimerOK(render) /\ DOMAIN render = {"selected", "limit"}
  BY Renders DEF TimerOK
<1>2. /\ Idle(t) /\ app' = [app EXCEPT !.limit = render.limit] /\ timer' = render
      /\ BeginLoad(t, render) /\ UNCHANGED <<page, server, panel, history>>
  BY DEF LoadMore
<1> HIDE DEF render
<1>3. AppRecord(app') /\ AppOK(app', server, history, page)
  BY <1>2, Parts DEF AppRecord, AppOK
<1> QED
  BY <1>1, <1>2, <1>3, NewLoad

-----------------------------------------------------------------------------
(* What loads receive *)

\* The load of the task t has received g in all.
LEMMA Gathers ==
  ASSUME TablesOK, NEW t \in Task, task[t].at = "load", NEW g,
         DOMAIN g = {"policies", "rows", "stats", "timeline", "events", "waiting", "failed", "before"},
         DOMAIN g.stats = {"requests", "rejected", "allowed", "arrived"},
         g.policies \in {<<>>, Policies}, DisplayOK(g.rows, server, history, page),
         task[t].job.what \in Writes /\ "rows" \notin g.waiting \cup g.failed =>
           Shown(task[t].job, g.rows, history),
         task' = [task EXCEPT ![t].got = g], UNCHANGED <<page, server, app, panel, timer, history>>
  PROVE  TablesOK'
<1> DEFINE x == [task[t] EXCEPT !.got = g]
<1>1. TaskRecord(task[t]) /\ TaskOK(task[t], server, history, page)
  BY Parts
<1>2. TaskRecord(x) /\ x.at = "load" /\ x.job = task[t].job /\ x.got = g
  BY <1>1 DEF TaskRecord
<1>3. task' = [task EXCEPT ![t] = x]
  OBVIOUS
<1> HIDE DEF x
<1>4. LoadOK(x, server, history, page)
  BY <1>2 DEF LoadOK
<1>5. TaskOK(x, server, history, page) /\ ~Writing(x) /\ ~Telling(x) /\ ~Telling(task[t])
  BY <1>1, <1>2, <1>4 DEF TaskOK, Writing, Telling
<1> QED
  BY <1>2, <1>3, <1>5, Parts, QuietStep

\* What the load of the task t had received.
LEMMA GotSoFar ==
  ASSUME TablesOK, NEW t \in Task, task[t].at = "load"
  PROVE  LET g == task[t].got
         IN  /\ DOMAIN g = {"policies", "rows", "stats", "timeline", "events", "waiting", "failed", "before"}
             /\ DOMAIN g.stats = {"requests", "rejected", "allowed", "arrived"}
             /\ g.policies \in {<<>>, Policies} /\ DisplayOK(g.rows, server, history, page)
             /\ task[t].job.what \in Writes /\ "rows" \notin g.waiting \cup g.failed =>
                  Shown(task[t].job, g.rows, history)
BY Parts DEF TaskRecord, TaskOK, LoadOK

LEMMA ReadPoliciesKeeps ==
  ASSUME TablesOK, NEW t \in Task, ReadPolicies(t)
  PROVE  TablesOK'
<1> DEFINE g == [task[t].got EXCEPT !["policies"] = Policies, !.waiting = @ \ {"policies"}]
<1>1. task[t].at = "load" /\ task' = [task EXCEPT ![t].got = g]
      /\ UNCHANGED <<page, server, app, panel, timer, history>>
  BY DEF ReadPolicies, Receives, Awaits
<1>2. /\ DOMAIN g = DOMAIN task[t].got /\ g.stats = task[t].got.stats
      /\ g.policies = Policies /\ g.rows = task[t].got.rows
      /\ "rows" \in g.waiting <=> "rows" \in task[t].got.waiting
      /\ g.failed = task[t].got.failed
  BY <1>1, GotSoFar
<1> HIDE DEF g
<1> QED
  BY <1>1, <1>2, GotSoFar, Gathers

LEMMA ReadRowsKeeps ==
  ASSUME TablesOK, NEW t \in Task, ReadRows(t)
  PROVE  TablesOK'
<1> DEFINE g == [task[t].got EXCEPT !["rows"] = server.rows, !.waiting = @ \ {"rows"}]
<1>1. task[t].at = "load" /\ task' = [task EXCEPT ![t].got = g]
      /\ UNCHANGED <<page, server, app, panel, timer, history>>
  BY DEF ReadRows, Receives, Awaits
<1>2. /\ DOMAIN g = DOMAIN task[t].got /\ g.stats = task[t].got.stats
      /\ g.policies = task[t].got.policies /\ g.rows = server.rows
  BY <1>1, GotSoFar
<1> HIDE DEF g
<1>3. DisplayOK(server.rows, server, history, page)
  BY Parts DEF DisplayOK, ServerOK, Known, RowIds
<1>4. task[t].job.what \in Writes => Shown(task[t].job, server.rows, history)
  BY <1>1, Parts DEF TaskOK, WrittenOK
<1> QED
  BY <1>1, <1>2, <1>3, <1>4, GotSoFar, Gathers

LEMMA ReadFailsKeeps ==
  ASSUME TablesOK, NEW t \in Task, NEW list, ReadFails(t, list)
  PROVE  TablesOK'
<1> DEFINE g == [task[t].got EXCEPT !.waiting = @ \ {list}, !.failed = @ \cup {list}]
<1>1. task[t].at = "load" /\ task' = [task EXCEPT ![t].got = g]
      /\ UNCHANGED <<page, server, app, panel, timer, history>>
  BY DEF ReadFails, Awaits
<1>2. /\ DOMAIN g = DOMAIN task[t].got /\ g.stats = task[t].got.stats
      /\ g.policies = task[t].got.policies /\ g.rows = task[t].got.rows
      /\ task[t].got.waiting \cup task[t].got.failed \subseteq g.waiting \cup g.failed
  BY <1>1, GotSoFar
<1> HIDE DEF g
<1> QED
  BY <1>1, <1>2, GotSoFar, Gathers

\* A load that receives what no table is about.
LEMMA TrafficGathered ==
  ASSUME TablesOK, NEW t \in Task, task[t].at = "load", NEW g,
         DOMAIN g = DOMAIN task[t].got, DOMAIN g.stats = DOMAIN task[t].got.stats,
         g.policies = task[t].got.policies, g.rows = task[t].got.rows, g.failed = task[t].got.failed,
         "rows" \in task[t].got.waiting => "rows" \in g.waiting,
         task' = [task EXCEPT ![t].got = g], UNCHANGED <<page, server, app, panel, timer, history>>
  PROVE  TablesOK'
BY GotSoFar, Gathers

LEMMA ReadTimelineKeeps ==
  ASSUME TablesOK, NEW t \in Task, ReadTimeline(t)
  PROVE  TablesOK'
<1> DEFINE g == [task[t].got EXCEPT !["timeline"] = Timeline, !.waiting = @ \ {"timeline"}]
<1>1. task[t].at = "load" /\ task' = [task EXCEPT ![t].got = g]
      /\ UNCHANGED <<page, server, app, panel, timer, history>>
  BY DEF ReadTimeline, Receives, Awaits
<1>2. /\ DOMAIN g = DOMAIN task[t].got /\ g.stats = task[t].got.stats
      /\ g.policies = task[t].got.policies /\ g.rows = task[t].got.rows
      /\ "rows" \in task[t].got.waiting => "rows" \in g.waiting
      /\ g.failed = task[t].got.failed
  BY <1>1, GotSoFar
<1> HIDE DEF g
<1> QED
  BY <1>1, <1>2, TrafficGathered

LEMMA ReadEventsKeeps ==
  ASSUME TablesOK, NEW t \in Task, ReadEvents(t)
  PROVE  TablesOK'
<1> DEFINE g == [task[t].got EXCEPT !["events"] = Recent(task[t].sees.limit), !.waiting = @ \ {"events"}]
<1>1. task[t].at = "load" /\ task' = [task EXCEPT ![t].got = g]
      /\ UNCHANGED <<page, server, app, panel, timer, history>>
  BY DEF ReadEvents, Receives, Awaits
<1>2. /\ DOMAIN g = DOMAIN task[t].got /\ g.stats = task[t].got.stats
      /\ g.policies = task[t].got.policies /\ g.rows = task[t].got.rows
      /\ "rows" \in task[t].got.waiting => "rows" \in g.waiting
      /\ g.failed = task[t].got.failed
  BY <1>1, GotSoFar
<1> HIDE DEF g
<1> QED
  BY <1>1, <1>2, TrafficGathered

LEMMA ReadCounterKeeps ==
  ASSUME TablesOK, NEW t \in Task, NEW counter \in Counters, ReadCounter(t, counter)
  PROVE  TablesOK'
<1> DEFINE g == [task[t].got EXCEPT !.stats[counter] = traffic[counter], !.waiting = @ \ {counter}]
<1>1. task[t].at = "load" /\ task' = [task EXCEPT ![t].got = g]
      /\ UNCHANGED <<page, server, app, panel, timer, history>>
  BY DEF ReadCounter, Awaits
<1>2. /\ DOMAIN g = DOMAIN task[t].got /\ DOMAIN g.stats = DOMAIN task[t].got.stats
      /\ g.policies = task[t].got.policies /\ g.rows = task[t].got.rows
      /\ "rows" \in task[t].got.waiting => "rows" \in g.waiting
      /\ g.failed = task[t].got.failed
  BY <1>1, GotSoFar DEF Counters
<1> HIDE DEF g
<1> QED
  BY <1>1, <1>2, TrafficGathered

LEMMA ReadStatsFailsKeeps ==
  ASSUME TablesOK, NEW t \in Task, ReadStatsFails(t)
  PROVE  TablesOK'
<1> DEFINE g == [task[t].got EXCEPT !.stats = NoStats, !.waiting = @ \ Counters]
<1>1. task[t].at = "load" /\ task' = [task EXCEPT ![t].got = g]
      /\ UNCHANGED <<page, server, app, panel, timer, history>>
  BY DEF ReadStatsFails, Awaits
<1>2. /\ DOMAIN g = DOMAIN task[t].got /\ DOMAIN g.stats = DOMAIN task[t].got.stats
      /\ g.policies = task[t].got.policies /\ g.rows = task[t].got.rows
      /\ "rows" \in task[t].got.waiting => "rows" \in g.waiting
      /\ g.failed = task[t].got.failed
  BY <1>1, GotSoFar DEF Counters, NoStats
<1> HIDE DEF g
<1> QED
  BY <1>1, <1>2, TrafficGathered

-----------------------------------------------------------------------------
(* Loads that end, and requests that come to nothing *)

\* A policy that is chosen from a list is one of them.
LEMMA Choosable ==
  ASSUME NEW ps \in {<<>>, Policies}
  PROVE  /\ ToSet(ps) \subseteq Selectable
         /\ ps # <<>> => Head(ps) \in Selectable
<1>1. Policies \in Seq(Nat \ {0}) /\ Policies # <<>>
  BY AppBounds
<1>2. Head(Policies) = Policies[1] /\ 1 \in DOMAIN Policies
  BY <1>1
<1>3. ToSet(<<>>) = {}
  BY DEF ToSet
<1> QED
  BY <1>1, <1>2, <1>3 DEF ToSet, Selectable

LEMMA ClosedOK ==
  ASSUME NEW s, NEW p, ServerOK(s, p), NEW visit
  PROVE  LET n == ClosedPanel(visit) IN PanelRecord(n) /\ PanelOK(n, s, p)
BY Sizes DEF ClosedPanel, PanelRecord, PanelOK, Blank, ValueFields, Nothing

LEMMA CloseEditorKeeps ==
  ASSUME TablesOK, NEW t \in Task, CloseEditor(t)
  PROVE  PanelRecord(panel') /\ PanelOK(panel', server, page)
BY Parts, ClosedOK DEF CloseEditor

LEMMA EndLoadKeeps ==
  ASSUME TablesOK, NEW t \in Task, EndLoad(t)
  PROVE  TablesOK'
<1> DEFINE got == task[t].got
           chosen == Selection(t)
<1>1. /\ task[t].at = "load"
      /\ app' = [app EXCEPT !.policies = got.policies, !.rows = got.rows, !.stats = got.stats,
                            !.timeline = got.timeline, !.events = got.events, !.selected = chosen]
      /\ task' = [task EXCEPT ![t] = Resting] /\ CloseEditor(t)
      /\ UNCHANGED <<page, server, timer, history>>
  BY DEF EndLoad, Rest
<1>2. chosen \in Selectable
  BY <1>1, GotSoFar, Choosable, Parts DEF Selection, AppOK
<1> HIDE DEF chosen
<1>3. got.policies \in {<<>>, Policies} /\ DisplayOK(got.rows, server, history, page)
  BY <1>1, GotSoFar
<1> HIDE DEF got
<1>4. AppRecord(app') /\ AppOK(app', server, history, page)
  BY <1>1, <1>2, <1>3, Parts DEF AppRecord, AppOK
<1>5. ~Telling(task[t])
  BY <1>1 DEF Telling
<1> QED
  BY <1>1, <1>4, <1>5, RestingOK, CloseEditorKeeps, Parts, QuietStep

LEMMA FailKeeps ==
  ASSUME TablesOK, NEW t \in Task, Fail(t)
  PROVE  TablesOK'
<1>1. /\ task[t].at = "sent" /\ task' = [task EXCEPT ![t] = Resting] /\ CloseEditor(t)
      /\ UNCHANGED <<page, server, app, timer, history>>
  BY DEF Fail, Rest
<1>2. ~Telling(task[t])
  BY <1>1 DEF Telling
<1> QED
  BY <1>1, <1>2, RestingOK, CloseEditorKeeps, Parts, QuietStep

\* What the request of the task t has written was in the table.
LEMMA WrittenId ==
  ASSUME TablesOK, NEW t \in Task, task[t].at = "done", task[t].job.what = "createKey"
  PROVE  task[t].job.id \in 1..server.lastId
<1>1. task[t].job.what \in Writes /\ task[t].job.what \notin Deletions
  BY DEF Writes, Deletions
<1>2. Shown(task[t].job, server.rows, history)
  BY <1>1, Parts DEF TaskOK, WrittenOK
<1>3. CASE task[t].job.id \in history.deleted
  BY <1>3, Parts DEF HistoryOK
<1>4. CASE \E r \in server.rows : r.id = task[t].job.id
  BY <1>4, Parts DEF ServerOK, RowOK
<1> QED
  BY <1>1, <1>2, <1>3, <1>4 DEF Shown, Missing

\* A secret that was on its way has been displayed or lost.
LEMMA SecretTold ==
  ASSUME NEW s, NEW h, NEW h2, NEW T, DOMAIN T = Task, SecretsOK(s, h, T),
         NEW t \in Task, Telling(T[t]), NEW x, ~Telling(x),
         h2.secrets \cup h2.lost = h.secrets \cup h.lost \cup {T[t].job.id}
  PROVE  SecretsOK(s, h2, [T EXCEPT ![t] = x])
<1> DEFINE T2 == [T EXCEPT ![t] = x]
<1>1. \A u \in Task : T2[u] = IF u = t THEN x ELSE T[u]
  OBVIOUS
<1> HIDE DEF T2
<1>2. \A i : (\E u \in Task : Telling(T[u]) /\ T[u].job.id = i)
              <=> i = T[t].job.id \/ \E u \in Task : Telling(T2[u]) /\ T2[u].job.id = i
  BY <1>1
<1>3. \A i : i \in h2.secrets \cup h2.lost <=> i \in h.secrets \cup h.lost \/ i = T[t].job.id
  OBVIOUS
<1> QED
  BY <1>2, <1>3 DEF SecretsOK, T2

LEMMA LoseAnswerKeeps ==
  ASSUME TablesOK, NEW t \in Task, LoseAnswer(t)
  PROVE  TablesOK'
<1> DEFINE id == task[t].job.id
<1>1. /\ task[t].at = "done" /\ task' = [task EXCEPT ![t] = Resting] /\ CloseEditor(t)
      /\ UNCHANGED <<page, server, app, timer>>
  BY DEF LoseAnswer, Rest
<1>2. DOMAIN history = {"secrets", "lost", "deleted"} /\ HistoryOK(history, server)
  BY Parts DEF HistoryRecord
<1>3. /\ HistoryRecord(history') /\ history'.deleted = history.deleted
      /\ history'.secrets = history.secrets
      /\ Telling(task[t]) => history'.lost = history.lost \cup {id}
      /\ ~Telling(task[t]) => history'.lost = history.lost
  BY <1>1, <1>2 DEF LoseAnswer, HistoryRecord, Telling
<1>4. HistoryOK(history', server)
  BY <1>2, <1>3, WrittenId DEF HistoryOK, Telling
<1>5. page = "keys" => SecretsOK(server, history', task')
  <2>1. CASE Telling(task[t])
    <3>1. history'.secrets \cup history'.lost = history.secrets \cup history.lost \cup {id}
      BY <1>3, <2>1
    <3> QED
      BY <1>1, <2>1, <3>1, Parts, RestingOK, SecretTold
  <2>2. CASE ~Telling(task[t])
    <3>1. page = "keys" => SecretsOK(server, history, task')
      BY <1>1, <2>2, Parts, RestingOK, SecretsSame
    <3> QED
      BY <1>3, <2>2, <3>1 DEF SecretsOK
  <2> QED
    BY <2>1, <2>2
<1> QED
  BY <1>1, <1>3, <1>4, <1>5, RestingOK, CloseEditorKeeps, Parts, TaskStep

\* The load after a request that was done.
LEMMA LoadAfter ==
  ASSUME TablesOK, NEW t \in Task, NEW whats, Continue(t, whats)
  PROVE  \E x : /\ task' = [task EXCEPT ![t] = x] /\ TaskRecord(x)
                /\ TaskOK(x, server, history, page) /\ ~Writing(x) /\ ~Telling(x)
<1> DEFINE x == Loading(t, task[t].job, task[t].sees)
<1>1. task[t].at = "done" /\ task' = [task EXCEPT ![t] = x]
  BY DEF Continue, BeginLoad
<1>2. /\ JobOK(task[t].job, server, history, page) /\ WrittenOK(task[t].job, server, history)
      /\ task[t].job.what \in Writes => page \in TablePages
      /\ DOMAIN task[t].job = {"what", "id", "value", "stamp", "visit", "answer"}
      /\ DOMAIN task[t].sees = {"selected", "limit"}
  BY <1>1, Parts DEF TaskRecord, TaskOK
<1>3. TaskRecord(x) /\ TaskOK(x, server, history, page) /\ ~Writing(x) /\ ~Telling(x)
  BY <1>2, Parts, LoadingOK
<1> QED
  BY <1>1, <1>3

LEMMA ContinueKeeps ==
  ASSUME TablesOK, NEW t \in Task, NEW whats, Continue(t, whats), "createKey" \notin whats,
         AppRecord(app'), AppOK(app', server, history, page), UNCHANGED history
  PROVE  TablesOK'
<1>1. ~Telling(task[t])
  BY DEF Continue, Telling
<1>2. PICK x : /\ task' = [task EXCEPT ![t] = x] /\ TaskRecord(x)
              /\ TaskOK(x, server, history, page) /\ ~Writing(x) /\ ~Telling(x)
  BY LoadAfter
<1> QED
  BY <1>1, <1>2, Parts, QuietStep DEF Continue

LEMMA ActionDoneKeeps ==
  ASSUME TablesOK, NEW t \in Task, ActionDone(t)
  PROVE  TablesOK'
<1> DEFINE whats == Writes \ {"createKey", "createPolicy"}
<1>1. Continue(t, whats) /\ "createKey" \notin whats /\ UNCHANGED <<app, history>>
  BY DEF ActionDone
<1> HIDE DEF whats
<1> QED
  BY <1>1, Parts, ContinueKeeps

LEMMA TestAnsweredKeeps ==
  ASSUME TablesOK, NEW t \in Task, TestAnswered(t)
  PROVE  TablesOK'
BY Parts, ContinueKeeps DEF TestAnswered

LEMMA PolicyCreatedKeeps ==
  ASSUME TablesOK, NEW t \in Task, PolicyCreated(t)
  PROVE  TablesOK'
<1>1. Continue(t, {"createPolicy"}) /\ app' = [app EXCEPT !.newPolicy = emptyPolicy] /\ UNCHANGED history
  BY DEF PolicyCreated
<1>2. DOMAIN emptyPolicy = ValueFields /\ emptyPolicy.burst = 100
  BY DEF emptyPolicy, Blank, ValueFields
<1>3. AppRecord(app') /\ AppOK(app', server, history, page)
  BY <1>1, <1>2, Parts DEF AppRecord, AppOK
<1> QED
  BY <1>1, <1>3, ContinueKeeps

LEMMA KeyCreatedKeeps ==
  ASSUME TablesOK, NEW t \in Task, KeyCreated(t)
  PROVE  TablesOK'
<1> DEFINE id == task[t].job.id
<1>1. /\ Continue(t, {"createKey"})
      /\ app' = [app EXCEPT !.createdKey = id]
      /\ history' = [history EXCEPT !.secrets = @ \cup {id}]
  BY DEF KeyCreated, Shows
<1>2. Telling(task[t]) /\ UNCHANGED <<page, server, panel, timer>>
  BY <1>1 DEF Continue, Telling
<1>3. id \in 1..server.lastId
  BY <1>2, WrittenId DEF Telling
<1>4. PICK x : /\ task' = [task EXCEPT ![t] = x] /\ TaskRecord(x)
              /\ TaskOK(x, server, history, page) /\ ~Writing(x) /\ ~Telling(x)
  BY <1>1, LoadAfter
<1>5. /\ HistoryRecord(history') /\ history'.deleted = history.deleted
      /\ history'.secrets \cup history'.lost = history.secrets \cup history.lost \cup {id}
  BY <1>1, Parts DEF HistoryRecord
<1>6. HistoryOK(history', server)
  BY <1>3, <1>5, Parts DEF HistoryOK
<1>7. AppRecord(app') /\ AppOK(app', server, history, page)
  BY <1>1, <1>3, Sizes, Parts DEF AppRecord, AppOK
<1>8. page = "keys" => SecretsOK(server, history', task')
  BY <1>2, <1>4, <1>5, Parts, SecretTold
<1> QED
  BY <1>2, <1>4, <1>5, <1>6, <1>7, <1>8, Parts, TaskStep

-----------------------------------------------------------------------------
(* Requests that are sent *)

LEMMA SubmitKeeps ==
  ASSUME TablesOK, NEW t \in Task, NEW job, NEW render, Submit(t, job, render),
         DOMAIN job = {"what", "id", "value", "stamp", "visit", "answer"}, job.answer = "none",
         JobOK(job, server, history, page), page \in TablePages, DOMAIN render = {"selected", "limit"},
         AppRecord(app'), AppOK(app', server, history, page), UNCHANGED panel
  PROVE  TablesOK'
<1> DEFINE x == [Resting EXCEPT !.at = "sent", !.job = job, !.sees = render]
<1>1. /\ task' = [task EXCEPT ![t] = x] /\ Idle(t)
      /\ job.what \in Writes => WritesAsked < MaxWrites[page]
      /\ UNCHANGED <<page, server, timer, history>>
  BY DEF Submit
<1>2. TaskRecord(Resting)
  BY RestingOK, Parts
<1>3. TaskRecord(x) /\ x.at = "sent" /\ x.job = job
  BY <1>2 DEF TaskRecord
<1> HIDE DEF x
<1>4. TaskOK(x, server, history, page) /\ ~Telling(x)
  BY <1>3 DEF TaskOK, Telling
<1>5. ~Telling(task[t])
  BY <1>1, NoJobOK DEF Idle
<1>6. page = "keys" => SecretsOK(server, history, task')
  BY <1>1, <1>4, <1>5, Parts, SecretsSame
<1>7. Writing(x) => WritesAsked < MaxWrites[page]
  BY <1>1, <1>3 DEF Writing
<1> QED
  BY <1>1, <1>3, <1>4, <1>6, <1>7, Parts, TaskStep

\* The administrator's forms and buttons.
LEMMA Jobs ==
  ASSUME NEW what, NEW id, NEW value
  PROVE  LET j == Job(what, id, value)
         IN  /\ DOMAIN j = {"what", "id", "value", "stamp", "visit", "answer"}
             /\ j.what = what /\ j.id = id /\ j.value = value /\ j.stamp = 0 /\ j.answer = "none"
BY DEF Job, NoJob

LEMMA AskForKeyKeeps ==
  ASSUME TablesOK, At("keys"), NEW t \in Task, AskForKey(t)
  PROVE  TablesOK'
<1> DEFINE value == [Blank EXCEPT !.policy = app.selected]
           job == Job("createKey", Nothing, value)
<1>1. Submit(t, job, Render) /\ UNCHANGED <<app, panel>>
  BY DEF AskForKey
<1>2. DOMAIN value = ValueFields
  BY DEF Blank, ValueFields
<1>3. /\ DOMAIN job = {"what", "id", "value", "stamp", "visit", "answer"}
      /\ job.what = "createKey" /\ job.id = Nothing /\ job.value = value /\ job.stamp = 0
      /\ job.answer = "none"
  BY Jobs
<1> HIDE DEF job, value
<1>4. JobOK(job, server, history, page) /\ page \in TablePages
  BY <1>2, <1>3, Sizes, Parts DEF JobOK, Requests, Writes, Dialogs, Nothing, TablePages, At
<1> QED
  BY <1>1, <1>3, <1>4, Parts, Renders, SubmitKeeps

LEMMA TestKeeps ==
  ASSUME TablesOK, At("keys"), NEW t \in Task, Test(t)
  PROVE  TablesOK'
<1> DEFINE j == Job("test", app.createdKey, Blank)
           job == [j EXCEPT !.stamp = server.writes]
<1>1. Submit(t, job, Render) /\ UNCHANGED <<app, panel>>
  BY DEF Test
<1>2. DOMAIN Blank = ValueFields
  BY DEF Blank, ValueFields
<1>3. /\ DOMAIN j = {"what", "id", "value", "stamp", "visit", "answer"}
      /\ j.what = "test" /\ j.id = app.createdKey /\ j.value = Blank /\ j.answer = "none"
  BY Jobs
<1> HIDE DEF j
<1>4. /\ DOMAIN job = {"what", "id", "value", "stamp", "visit", "answer"}
      /\ job.what = "test" /\ job.id = app.createdKey /\ job.value = Blank
      /\ job.stamp = server.writes /\ job.answer = "none"
  BY <1>3
<1> HIDE DEF job
<1>5. JobOK(job, server, history, page) /\ page \in TablePages
  BY <1>2, <1>4, Sizes, Parts DEF JobOK, Requests, Dialogs, TablePages, At, AppOK
<1> QED
  BY <1>1, <1>4, <1>5, Parts, Renders, SubmitKeeps

LEMMA CreatePolicyKeeps ==
  ASSUME TablesOK, At("policies"), NEW t \in Task, CreatePolicy(t)
  PROVE  TablesOK'
<1> DEFINE job == Job("createPolicy", Nothing, app.newPolicy)
<1>1. Submit(t, job, Render) /\ UNCHANGED <<app, panel>>
  BY DEF CreatePolicy
<1>2. DOMAIN app.newPolicy = ValueFields /\ BurstOK(app.newPolicy)
  BY Parts DEF AppRecord, AppOK, BurstOK
<1>3. /\ DOMAIN job = {"what", "id", "value", "stamp", "visit", "answer"}
      /\ job.what = "createPolicy" /\ job.id = Nothing /\ job.value = app.newPolicy /\ job.stamp = 0
      /\ job.answer = "none"
  BY Jobs
<1> HIDE DEF job
<1>4. JobOK(job, server, history, page) /\ page \in TablePages
  BY <1>2, <1>3, Sizes, Parts DEF JobOK, Requests, Writes, Dialogs, Nothing, TablePages, At
<1> QED
  BY <1>1, <1>3, <1>4, Parts, Renders, SubmitKeeps

LEMMA AttachRouteKeeps ==
  ASSUME TablesOK, At("routes"), NEW t \in Task, AttachRoute(t)
  PROVE  TablesOK'
<1> DEFINE value == [Blank EXCEPT !.slot = app.slot, !.policy = app.selected]
           job == Job("createRoute", Nothing, value)
<1>1. Submit(t, job, Render) /\ UNCHANGED <<app, panel>>
  BY DEF AttachRoute
<1>2. DOMAIN value = ValueFields
  BY DEF Blank, ValueFields
<1>3. /\ DOMAIN job = {"what", "id", "value", "stamp", "visit", "answer"}
      /\ job.what = "createRoute" /\ job.id = Nothing /\ job.value = value /\ job.stamp = 0
      /\ job.answer = "none"
  BY Jobs
<1> HIDE DEF job, value
<1>4. JobOK(job, server, history, page) /\ page \in TablePages
  BY <1>2, <1>3, Sizes, Parts DEF JobOK, Requests, Writes, Dialogs, Nothing, TablePages, At
<1> QED
  BY <1>1, <1>3, <1>4, Parts, Renders, SubmitKeeps

\* What an editor sends is its draft.
LEMMA SaveKeeps ==
  ASSUME TablesOK, page \in TablePages, NEW t \in Task, NEW what \in {"updatePolicy", "updateRoute"},
         Save(t, what)
  PROVE  TablesOK'
<1> DEFINE job == Job(what, panel.editing, panel.draft.value)
<1>1. Submit(t, job, Render) /\ UNCHANGED <<app, panel>> /\ Edited # {}
  BY DEF Save
<1>2. panel.editing # Nothing
  BY <1>1, Parts DEF Edited, AppOK, DisplayOK, RowOK, Nothing
<1>3. /\ panel.editing \in 0..server.lastId /\ DOMAIN panel.draft.value = ValueFields
      /\ page = "policies" => BurstOK(panel.draft.value)
  BY <1>2, Parts DEF PanelOK
<1>4. /\ DOMAIN job = {"what", "id", "value", "stamp", "visit", "answer"}
      /\ job.what = what /\ job.id = panel.editing /\ job.value = panel.draft.value /\ job.stamp = 0
      /\ job.answer = "none"
  BY Jobs
<1> HIDE DEF job
<1>5. JobOK(job, server, history, page)
  BY <1>3, <1>4, Sizes, Parts DEF JobOK, Requests, Writes, Dialogs
<1> QED
  BY <1>1, <1>4, <1>5, Parts, Renders, SubmitKeeps

LEMMA ConfirmKeeps ==
  ASSUME TablesOK, NEW t \in Task, Confirm(t)
  PROVE  TablesOK'
<1> DEFINE c == app.confirm
           job == Job(c.what, c.id, Blank)
           render == [Render EXCEPT !.selected = c.sees]
<1>1. /\ Submit(t, job, render) /\ app' = [app EXCEPT !.confirm = NoDialog] /\ UNCHANGED panel
      /\ c # NoDialog
  BY DEF Confirm
<1>2. c.what \in Dialogs /\ Known(c.id, server, history) /\ page \in TablePages
  BY <1>1, Parts DEF AppOK, DialogOK
<1>3. c.id \in 0..server.lastId
  BY <1>2, Parts DEF Known, RowIds, ServerOK, RowOK, HistoryOK
<1>4. DOMAIN Blank = ValueFields
  BY DEF Blank, ValueFields
<1>5. /\ DOMAIN job = {"what", "id", "value", "stamp", "visit", "answer"}
      /\ job.what = c.what /\ job.id = c.id /\ job.value = Blank /\ job.stamp = 0
      /\ job.answer = "none"
  BY Jobs
<1>6. DOMAIN render = {"selected", "limit"}
  BY Renders
<1> HIDE DEF job, render, c
<1>7. JobOK(job, server, history, page)
  BY <1>2, <1>3, <1>4, <1>5, Sizes, Parts DEF JobOK, Requests, Writes, Dialogs
<1>8. AppRecord(app') /\ AppOK(app', server, history, page)
  BY <1>1, Parts DEF AppRecord, AppOK, DialogOK
<1> QED
  BY <1>1, <1>2, <1>5, <1>6, <1>7, <1>8, SubmitKeeps

-----------------------------------------------------------------------------
(* What the server writes *)

\* A row more, with a new id.
LEMMA Inserted ==
  ASSUME NEW s, NEW h, NEW p, ServerOK(s, p), HistoryOK(h, s), NEW s2, NEW value,
         DOMAIN value = ValueFields,
         p = "policies" => BurstOK(value),
         p = "keys" => value.policy \in ToSet(Policies),
         p = "routes" => \A r \in s.rows : r.value.slot # value.slot,
         s2.rows = s.rows \cup {Row(s.lastId + 1, value, s.writes + 1)},
         s2.writes = s.writes + 1, s2.lastId = s.lastId + 1
  PROVE  ServerOK(s2, p) /\ HistoryOK(h, s2) /\ Grows(s, h, s2, h)
<1> DEFINE new == Row(s.lastId + 1, value, s.writes + 1)
<1>1. new.id = s.lastId + 1 /\ new.value = value /\ new.stamp = s.writes + 1
  BY DEF Row
<1> HIDE DEF new
<1>2. s2.rows = s.rows \cup {new}
  BY DEF new
<1>3. /\ s.writes \in Nat /\ s.lastId \in Nat /\ 1 <= s.lastId /\ s.lastId <= s.writes + 1
      /\ s2.lastId \in 1..(s2.writes + 1) /\ s2.writes \in Nat
  BY Sizes DEF ServerOK
<1>4. RowOK(new, s2, p)
  BY <1>1, <1>3 DEF RowOK
<1>5. \A r \in s2.rows : RowOK(r, s2, p)
  <2>1. \A r \in s.rows : RowOK(r, s, p)
    BY DEF ServerOK
  <2>2. \A r \in s.rows : RowOK(r, s2, p)
    BY <1>3, <2>1, RowKept
  <2> QED
    BY <1>2, <1>4, <2>2
<1>6. \A r \in s.rows : r.id # new.id
  BY <1>1, <1>3, Sizes
<1>7. /\ \A r, q \in s2.rows : r.id = q.id => r = q
      /\ p = "routes" => \A r, q \in s2.rows : r.value.slot = q.value.slot => r = q
      /\ p = "keys" => \A r \in s2.rows : r.value.policy \in ToSet(Policies)
  BY <1>1, <1>2, <1>6 DEF ServerOK
<1>8. ServerOK(s2, p)
  BY <1>3, <1>5, <1>7 DEF ServerOK
<1>9. HistoryOK(h, s2)
  <2>1. new.id \notin h.deleted /\ h.secrets \cup h.lost \cup h.deleted \subseteq 1..s2.lastId
    BY <1>1, <1>3 DEF HistoryOK
  <2> QED
    BY <1>2, <2>1 DEF HistoryOK
<1>10. Grows(s, h, s2, h)
  BY <1>1, <1>2, <1>3, Sizes DEF Grows
<1> QED
  BY <1>8, <1>9, <1>10

\* The row id with another value.
LEMMA Updated ==
  ASSUME NEW s, NEW h, NEW p, ServerOK(s, p), HistoryOK(h, s), NEW s2, NEW id, NEW value,
         \E r \in s.rows : r.id = id,
         DOMAIN value = ValueFields,
         p = "policies" => BurstOK(value),
         p = "keys" => value.policy \in ToSet(Policies),
         p = "routes" => \A r \in s.rows : r.value.slot = value.slot => r.id = id,
         s2.rows = {r \in s.rows : r.id # id} \cup {Row(id, value, s.writes + 1)},
         s2.writes = s.writes + 1, s2.lastId = s.lastId
  PROVE  ServerOK(s2, p) /\ HistoryOK(h, s2) /\ Grows(s, h, s2, h) /\ RowIds(s2) = RowIds(s)
<1> DEFINE new == Row(id, value, s.writes + 1)
<1>1. new.id = id /\ new.value = value /\ new.stamp = s.writes + 1
  BY DEF Row
<1> HIDE DEF new
<1>2. s2.rows = {r \in s.rows : r.id # id} \cup {new}
  BY DEF new
<1>3. /\ s.writes \in Nat /\ s.lastId \in Nat
      /\ s2.lastId \in 1..(s2.writes + 1) /\ s2.writes \in Nat
      /\ id \in 1..s.lastId
  BY Sizes DEF ServerOK
<1>4. RowOK(new, s2, p)
  BY <1>1, <1>3 DEF RowOK
<1>5. \A r \in s2.rows : RowOK(r, s2, p)
  <2>1. \A r \in s.rows : RowOK(r, s, p)
    BY DEF ServerOK
  <2>2. \A r \in s.rows : RowOK(r, s2, p)
    BY <1>3, <2>1, RowKept
  <2> QED
    BY <1>2, <1>4, <2>2
<1>6. /\ \A r, q \in s2.rows : r.id = q.id => r = q
      /\ p = "routes" => \A r, q \in s2.rows : r.value.slot = q.value.slot => r = q
      /\ p = "keys" => \A r \in s2.rows : r.value.policy \in ToSet(Policies)
  BY <1>1, <1>2 DEF ServerOK
<1>7. ServerOK(s2, p)
  BY <1>3, <1>5, <1>6 DEF ServerOK
<1>8. id \notin h.deleted
  BY DEF HistoryOK
<1>9. HistoryOK(h, s2)
  BY <1>1, <1>2, <1>8 DEF HistoryOK
<1>10. Grows(s, h, s2, h)
  <2>1. \A r \in s.rows : \E q \in s2.rows : q.id = r.id /\ q.stamp >= r.stamp
    BY <1>1, <1>2, <1>3, Sizes
  <2>2. \A q \in s2.rows : q \in s.rows \/ q.stamp > s.writes
    BY <1>1, <1>2, <1>3
  <2> QED
    BY <1>3, <2>1, <2>2 DEF Grows
<1>11. RowIds(s2) = RowIds(s)
  BY <1>1, <1>2 DEF RowIds
<1> QED
  BY <1>7, <1>9, <1>10, <1>11

\* The row id is gone.
LEMMA Deleted ==
  ASSUME NEW s, NEW h, NEW p, ServerOK(s, p), HistoryOK(h, s), NEW s2, NEW h2, NEW id,
         Known(id, s, h),
         s2.rows = {r \in s.rows : r.id # id}, s2.writes = s.writes + 1, s2.lastId = s.lastId,
         h2.secrets = h.secrets, h2.lost = h.lost, h2.deleted = h.deleted \cup {id}
  PROVE  ServerOK(s2, p) /\ HistoryOK(h2, s2) /\ Grows(s, h, s2, h2)
<1>1. /\ s.writes \in Nat /\ s.lastId \in Nat
      /\ s2.lastId \in 1..(s2.writes + 1) /\ s2.writes \in Nat
  BY Sizes DEF ServerOK
<1>2. id \in 1..s.lastId
  BY DEF Known, RowIds, ServerOK, RowOK, HistoryOK
<1>3. \A r \in s2.rows : RowOK(r, s2, p)
  BY <1>1, RowKept DEF ServerOK
<1>4. ServerOK(s2, p)
  BY <1>1, <1>3 DEF ServerOK
<1>5. HistoryOK(h2, s2)
  BY <1>2 DEF HistoryOK
<1>6. Grows(s, h, s2, h2)
  BY <1>1, Sizes DEF Grows
<1> QED
  BY <1>4, <1>5, <1>6

\* What the row r is when the key id has been revoked.
AfterRevoking(r, id, stamp) == IF r.id = id THEN Row(id, [r.value EXCEPT !.revoked = TRUE], stamp) ELSE r

\* The keys with one id are revoked.
LEMMA Revoked ==
  ASSUME NEW s, NEW h, ServerOK(s, "keys"), HistoryOK(h, s), NEW s2, NEW id,
         \A r \in s.rows : AfterRevoking(r, id, s.writes + 1) \in s2.rows,
         \A q \in s2.rows : \E r \in s.rows : q = AfterRevoking(r, id, s.writes + 1),
         s2.writes = s.writes + 1, s2.lastId = s.lastId
  PROVE  ServerOK(s2, "keys") /\ HistoryOK(h, s2) /\ Grows(s, h, s2, h) /\ RowIds(s2) = RowIds(s)
<1> DEFINE now(r) == AfterRevoking(r, id, s.writes + 1)
<1>1. /\ \A r \in s.rows : now(r) \in s2.rows
      /\ \A q \in s2.rows : \E r \in s.rows : q = now(r)
  OBVIOUS
<1>2. /\ s.writes \in Nat /\ s.lastId \in Nat
      /\ s2.lastId \in 1..(s2.writes + 1) /\ s2.writes \in Nat
  BY Sizes DEF ServerOK
<1>3. \A r \in s.rows : /\ RowOK(r, s, "keys") /\ r.stamp \in Nat /\ r.stamp <= s.writes
                         /\ r.value.policy \in ToSet(Policies)
  BY Sizes DEF ServerOK
<1>4. ASSUME NEW r \in s.rows
      PROVE  /\ now(r).id = r.id /\ RowOK(now(r), s2, "keys")
             /\ now(r).value.policy = r.value.policy
             /\ now(r) = r \/ now(r).stamp = s.writes + 1
  <2>1. CASE r.id = id
    <3> DEFINE v == [r.value EXCEPT !.revoked = TRUE]
    <3>1. DOMAIN v = ValueFields /\ v.policy = r.value.policy
      BY <1>3 DEF RowOK, ValueFields
    <3> HIDE DEF v
    <3>2. now(r) = Row(id, v, s.writes + 1)
      BY <2>1 DEF v, AfterRevoking
    <3>3. now(r).id = id /\ now(r).value = v /\ now(r).stamp = s.writes + 1
      BY <3>2 DEF Row
    <3> HIDE DEF now
    <3>4. RowOK(now(r), s2, "keys")
      BY <1>2, <1>3, <2>1, <3>1, <3>3 DEF RowOK
    <3> QED
      BY <2>1, <3>1, <3>3, <3>4
  <2>2. CASE r.id # id
    <3>1. now(r) = r
      BY <2>2 DEF AfterRevoking
    <3>2. RowOK(r, s2, "keys")
      BY <1>2, <1>3, RowKept
    <3> QED
      BY <3>1, <3>2
  <2> QED
    BY <2>1, <2>2
<1>5. \A r \in s.rows : \E q \in s2.rows :
        /\ q = now(r) /\ q.id = r.id
        /\ q = r \/ q.stamp = s.writes + 1
  <2> TAKE r \in s.rows
  <2>1. now(r) \in s2.rows
    BY <1>1
  <2>2. now(r).id = r.id /\ (now(r) = r \/ now(r).stamp = s.writes + 1)
    BY <1>4
  <2> HIDE DEF now
  <2> QED
    BY ONLY <2>1, <2>2
<1>6. \A q \in s2.rows : \E r \in s.rows :
        /\ q = now(r) /\ q.id = r.id /\ RowOK(q, s2, "keys")
        /\ q.value.policy = r.value.policy
        /\ q = r \/ q.stamp = s.writes + 1
  BY <1>1, <1>4
<1> HIDE DEF now
<1>7. \A r, q \in s.rows : r.id = q.id => r = q
  BY DEF ServerOK
<1>8. \A r, q \in s2.rows : r.id = q.id => r = q
  BY ONLY <1>6, <1>7
<1>9. \A q \in s2.rows : RowOK(q, s2, "keys") /\ q.value.policy \in ToSet(Policies)
  BY ONLY <1>3, <1>6
<1>10. ServerOK(s2, "keys")
  BY ONLY <1>2, <1>8, <1>9 DEF ServerOK
<1>11. RowIds(s2) = RowIds(s)
  BY ONLY <1>5, <1>6 DEF RowIds
<1>12. HistoryOK(h, s)
  OBVIOUS
<1>13. HistoryOK(h, s2)
  BY ONLY <1>6, <1>12, s2.lastId = s.lastId DEF HistoryOK
<1>14. Grows(s, h, s2, h)
  <2>1. \A r \in s.rows : \E q \in s2.rows : q.id = r.id /\ q.stamp >= r.stamp
    BY ONLY <1>2, <1>3, <1>5
  <2>2. \A q \in s2.rows : q \in s.rows \/ q.stamp > s.writes
    BY ONLY <1>2, <1>6
  <2>3. s.writes <= s2.writes /\ s.lastId <= s2.lastId
    BY <1>2
  <2> QED
    BY ONLY <2>1, <2>2, <2>3 DEF Grows
<1> QED
  BY <1>10, <1>11, <1>13, <1>14

\* The task t has asked for a write, and the server does it.
LEMMA WriteKeeps ==
  ASSUME TablesOK, NEW t \in Task, task[t].at = "sent", task[t].job.what \in Writes,
         NEW rows, NEW id, Write(t, rows, id), id \in 0..server'.lastId,
         ServerOK(server', page), HistoryRecord(history'), HistoryOK(history', server'),
         Grows(server, history, server', history'),
         IF task[t].job.what \in Deletions THEN id \in history'.deleted
         ELSE id \in history'.deleted \/ \E r \in rows : r.id = id /\ r.stamp = server.writes + 1,
         task[t].job.what \in Dialogs => id = task[t].job.id,
         page = "keys" =>
           /\ history'.secrets = history.secrets /\ history'.lost = history.lost
           /\ RowIds(server') = RowIds(server) \cup
                                 IF task[t].job.what = "createKey" THEN {id} ELSE {}
  PROVE  TablesOK'
<1> DEFINE old == task[t].job
           job == [old EXCEPT !.id = id, !.stamp = server.writes + 1]
           x == [task[t] EXCEPT !.at = "done", !.job = job]
<1>1. /\ TaskRecord(task[t]) /\ TaskOK(task[t], server, history, page)
      /\ JobOK(old, server, history, page) /\ old.answer = "none"
  BY Parts DEF TaskOK
<1>2. /\ server'.rows = rows /\ server'.writes = server.writes + 1
      /\ task' = [task EXCEPT ![t] = x]
      /\ UNCHANGED <<page, app, panel, timer>>
  <2>1. task' = [task EXCEPT ![t].at = "done", ![t].job = job]
    BY DEF Write, Answer
  <2>2. task' = [task EXCEPT ![t] = x]
    BY <2>1
  <2> QED
    BY <2>2 DEF Write, Answer
<1>3. /\ DOMAIN job = DOMAIN old
      /\ job.what = old.what /\ job.value = old.value /\ job.answer = "none"
      /\ job.id = id /\ job.stamp = server.writes + 1
  BY <1>1 DEF TaskRecord
<1> HIDE DEF job
<1>4. TaskRecord(x) /\ x.at = "done" /\ x.job = job
  BY <1>1, <1>3 DEF TaskRecord
<1> HIDE DEF x
<1>5. server.writes \in Nat /\ server'.writes \in Nat
  BY Sizes, Parts
<1>6. JobOK(job, server', history', page)
  <2>1. job.what \in Dialogs => Known(id, server', history')
    <3>1. old.what \in Dialogs => Known(old.id, server, history) /\ id = old.id
      BY <1>1 DEF JobOK
    <3> QED
      BY <1>3, <3>1, KnownKept
  <2>2. job.stamp \in 0..server'.writes
    BY <1>2, <1>3, <1>5
  <2> QED
    BY <1>1, <1>3, <2>1, <2>2 DEF JobOK
<1>7. WrittenOK(job, server', history')
  <2>1. Shown(job, server'.rows, history')
    <3>1. CASE old.what \in Deletions
      BY <1>3, <3>1 DEF Shown, Missing, HistoryOK
    <3>2. CASE old.what \notin Deletions /\ id \in history'.deleted
      BY <1>3, <3>2 DEF Shown
    <3>3. CASE old.what \notin Deletions /\ \E r \in rows : r.id = id /\ r.stamp = server.writes + 1
      BY <1>2, <1>3, <1>5, <3>3 DEF Shown, Missing
    <3> QED
      BY <3>1, <3>2, <3>3
  <2> QED
    BY <1>3, <2>1 DEF WrittenOK
<1>8. TaskOK(x, server', history', page)
  BY <1>1, <1>3, <1>4, <1>6, <1>7 DEF TaskOK, LetInOK
<1>9. page = "keys" => SecretsOK(server', history', task')
  <2> SUFFICES ASSUME page = "keys"
               PROVE  SecretsOK(server', history', task')
    OBVIOUS
  <2>1. \A u \in Task : task'[u] = IF u = t THEN x ELSE task[u]
    BY <1>2, Parts
  <2>2. SecretsOK(server, history, task)
    BY Parts
  <2>3. Telling(x) <=> old.what = "createKey"
    BY <1>3, <1>4 DEF Telling
  <2>4. ~Telling(task[t])
    BY DEF Telling
  <2>5. \A i : (\E u \in Task : Telling(task'[u]) /\ task'[u].job.id = i)
                <=> (\E u \in Task : Telling(task[u]) /\ task[u].job.id = i)
                    \/ (old.what = "createKey" /\ i = id)
    BY <1>3, <1>4, <2>1, <2>3, <2>4
  <2>6. \A i : i \in RowIds(server') <=> i \in RowIds(server) \/ (old.what = "createKey" /\ i = id)
    OBVIOUS
  <2>7. history'.secrets = history.secrets /\ history'.lost = history.lost
    OBVIOUS
  <2> QED
    BY <2>2, <2>5, <2>6, <2>7 DEF SecretsOK
<1> QED
  BY <1>2, <1>4, <1>8, <1>9, WriteStep DEF Writing

\* A request that is to be carried out.
LEMMA SentJob ==
  ASSUME TablesOK, NEW t \in Task, NEW what, Sent(t, what)
  PROVE  /\ task[t].at = "sent" /\ task[t].job.what = what
         /\ JobOK(task[t].job, server, history, page)
         /\ DOMAIN task[t].job.value = ValueFields
         /\ task[t].job.id \in 0..server.lastId
BY Parts DEF Sent, TaskOK, JobOK

LEMMA InsertKeeps ==
  ASSUME TablesOK, NEW t \in Task, NEW what \in {"createKey", "createPolicy", "createRoute"},
         Sent(t, what), NEW value, Insert(t, value), UNCHANGED history,
         DOMAIN value = ValueFields,
         page = "policies" => BurstOK(value),
         page = "keys" => what = "createKey" /\ value.policy \in ToSet(Policies),
         page = "routes" => \A r \in server.rows : r.value.slot # value.slot
  PROVE  TablesOK'
<1> DEFINE id == server.lastId + 1
           new == Row(id, value, server.writes + 1)
           rows == server.rows \cup {new}
<1>1. Write(t, rows, id)
  BY DEF Insert
<1>2. server.lastId \in Nat
  BY Sizes, Parts
<1>3. server'.rows = rows /\ server'.writes = server.writes + 1 /\ server'.lastId = id
  BY <1>1, <1>2 DEF Write
<1>4. ServerOK(server', page) /\ HistoryOK(history, server') /\ Grows(server, history, server', history)
  BY <1>3, Inserted, Parts
<1>5. new.id = id /\ new.stamp = server.writes + 1 /\ new \in rows
  BY DEF Row
<1>6. RowIds(server') = RowIds(server) \cup {id}
  BY <1>3, <1>5 DEF RowIds
<1>7. /\ task[t].at = "sent" /\ task[t].job.what = what /\ what \in Writes
      /\ what \notin Deletions /\ what \notin Dialogs
  BY DEF Sent, Writes, Deletions, Dialogs
<1>8. id \in 0..server'.lastId
  BY <1>2, <1>3
<1>9. page = "keys" => RowIds(server') = RowIds(server) \cup
                         IF task[t].job.what = "createKey" THEN {id} ELSE {}
  BY <1>6, <1>7
<1>10. \E r \in rows : r.id = id /\ r.stamp = server.writes + 1
  BY <1>5
<1> HIDE DEF rows, id, new
<1> QED
  BY <1>1, <1>4, <1>7, <1>8, <1>9, <1>10, Parts, WriteKeeps

LEMMA UpdateKeeps ==
  ASSUME TablesOK, NEW t \in Task, NEW what \in {"updatePolicy", "updateRoute"}, page # "keys",
         Sent(t, what), NEW id, NEW value, Update(t, id, value), UNCHANGED history,
         DOMAIN value = ValueFields,
         page = "policies" => BurstOK(value),
         page = "routes" => \A r \in server.rows : r.value.slot = value.slot => r.id = id
  PROVE  TablesOK'
<1> DEFINE new == Row(id, value, server.writes + 1)
           rows == {r \in server.rows : r.id # id} \cup {new}
<1>1. Write(t, rows, id) /\ \E r \in server.rows : r.id = id
  BY DEF Update
<1>2. server.lastId \in Nat /\ id \in 1..server.lastId
  BY <1>1, Sizes, Parts
<1>3. server'.rows = rows /\ server'.writes = server.writes + 1 /\ server'.lastId = server.lastId
  BY <1>1, <1>2 DEF Write
<1>4. ServerOK(server', page) /\ HistoryOK(history, server') /\ Grows(server, history, server', history)
  BY <1>1, <1>3, Updated, Parts
<1>5. new.id = id /\ new.stamp = server.writes + 1 /\ new \in rows
  BY DEF Row
<1>6. /\ task[t].at = "sent" /\ task[t].job.what = what /\ what \in Writes
      /\ what \notin Deletions /\ what \notin Dialogs
  BY DEF Sent, Writes, Deletions, Dialogs
<1>7. id \in 0..server'.lastId
  BY <1>2, <1>3
<1>8. \E r \in rows : r.id = id /\ r.stamp = server.writes + 1
  BY <1>5
<1> HIDE DEF rows, new
<1> QED
  BY <1>1, <1>4, <1>6, <1>7, <1>8, Parts, WriteKeeps

LEMMA DeleteKeeps ==
  ASSUME TablesOK, NEW t \in Task, NEW what \in Deletions, page # "keys",
         Sent(t, what), Delete(t, task[t].job.id),
         history' = [history EXCEPT !.deleted = @ \cup {task[t].job.id}]
  PROVE  TablesOK'
<1> DEFINE id == task[t].job.id
           rows == {r \in server.rows : r.id # id}
<1>1. Write(t, rows, id)
  BY DEF Delete
<1>2. /\ task[t].at = "sent" /\ task[t].job.what = what /\ what \in Writes
      /\ what \in Deletions /\ what \in Dialogs
  BY DEF Sent, Writes, Deletions, Dialogs
<1>3. Known(id, server, history) /\ id \in 0..server.lastId /\ server.lastId \in Nat
  BY <1>2, SentJob, Sizes, Parts DEF JobOK
<1>4. server'.rows = rows /\ server'.writes = server.writes + 1 /\ server'.lastId = server.lastId
  BY <1>1, <1>3 DEF Write
<1>5. /\ HistoryRecord(history') /\ history'.secrets = history.secrets
      /\ history'.lost = history.lost /\ history'.deleted = history.deleted \cup {id}
  BY Parts DEF HistoryRecord
<1>6. ServerOK(server', page) /\ HistoryOK(history', server') /\ Grows(server, history, server', history')
  BY <1>3, <1>4, <1>5, Deleted, Parts
<1>7. id \in 0..server'.lastId /\ id \in history'.deleted
  BY <1>3, <1>4, <1>5
<1> HIDE DEF rows, id
<1>8. task[t].job.what \in Dialogs => id = task[t].job.id
  BY DEF id
<1> QED
  BY <1>1, <1>2, <1>5, <1>6, <1>7, <1>8, WriteKeeps

LEMMA RevokeKeyKeeps ==
  ASSUME TablesOK, At("keys"), NEW t \in Task, RevokeKey(t)
  PROVE  TablesOK'
<1> DEFINE id == task[t].job.id
           new(r) == Row(id, [r.value EXCEPT !.revoked = TRUE], server.writes + 1)
           rows == {IF r.id = id THEN new(r) ELSE r : r \in server.rows}
<1>1. Sent(t, "revokeKey") /\ Write(t, rows, id) /\ UNCHANGED history
  BY DEF RevokeKey
<1>2. /\ task[t].at = "sent" /\ task[t].job.what = "revokeKey" /\ "revokeKey" \in Writes
      /\ "revokeKey" \notin Deletions /\ "revokeKey" \in Dialogs
  BY <1>1 DEF Sent, Writes, Deletions, Dialogs
<1>3. Known(id, server, history) /\ id \in 0..server.lastId /\ server.lastId \in Nat
  BY <1>1, <1>2, SentJob, Sizes, Parts DEF JobOK
<1>4. server'.rows = rows /\ server'.writes = server.writes + 1 /\ server'.lastId = server.lastId
  BY <1>1, <1>3 DEF Write
<1>5. /\ ServerOK(server', page) /\ HistoryOK(history, server') /\ Grows(server, history, server', history)
      /\ RowIds(server') = RowIds(server)
  <2>1. page = "keys" /\ ServerOK(server, "keys") /\ HistoryOK(history, server)
    BY Parts DEF At
  <2>2. /\ \A r \in server.rows : AfterRevoking(r, id, server.writes + 1) \in server'.rows
        /\ \A q \in server'.rows : \E r \in server.rows : q = AfterRevoking(r, id, server.writes + 1)
    BY <1>4 DEF AfterRevoking
  <2> HIDE DEF id
  <2>3. /\ ServerOK(server', "keys") /\ HistoryOK(history, server') /\ Grows(server, history, server', history)
        /\ RowIds(server') = RowIds(server)
    BY ONLY <1>4, <2>1, <2>2, Revoked
  <2> QED
    BY <2>1, <2>3
<1>6. id \in history.deleted \/ \E r \in rows : r.id = id /\ r.stamp = server.writes + 1
  <2>1. ASSUME NEW r \in server.rows, r.id = id
        PROVE  \E q \in rows : q.id = id /\ q.stamp = server.writes + 1
    <3>1. new(r) \in rows
      BY <2>1
    <3>2. new(r).id = id /\ new(r).stamp = server.writes + 1
      BY DEF Row
    <3> HIDE DEF new
    <3> QED
      BY <3>1, <3>2
  <2> QED
    BY <1>3, <2>1 DEF Known, RowIds
<1>7. id \in 0..server'.lastId
  BY <1>3, <1>4
<1> HIDE DEF rows, id
<1>8. task[t].job.what \in Dialogs => id = task[t].job.id
  BY DEF id
<1> QED
  BY <1>1, <1>2, <1>5, <1>6, <1>7, <1>8, Parts, WriteKeeps

LEMMA InsertKeyKeeps ==
  ASSUME TablesOK, At("keys"), NEW t \in Task, InsertKey(t)
  PROVE  TablesOK'
<1> DEFINE value == task[t].job.value
<1>1. Sent(t, "createKey") /\ value.policy \in ToSet(Policies) /\ Insert(t, value) /\ UNCHANGED history
  BY DEF InsertKey, PolicyExists
<1>2. DOMAIN value = ValueFields
  BY <1>1, SentJob
<1> HIDE DEF value
<1> QED
  BY <1>1, <1>2, InsertKeeps DEF At

LEMMA ValidatedOK ==
  ASSUME NEW value, DOMAIN value = ValueFields, BurstOK(value)
  PROVE  DOMAIN Validated(value) = ValueFields /\ BurstOK(Validated(value))
BY DEF Validated, ValueFields, BurstOK

LEMMA InsertPolicyKeeps ==
  ASSUME TablesOK, At("policies"), NEW t \in Task, InsertPolicy(t)
  PROVE  TablesOK'
<1> DEFINE value == Validated(task[t].job.value)
<1>1. Sent(t, "createPolicy") /\ Insert(t, value) /\ UNCHANGED history
  BY DEF InsertPolicy
<1>2. DOMAIN value = ValueFields /\ BurstOK(value)
  BY <1>1, SentJob, ValidatedOK DEF JobOK, At
<1> HIDE DEF value
<1> QED
  BY <1>1, <1>2, InsertKeeps DEF At

LEMMA UpdatePolicyKeeps ==
  ASSUME TablesOK, At("policies"), NEW t \in Task, UpdatePolicy(t)
  PROVE  TablesOK'
<1> DEFINE value == Validated(task[t].job.value)
<1>1. Sent(t, "updatePolicy") /\ Update(t, task[t].job.id, value) /\ UNCHANGED history
  BY DEF UpdatePolicy
<1>2. DOMAIN value = ValueFields /\ BurstOK(value)
  BY <1>1, SentJob, ValidatedOK DEF JobOK, At
<1> HIDE DEF value
<1> QED
  BY <1>1, <1>2, UpdateKeeps DEF At

LEMMA InsertRouteKeeps ==
  ASSUME TablesOK, At("routes"), NEW t \in Task, InsertRoute(t)
  PROVE  TablesOK'
<1> DEFINE value == task[t].job.value
<1>1. /\ Sent(t, "createRoute") /\ Insert(t, value) /\ UNCHANGED history
      /\ \A r \in server.rows : r.value.slot = value.slot => r.id = Nothing
  BY DEF InsertRoute, Attachable
<1>2. \A r \in server.rows : r.value.slot # value.slot
  BY <1>1, Sizes, Parts DEF Nothing
<1>3. DOMAIN value = ValueFields
  BY <1>1, SentJob
<1> HIDE DEF value
<1> QED
  BY <1>1, <1>2, <1>3, InsertKeeps DEF At

LEMMA UpdateRouteKeeps ==
  ASSUME TablesOK, At("routes"), NEW t \in Task, UpdateRoute(t)
  PROVE  TablesOK'
<1> DEFINE id == task[t].job.id
           value == task[t].job.value
<1>1. /\ Sent(t, "updateRoute") /\ Update(t, id, value) /\ UNCHANGED history
      /\ \A r \in server.rows : r.value.slot = value.slot => r.id = id
  BY DEF UpdateRoute, Attachable
<1>2. DOMAIN value = ValueFields
  BY <1>1, SentJob
<1> HIDE DEF value, id
<1> QED
  BY <1>1, <1>2, UpdateKeeps DEF At

LEMMA DeletePolicyKeeps ==
  ASSUME TablesOK, At("policies"), NEW t \in Task, DeletePolicy(t)
  PROVE  TablesOK'
BY DeleteKeeps DEF DeletePolicy, Deletions, At

LEMMA DeleteRouteKeeps ==
  ASSUME TablesOK, At("routes"), NEW t \in Task, DeleteRoute(t)
  PROVE  TablesOK'
BY DeleteKeeps DEF DeleteRoute, Deletions, At

\* A key that is let in is there, and not revoked.
LEMMA AnswerTestKeeps ==
  ASSUME TablesOK, At("keys"), NEW t \in Task, AnswerTest(t)
  PROVE  TablesOK'
<1> DEFINE old == task[t].job
<1>1. /\ task[t].at = "sent" /\ old.what = "test" /\ JobOK(old, server, history, page)
      /\ TaskRecord(task[t]) /\ TaskOK(task[t], server, history, page)
  BY SentJob, Parts DEF AnswerTest
<1>2. PICK answer \in {"authenticated", "unauthorized"} :
        /\ answer = "authenticated" => old.id = Nothing \/ KnowsKey(old.id)
        /\ Answer(t, [old EXCEPT !.answer = answer])
  BY DEF AnswerTest
<1> DEFINE job == [old EXCEPT !.answer = answer]
           x == [task[t] EXCEPT !.at = "done", !.job = job]
<1>3. task' = [task EXCEPT ![t] = x] /\ UNCHANGED <<page, server, app, panel, timer, history>>
  <2>1. task' = [task EXCEPT ![t].at = "done", ![t].job = job]
    BY <1>2 DEF Answer
  <2>2. task' = [task EXCEPT ![t] = x]
    BY <2>1
  <2> QED
    BY <1>2, <2>2 DEF Answer, AnswerTest
<1>4. /\ DOMAIN job = DOMAIN old /\ job.what = "test" /\ job.value = old.value
      /\ job.answer = answer /\ job.id = old.id /\ job.stamp = old.stamp
  BY <1>1 DEF TaskRecord
<1> HIDE DEF job
<1>5. TaskRecord(x) /\ x.at = "done" /\ x.job = job
  BY <1>1, <1>4 DEF TaskRecord
<1> HIDE DEF x
<1>6. JobOK(job, server, history, page)
  BY <1>1, <1>4 DEF JobOK
<1>7. LetInOK(job, server)
  <2> SUFFICES ASSUME answer = "authenticated", NEW r \in server.rows, r.id = old.id, r.value.revoked
               PROVE  FALSE
    BY <1>4 DEF LetInOK
  <2>1. old.id # Nothing
    BY Sizes, Parts DEF Nothing
  <2>2. PICK q \in server.rows : q.id = old.id /\ ~q.value.revoked
    BY <1>2, <2>1 DEF KnowsKey
  <2>3. q = r
    BY <2>2, Parts DEF ServerOK
  <2> QED
    BY <2>2, <2>3
<1>8. WrittenOK(job, server, history)
  BY <1>4 DEF WrittenOK, Writes
<1>9. TaskOK(x, server, history, page) /\ ~Writing(x) /\ ~Telling(x)
  BY <1>1, <1>4, <1>5, <1>6, <1>7, <1>8 DEF TaskOK, Writing, Telling
<1>10. ~Telling(task[t])
  BY <1>1 DEF Telling
<1> QED
  BY <1>3, <1>5, <1>9, <1>10, Parts, QuietStep

-----------------------------------------------------------------------------
(* What the administrator does *)

LEMMA SelectKeeps ==
  ASSUME TablesOK, Select
  PROVE  TablesOK'
<1>1. PICK p \in ToSet(app.policies) : app' = [app EXCEPT !.selected = p]
  BY DEF Select
<1>2. p \in Selectable
  BY <1>1, Choosable, Parts DEF AppOK
<1>3. AppRecord(app') /\ AppOK(app', server, history, page)
  BY <1>1, <1>2, Parts DEF AppRecord, AppOK
<1> QED
  BY <1>3, Parts, FormStep DEF Select

LEMMA AskKeeps ==
  ASSUME TablesOK, page \in TablePages, NEW what \in Dialogs, NEW r \in app.rows, Ask(what, r.id)
  PROVE  TablesOK'
<1> DEFINE c == [id |-> r.id, sees |-> app.selected, what |-> what]
<1>1. app' = [app EXCEPT !.confirm = c] /\ UNCHANGED <<page, server, panel, task, timer, history>>
  BY DEF Ask
<1>2. c.what \in Dialogs /\ c.id = r.id
  OBVIOUS
<1>3. Known(r.id, server, history)
  BY Parts DEF AppOK, DisplayOK
<1> HIDE DEF c
<1>4. DialogOK(c, server, history, page)
  BY <1>2, <1>3 DEF DialogOK
<1>5. AppRecord(app') /\ AppOK(app', server, history, page)
  BY <1>1, <1>4, Parts DEF AppRecord, AppOK
<1> QED
  BY <1>1, <1>5, Parts, FormStep

LEMMA DismissKeeps ==
  ASSUME TablesOK, Dismiss
  PROVE  TablesOK'
<1>1. app' = [app EXCEPT !.confirm = NoDialog] /\ UNCHANGED <<page, server, panel, task, timer, history>>
  BY DEF Dismiss
<1>2. AppRecord(app') /\ AppOK(app', server, history, page)
  BY <1>1, Parts DEF AppRecord, AppOK, DialogOK
<1> QED
  BY <1>1, <1>2, Parts, FormStep

LEMMA TypePolicyKeeps ==
  ASSUME TablesOK, TypePolicy
  PROVE  TablesOK'
<1>1. PICK n \in Typed : app' = [app EXCEPT !.newPolicy.limit = n]
  BY DEF TypePolicy
<1>2. AppRecord(app') /\ AppOK(app', server, history, page)
  BY <1>1, Parts DEF AppRecord, AppOK, ValueFields
<1> QED
  BY <1>2, Parts, FormStep DEF TypePolicy

LEMMA ResetPolicyKeeps ==
  ASSUME TablesOK, ResetPolicy
  PROVE  TablesOK'
<1>1. DOMAIN emptyPolicy = ValueFields /\ emptyPolicy.burst = 100
  BY DEF emptyPolicy, Blank, ValueFields
<1>2. AppRecord(app') /\ AppOK(app', server, history, page)
  BY <1>1, Parts DEF ResetPolicy, AppRecord, AppOK
<1> QED
  BY <1>2, Parts, FormStep DEF ResetPolicy

LEMMA TypeSlotKeeps ==
  ASSUME TablesOK, TypeSlot
  PROVE  TablesOK'
<1>1. AppRecord(app') /\ AppOK(app', server, history, page)
  BY Parts DEF TypeSlot, AppRecord, AppOK
<1> QED
  BY <1>1, Parts, FormStep DEF TypeSlot

LEMMA FillExampleKeeps ==
  ASSUME TablesOK, FillExample
  PROVE  TablesOK'
<1> DEFINE chosen == IF app.selected = Nothing /\ app.policies # <<>> THEN Head(app.policies) ELSE app.selected
<1>1. app' = [app EXCEPT !.slot = 1, !.selected = chosen]
      /\ UNCHANGED <<page, server, panel, task, timer, history>>
  BY DEF FillExample
<1>2. chosen \in Selectable
  BY Choosable, Parts DEF AppOK
<1> HIDE DEF chosen
<1>3. AppRecord(app') /\ AppOK(app', server, history, page)
  BY <1>1, <1>2, Parts DEF AppRecord, AppOK
<1> QED
  BY <1>1, <1>3, Parts, FormStep

LEMMA PickRangeKeeps ==
  ASSUME TablesOK, PickRange
  PROVE  TablesOK'
<1>1. AppRecord(app') /\ AppOK(app', server, history, page)
  BY Parts DEF PickRange, AppRecord, AppOK
<1> QED
  BY <1>1, Parts, FormStep DEF PickRange

LEMMA StartEditKeeps ==
  ASSUME TablesOK, NEW r \in app.rows, NEW draft, StartEdit(r, draft),
         DOMAIN draft = {"of", "value"}, draft.of = r.id, DOMAIN draft.value = ValueFields,
         page = "policies" => BurstOK(draft.value)
  PROVE  TablesOK'
<1>1. panel' = [panel EXCEPT !.editing = r.id, !.draft = draft]
      /\ UNCHANGED <<page, server, app, task, timer, history>>
  BY DEF StartEdit
<1>2. r.id \in 0..server.lastId
  BY Parts DEF AppOK, DisplayOK, RowOK
<1>3. PanelRecord(panel') /\ PanelOK(panel', server, page)
  BY <1>1, <1>2, Parts DEF PanelRecord, PanelOK
<1> QED
  BY <1>1, <1>3, Parts, FormStep

LEMMA StartPolicyEditKeeps ==
  ASSUME TablesOK, At("policies"), StartPolicyEdit
  PROVE  TablesOK'
<1>1. PICK r \in app.rows : StartEdit(r, PolicyDraft(r))
  BY DEF StartPolicyEdit
<1>2. DOMAIN r.value = ValueFields /\ BurstOK(r.value)
  BY Parts DEF AppOK, DisplayOK, RowOK, At
<1> DEFINE draft == PolicyDraft(r)
<1>3. DOMAIN draft = {"of", "value"} /\ draft.of = r.id
  BY DEF PolicyDraft
<1>4. DOMAIN draft.value = ValueFields /\ BurstOK(draft.value)
  BY <1>2 DEF PolicyDraft, BurstOK, ValueFields
<1> HIDE DEF draft
<1>5. StartEdit(r, draft)
  BY <1>1 DEF draft
<1> QED
  BY <1>3, <1>4, <1>5, StartEditKeeps

LEMMA StartRouteEditKeeps ==
  ASSUME TablesOK, At("routes"), StartRouteEdit
  PROVE  TablesOK'
<1>1. PICK r \in app.rows : StartEdit(r, [of |-> r.id, value |-> r.value])
  BY DEF StartRouteEdit
<1>2. DOMAIN r.value = ValueFields
  BY Parts DEF AppOK, DisplayOK, RowOK
<1> DEFINE draft == [of |-> r.id, value |-> r.value]
<1>3. DOMAIN draft = {"of", "value"} /\ draft.of = r.id /\ draft.value = r.value
  OBVIOUS
<1>4. StartEdit(r, draft)
  BY <1>1
<1> HIDE DEF draft
<1> QED
  BY <1>2, <1>3, <1>4, StartEditKeeps DEF At

LEMMA EditDraftKeeps ==
  ASSUME TablesOK, NEW value, EditDraft(value), DOMAIN value = ValueFields,
         page = "policies" => BurstOK(value)
  PROVE  TablesOK'
<1>1. panel' = [panel EXCEPT !.draft.value = value] /\ UNCHANGED <<page, server, app, task, timer, history>>
  BY DEF EditDraft
<1>2. PanelRecord(panel') /\ PanelOK(panel', server, page)
  BY <1>1, Parts DEF PanelRecord, PanelOK
<1> QED
  BY <1>1, <1>2, Parts, FormStep

LEMMA ChangePolicyDraftKeeps ==
  ASSUME TablesOK, At("policies"), ChangePolicyDraft
  PROVE  TablesOK'
<1>1. PICK n \in Typed : EditDraft(LimitAndBurst(n))
  BY DEF ChangePolicyDraft
<1>2. DOMAIN panel.draft.value = ValueFields
  BY Parts DEF PanelOK
<1>3. DOMAIN LimitAndBurst(n) = ValueFields /\ BurstOK(LimitAndBurst(n))
  BY <1>2 DEF LimitAndBurst, BurstOK, ValueFields
<1> QED
  BY <1>1, <1>3, EditDraftKeeps

LEMMA ChangeRouteDraftKeeps ==
  ASSUME TablesOK, At("routes"), ChangeRouteDraft
  PROVE  TablesOK'
<1>1. DOMAIN panel.draft.value = ValueFields
  BY Parts DEF PanelOK
<1>2. ASSUME NEW slot, EditDraft([panel.draft.value EXCEPT !.slot = slot])
      PROVE  TablesOK'
  BY <1>1, <1>2, EditDraftKeeps DEF At
<1>3. ASSUME NEW p, EditDraft([panel.draft.value EXCEPT !.policy = p])
      PROVE  TablesOK'
  BY <1>1, <1>3, EditDraftKeeps DEF At
<1> QED
  BY <1>2, <1>3 DEF ChangeRouteDraft

LEMMA CancelKeeps ==
  ASSUME TablesOK, Cancel
  PROVE  TablesOK'
BY Parts, ClosedOK, FormStep DEF Cancel

LEMMA RevisitKeeps ==
  ASSUME TablesOK, Revisit
  PROVE  TablesOK'
BY Parts, ClosedOK, FormStep DEF Revisit

\* Requests at the protected endpoint, which only counters are about.
LEMMA ArriveKeeps ==
  ASSUME TablesOK, Arrive
  PROVE  TablesOK'
<1>1. /\ task' = [t \in Task |-> IF Gathering(t) THEN [task[t] EXCEPT !.got.stats.arrived = @ + 1]
                                 ELSE task[t]]
      /\ UNCHANGED <<page, server, app, panel, timer, history>>
  BY DEF Arrive
<1>2. \A t \in Task : TaskRecord(task[t])
  BY Parts
<1>3. DOMAIN task' = Task
  BY <1>1
<1>4. ASSUME NEW t \in Task
      PROVE  /\ TaskRecord(task'[t]) /\ task'[t].at = task[t].at /\ task'[t].job = task[t].job
             /\ task'[t].got.policies = task[t].got.policies /\ task'[t].got.rows = task[t].got.rows
             /\ task'[t].got.waiting = task[t].got.waiting /\ task'[t].got.failed = task[t].got.failed
  <2>1. CASE Gathering(t)
    <3>1. task'[t] = [task[t] EXCEPT !.got.stats.arrived = @ + 1]
      BY <1>1, <2>1
    <3> QED
      BY <1>2, <3>1 DEF TaskRecord
  <2>2. CASE ~Gathering(t)
    BY <1>1, <1>2, <2>2
  <2> QED
    BY <2>1, <2>2
<1>5. \A t \in Task : TaskOK(task[t], server, history, page)
  BY Parts
<1>6. \A t \in Task : TaskOK(task'[t], server, history, page)
  BY <1>4, <1>5 DEF TaskOK, LoadOK
<1>7. Writers(task') = Writers(task)
  BY <1>4 DEF Writers, Writing
<1>8. page = "keys" => SecretsOK(server, history, task')
  <2>1. \A i : (\E t \in Task : Telling(task'[t]) /\ task'[t].job.id = i)
                <=> \E t \in Task : Telling(task[t]) /\ task[t].job.id = i
    BY <1>4 DEF Telling
  <2>2. page = "keys" => SecretsOK(server, history, task)
    BY Parts
  <2> QED
    BY <2>1, <2>2 DEF SecretsOK
<1>9. TablesHold(page, server, history, app, panel, task', timer)
  BY <1>3, <1>4, <1>6, <1>7, <1>8, Parts DEF TablesHold
<1> QED
  BY <1>1, <1>9 DEF TablesOK

LEMMA Unchanged ==
  ASSUME TablesOK, UNCHANGED <<page, server, app, panel, task, timer, history>>
  PROVE  TablesOK'
BY DEF TablesOK

-----------------------------------------------------------------------------
(* The first part of the invariant *)

LEMMA TablesInit ==
  ASSUME Init
  PROVE  TablesOK
<1> USE DEF Init
<1>1. page \in Pages /\ page \in {"keys", "policies", "routes", "overview", "analytics"}
  BY AppBounds
<1>2. /\ server.writes = 0 /\ server.lastId = 1
      /\ server.rows = CASE At("policies") -> {SeedPolicy} [] At("routes") -> {OldRoute} [] OTHER -> {}
  OBVIOUS
<1>3. ServerOK(server, page)
  <2>1. CASE page = "policies"
    <3>1. server.rows = {SeedPolicy}
      BY <1>2, <2>1 DEF At
    <3>2. /\ SeedPolicy.id = 1 /\ SeedPolicy.stamp = 0 /\ DOMAIN SeedPolicy.value = ValueFields
          /\ BurstOK(SeedPolicy.value)
      BY DEF SeedPolicy, Row, Blank, ValueFields, BurstOK
    <3> QED
      BY <1>2, <2>1, <3>1, <3>2 DEF ServerOK, RowOK
  <2>2. CASE page = "routes"
    <3>1. server.rows = {OldRoute}
      BY <1>2, <2>2 DEF At
    <3>2. OldRoute.id = 1 /\ OldRoute.stamp = 0 /\ DOMAIN OldRoute.value = ValueFields
      BY DEF OldRoute, Row, Blank, ValueFields
    <3> QED
      BY <1>2, <2>2, <3>1, <3>2 DEF ServerOK, RowOK
  <2>3. CASE page \notin {"policies", "routes"}
    <3>1. server.rows = {}
      BY <1>2, <2>3 DEF At
    <3> QED
      BY <1>2, <2>3, <3>1 DEF ServerOK, RowOK
  <2> QED
    BY <2>1, <2>2, <2>3
<1>4. HistoryRecord(history) /\ HistoryOK(history, server)
  BY <1>2 DEF HistoryRecord, HistoryOK
<1>5. AppRecord(app) /\ AppOK(app, server, history, page)
  <2>1. DOMAIN emptyPolicy = ValueFields /\ emptyPolicy.burst = 100
    BY DEF emptyPolicy, Blank, ValueFields
  <2> HIDE DEF Init
  <2>2. /\ app.policies = <<>> /\ app.rows = {} /\ app.createdKey = Nothing /\ app.confirm = NoDialog
        /\ app.selected = Nothing /\ app.newPolicy = emptyPolicy
    BY DEF Init
  <2>3. AppRecord(app)
    BY <2>1 DEF Init, AppRecord
  <2> QED
    BY <1>2, <2>1, <2>2, <2>3 DEF AppOK, Selectable, DisplayOK, DialogOK, Nothing
<1>6. PanelRecord(panel) /\ PanelOK(panel, server, page)
  BY <1>3, ClosedOK
<1>7. task = [t \in Task |-> Resting]
  OBVIOUS
<1>8. \A t \in Task : TaskRecord(task[t]) /\ TaskOK(task[t], server, history, page) /\ ~Writing(task[t]) /\ ~Telling(task[t])
  BY <1>3, <1>7, RestingOK
<1>9. TimerOK(timer)
  BY DEF TimerOK, Selectable
<1>10. page = "keys" => SecretsOK(server, history, task)
  <2>1. page = "keys" => server.rows = {}
    BY <1>2 DEF At
  <2>2. history.secrets = {} /\ history.lost = {}
    OBVIOUS
  <2> HIDE DEF Init
  <2> QED
    BY <1>8, <2>1, <2>2 DEF SecretsOK, RowIds
<1>11. server.writes + Cardinality(Writers(task)) <= MaxWrites[page]
  <2>1. Writers(task) = {}
    BY <1>8 DEF Writers
  <2> HIDE DEF Init
  <2> QED
    BY <1>1, <1>2, <2>1, BoundIsNumber, FS_EmptySet
<1> HIDE DEF Init
<1>12. DOMAIN task = Task
  BY <1>7
<1> QED
  BY <1>1, <1>3, <1>4, <1>5, <1>6, <1>8, <1>9, <1>10, <1>11, <1>12 DEF TablesOK, TablesHold

LEMMA KeysKeep ==
  ASSUME TablesOK, KeysNext
  PROVE  TablesOK'
<1>1. page \in TablePages /\ "revokeKey" \in Dialogs
  BY DEF KeysNext, At, TablePages, Dialogs
<1>2. ASSUME AskToRevoke PROVE TablesOK'
  BY <1>1, <1>2, AskKeeps DEF AskToRevoke
<1> QED
  BY <1>2, SelectKeeps, AskForKeyKeeps, InsertKeyKeeps, RevokeKeyKeeps, KeyCreatedKeeps, TestKeeps,
     AnswerTestKeeps, TestAnsweredKeeps DEF KeysNext, SelectKeyPolicy

LEMMA PoliciesKeep ==
  ASSUME TablesOK, PoliciesNext
  PROVE  TablesOK'
<1>1. page \in TablePages /\ "deletePolicy" \in Dialogs
  BY DEF PoliciesNext, At, TablePages, Dialogs
<1>2. ASSUME AskToDeletePolicy PROVE TablesOK'
  BY <1>1, <1>2, AskKeeps DEF AskToDeletePolicy
<1>3. ASSUME NEW t \in Task, SavePolicy(t) PROVE TablesOK'
  BY <1>1, <1>3, SaveKeeps DEF SavePolicy
<1> QED
  BY <1>2, <1>3, TypePolicyKeeps, ResetPolicyKeeps, StartPolicyEditKeeps, ChangePolicyDraftKeeps,
     CreatePolicyKeeps, InsertPolicyKeeps, PolicyCreatedKeeps, UpdatePolicyKeeps, DeletePolicyKeeps
     DEF PoliciesNext

LEMMA RoutesKeep ==
  ASSUME TablesOK, RoutesNext
  PROVE  TablesOK'
<1>1. page \in TablePages /\ "deleteRoute" \in Dialogs
  BY DEF RoutesNext, At, TablePages, Dialogs
<1>2. ASSUME AskToDeleteRoute PROVE TablesOK'
  BY <1>1, <1>2, AskKeeps DEF AskToDeleteRoute
<1>3. ASSUME NEW t \in Task, SaveRoute(t) PROVE TablesOK'
  BY <1>1, <1>3, SaveKeeps DEF SaveRoute
<1> QED
  BY <1>2, <1>3, SelectKeeps, TypeSlotKeeps, FillExampleKeeps, StartRouteEditKeeps, ChangeRouteDraftKeeps,
     AttachRouteKeeps, InsertRouteKeeps, UpdateRouteKeeps, DeleteRouteKeeps
     DEF RoutesNext, SelectRoutePolicy

LEMMA TrafficKeeps ==
  ASSUME TablesOK, TrafficNext \/ OverviewNext \/ AnalyticsNext
  PROVE  TablesOK'
<1>1. ASSUME Decide \/ Store \/ TimePasses PROVE TablesOK'
  BY <1>1, Unchanged DEF Decide, Store, TimePasses
<1> QED
  BY <1>1, ArriveKeeps, PickRangeKeeps, ReadCounterKeeps, ReadStatsFailsKeeps, ReadTimelineKeeps,
     ReadEventsKeeps, LoadMoreKeeps DEF TrafficNext, OverviewNext, AnalyticsNext

LEMMA TablesStep ==
  ASSUME TablesOK, [Next]_vars
  PROVE  TablesOK'
<1>1. ASSUME UNCHANGED vars PROVE TablesOK'
  BY <1>1, Unchanged DEF vars
<1> QED
  BY <1>1, KeysKeep, PoliciesKeep, RoutesKeep, TrafficKeeps, DismissKeeps, CancelKeeps, RevisitKeeps,
     PollKeeps, RefreshKeeps, ReadPoliciesKeeps, ReadRowsKeeps, ReadFailsKeeps, EndLoadKeeps,
     ConfirmKeeps, FailKeeps, LoseAnswerKeeps, ActionDoneKeeps DEF Next

\* The table, the rows on display and the requests on their way agree.
THEOREM TablesInvariance == Spec => []TablesOK
<1>1. Init => TablesOK
  BY TablesInit
<1>2. TablesOK /\ [Next]_vars => TablesOK'
  BY TablesStep
<1> QED
  BY <1>1, <1>2, PTL DEF Spec

-----------------------------------------------------------------------------
(* What follows for the tables *)

\* Ids, stamps and selections are what they should be, no two route policies
\* share a slot, and every key has a policy: for any number of tasks, writes
\* and policies.
THEOREM TypeCorrect == Spec => []TypeOK
<1>1. TablesOK => TypeOK
  <2> SUFFICES ASSUME TablesOK PROVE TypeOK
    OBVIOUS
  <2>1. /\ server.writes \in Nat /\ server.lastId \in 1..(server.writes + 1)
        /\ MaxWrites[page] \in Nat /\ server.writes <= MaxWrites[page]
    <3>1. /\ server.writes \in Nat /\ server.lastId \in 1..(server.writes + 1)
          /\ MaxWrites[page] \in Nat /\ Cardinality(Writers(task)) \in Nat
          /\ server.writes + Cardinality(Writers(task)) <= MaxWrites[page]
      BY Parts, BoundIsNumber, WritersFinite DEF ServerOK
    <3> QED
      BY ONLY <3>1
  <2>2. 0..server.lastId \subseteq Ids /\ 1..server.lastId \subseteq Ids
    BY <2>1 DEF Ids
  <2>3. \A r \in server.rows :
          /\ r.id \in 1..server.lastId /\ r.stamp \in 0..server.writes
          /\ At("keys") => r.value.policy \in ToSet(Policies)
          /\ At("routes") => \A s \in server.rows : s.value.slot = r.value.slot => s = r
    BY Parts DEF ServerOK, RowOK, At
  <2>4. /\ app.policies \in {<<>>, Policies}
        /\ {app.selected, timer.selected} \subseteq {Nothing} \cup ToSet(Policies)
        /\ {app.createdKey, panel.editing} \subseteq Ids
    BY <2>2, Parts DEF AppOK, TimerOK, PanelOK, Selectable
  <2>5. app.confirm.id \in Ids
    <3>1. CASE app.confirm = NoDialog
      BY <2>1, <3>1 DEF NoDialog, Nothing, Ids
    <3>2. CASE app.confirm # NoDialog
      <4>1. Known(app.confirm.id, server, history)
        BY <3>2, Parts DEF AppOK, DialogOK
      <4> QED
        BY <2>2, <2>3, <4>1, Parts DEF Known, RowIds, HistoryOK
    <3> QED
      BY <3>1, <3>2
  <2>6. \A t \in Task : /\ task[t].at \in {"idle", "sent", "done", "load"}
                        /\ task[t].job.what \in Requests
                        /\ task[t].job.stamp \in 0..server.writes
    BY Parts DEF TaskOK, JobOK
  <2>7. history.secrets \cup history.lost \cup history.deleted \subseteq Ids
    BY <2>2, Parts DEF HistoryOK
  <2> QED
    BY <2>1, <2>2, <2>3, <2>4, <2>5, <2>6, <2>7 DEF TypeOK
<1> QED
  BY <1>1, TablesInvariance, PTL

\* "The full API key is shown only once after creation": whatever clicks,
\* loads and answers overlap, the secret of every key was displayed, or its
\* answer is lost, or on its way.
THEOREM SecretsKept == Spec => []SecretsAccounted
<1>1. TablesOK => SecretsAccounted
  <2> SUFFICES ASSUME TablesOK, page = "keys" PROVE SecretsAccounted
    BY DEF SecretsAccounted, At
  <2>1. SecretsOK(server, history, task)
    BY Parts
  <2> DEFINE onTheWay == {task[t].job.id :
                            t \in {u \in Task : task[u].at = "done" /\ task[u].job.what = "createKey"}}
  <2>2. \A i : i \in onTheWay <=> \E t \in Task : Telling(task[t]) /\ task[t].job.id = i
    BY DEF Telling
  <2>3. SecretsAccounted <=> RowIds(server) = history.secrets \cup history.lost \cup onTheWay
    BY DEF SecretsAccounted, RowIds, At
  <2> HIDE DEF onTheWay
  <2>4. RowIds(server) = history.secrets \cup history.lost \cup onTheWay
    BY <2>1, <2>2 DEF SecretsOK
  <2> QED
    BY <2>3, <2>4
<1> QED
  BY <1>1, TablesInvariance, PTL

\* No request that is sent after a key has been revoked is let in with it.
THEOREM RevocationKept == Spec => []RevocationIsImmediate
<1>1. TablesOK => RevocationIsImmediate
  BY Parts DEF RevocationIsImmediate, TaskOK, LetInOK
<1> QED
  BY <1>1, TablesInvariance, PTL

\* The draft in an open editor was made from the row that it will be saved to.
THEOREM SavesKept == Spec => []SavesWhatWasEdited
<1>1. TablesOK => SavesWhatWasEdited
  BY Parts DEF SavesWhatWasEdited, PanelOK
<1> QED
  BY <1>1, TablesInvariance, PTL

\* The burst capacity of a policy is its limit or the form's default, whatever
\* limits are typed and however often.
THEOREM BurstKept == Spec => []BurstIsLimitOrDefault
<1>1. TablesOK => BurstIsLimitOrDefault
  <2>1. emptyPolicy.burst = 100
    BY DEF emptyPolicy, Blank
  <2> QED
    BY <2>1, Parts DEF BurstIsLimitOrDefault, ServerOK, RowOK, BurstOK, At
<1> QED
  BY <1>1, TablesInvariance, PTL

\* A task whose handler is not loading is the only one that a step moves.
LEMMA Elsewhere ==
  ASSUME DOMAIN task = Task, NEW u \in Task, task[u].at # "load", NEW x,
         task' = [task EXCEPT ![u] = x], NEW t \in Task
  PROVE  ~Loaded(t)
BY DEF Loaded

\* A load that receives a list goes on.
LEMMA GoesOn ==
  ASSUME TablesOK, NEW u \in Task, task[u].at = "load", NEW g,
         task' = [task EXCEPT ![u].got = g], NEW t \in Task
  PROVE  ~Loaded(t)
BY Parts DEF Loaded, TaskRecord

LEMMA SubmitsElsewhere ==
  ASSUME TablesOK, NEW u \in Task, NEW job, NEW render, Submit(u, job, render), NEW t \in Task
  PROVE  ~Loaded(t)
BY Parts, Elsewhere DEF Submit, Idle

LEMMA AnswersElsewhere ==
  ASSUME TablesOK, NEW u \in Task, task[u].at = "sent", NEW job, Answer(u, job), NEW t \in Task
  PROVE  ~Loaded(t)
<1>1. task' = [task EXCEPT ![u] = [task[u] EXCEPT !.at = "done", !.job = job]]
  BY DEF Answer
<1> QED
  BY <1>1, Parts, Elsewhere

LEMMA WritesElsewhere ==
  ASSUME TablesOK, NEW u \in Task, task[u].at = "sent", NEW rows, NEW id, Write(u, rows, id), NEW t \in Task
  PROVE  ~Loaded(t)
BY AnswersElsewhere DEF Write

LEMMA ContinuesElsewhere ==
  ASSUME TablesOK, NEW u \in Task, NEW whats, Continue(u, whats), NEW t \in Task
  PROVE  ~Loaded(t)
BY Parts, Elsewhere DEF Continue, BeginLoad

LEMMA ReceivesGoesOn ==
  ASSUME TablesOK, NEW u \in Task, NEW list, NEW value, Receives(u, list, value), NEW t \in Task
  PROVE  ~Loaded(t)
BY GoesOn DEF Receives, Awaits

LEMMA ArriveGoesOn ==
  ASSUME TablesOK, Arrive, NEW t \in Task
  PROVE  ~Loaded(t)
<1>1. TaskRecord(task[t])
  BY Parts
<1>2. task'[t] = IF Gathering(t) THEN [task[t] EXCEPT !.got.stats.arrived = @ + 1] ELSE task[t]
  BY DEF Arrive
<1> QED
  BY <1>1, <1>2 DEF Loaded, TaskRecord

\* A load ends when all its lists are there.
LEMMA OnlyEndLoad ==
  ASSUME TablesOK, [Next]_vars, NEW t \in Task, Loaded(t)
  PROVE  EndLoad(t)
<1>1. ASSUME UNCHANGED task PROVE FALSE
  BY <1>1 DEF Loaded
<1>2. ASSUME NEW u \in Task, EndLoad(u) PROVE EndLoad(t)
  <2>1. task' = [task EXCEPT ![u] = Resting]
    BY <1>2 DEF EndLoad, Rest
  <2>2. u = t
    BY <2>1, Parts DEF Loaded
  <2> QED
    BY <1>2, <2>2
<1>3. ASSUME KeysNext PROVE FALSE
  <2>1. ASSUME SelectKeyPolicy \/ AskToRevoke PROVE FALSE
    BY <1>1, <2>1 DEF SelectKeyPolicy, Select, AskToRevoke, Ask
  <2>2. ASSUME NEW u \in Task, AskForKey(u) \/ Test(u) PROVE FALSE
    BY <2>2, SubmitsElsewhere DEF AskForKey, Test
  <2>3. ASSUME NEW u \in Task, InsertKey(u) \/ RevokeKey(u) PROVE FALSE
    BY <2>3, WritesElsewhere DEF InsertKey, Insert, RevokeKey, Sent
  <2>4. ASSUME NEW u \in Task, KeyCreated(u) \/ TestAnswered(u) PROVE FALSE
    BY <2>4, ContinuesElsewhere DEF KeyCreated, TestAnswered
  <2>5. ASSUME NEW u \in Task, AnswerTest(u) PROVE FALSE
    BY <2>5, AnswersElsewhere DEF AnswerTest, Sent
  <2> QED
    BY <1>3, <2>1, <2>2, <2>3, <2>4, <2>5 DEF KeysNext
<1>4. ASSUME PoliciesNext PROVE FALSE
  <2>1. ASSUME TypePolicy \/ ResetPolicy \/ AskToDeletePolicy PROVE FALSE
    BY <1>1, <2>1 DEF TypePolicy, ResetPolicy, AskToDeletePolicy, Ask
  <2>2. ASSUME StartPolicyEdit \/ ChangePolicyDraft PROVE FALSE
    BY <1>1, <2>2 DEF StartPolicyEdit, ChangePolicyDraft, StartEdit, EditDraft
  <2>3. ASSUME NEW u \in Task, CreatePolicy(u) \/ SavePolicy(u) PROVE FALSE
    BY <2>3, SubmitsElsewhere DEF CreatePolicy, SavePolicy, Save
  <2>4. ASSUME NEW u \in Task, InsertPolicy(u) \/ UpdatePolicy(u) \/ DeletePolicy(u) PROVE FALSE
    BY <2>4, WritesElsewhere DEF InsertPolicy, Insert, UpdatePolicy, Update, DeletePolicy, Delete, Sent
  <2>5. ASSUME NEW u \in Task, PolicyCreated(u) PROVE FALSE
    BY <2>5, ContinuesElsewhere DEF PolicyCreated
  <2> QED
    BY <1>4, <2>1, <2>2, <2>3, <2>4, <2>5 DEF PoliciesNext
<1>5. ASSUME RoutesNext PROVE FALSE
  <2>1. ASSUME TypeSlot \/ SelectRoutePolicy \/ FillExample \/ AskToDeleteRoute PROVE FALSE
    BY <1>1, <2>1 DEF TypeSlot, SelectRoutePolicy, Select, FillExample, AskToDeleteRoute, Ask
  <2>2. ASSUME StartRouteEdit \/ ChangeRouteDraft PROVE FALSE
    BY <1>1, <2>2 DEF StartRouteEdit, ChangeRouteDraft, StartEdit, EditDraft
  <2>3. ASSUME NEW u \in Task, AttachRoute(u) \/ SaveRoute(u) PROVE FALSE
    BY <2>3, SubmitsElsewhere DEF AttachRoute, SaveRoute, Save
  <2>4. ASSUME NEW u \in Task, InsertRoute(u) \/ UpdateRoute(u) \/ DeleteRoute(u) PROVE FALSE
    BY <2>4, WritesElsewhere DEF InsertRoute, Insert, UpdateRoute, Update, DeleteRoute, Delete, Sent
  <2> QED
    BY <1>5, <2>1, <2>2, <2>3, <2>4 DEF RoutesNext
<1>6. ASSUME TrafficNext \/ OverviewNext \/ AnalyticsNext PROVE FALSE
  <2>1. ASSUME Decide \/ Store \/ TimePasses \/ PickRange PROVE FALSE
    BY <1>1, <2>1 DEF Decide, Store, TimePasses, PickRange
  <2>2. ASSUME NEW u \in Task, ReadTimeline(u) \/ ReadEvents(u) PROVE FALSE
    BY <2>2, ReceivesGoesOn DEF ReadTimeline, ReadEvents
  <2>3. ASSUME NEW u \in Task, NEW counter \in Counters, ReadCounter(u, counter) PROVE FALSE
    BY <2>3, GoesOn DEF ReadCounter, Awaits
  <2>4. ASSUME NEW u \in Task, ReadStatsFails(u) PROVE FALSE
    BY <2>4, GoesOn DEF ReadStatsFails, Awaits
  <2>5. ASSUME NEW u \in Task, LoadMore(u) PROVE FALSE
    BY <2>5, Parts, Elsewhere DEF LoadMore, Idle, BeginLoad
  <2> QED
    BY <1>6, <2>1, <2>2, <2>3, <2>4, <2>5, ArriveGoesOn DEF TrafficNext, OverviewNext, AnalyticsNext
<1>7. ASSUME Dismiss \/ Cancel \/ Revisit PROVE FALSE
  BY <1>1, <1>7 DEF Dismiss, Cancel, Revisit
<1>8. ASSUME NEW u \in Task, Poll(u) \/ Refresh(u) PROVE FALSE
  BY <1>8, Parts, Elsewhere DEF Poll, Refresh, Idle, BeginLoad
<1>9. ASSUME NEW u \in Task, ReadPolicies(u) \/ ReadRows(u) PROVE FALSE
  BY <1>9, ReceivesGoesOn DEF ReadPolicies, ReadRows
<1>10. ASSUME NEW u \in Task, NEW list, ReadFails(u, list) PROVE FALSE
  BY <1>10, GoesOn DEF ReadFails, Awaits
<1>11. ASSUME NEW u \in Task, Confirm(u) PROVE FALSE
  BY <1>11, SubmitsElsewhere DEF Confirm
<1>12. ASSUME NEW u \in Task, Fail(u) \/ LoseAnswer(u) PROVE FALSE
  BY <1>12, Parts, Elsewhere DEF Fail, LoseAnswer, Rest
<1>13. ASSUME NEW u \in Task, ActionDone(u) PROVE FALSE
  BY <1>13, ContinuesElsewhere DEF ActionDone
<1>14. ASSUME UNCHANGED vars PROVE FALSE
  BY <1>1, <1>14 DEF vars
<1> QED
  BY <1>2, <1>3, <1>4, <1>5, <1>6, <1>7, <1>8, <1>9, <1>10, <1>11, <1>12, <1>13, <1>14 DEF Next

\* The load that follows a write shows it, whichever loads and writes overlap.
THEOREM WritesAreRead == Spec => ReadsItsWrites
<1>1. ASSUME TablesOK, [Next]_vars, NEW t \in Task, Loaded(t), task[t].job.what \in Writes,
             "rows" \notin task[t].got.failed
      PROVE  IF task[t].job.what \in {"deletePolicy", "deleteRoute"}
             THEN Missing(app'.rows, task[t].job.id, 0)
             ELSE Missing(app'.rows, task[t].job.id, task[t].job.stamp) => task[t].job.id \in history.deleted
  <2>1. EndLoad(t)
    BY <1>1, OnlyEndLoad
  <2>2. task[t].at = "load" /\ task[t].got.waiting = {}
    BY <2>1 DEF EndLoad
  <2>3. app'.rows = task[t].got.rows
    <3>1. DOMAIN app = {"policies", "rows", "stats", "timeline", "events", "createdKey", "confirm",
                        "range", "limit", "newPolicy", "slot", "selected"}
      BY <1>1, Parts DEF AppRecord
    <3> QED
      BY <2>1, <3>1 DEF EndLoad
  <2>4. Shown(task[t].job, task[t].got.rows, history)
    BY <1>1, <2>2, GotSoFar
  <2> QED
    BY <2>3, <2>4 DEF Shown, Deletions
<1>2. TablesOK /\ [Next]_vars =>
        [\A t \in Task :
           LET job == task[t].job
           IN (Loaded(t) /\ job.what \in Writes /\ "rows" \notin task[t].got.failed) =>
                IF job.what \in {"deletePolicy", "deleteRoute"}
                THEN Missing(app'.rows, job.id, 0)
                ELSE Missing(app'.rows, job.id, job.stamp) => job.id \in history.deleted]_vars
  BY <1>1
<1> QED
  BY <1>2, TablesInvariance, PTL DEF Spec, ReadsItsWrites

\* Who changes the panel.
LEMMA PanelMoves ==
  ASSUME [Next]_vars, panel' # panel
  PROVE  \/ Cancel \/ Revisit
         \/ \E r \in app.rows : \E draft : StartEdit(r, draft)
         \/ \E value : EditDraft(value)
         \/ \E t \in Task : Rest(t)
<1> USE DEF Submit, Write, Answer, Receives, Continue
<1>1. ASSUME KeysNext PROVE FALSE
  <2>1. ASSUME SelectKeyPolicy \/ AskToRevoke PROVE FALSE
    BY <2>1 DEF SelectKeyPolicy, Select, AskToRevoke, Ask
  <2>2. ASSUME NEW u \in Task, AskForKey(u) \/ Test(u) \/ KeyCreated(u) \/ TestAnswered(u) PROVE FALSE
    BY <2>2 DEF AskForKey, Test, KeyCreated, TestAnswered
  <2>3. ASSUME NEW u \in Task, InsertKey(u) \/ RevokeKey(u) \/ AnswerTest(u) PROVE FALSE
    BY <2>3 DEF InsertKey, Insert, RevokeKey, AnswerTest
  <2> QED
    BY <1>1, <2>1, <2>2, <2>3 DEF KeysNext
<1>2. ASSUME PoliciesNext
      PROVE  (\E r \in app.rows : \E draft : StartEdit(r, draft)) \/ (\E value : EditDraft(value))
  <2>1. ASSUME TypePolicy \/ ResetPolicy \/ AskToDeletePolicy PROVE FALSE
    BY <2>1 DEF TypePolicy, ResetPolicy, AskToDeletePolicy, Ask
  <2>2. ASSUME NEW u \in Task, CreatePolicy(u) \/ SavePolicy(u) \/ PolicyCreated(u) PROVE FALSE
    BY <2>2 DEF CreatePolicy, SavePolicy, Save, PolicyCreated
  <2>3. ASSUME NEW u \in Task, InsertPolicy(u) \/ UpdatePolicy(u) \/ DeletePolicy(u) PROVE FALSE
    BY <2>3 DEF InsertPolicy, Insert, UpdatePolicy, Update, DeletePolicy, Delete
  <2> QED
    BY <1>2, <2>1, <2>2, <2>3 DEF PoliciesNext, StartPolicyEdit, ChangePolicyDraft
<1>3. ASSUME RoutesNext
      PROVE  (\E r \in app.rows : \E draft : StartEdit(r, draft)) \/ (\E value : EditDraft(value))
  <2>1. ASSUME TypeSlot \/ SelectRoutePolicy \/ FillExample \/ AskToDeleteRoute PROVE FALSE
    BY <2>1 DEF TypeSlot, SelectRoutePolicy, Select, FillExample, AskToDeleteRoute, Ask
  <2>2. ASSUME NEW u \in Task, AttachRoute(u) \/ SaveRoute(u) PROVE FALSE
    BY <2>2 DEF AttachRoute, SaveRoute, Save
  <2>3. ASSUME NEW u \in Task, InsertRoute(u) \/ UpdateRoute(u) \/ DeleteRoute(u) PROVE FALSE
    BY <2>3 DEF InsertRoute, Insert, UpdateRoute, Update, DeleteRoute, Delete
  <2> QED
    BY <1>3, <2>1, <2>2, <2>3 DEF RoutesNext, StartRouteEdit, ChangeRouteDraft
<1>4. ASSUME TrafficNext \/ OverviewNext \/ AnalyticsNext PROVE FALSE
  <2>1. ASSUME Arrive \/ Decide \/ Store \/ TimePasses \/ PickRange PROVE FALSE
    BY <2>1 DEF Arrive, Decide, Store, TimePasses, PickRange
  <2>2. ASSUME NEW u \in Task, ReadTimeline(u) \/ ReadEvents(u) \/ ReadStatsFails(u) \/ LoadMore(u)
        PROVE  FALSE
    BY <2>2 DEF ReadTimeline, ReadEvents, ReadStatsFails, LoadMore
  <2>3. ASSUME NEW u \in Task, NEW counter, ReadCounter(u, counter) PROVE FALSE
    BY <2>3 DEF ReadCounter
  <2> QED
    BY <1>4, <2>1, <2>2, <2>3 DEF TrafficNext, OverviewNext, AnalyticsNext
<1>5. ASSUME Dismiss PROVE FALSE
  BY <1>5 DEF Dismiss
<1>6. ASSUME NEW u \in Task, Poll(u) \/ Refresh(u) \/ ReadPolicies(u) \/ ReadRows(u) \/ ActionDone(u)
      PROVE  FALSE
  BY <1>6 DEF Poll, Refresh, ReadPolicies, ReadRows, ActionDone
<1>7. ASSUME NEW u \in Task, NEW list, ReadFails(u, list) PROVE FALSE
  BY <1>7 DEF ReadFails
<1>8. ASSUME NEW u \in Task, Confirm(u) PROVE FALSE
  BY <1>8 DEF Confirm
<1>9. ASSUME NEW u \in Task, EndLoad(u) \/ Fail(u) \/ LoseAnswer(u) PROVE Rest(u)
  BY <1>9 DEF EndLoad, Fail, LoseAnswer
<1>10. ASSUME UNCHANGED vars PROVE FALSE
  BY <1>10 DEF vars
<1> QED
  BY <1>1, <1>2, <1>3, <1>4, <1>5, <1>6, <1>7, <1>8, <1>9, <1>10 DEF Next

\* An editor closes when it is cancelled or left, or when a save of the same
\* visit ends; nothing else that ends, and no save of an earlier visit, does it.
THEOREM EditorsStayOpen == Spec => EditorClosesOnlyBySave
<1>1. ASSUME TablesOK, [Next]_vars, panel.editing # Nothing, panel'.editing = Nothing
      PROVE  \/ Cancel \/ Revisit
             \/ \E t \in Task :
                  /\ task[t].job.what \in {"updatePolicy", "updateRoute"}
                  /\ task[t].job.visit = panel.visit
                  /\ task'[t].at = "idle"
  <2>1. panel' # panel
    BY <1>1
  <2>2. DOMAIN panel = {"editing", "draft", "visit"}
    BY <1>1, Parts DEF PanelRecord
  <2>3. ASSUME NEW r \in app.rows, NEW draft, StartEdit(r, draft) PROVE FALSE
    <3>1. r.id # Nothing
      BY <1>1, Parts DEF AppOK, DisplayOK, RowOK, Nothing
    <3> QED
      BY <1>1, <2>2, <2>3, <3>1 DEF StartEdit
  <2>4. ASSUME NEW value, EditDraft(value) PROVE FALSE
    BY <1>1, <2>2, <2>4 DEF EditDraft
  <2>5. ASSUME NEW t \in Task, Rest(t)
        PROVE  /\ task[t].job.what \in {"updatePolicy", "updateRoute"}
               /\ task[t].job.visit = panel.visit
               /\ task'[t].at = "idle"
    <3>1. task'[t] = Resting
      BY <1>1, <2>5, Parts DEF Rest
    <3>2. task'[t].at = "idle"
      BY <3>1 DEF Resting
    <3> QED
      BY <2>1, <2>5, <3>2 DEF Rest, CloseEditor, SameVisit
  <2> QED
    BY <1>1, <2>1, <2>3, <2>4, <2>5, PanelMoves
<1>2. TablesOK /\ [Next]_vars =>
        [panel.editing # Nothing /\ panel'.editing = Nothing =>
           \/ Cancel \/ Revisit
           \/ \E t \in Task :
                /\ task[t].job.what \in {"updatePolicy", "updateRoute"}
                /\ task[t].job.visit = panel.visit
                /\ task'[t].at = "idle"]_vars
  BY <1>1
<1> QED
  BY <1>2, TablesInvariance, PTL DEF Spec, EditorClosesOnlyBySave

-----------------------------------------------------------------------------
(* Traffic: tr is the traffic, g what a load has received. *)

Stored(tr) == tr.old + Total(tr.stored.allowed) + Total(tr.stored.rejected)

\* The fields that the traffic has.
TrafficRecord(tr) ==
  /\ DOMAIN tr = {"requests", "rejected", "allowed", "minute", "old", "stored"}
  /\ DOMAIN tr.stored = {"allowed", "rejected"}
  /\ DOMAIN tr.stored.allowed = Minutes /\ DOMAIN tr.stored.rejected = Minutes

CountedOK(tr) ==
  /\ tr.requests \in Nat /\ tr.rejected \in Nat /\ tr.allowed \in Nat /\ tr.old \in Nat
  /\ tr.minute \in Minutes
  /\ tr.allowed + tr.rejected <= tr.requests
  /\ \A m \in Minutes : tr.stored.allowed[m] \in Nat /\ tr.stored.rejected[m] \in Nat

\* Points that stand for buckets.
PointsOK(points, tr) ==
  /\ IsFiniteSet(points)
  /\ \A q \in points : /\ q.t \in Minutes
                       /\ q.allowed \in 0..tr.stored.allowed[q.t]
                       /\ q.rejected \in 0..tr.stored.rejected[q.t]

Numbers(stats) ==
  stats.requests \in Nat /\ stats.rejected \in Nat /\ stats.allowed \in Nat /\ stats.arrived \in Nat

AddsUp(stats) == stats.allowed + stats.rejected <= stats.requests + stats.arrived

\* While counters are gathered, those that are there are no more than the
\* traffic has, and what has arrived meanwhile is known.
StatsOK(g, tr) ==
  /\ Numbers(g.stats)
  /\ "allowed" \notin g.waiting => AddsUp(g.stats) /\ "requests" \notin g.waiting /\ "rejected" \notin g.waiting
  /\ "allowed" \in g.waiting => g.stats.allowed = 0 /\ g.stats.rejected <= tr.rejected
  /\ "allowed" \in g.waiting /\ "requests" \notin g.waiting => tr.requests <= g.stats.requests + g.stats.arrived

\* A load that asks for at most limit events shows as many as there were, or
\* fifty when it asks for too many.
EventsOK(x, tr, limit) ==
  /\ x.sees.limit \in 30..limit
  /\ x.got.before \in 0..Stored(tr) /\ x.got.events \in 0..Stored(tr)
  /\ x.sees.limit <= 200 =>
       /\ x.got.before <= x.sees.limit /\ x.got.events <= x.sees.limit
       /\ "events" \notin x.got.waiting \cup x.got.failed => x.got.before <= x.got.events
  /\ x.sees.limit > 200 /\ "events" \notin x.got.waiting \cup x.got.failed =>
       x.got.before <= x.got.events \/ 50 <= x.got.events

GatheredOK(x, tr, limit, p) ==
  x.at = "load" => /\ StatsOK(x.got, tr) /\ PointsOK(x.got.timeline, tr)
                   /\ p = "analytics" => EventsOK(x, tr, limit)

DisplayedOK(stats, timeline, events, limit, tr, p) ==
  /\ Numbers(stats) /\ AddsUp(stats)
  /\ PointsOK(timeline, tr)
  /\ limit \in Nat /\ 30 <= limit
  /\ p = "analytics" => events \in 0..Stored(tr) /\ (limit <= 200 => events <= limit)

TrafficHolds(p, tr, a, T, m) ==
  /\ TrafficRecord(tr) /\ CountedOK(tr)
  /\ DisplayedOK(a.stats, a.timeline, a.events, a.limit, tr, p)
  /\ \A t \in Task : GatheredOK(T[t], tr, a.limit, p)
  /\ m.limit = a.limit

TrafficOK == TrafficHolds(page, traffic, app, task, timer)

-----------------------------------------------------------------------------
(* Requests that arrive, are decided and are stored *)

LEMMA TrafficParts ==
  ASSUME TrafficOK
  PROVE  /\ TrafficRecord(traffic) /\ CountedOK(traffic)
         /\ DisplayedOK(app.stats, app.timeline, app.events, app.limit, traffic, page)
         /\ \A t \in Task : GatheredOK(task[t], traffic, app.limit, page)
         /\ timer.limit = app.limit
BY DEF TrafficOK, TrafficHolds

LEMMA Totals ==
  ASSUME NEW tr, CountedOK(tr)
  PROVE  /\ Total(tr.stored.allowed) \in Nat /\ Total(tr.stored.rejected) \in Nat
         /\ Stored(tr) \in Nat
<1>1. /\ tr.stored.allowed[0] \in Nat /\ tr.stored.allowed[20] \in Nat /\ tr.stored.allowed[40] \in Nat
      /\ tr.stored.rejected[0] \in Nat /\ tr.stored.rejected[20] \in Nat /\ tr.stored.rejected[40] \in Nat
      /\ tr.old \in Nat
  BY DEF CountedOK, Minutes
<1> QED
  BY <1>1 DEF Total, Stored

\* tr has become tr2, which no request has arrived in.
MoreTraffic(tr, tr2) ==
  /\ tr2.old = tr.old /\ tr2.requests = tr.requests
  /\ tr.rejected <= tr2.rejected
  /\ \A m \in Minutes : /\ tr.stored.allowed[m] <= tr2.stored.allowed[m]
                        /\ tr.stored.rejected[m] <= tr2.stored.rejected[m]

LEMMA MoreStored ==
  ASSUME NEW tr, NEW tr2, CountedOK(tr), CountedOK(tr2), MoreTraffic(tr, tr2)
  PROVE  Stored(tr) <= Stored(tr2)
<1>1. /\ tr.stored.allowed[0] \in Nat /\ tr.stored.allowed[20] \in Nat /\ tr.stored.allowed[40] \in Nat
      /\ tr.stored.rejected[0] \in Nat /\ tr.stored.rejected[20] \in Nat /\ tr.stored.rejected[40] \in Nat
      /\ tr.old \in Nat
  BY DEF CountedOK, Minutes
<1>2. /\ tr2.stored.allowed[0] \in Nat /\ tr2.stored.allowed[20] \in Nat /\ tr2.stored.allowed[40] \in Nat
      /\ tr2.stored.rejected[0] \in Nat /\ tr2.stored.rejected[20] \in Nat /\ tr2.stored.rejected[40] \in Nat
  BY DEF CountedOK, Minutes
<1>3. /\ tr.stored.allowed[0] <= tr2.stored.allowed[0] /\ tr.stored.allowed[20] <= tr2.stored.allowed[20]
      /\ tr.stored.allowed[40] <= tr2.stored.allowed[40]
      /\ tr.stored.rejected[0] <= tr2.stored.rejected[0] /\ tr.stored.rejected[20] <= tr2.stored.rejected[20]
      /\ tr.stored.rejected[40] <= tr2.stored.rejected[40] /\ tr2.old = tr.old
  BY DEF MoreTraffic, Minutes
<1> QED
  BY ONLY <1>1, <1>2, <1>3 DEF Stored, Total

LEMMA PointsKept ==
  ASSUME NEW tr, NEW tr2, CountedOK(tr), CountedOK(tr2), MoreTraffic(tr, tr2), NEW points, PointsOK(points, tr)
  PROVE  PointsOK(points, tr2)
BY DEF PointsOK, MoreTraffic, CountedOK

LEMMA GatheredKept ==
  ASSUME NEW tr, NEW tr2, CountedOK(tr), CountedOK(tr2), MoreTraffic(tr, tr2), NEW p, NEW x, NEW limit,
         GatheredOK(x, tr, limit, p)
  PROVE  GatheredOK(x, tr2, limit, p)
<1> SUFFICES ASSUME x.at = "load"
             PROVE  /\ StatsOK(x.got, tr2) /\ PointsOK(x.got.timeline, tr2)
                    /\ p = "analytics" => EventsOK(x, tr2, limit)
  BY DEF GatheredOK
<1>1. /\ StatsOK(x.got, tr) /\ PointsOK(x.got.timeline, tr)
      /\ p = "analytics" => EventsOK(x, tr, limit)
  BY DEF GatheredOK
<1>2. StatsOK(x.got, tr2)
  BY <1>1 DEF StatsOK, Numbers, CountedOK, MoreTraffic
<1>3. PointsOK(x.got.timeline, tr2)
  BY <1>1, PointsKept
<1>4. Stored(tr) <= Stored(tr2) /\ Stored(tr) \in Nat /\ Stored(tr2) \in Nat
  BY MoreStored, Totals
<1>5. p = "analytics" => EventsOK(x, tr2, limit)
  BY <1>1, <1>4 DEF EventsOK
<1> QED
  BY <1>2, <1>3, <1>5

LEMMA DisplayedKept ==
  ASSUME NEW tr, NEW tr2, CountedOK(tr), CountedOK(tr2), MoreTraffic(tr, tr2), NEW p,
         NEW stats, NEW timeline, NEW events, NEW limit,
         DisplayedOK(stats, timeline, events, limit, tr, p)
  PROVE  DisplayedOK(stats, timeline, events, limit, tr2, p)
<1>1. PointsOK(timeline, tr2)
  BY PointsKept DEF DisplayedOK
<1>2. Stored(tr) <= Stored(tr2) /\ Stored(tr) \in Nat /\ Stored(tr2) \in Nat
  BY MoreStored, Totals
<1>3. events \in 0..Stored(tr) => events \in 0..Stored(tr2)
  BY <1>2
<1> QED
  BY <1>1, <1>3 DEF DisplayedOK

LEMMA MoreTrafficKeeps ==
  ASSUME TrafficOK, TrafficRecord(traffic'), CountedOK(traffic'), MoreTraffic(traffic, traffic'),
         UNCHANGED <<page, app, task, timer>>
  PROVE  TrafficOK'
<1>1. /\ DisplayedOK(app.stats, app.timeline, app.events, app.limit, traffic', page)
      /\ \A t \in Task : GatheredOK(task[t], traffic', app.limit, page)
  BY TrafficParts, DisplayedKept, GatheredKept
<1>2. TrafficHolds(page, traffic', app, task, timer)
  BY <1>1, TrafficParts DEF TrafficHolds
<1> QED
  BY <1>2 DEF TrafficOK

LEMMA DecideCounts ==
  ASSUME TrafficOK, Decide
  PROVE  TrafficOK'
<1>1. PICK verdict \in {"allowed", "rejected"} : traffic' = [traffic EXCEPT ![verdict] = @ + 1]
  BY DEF Decide, Counts
<1>2. /\ TrafficRecord(traffic) /\ CountedOK(traffic)
      /\ traffic.requests - traffic.allowed - traffic.rejected > 0
  BY TrafficParts DEF Decide, Undecided
<1>3. /\ TrafficRecord(traffic') /\ traffic'.requests = traffic.requests /\ traffic'.old = traffic.old
      /\ traffic'.minute = traffic.minute /\ traffic'.stored = traffic.stored
  BY <1>1, <1>2 DEF TrafficRecord
<1>4. \/ traffic'.allowed = traffic.allowed + 1 /\ traffic'.rejected = traffic.rejected
      \/ traffic'.allowed = traffic.allowed /\ traffic'.rejected = traffic.rejected + 1
  BY <1>1, <1>2 DEF TrafficRecord
<1>5. CountedOK(traffic') /\ MoreTraffic(traffic, traffic')
  BY <1>2, <1>3, <1>4 DEF CountedOK, MoreTraffic
<1> QED
  BY <1>3, <1>5, MoreTrafficKeeps DEF Decide

LEMMA StoreCounts ==
  ASSUME TrafficOK, Store
  PROVE  TrafficOK'
<1>1. PICK verdict \in {"allowed", "rejected"} :
        traffic' = [traffic EXCEPT !.stored[verdict][traffic.minute] = @ + 1]
  BY DEF Store
<1>2. TrafficRecord(traffic) /\ CountedOK(traffic)
  BY TrafficParts
<1>3. /\ TrafficRecord(traffic') /\ traffic'.requests = traffic.requests /\ traffic'.old = traffic.old
      /\ traffic'.minute = traffic.minute
      /\ traffic'.allowed = traffic.allowed /\ traffic'.rejected = traffic.rejected
  BY <1>1, <1>2 DEF TrafficRecord
<1>4. \A m \in Minutes :
        /\ traffic'.stored.allowed[m] \in {traffic.stored.allowed[m], traffic.stored.allowed[m] + 1}
        /\ traffic'.stored.rejected[m] \in {traffic.stored.rejected[m], traffic.stored.rejected[m] + 1}
  BY <1>1, <1>2 DEF TrafficRecord
<1>5. CountedOK(traffic') /\ MoreTraffic(traffic, traffic')
  BY <1>2, <1>3, <1>4 DEF CountedOK, MoreTraffic
<1> QED
  BY <1>3, <1>5, MoreTrafficKeeps DEF Store

LEMMA TimePassesCounts ==
  ASSUME TrafficOK, TimePasses
  PROVE  TrafficOK'
<1>1. TrafficRecord(traffic) /\ CountedOK(traffic)
  BY TrafficParts
<1>2. /\ TrafficRecord(traffic') /\ traffic'.requests = traffic.requests /\ traffic'.old = traffic.old
      /\ traffic'.minute \in Minutes /\ traffic'.stored = traffic.stored
      /\ traffic'.allowed = traffic.allowed /\ traffic'.rejected = traffic.rejected
  BY <1>1 DEF TimePasses, TrafficRecord
<1>3. CountedOK(traffic') /\ MoreTraffic(traffic, traffic')
  BY <1>1, <1>2 DEF CountedOK, MoreTraffic
<1> QED
  BY <1>2, <1>3, MoreTrafficKeeps DEF TimePasses

\* The loads that gather counters know that one more request has arrived.
LEMMA ArriveCounts ==
  ASSUME TablesOK, TrafficOK, Arrive
  PROVE  TrafficOK'
<1>1. TrafficRecord(traffic) /\ CountedOK(traffic)
  BY TrafficParts
<1>2. /\ TrafficRecord(traffic') /\ traffic'.requests = traffic.requests + 1 /\ traffic'.old = traffic.old
      /\ traffic'.minute = traffic.minute /\ traffic'.stored = traffic.stored
      /\ traffic'.allowed = traffic.allowed /\ traffic'.rejected = traffic.rejected
  BY <1>1 DEF Arrive, TrafficRecord
<1>3. CountedOK(traffic') /\ Stored(traffic') = Stored(traffic)
  BY <1>1, <1>2 DEF CountedOK, Stored
<1>4. DisplayedOK(app.stats, app.timeline, app.events, app.limit, traffic', page)
  BY <1>2, <1>3, TrafficParts DEF DisplayedOK, PointsOK
<1>5. ASSUME NEW t \in Task
      PROVE  GatheredOK(task'[t], traffic', app.limit, page)
  <2>1. TaskRecord(task[t])
    BY Parts
  <2>2. task'[t] = IF Gathering(t) THEN [task[t] EXCEPT !.got.stats.arrived = @ + 1] ELSE task[t]
    BY DEF Arrive
  <2>3. GatheredOK(task[t], traffic, app.limit, page)
    BY TrafficParts
  <2>4. /\ task'[t].at = task[t].at /\ task'[t].sees = task[t].sees
        /\ task'[t].got.timeline = task[t].got.timeline /\ task'[t].got.events = task[t].got.events
        /\ task'[t].got.waiting = task[t].got.waiting /\ task'[t].got.failed = task[t].got.failed
        /\ task'[t].got.before = task[t].got.before
        /\ task'[t].got.stats.requests = task[t].got.stats.requests
        /\ task'[t].got.stats.rejected = task[t].got.stats.rejected
        /\ task'[t].got.stats.allowed = task[t].got.stats.allowed
        /\ task'[t].got.stats.arrived =
             IF Gathering(t) THEN task[t].got.stats.arrived + 1 ELSE task[t].got.stats.arrived
    BY <2>1, <2>2 DEF TaskRecord
  <2> SUFFICES ASSUME task[t].at = "load"
               PROVE  /\ StatsOK(task'[t].got, traffic') /\ PointsOK(task'[t].got.timeline, traffic')
                      /\ page = "analytics" => EventsOK(task'[t], traffic', app.limit)
    BY <2>4 DEF GatheredOK
  <2>5. PointsOK(task'[t].got.timeline, traffic') /\ (page = "analytics" => EventsOK(task'[t], traffic', app.limit))
    BY <1>2, <1>3, <2>3, <2>4 DEF GatheredOK, PointsOK, EventsOK
  <2>6. StatsOK(task[t].got, traffic)
    BY <2>3 DEF GatheredOK
  <2>7. Gathering(t) <=> "allowed" \in task[t].got.waiting /\ "requests" \notin task[t].got.waiting
    BY DEF Gathering, Awaits
  <2>8. traffic.requests \in Nat
    BY <1>1 DEF CountedOK
  <2>9. StatsOK(task'[t].got, traffic')
    <3>1. CASE Gathering(t)
      BY <1>2, <2>4, <2>6, <2>7, <2>8, <3>1 DEF StatsOK, Numbers, AddsUp
    <3>2. CASE ~Gathering(t)
      BY <1>2, <2>4, <2>6, <2>7, <2>8, <3>2 DEF StatsOK, Numbers, AddsUp
    <3> QED
      BY <3>1, <3>2
  <2> QED
    BY <2>5, <2>9
<1>6. TrafficHolds(page, traffic', app, task', timer)
  BY <1>2, <1>3, <1>4, <1>5, TrafficParts DEF TrafficHolds
<1> QED
  BY <1>6 DEF TrafficOK, Arrive

-----------------------------------------------------------------------------
(* Loads, and what they leave alone *)

\* What is displayed of the traffic.
SameDisplay ==
  /\ app'.stats = app.stats /\ app'.timeline = app.timeline
  /\ app'.events = app.events /\ app'.limit = app.limit

LEMMA OneTaskCounts ==
  ASSUME TrafficOK, DOMAIN task = Task, UNCHANGED <<page, traffic>>,
         DisplayedOK(app'.stats, app'.timeline, app'.events, app'.limit, traffic, page),
         app.limit <= app'.limit, app.limit \in Nat, app'.limit \in Nat, timer'.limit = app'.limit,
         NEW u \in Task, NEW x, task' = [task EXCEPT ![u] = x],
         GatheredOK(x, traffic, app'.limit, page)
  PROVE  TrafficOK'
<1>1. ASSUME NEW t \in Task PROVE GatheredOK(task'[t], traffic, app'.limit, page)
  <2>1. CASE t = u
    BY <2>1
  <2>2. CASE t # u
    <3>1. task'[t] = task[t] /\ GatheredOK(task[t], traffic, app.limit, page)
      BY <2>2, TrafficParts
    <3> QED
      BY <3>1 DEF GatheredOK, EventsOK
  <2> QED
    BY <2>1, <2>2
<1>2. TrafficHolds(page, traffic, app', task', timer')
  BY <1>1, TrafficParts DEF TrafficHolds
<1>3. page' = page /\ traffic' = traffic
  OBVIOUS
<1> QED
  BY <1>2, <1>3 DEF TrafficOK

\* A step of the task u, which is then not loading.
LEMMA QuietCounts ==
  ASSUME TrafficOK, DOMAIN task = Task, UNCHANGED <<page, traffic, timer>>, SameDisplay,
         NEW u \in Task, NEW x, task' = [task EXCEPT ![u] = x], x.at # "load"
  PROVE  TrafficOK'
<1>1. DisplayedOK(app'.stats, app'.timeline, app'.events, app'.limit, traffic, page) /\ app.limit \in Nat
      /\ timer'.limit = app'.limit /\ app'.limit = app.limit
  BY TrafficParts DEF SameDisplay, DisplayedOK
<1>2. GatheredOK(x, traffic, app'.limit, page)
  BY DEF GatheredOK
<1>3. app.limit <= app'.limit /\ app'.limit \in Nat
  BY <1>1
<1> QED
  BY <1>1, <1>2, <1>3, OneTaskCounts

\* A step that no task takes.
LEMMA FormCounts ==
  ASSUME TrafficOK, UNCHANGED <<page, traffic, task, timer>>, SameDisplay
  PROVE  TrafficOK'
<1>1. TrafficHolds(page, traffic, app', task, timer)
  BY TrafficParts DEF TrafficHolds, SameDisplay
<1> QED
  BY <1>1 DEF TrafficOK

\* A load that begins: it has received nothing, and asks for limit events.
LEMMA BeginCounts ==
  ASSUME TablesOK, TrafficOK, UNCHANGED <<page, traffic>>,
         app'.stats = app.stats, app'.timeline = app.timeline, app'.events = app.events,
         app.limit <= app'.limit, app'.limit \in Nat, timer'.limit = app'.limit,
         NEW u \in Task, NEW job, NEW render, task' = [task EXCEPT ![u] = Loading(u, job, render)],
         page = "analytics" => render.limit = app'.limit
  PROVE  TrafficOK'
<1> DEFINE x == Loading(u, job, render)
<1>1. x.at = "load" /\ x.sees = render /\ x.got = NothingRead
  BY DEF Loading, Reads
<1>2. /\ NothingRead.stats = NoStats /\ NothingRead.timeline = {} /\ NothingRead.events = 0
      /\ NothingRead.waiting = Lists(page) /\ NothingRead.failed = {} /\ NothingRead.before = app.events
  BY DEF NothingRead
<1>3. page \in {"keys", "policies", "routes", "overview", "analytics"}
  BY Parts, AppBounds
<1>4. /\ page = "overview" => Lists(page) = {"requests", "rejected", "allowed", "timeline"}
      /\ page = "analytics" => Lists(page) = {"events"}
      /\ page # "overview" => Lists(page) \cap {"requests", "rejected", "allowed"} = {}
  BY <1>3 DEF Lists
<1>5. traffic.rejected \in Nat /\ Stored(traffic) \in Nat
  BY TrafficParts, Totals DEF CountedOK
<1>6. /\ NoStats.requests = 0 /\ NoStats.rejected = 0 /\ NoStats.allowed = 0 /\ NoStats.arrived = 0
  BY DEF NoStats
<1>7. StatsOK(NothingRead, traffic)
  BY <1>2, <1>4, <1>5, <1>6 DEF StatsOK, Numbers, AddsUp
<1>8. PointsOK(NothingRead.timeline, traffic)
  BY <1>2, FS_EmptySet DEF PointsOK
<1>9. DisplayedOK(app.stats, app.timeline, app.events, app.limit, traffic, page)
  BY TrafficParts
<1> HIDE DEF x
<1>10. page = "analytics" => EventsOK(x, traffic, app'.limit)
  <2> SUFFICES ASSUME page = "analytics" PROVE EventsOK(x, traffic, app'.limit)
    OBVIOUS
  <2>1. x.sees.limit = app'.limit /\ x.got.before = app.events /\ x.got.events = 0 /\ x.got.waiting = {"events"}
    BY <1>1, <1>2, <1>4
  <2>2. /\ app.events \in 0..Stored(traffic) /\ (app.limit <= 200 => app.events <= app.limit)
        /\ app.limit \in Nat /\ 30 <= app.limit
    BY <1>9 DEF DisplayedOK
  <2> QED
    BY <1>5, <2>1, <2>2 DEF EventsOK
<1>11. GatheredOK(x, traffic, app'.limit, page)
  BY <1>1, <1>7, <1>8, <1>10 DEF GatheredOK
<1>12. app.limit \in Nat /\ DisplayedOK(app'.stats, app'.timeline, app'.events, app'.limit, traffic, page)
  <2>1. page = "analytics" => app.events \in 0..Stored(traffic)
                              /\ (app'.limit <= 200 => app.events <= app'.limit)
    BY <1>5, <1>9 DEF DisplayedOK
  <2> QED
    BY <1>9, <2>1 DEF DisplayedOK
<1>13. task' = [task EXCEPT ![u] = x]
  BY DEF x
<1> QED
  BY <1>11, <1>12, <1>13, Parts, OneTaskCounts

\* A load has received g in all.
LEMMA GatherCounts ==
  ASSUME TablesOK, TrafficOK, UNCHANGED <<page, traffic, app, timer>>,
         NEW u \in Task, task[u].at = "load", NEW g, task' = [task EXCEPT ![u].got = g],
         StatsOK(g, traffic), PointsOK(g.timeline, traffic),
         page = "analytics" => EventsOK([task[u] EXCEPT !.got = g], traffic, app.limit)
  PROVE  TrafficOK'
<1> DEFINE x == [task[u] EXCEPT !.got = g]
<1>1. TaskRecord(task[u])
  BY Parts
<1>2. x.at = "load" /\ x.sees = task[u].sees /\ x.got = g
  BY <1>1 DEF TaskRecord
<1>3. task' = [task EXCEPT ![u] = x] /\ (page = "analytics" => EventsOK(x, traffic, app.limit))
  OBVIOUS
<1> HIDE DEF x
<1>4. GatheredOK(x, traffic, app.limit, page)
  BY <1>2, <1>3 DEF GatheredOK
<1>5. app.limit \in Nat /\ app' = app /\ timer' = timer
  BY TrafficParts DEF DisplayedOK
<1>6. /\ GatheredOK(x, traffic, app'.limit, page)
      /\ DisplayedOK(app'.stats, app'.timeline, app'.events, app'.limit, traffic, page)
      /\ app.limit <= app'.limit /\ app'.limit \in Nat /\ timer'.limit = app'.limit
  BY <1>4, <1>5, TrafficParts
<1>7. DOMAIN task = Task /\ UNCHANGED <<page, traffic>>
  BY Parts
<1> QED
  BY <1>3, <1>5, <1>6, <1>7, OneTaskCounts

LEMMA LoadSoFar ==
  ASSUME TablesOK, TrafficOK, NEW u \in Task, task[u].at = "load"
  PROVE  LET g == task[u].got
         IN  /\ DOMAIN g = {"policies", "rows", "stats", "timeline", "events", "waiting", "failed", "before"}
             /\ DOMAIN g.stats = {"requests", "rejected", "allowed", "arrived"}
             /\ DOMAIN task[u] = {"at", "job", "sees", "got"}
             /\ StatsOK(g, traffic) /\ PointsOK(g.timeline, traffic)
             /\ page = "analytics" => EventsOK(task[u], traffic, app.limit)
BY Parts, TrafficParts DEF TaskRecord, GatheredOK

LEMMA OtherListCounts ==
  ASSUME TablesOK, TrafficOK, UNCHANGED <<page, traffic, app, timer>>,
         NEW u \in Task, task[u].at = "load", NEW g, task' = [task EXCEPT ![u].got = g],
         g.stats = task[u].got.stats, g.timeline = task[u].got.timeline, g.events = task[u].got.events,
         g.before = task[u].got.before,
         \A c \in {"requests", "rejected", "allowed"} : c \in g.waiting <=> c \in task[u].got.waiting,
         "events" \in task[u].got.waiting => "events" \in g.waiting \cup g.failed,
         task[u].got.failed \subseteq g.failed
  PROVE  TrafficOK'
<1>1. /\ DOMAIN task[u] = {"at", "job", "sees", "got"}
      /\ StatsOK(task[u].got, traffic) /\ PointsOK(task[u].got.timeline, traffic)
      /\ page = "analytics" => EventsOK(task[u], traffic, app.limit)
  BY LoadSoFar
<1>2. StatsOK(g, traffic) /\ PointsOK(g.timeline, traffic)
  BY <1>1 DEF StatsOK, Numbers, AddsUp
<1> DEFINE x == [task[u] EXCEPT !.got = g]
<1>3. x.sees = task[u].sees /\ x.got = g
  BY <1>1
<1> HIDE DEF x
<1>4. page = "analytics" => EventsOK(x, traffic, app.limit)
  BY <1>1, <1>3 DEF EventsOK
<1> QED
  BY <1>2, <1>4, GatherCounts DEF x

LEMMA ReadListCounts ==
  ASSUME TablesOK, TrafficOK, NEW t \in Task, ReadPolicies(t) \/ ReadRows(t)
  PROVE  TrafficOK'
<1>1. task[t].at = "load" /\ UNCHANGED <<page, traffic, app, timer>>
  BY DEF ReadPolicies, ReadRows, Receives, Awaits
<1>2. ASSUME NEW list \in {"policies", "rows"}, NEW value,
             task' = [task EXCEPT ![t].got = [task[t].got EXCEPT ![list] = value, !.waiting = @ \ {list}]]
      PROVE  TrafficOK'
  <2> DEFINE g == [task[t].got EXCEPT ![list] = value, !.waiting = @ \ {list}]
  <2>1. /\ g.stats = task[t].got.stats /\ g.timeline = task[t].got.timeline
        /\ g.events = task[t].got.events /\ g.before = task[t].got.before
        /\ g.waiting = task[t].got.waiting \ {list} /\ g.failed = task[t].got.failed
    BY <1>1, GotSoFar
  <2>2. task' = [task EXCEPT ![t].got = g]
    BY <1>2
  <2> HIDE DEF g
  <2> QED
    BY <1>1, <2>1, <2>2, OtherListCounts
<1> QED
  BY <1>2 DEF ReadPolicies, ReadRows, Receives

LEMMA ReadFailsCounts ==
  ASSUME TablesOK, TrafficOK, NEW t \in Task, NEW list \in Lists(page) \ Counters, ReadFails(t, list)
  PROVE  TrafficOK'
<1> DEFINE g == [task[t].got EXCEPT !.waiting = @ \ {list}, !.failed = @ \cup {list}]
<1>1. /\ task[t].at = "load" /\ task' = [task EXCEPT ![t].got = g]
      /\ UNCHANGED <<page, traffic, app, timer>>
  BY DEF ReadFails, Awaits
<1>2. /\ g.stats = task[t].got.stats /\ g.timeline = task[t].got.timeline
      /\ g.events = task[t].got.events /\ g.before = task[t].got.before
      /\ g.waiting = task[t].got.waiting \ {list} /\ g.failed = task[t].got.failed \cup {list}
  BY <1>1, GotSoFar
<1>3. list \notin {"requests", "rejected", "allowed"}
  BY DEF Counters
<1> HIDE DEF g
<1> QED
  BY <1>1, <1>2, <1>3, OtherListCounts

LEMMA TimelineOK ==
  ASSUME TrafficOK
  PROVE  PointsOK(Timeline, traffic)
<1> DEFINE point(m) == Point(m, traffic.stored.allowed[m], traffic.stored.rejected[m])
           all == ({point(0)} \cup {point(20)}) \cup {point(40)}
<1>1. CountedOK(traffic)
  BY TrafficParts
<1>2. Timeline \in SUBSET all
  BY DEF Timeline, Minutes
<1>3. IsFiniteSet(all)
  <2>1. IsFiniteSet({point(0)}) /\ IsFiniteSet({point(20)}) /\ IsFiniteSet({point(40)})
    BY FS_Singleton
  <2> QED
    BY <2>1, FS_Union
<1>4. IsFiniteSet(Timeline)
  BY <1>2, <1>3, FS_Subset
<1>5. \A m \in Minutes : /\ point(m).t = m
                         /\ point(m).allowed \in 0..traffic.stored.allowed[m]
                         /\ point(m).rejected \in 0..traffic.stored.rejected[m]
  BY <1>1 DEF CountedOK, Point
<1>6. \A q \in Timeline : \E m \in Minutes : q = point(m)
  BY <1>2 DEF Minutes
<1> HIDE DEF point
<1> QED
  BY <1>4, <1>5, <1>6 DEF PointsOK

LEMMA ReadTimelineCounts ==
  ASSUME TablesOK, TrafficOK, At("overview"), NEW t \in Task, ReadTimeline(t)
  PROVE  TrafficOK'
<1> DEFINE g == [task[t].got EXCEPT !["timeline"] = Timeline, !.waiting = @ \ {"timeline"}]
<1>1. /\ task[t].at = "load" /\ task' = [task EXCEPT ![t].got = g]
      /\ UNCHANGED <<page, traffic, app, timer>>
  BY DEF ReadTimeline, Receives, Awaits
<1>2. /\ g.stats = task[t].got.stats /\ g.timeline = Timeline
      /\ g.waiting = task[t].got.waiting \ {"timeline"}
  BY <1>1, GotSoFar
<1> HIDE DEF g
<1>3. StatsOK(g, traffic)
  BY <1>1, <1>2, LoadSoFar DEF StatsOK
<1> QED
  BY <1>1, <1>2, <1>3, TimelineOK, GatherCounts DEF At

\* A limit of at most two hundred is asked for as it is.
LEMMA RecentOK ==
  ASSUME TrafficOK, NEW limit \in Nat, 30 <= limit
  PROVE  /\ Recent(limit) \in 0..Stored(traffic)
         /\ limit <= 200 => /\ Recent(limit) <= limit
                            /\ \A n \in 0..Stored(traffic) : n <= limit => n <= Recent(limit)
         /\ limit > 200 => Recent(limit) = Stored(traffic) \/ Recent(limit) = 50
<1>1. Stored(traffic) \in Nat
  BY TrafficParts, Totals
<1>2. Clamp(limit) \in Nat /\ Clamp(limit) = IF limit <= 200 THEN limit ELSE 50
  BY DEF Clamp
<1>3. Recent(limit) = IF Stored(traffic) < Clamp(limit) THEN Stored(traffic) ELSE Clamp(limit)
  BY DEF Recent, Stored
<1> QED
  BY ONLY <1>1, <1>2, <1>3, limit \in Nat

LEMMA ReadEventsCounts ==
  ASSUME TablesOK, TrafficOK, At("analytics"), NEW t \in Task, ReadEvents(t)
  PROVE  TrafficOK'
<1> DEFINE g == [task[t].got EXCEPT !["events"] = Recent(task[t].sees.limit), !.waiting = @ \ {"events"}]
<1>1. /\ task[t].at = "load" /\ task' = [task EXCEPT ![t].got = g]
      /\ UNCHANGED <<page, traffic, app, timer>>
  BY DEF ReadEvents, Receives, Awaits
<1>2. /\ g.stats = task[t].got.stats /\ g.timeline = task[t].got.timeline
      /\ g.events = Recent(task[t].sees.limit) /\ g.before = task[t].got.before
      /\ g.waiting = task[t].got.waiting \ {"events"}
  BY <1>1, GotSoFar
<1> HIDE DEF g
<1>3. StatsOK(g, traffic) /\ PointsOK(g.timeline, traffic)
  BY <1>1, <1>2, LoadSoFar DEF StatsOK
<1>4. EventsOK(task[t], traffic, app.limit) /\ DOMAIN task[t] = {"at", "job", "sees", "got"}
  BY <1>1, LoadSoFar DEF At
<1> DEFINE x == [task[t] EXCEPT !.got = g]
<1>5. x.sees = task[t].sees /\ x.got = g
  BY <1>4
<1> HIDE DEF x
<1>6. EventsOK(x, traffic, app.limit)
  <2>1. task[t].sees.limit \in Nat /\ 30 <= task[t].sees.limit
    BY <1>4 DEF EventsOK
  <2>2. /\ g.events \in 0..Stored(traffic)
        /\ task[t].sees.limit <= 200 =>
             /\ g.events <= task[t].sees.limit
             /\ \A n \in 0..Stored(traffic) : n <= task[t].sees.limit => n <= g.events
        /\ task[t].sees.limit > 200 => g.events = Stored(traffic) \/ g.events = 50
    BY <1>2, <2>1, RecentOK
  <2> QED
    BY <1>2, <1>4, <1>5, <2>2 DEF EventsOK
<1> QED
  BY <1>1, <1>3, <1>6, GatherCounts DEF x

LEMMA ReadCounterCounts ==
  ASSUME TablesOK, TrafficOK, At("overview"), NEW t \in Task, NEW counter \in Counters, ReadCounter(t, counter)
  PROVE  TrafficOK'
<1> DEFINE old == task[t].got
           g == [old EXCEPT !.stats[counter] = traffic[counter], !.waiting = @ \ {counter}]
<1>1. /\ task[t].at = "load" /\ task' = [task EXCEPT ![t].got = g]
      /\ counter \in old.waiting /\ Earlier(counter) \cap old.waiting = {}
      /\ UNCHANGED <<page, traffic, app, timer>>
  BY DEF ReadCounter, Awaits
<1>2. StatsOK(old, traffic) /\ PointsOK(old.timeline, traffic) /\ CountedOK(traffic)
  BY <1>1, LoadSoFar, TrafficParts
<1>3. /\ g.timeline = old.timeline /\ g.waiting = old.waiting \ {counter}
      /\ g.stats = [old.stats EXCEPT ![counter] = traffic[counter]]
      /\ DOMAIN old.stats = {"requests", "rejected", "allowed", "arrived"}
  BY <1>1, GotSoFar
<1> HIDE DEF g, old
<1>4. StatsOK(g, traffic)
  <2>1. CASE counter = "requests"
    <3>1. /\ g.stats.requests = traffic.requests /\ g.stats.rejected = old.stats.rejected
          /\ g.stats.allowed = old.stats.allowed /\ g.stats.arrived = old.stats.arrived
      BY <1>3, <2>1
    <3> QED
      BY <1>1, <1>2, <1>3, <2>1, <3>1 DEF StatsOK, Numbers, CountedOK
  <2>2. CASE counter = "rejected"
    <3>1. /\ g.stats.requests = old.stats.requests /\ g.stats.rejected = traffic.rejected
          /\ g.stats.allowed = old.stats.allowed /\ g.stats.arrived = old.stats.arrived
      BY <1>3, <2>2
    <3> QED
      BY <1>1, <1>2, <1>3, <2>2, <3>1 DEF StatsOK, Numbers, CountedOK
  <2>3. CASE counter = "allowed"
    <3>1. /\ g.stats.requests = old.stats.requests /\ g.stats.rejected = old.stats.rejected
          /\ g.stats.allowed = traffic.allowed /\ g.stats.arrived = old.stats.arrived
      BY <1>3, <2>3
    <3>2. "requests" \notin old.waiting /\ "rejected" \notin old.waiting
      BY <1>1, <2>3 DEF Earlier
    <3> QED
      BY <1>1, <1>2, <1>3, <2>3, <3>1, <3>2 DEF StatsOK, Numbers, AddsUp, CountedOK
  <2> QED
    BY <2>1, <2>2, <2>3 DEF Counters
<1> QED
  BY <1>1, <1>2, <1>3, <1>4, GatherCounts DEF At

LEMMA ReadStatsFailsCounts ==
  ASSUME TablesOK, TrafficOK, At("overview"), NEW t \in Task, ReadStatsFails(t)
  PROVE  TrafficOK'
<1> DEFINE old == task[t].got
           g == [old EXCEPT !.stats = NoStats, !.waiting = @ \ Counters]
<1>1. /\ task[t].at = "load" /\ task' = [task EXCEPT ![t].got = g]
      /\ UNCHANGED <<page, traffic, app, timer>>
  BY DEF ReadStatsFails, Awaits
<1>2. /\ g.timeline = old.timeline /\ g.waiting = old.waiting \ Counters /\ g.stats = NoStats
  BY <1>1, GotSoFar
<1> HIDE DEF g
<1>3. StatsOK(g, traffic)
  BY <1>2 DEF StatsOK, Numbers, AddsUp, NoStats, Counters
<1> QED
  BY <1>1, <1>2, <1>3, LoadSoFar, GatherCounts DEF At

LEMMA EndLoadCounts ==
  ASSUME TablesOK, TrafficOK, NEW t \in Task, EndLoad(t)
  PROVE  TrafficOK'
<1> DEFINE got == task[t].got
<1>1. task[t].at = "load" /\ got.waiting = {} /\ task' = [task EXCEPT ![t] = Resting]
      /\ UNCHANGED <<page, traffic, timer>>
  BY DEF EndLoad, Rest
<1>2. /\ app'.stats = got.stats /\ app'.timeline = got.timeline /\ app'.events = got.events
      /\ app'.limit = app.limit
  BY Parts DEF EndLoad, AppRecord
<1>3. /\ StatsOK(got, traffic) /\ PointsOK(got.timeline, traffic)
      /\ page = "analytics" => EventsOK(task[t], traffic, app.limit)
  BY <1>1, LoadSoFar
<1>4. app.limit \in Nat /\ 30 <= app.limit /\ timer.limit = app.limit
  BY TrafficParts DEF DisplayedOK
<1>5. page = "analytics" => app'.events \in 0..Stored(traffic) /\ (app'.limit <= 200 => app'.events <= app'.limit)
  <2>1. Stored(traffic) \in Nat
    BY TrafficParts, Totals
  <2> QED
    BY <1>2, <1>3, <1>4, <2>1 DEF EventsOK
<1>6. DisplayedOK(app'.stats, app'.timeline, app'.events, app'.limit, traffic, page)
  BY <1>1, <1>2, <1>3, <1>4, <1>5 DEF DisplayedOK, StatsOK
<1>7. GatheredOK(Resting, traffic, app'.limit, page)
  BY DEF GatheredOK, Resting
<1>8. app.limit <= app'.limit /\ app'.limit \in Nat /\ timer'.limit = app'.limit
  BY <1>1, <1>2, <1>4
<1> QED
  BY <1>1, <1>4, <1>6, <1>7, <1>8, Parts, OneTaskCounts

LEMMA PollCounts ==
  ASSUME TablesOK, TrafficOK, NEW t \in Task, Poll(t) \/ Refresh(t)
  PROVE  TrafficOK'
<1>1. app.limit \in Nat /\ timer.limit = app.limit /\ Render.limit = app.limit
  BY TrafficParts DEF DisplayedOK, Render
<1>2. UNCHANGED <<page, traffic, app, timer>> /\ app.limit <= app'.limit
  BY <1>1 DEF Poll, Refresh
<1>3. ASSUME Poll(t) PROVE TrafficOK'
  <2>1. task' = [task EXCEPT ![t] = Loading(t, task[t].job, timer)]
    BY <1>3 DEF Poll, BeginLoad
  <2> QED
    BY <1>1, <1>2, <2>1, BeginCounts
<1>4. ASSUME Refresh(t) PROVE TrafficOK'
  <2>1. task' = [task EXCEPT ![t] = Loading(t, task[t].job, Render)]
    BY <1>4 DEF Refresh, BeginLoad
  <2> QED
    BY <1>1, <1>2, <2>1, BeginCounts
<1> QED
  BY <1>3, <1>4

LEMMA LoadMoreCounts ==
  ASSUME TablesOK, TrafficOK, NEW t \in Task, LoadMore(t)
  PROVE  TrafficOK'
<1> DEFINE render == [Render EXCEPT !.limit = @ + 30]
<1>1. /\ app' = [app EXCEPT !.limit = render.limit] /\ timer' = render
      /\ task' = [task EXCEPT ![t] = Loading(t, task[t].job, render)]
      /\ UNCHANGED <<page, traffic>>
  BY DEF LoadMore, BeginLoad
<1>2. render.limit = app.limit + 30
  BY DEF Render
<1>3. app.limit \in Nat
  BY TrafficParts DEF DisplayedOK
<1> HIDE DEF render
<1>4. /\ app'.stats = app.stats /\ app'.timeline = app.timeline /\ app'.events = app.events
      /\ app'.limit = render.limit
  BY <1>1, Parts DEF AppRecord
<1>5. app.limit <= app'.limit /\ app'.limit \in Nat /\ timer'.limit = app'.limit
  BY <1>1, <1>2, <1>3, <1>4
<1> QED
  BY <1>1, <1>4, <1>5, BeginCounts

\* On the pages that show traffic there are no requests, so none is answered.
LEMMA ContinueCounts ==
  ASSUME TablesOK, TrafficOK, NEW t \in Task, NEW whats, Continue(t, whats), SameDisplay
  PROVE  TrafficOK'
<1>1. /\ task[t].at = "done" /\ UNCHANGED <<page, traffic, timer>>
      /\ task' = [task EXCEPT ![t] = Loading(t, task[t].job, task[t].sees)]
  BY DEF Continue, BeginLoad
<1>2. page # "analytics"
  BY <1>1, Parts DEF TaskOK, TablePages
<1>3. app.limit \in Nat /\ timer.limit = app.limit /\ app'.limit = app.limit
  BY TrafficParts DEF DisplayedOK, SameDisplay
<1>4. app.limit <= app'.limit /\ app'.limit \in Nat /\ timer'.limit = app'.limit
  BY <1>1, <1>3
<1> QED
  BY <1>1, <1>2, <1>4, BeginCounts DEF SameDisplay

LEMMA SubmitCounts ==
  ASSUME TablesOK, TrafficOK, NEW t \in Task, NEW job, NEW render, Submit(t, job, render), SameDisplay
  PROVE  TrafficOK'
<1> DEFINE x == [Resting EXCEPT !.at = "sent", !.job = job, !.sees = render]
<1>1. task' = [task EXCEPT ![t] = x] /\ UNCHANGED <<page, traffic, timer>>
  BY DEF Submit
<1>2. x.at = "sent"
  BY DEF Resting
<1> HIDE DEF x
<1> QED
  BY <1>1, <1>2, Parts, QuietCounts

LEMMA AnswerCounts ==
  ASSUME TablesOK, TrafficOK, NEW t \in Task, NEW job, Answer(t, job)
  PROVE  TrafficOK'
<1> DEFINE x == [task[t] EXCEPT !.at = "done", !.job = job]
<1>1. task' = [task EXCEPT ![t] = x] /\ UNCHANGED <<page, traffic, timer>> /\ SameDisplay
  BY DEF Answer, SameDisplay
<1>2. x.at = "done"
  BY Parts DEF TaskRecord
<1> HIDE DEF x
<1> QED
  BY <1>1, <1>2, Parts, QuietCounts

LEMMA WriteCounts ==
  ASSUME TablesOK, TrafficOK, NEW t \in Task, NEW rows, NEW id, Write(t, rows, id)
  PROVE  TrafficOK'
BY AnswerCounts DEF Write

LEMMA RestCounts ==
  ASSUME TablesOK, TrafficOK, NEW t \in Task, Fail(t) \/ LoseAnswer(t)
  PROVE  TrafficOK'
<1>1. /\ task' = [task EXCEPT ![t] = Resting] /\ UNCHANGED <<page, traffic, timer>> /\ SameDisplay
  BY DEF Fail, LoseAnswer, Rest, SameDisplay
<1>2. Resting.at # "load"
  BY DEF Resting
<1> QED
  BY <1>1, <1>2, Parts, QuietCounts

\* Forms and dialogs.
LEMMA FormsCount ==
  ASSUME TablesOK, TrafficOK,
         \/ Select \/ TypePolicy \/ ResetPolicy \/ TypeSlot \/ FillExample \/ PickRange
         \/ Dismiss \/ Cancel \/ Revisit
         \/ (\E what, id : Ask(what, id)) \/ (\E r, draft : StartEdit(r, draft)) \/ (\E value : EditDraft(value))
  PROVE  TrafficOK'
<1>1. AppRecord(app)
  BY Parts
<1>2. ASSUME Select \/ TypePolicy \/ ResetPolicy \/ TypeSlot \/ FillExample \/ PickRange \/ Dismiss
      PROVE  TrafficOK'
  <2>1. SameDisplay
    BY <1>1, <1>2 DEF Select, TypePolicy, ResetPolicy, TypeSlot, FillExample, PickRange, Dismiss,
       SameDisplay, AppRecord
  <2> QED
    BY <1>2, <2>1, FormCounts DEF Select, TypePolicy, ResetPolicy, TypeSlot, FillExample, PickRange, Dismiss
<1>3. ASSUME Cancel \/ Revisit \/ (\E r, draft : StartEdit(r, draft)) \/ (\E value : EditDraft(value))
      PROVE  TrafficOK'
  BY <1>3, FormCounts DEF Cancel, Revisit, StartEdit, EditDraft, SameDisplay
<1>4. ASSUME NEW what, NEW id, Ask(what, id) PROVE TrafficOK'
  BY <1>1, <1>4, FormCounts DEF Ask, SameDisplay, AppRecord
<1> QED
  BY <1>2, <1>3, <1>4

LEMMA TrafficStep ==
  ASSUME TablesOK, TrafficOK, [Next]_vars
  PROVE  TrafficOK'
<1>1. ASSUME KeysNext PROVE TrafficOK'
  <2>1. ASSUME SelectKeyPolicy \/ AskToRevoke PROVE TrafficOK'
    BY <2>1, FormsCount DEF SelectKeyPolicy, AskToRevoke
  <2>2. ASSUME NEW t \in Task, AskForKey(t) \/ Test(t) PROVE TrafficOK'
    <3>1. SameDisplay
      BY <2>2 DEF AskForKey, Test, SameDisplay
    <3> QED
      BY <2>2, <3>1, SubmitCounts DEF AskForKey, Test
  <2>3. ASSUME NEW t \in Task, InsertKey(t) \/ RevokeKey(t) PROVE TrafficOK'
    BY <2>3, WriteCounts DEF InsertKey, Insert, RevokeKey
  <2>4. ASSUME NEW t \in Task, KeyCreated(t) \/ TestAnswered(t) PROVE TrafficOK'
    <3>1. SameDisplay
      BY <2>4, Parts DEF KeyCreated, TestAnswered, SameDisplay, AppRecord
    <3> QED
      BY <2>4, <3>1, ContinueCounts DEF KeyCreated, TestAnswered
  <2>5. ASSUME NEW t \in Task, AnswerTest(t) PROVE TrafficOK'
    BY <2>5, AnswerCounts DEF AnswerTest
  <2> QED
    BY <1>1, <2>1, <2>2, <2>3, <2>4, <2>5 DEF KeysNext
<1>2. ASSUME PoliciesNext PROVE TrafficOK'
  <2>1. ASSUME TypePolicy \/ ResetPolicy \/ AskToDeletePolicy \/ StartPolicyEdit \/ ChangePolicyDraft
        PROVE  TrafficOK'
    BY <2>1, FormsCount DEF AskToDeletePolicy, StartPolicyEdit, ChangePolicyDraft
  <2>2. ASSUME NEW t \in Task, CreatePolicy(t) \/ SavePolicy(t) PROVE TrafficOK'
    <3>1. SameDisplay
      BY <2>2 DEF CreatePolicy, SavePolicy, Save, SameDisplay
    <3> QED
      BY <2>2, <3>1, SubmitCounts DEF CreatePolicy, SavePolicy, Save
  <2>3. ASSUME NEW t \in Task, InsertPolicy(t) \/ UpdatePolicy(t) \/ DeletePolicy(t) PROVE TrafficOK'
    BY <2>3, WriteCounts DEF InsertPolicy, Insert, UpdatePolicy, Update, DeletePolicy, Delete
  <2>4. ASSUME NEW t \in Task, PolicyCreated(t) PROVE TrafficOK'
    <3>1. SameDisplay
      BY <2>4, Parts DEF PolicyCreated, SameDisplay, AppRecord
    <3> QED
      BY <2>4, <3>1, ContinueCounts DEF PolicyCreated
  <2> QED
    BY <1>2, <2>1, <2>2, <2>3, <2>4 DEF PoliciesNext
<1>3. ASSUME RoutesNext PROVE TrafficOK'
  <2>1. ASSUME \/ TypeSlot \/ SelectRoutePolicy \/ FillExample
               \/ AskToDeleteRoute \/ StartRouteEdit \/ ChangeRouteDraft
        PROVE  TrafficOK'
    BY <2>1, FormsCount DEF SelectRoutePolicy, AskToDeleteRoute, StartRouteEdit, ChangeRouteDraft
  <2>2. ASSUME NEW t \in Task, AttachRoute(t) \/ SaveRoute(t) PROVE TrafficOK'
    <3>1. SameDisplay
      BY <2>2 DEF AttachRoute, SaveRoute, Save, SameDisplay
    <3> QED
      BY <2>2, <3>1, SubmitCounts DEF AttachRoute, SaveRoute, Save
  <2>3. ASSUME NEW t \in Task, InsertRoute(t) \/ UpdateRoute(t) \/ DeleteRoute(t) PROVE TrafficOK'
    BY <2>3, WriteCounts DEF InsertRoute, Insert, UpdateRoute, Update, DeleteRoute, Delete
  <2> QED
    BY <1>3, <2>1, <2>2, <2>3 DEF RoutesNext
<1>4. ASSUME TrafficNext \/ OverviewNext \/ AnalyticsNext PROVE TrafficOK'
  <2>1. ASSUME TrafficNext PROVE TrafficOK'
    BY <2>1, ArriveCounts, DecideCounts, StoreCounts DEF TrafficNext
  <2>2. ASSUME OverviewNext PROVE TrafficOK'
    BY <2>2, TimePassesCounts, FormsCount, ReadCounterCounts, ReadStatsFailsCounts, ReadTimelineCounts
       DEF OverviewNext
  <2>3. ASSUME AnalyticsNext PROVE TrafficOK'
    BY <2>3, ReadEventsCounts, LoadMoreCounts DEF AnalyticsNext
  <2> QED
    BY <1>4, <2>1, <2>2, <2>3
<1>5. ASSUME Dismiss \/ Cancel \/ Revisit PROVE TrafficOK'
  BY <1>5, FormsCount
<1>6. ASSUME NEW t \in Task, Confirm(t) PROVE TrafficOK'
  <2>1. SameDisplay
    BY <1>6, Parts DEF Confirm, SameDisplay, AppRecord
  <2> QED
    BY <1>6, <2>1, SubmitCounts DEF Confirm
<1>7. ASSUME NEW t \in Task, ActionDone(t) PROVE TrafficOK'
  <2>1. SameDisplay
    BY <1>7 DEF ActionDone, SameDisplay
  <2> QED
    BY <1>7, <2>1, ContinueCounts DEF ActionDone
<1>8. ASSUME UNCHANGED vars PROVE TrafficOK'
  BY <1>8, FormCounts DEF vars, SameDisplay
<1> QED
  BY <1>1, <1>2, <1>3, <1>4, <1>5, <1>6, <1>7, <1>8, PollCounts, ReadListCounts, ReadFailsCounts,
     EndLoadCounts, RestCounts DEF Next

LEMMA TrafficInit ==
  ASSUME Init
  PROVE  TrafficOK
<1>1. PICK n : /\ traffic = [NoTraffic EXCEPT !.old = n]
               /\ n \in IF At("analytics") THEN OldEvents ELSE {0}
  BY DEF Init
<1>2. n \in Nat
  BY <1>1, AnalyticsBounds
<1>3. TrafficRecord(traffic) /\ CountedOK(traffic)
  BY <1>1, <1>2 DEF NoTraffic, TrafficRecord, CountedOK, Minutes
<1>4. app.stats = NoStats /\ app.timeline = {} /\ app.events = 0 /\ app.limit = 30 /\ timer.limit = 30
  BY DEF Init
<1>5. DisplayedOK(app.stats, app.timeline, app.events, app.limit, traffic, page)
  <2>1. Stored(traffic) \in Nat
    BY <1>3, Totals
  <2> QED
    BY <1>4, <2>1, FS_EmptySet DEF DisplayedOK, Numbers, AddsUp, NoStats, PointsOK
<1>6. \A t \in Task : task[t].at = "idle"
  BY DEF Init, Resting
<1>7. \A t \in Task : GatheredOK(task[t], traffic, app.limit, page)
  BY <1>6 DEF GatheredOK
<1> QED
  BY <1>3, <1>4, <1>5, <1>7 DEF TrafficOK, TrafficHolds

\* What the pages show of the traffic, and what loads have gathered of it, fits
\* what has been counted and stored.
THEOREM TrafficInvariance == Spec => [](TablesOK /\ TrafficOK)
<1>1. Init => TablesOK /\ TrafficOK
  BY TablesInit, TrafficInit
<1>2. TablesOK /\ TrafficOK /\ [Next]_vars => (TablesOK /\ TrafficOK)'
  BY TablesStep, TrafficStep
<1> QED
  BY <1>1, <1>2, PTL DEF Spec

\* The counters on display add up but for the requests that arrived while they
\* were gathered, however many arrive and are decided between two of them.
THEOREM CountersAddUp == Spec => []StatsAddUp
<1>1. TrafficOK => StatsAddUp
  BY TrafficParts DEF StatsAddUp, DisplayedOK, AddsUp
<1> QED
  BY <1>1, TrafficInvariance, PTL

\* When the last timeline has a bucket in the range that is picked, every point
\* of the chart stands for a bucket and exceeds nothing that is stored for it.
THEOREM ChartKept == Spec => []ChartShowsStoredTraffic
<1>1. TrafficOK => ChartShowsStoredTraffic
  <2> SUFFICES ASSUME TrafficOK, filtered(app.timeline, app.range, traffic.minute) # {}, NEW q \in Chart
               PROVE  /\ q.t \in Minutes
                      /\ q.allowed <= traffic.stored.allowed[q.t]
                      /\ q.rejected <= traffic.stored.rejected[q.t]
    BY DEF ChartShowsStoredTraffic
  <2> DEFINE points == filtered(app.timeline, app.range, traffic.minute)
  <2>1. PointsOK(app.timeline, traffic) /\ CountedOK(traffic)
    BY TrafficParts DEF DisplayedOK
  <2>2. points \in SUBSET app.timeline
    BY DEF filtered
  <2>3. IsFiniteSet(points)
    BY <2>1, <2>2, FS_Subset DEF PointsOK
  <2>4. Cardinality(points) > 0
    <3>1. points # {}
      OBVIOUS
    <3> HIDE DEF points
    <3>2. Cardinality(points) \in Nat /\ Cardinality(points) # 0
      BY <2>3, <3>1, FS_CardinalityType, FS_EmptySet
    <3> QED
      BY <3>2
  <2>5. q \in app.timeline
    BY <2>2, <2>4 DEF Chart, buildChartData, Drawable
  <2> QED
    BY <2>1, <2>5 DEF PointsOK, CountedOK
<1> QED
  BY <1>1, TrafficInvariance, PTL

\* "View all" takes no events away: a load shows at least as many as there were
\* when it began, or, when it asks for more than two hundred, at least fifty.
THEOREM MoreIsMore == Spec => MoreShowsMore
<1>1. ASSUME TablesOK, TrafficOK, [Next]_vars, NEW t \in Task, At("analytics"), Loaded(t),
             task[t].got.failed = {}
      PROVE  \/ app'.events >= task[t].got.before
             \/ task[t].sees.limit > 200 /\ app'.events >= 50
  <2>1. EndLoad(t)
    BY <1>1, OnlyEndLoad
  <2>2. task[t].at = "load" /\ task[t].got.waiting = {}
    BY <2>1 DEF EndLoad
  <2>3. app'.events = task[t].got.events
    BY <1>1, <2>1, Parts DEF EndLoad, AppRecord
  <2>4. EventsOK(task[t], traffic, app.limit)
    BY <1>1, <2>2, LoadSoFar DEF At
  <2>5. Stored(traffic) \in Nat
    BY <1>1, TrafficParts, Totals
  <2> QED
    BY <1>1, <2>2, <2>3, <2>4, <2>5 DEF EventsOK
<1>2. TablesOK /\ TrafficOK /\ [Next]_vars =>
        [\A t \in Task :
           (At("analytics") /\ Loaded(t) /\ task[t].got.failed = {}) =>
             \/ app'.events >= task[t].got.before
             \/ task[t].sees.limit > 200 /\ app'.events >= 50]_vars
  BY <1>1
<1> QED
  BY <1>2, TrafficInvariance, PTL DEF Spec, MoreShowsMore

==============================================================================
