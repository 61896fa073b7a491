-------------------------------- MODULE App --------------------------------
(***************************************************************************)
(* The dashboard (frontend/src/App.jsx, api.js): the state of the page,    *)
(* and everything in it that waits for the server.                         *)
(*                                                                         *)
(* What waits is a task: a load, which a timer starts every five seconds,  *)
(* or a handler, which sends a request and then loads.  Tasks overlap and  *)
(* end in any order; between two awaits the code runs undisturbed.  A task *)
(* sees the state of the render its function was made in, and the timer's  *)
(* function is made only when the page opens and when more events are      *)
(* asked for.                                                              *)
(*                                                                         *)
(* One behaviour is about one page: the administrator stays there, or      *)
(* leaves and comes back.  Of the lists that a load asks for only those    *)
(* count that the page is about.  Notices are left out.                    *)
(***************************************************************************)
EXTENDS Integers, FiniteSetsExt, SequencesExt

CONSTANTS
  Task,           \* what can wait for the server
  Pages,          \* the pages that the administrator may be on
  Policies,       \* the policies to choose from, newest first
  MaxTasks,       \* bounds, for each page: tasks at the same time,
  MaxWrites,      \* rows inserted, updated or deleted,
  MaxVisits       \* and times that the administrator comes back

ASSUME AppBounds ==
  /\ Pages \subseteq {"keys", "policies", "routes", "overview", "analytics"}
  /\ Policies \in Seq(Nat \ {0}) \ {<<>>}
  /\ {MaxTasks, MaxWrites, MaxVisits} \subseteq [Pages -> Nat]
  /\ IsFiniteSet(Task)

VARIABLES
  page,           \* the page, which never changes
  server,         \* [rows, writes, lastId]: the table behind the page,
                  \* and how many writes have been done
  traffic,        \* what the protected endpoint has counted and stored
  app,            \* the state of App
  panel,          \* the state of the page's panel, which leaving it destroys
  task,           \* [at, job, sees, got] for each task
  timer,          \* what the timer's load sees
  history         \* [secrets, lost, deleted]: displayed, lost, deleted rows

vars == <<page, server, traffic, app, panel, task, timer, history>>

Nothing == 0

\* What a form holds, or a row has, as far as there is such a field.
Blank == [policy |-> Nothing, slot |-> Nothing, limit |-> 0, burst |-> 0, revoked |-> FALSE]

NoDialog == [id |-> Nothing, sees |-> Nothing, what |-> "none"]

\* What App asks of the server.
Writes == {"createKey", "revokeKey", "createPolicy", "updatePolicy", "deletePolicy",
           "createRoute", "updateRoute", "deleteRoute"}
Requests == Writes \cup {"test", "none"}

\* What a load sees of the render that its function was made in.
Render == [selected |-> app.selected, limit |-> app.limit]
NoRender == [selected |-> Nothing, limit |-> 0]

\* A row of a table carries the number of the write that it was last changed by.
Row(id, value, stamp) == [id |-> id, value |-> value, stamp |-> stamp]

At(p) == page = p

-----------------------------------------------------------------------------
(* Loads *)

Lists(p) ==
  CASE p \in {"keys", "routes"} -> {"policies", "rows"}
    [] p = "policies" -> {"rows"}
    [] p = "overview" -> {"requests", "rejected", "allowed", "timeline"}
    [] p = "analytics" -> {"events"}

NoStats == [requests |-> 0, rejected |-> 0, allowed |-> 0, arrived |-> 0]

\* What a load has received, each list empty until it has; and the number of
\* events on display when it began.
NothingRead ==
  [policies |-> <<>>, rows |-> {}, stats |-> NoStats, timeline |-> {}, events |-> 0,
   waiting |-> Lists(page), failed |-> {}, before |-> app.events]

NoLoad == [NothingRead EXCEPT !.waiting = {}, !.before = 0]
NoJob == [what |-> "none", id |-> Nothing, value |-> Blank, stamp |-> 0, visit |-> 0,
          answer |-> "none"]
Resting == [at |-> "idle", job |-> NoJob, sees |-> NoRender, got |-> NoLoad]

\* Mutant: a load that overlaps another shares what that has received.
SharedReads(t) ==
  IF \E u \in Task \ {t} : task[u].at = "load"
  THEN task[CHOOSE u \in Task \ {t} : task[u].at = "load"].got
  ELSE NothingRead

\* Every load asks for everything anew.
Reads(t) == NothingRead

\* There is room for one more task.
Idle(t) == task[t].at = "idle" /\ Cardinality({u \in Task : task[u].at # "idle"}) < MaxTasks[page]

Loading(t, job, render) == [at |-> "load", job |-> job, sees |-> render, got |-> Reads(t)]

BeginLoad(t, render) == task' = [task EXCEPT ![t] = Loading(t, task[t].job, render)]

\* The timer, and the first load when the page opens.
Poll(t) ==
  /\ Idle(t)
  /\ BeginLoad(t, timer)
  /\ UNCHANGED <<page, server, traffic, app, panel, timer, history>>

Refresh(t) ==
  /\ Idle(t)
  /\ BeginLoad(t, Render)
  /\ UNCHANGED <<page, server, traffic, app, panel, timer, history>>

Awaits(t, list) == task[t].at = "load" /\ list \in task[t].got.waiting

Receives(t, list, value) ==
  /\ Awaits(t, list)
  /\ task' = [task EXCEPT ![t].got =
                [task[t].got EXCEPT ![list] = value, !.waiting = @ \ {list}]]
  /\ UNCHANGED <<page, server, traffic, app, panel, timer, history>>

ReadPolicies(t) == Receives(t, "policies", Policies)

ReadRows(t) == Receives(t, "rows", server.rows)

\* A list that cannot be had is taken to be empty.
ReadFails(t, list) ==
  /\ Awaits(t, list)
  /\ task' = [task EXCEPT ![t].got =
                [task[t].got EXCEPT !.waiting = @ \ {list}, !.failed = @ \cup {list}]]
  /\ UNCHANGED <<page, server, traffic, app, panel, timer, history>>

\* The draft that a closed editor keeps is never read, and counts as blank.
ClosedPanel(visit) ==
  [editing |-> Nothing, draft |-> [of |-> Nothing, value |-> Blank], visit |-> visit]

\* A panel is not the one it was before the administrator left and came back.
\* Mutant: it is.
SameVisitAlways(t) == TRUE

SameVisit(t) == task[t].job.visit = panel.visit

\* saveEdit closes the editor, whichever is open by then, when its action has
\* returned; and that returns when the request failed, too.
CloseEditor(t) ==
  panel' = IF task[t].job.what \in {"updatePolicy", "updateRoute"} /\ SameVisit(t)
           THEN ClosedPanel(panel.visit) ELSE panel

Rest(t) == task' = [task EXCEPT ![t] = Resting] /\ CloseEditor(t)

\* The forms are given a policy when they had none in the render that the
\* load's function was made in, whatever they have now.
Selection(t) ==
  IF task[t].sees.selected = Nothing /\ task[t].got.policies # <<>>
  THEN Head(task[t].got.policies) ELSE app.selected

\* All lists are there.
EndLoad(t) ==
  LET got == task[t].got
  IN  /\ task[t].at = "load"
      /\ got.waiting = {}
      /\ app' = [app EXCEPT !.policies = got.policies, !.rows = got.rows, !.stats = got.stats,
                            !.timeline = got.timeline,
                            !.events = got.events, !.selected = Selection(t)]
      /\ Rest(t)
      /\ UNCHANGED <<page, server, traffic, timer, history>>

-----------------------------------------------------------------------------
(* The forms choose among the policies on display. *)

Select ==
  /\ \E p \in ToSet(app.policies) : app' = [app EXCEPT !.selected = p]
  /\ UNCHANGED <<page, server, traffic, panel, task, timer, history>>

-----------------------------------------------------------------------------
(* Requests *)

\* Writes done or asked for.
WritesAsked == server.writes + Cardinality({t \in Task : task[t].at = "sent" /\ task[t].job.what \in Writes})

Job(what, id, value) ==
  [NoJob EXCEPT !.what = what, !.id = id, !.value = value, !.visit = panel.visit]

Submit(t, job, render) ==
  /\ Idle(t)
  /\ job.what \in Writes => WritesAsked < MaxWrites[page]
  /\ task' = [task EXCEPT ![t] = [Resting EXCEPT !.at = "sent", !.job = job, !.sees = render]]
  /\ UNCHANGED <<page, server, traffic, timer, history>>

Sent(t, what) == task[t].at = "sent" /\ task[t].job.what = what

\* The request is done, and the answer on its way.
Answer(t, job) ==
  /\ task' = [task EXCEPT ![t].at = "done", ![t].job = job]
  /\ UNCHANGED <<page, traffic, app, panel, timer>>

\* The server writes to the row id.
Write(t, rows, id) ==
  /\ server' = [rows |-> rows, writes |-> server.writes + 1,
                lastId |-> IF id > server.lastId THEN id ELSE server.lastId]
  /\ Answer(t, [task[t].job EXCEPT !.id = id, !.stamp = server.writes + 1])

Insert(t, value) ==
  LET id == server.lastId + 1
  IN Write(t, server.rows \cup {Row(id, value, server.writes + 1)}, id)

\* A row that is gone is not there to be updated.
Update(t, id, value) ==
  /\ \E r \in server.rows : r.id = id
  /\ Write(t, {r \in server.rows : r.id # id} \cup {Row(id, value, server.writes + 1)}, id)

Delete(t, id) == Write(t, {r \in server.rows : r.id # id}, id)

\* A request that is refused, for whatever reason, or does not arrive.  The
\* handler tells the error, and does not load.
Fail(t) ==
  /\ task[t].at = "sent"
  /\ Rest(t)
  /\ UNCHANGED <<page, server, traffic, app, timer, history>>

\* A request whose answer does not come back.
LoseAnswer(t) ==
  /\ task[t].at = "done"
  /\ history' = [history EXCEPT !.lost = @ \cup IF task[t].job.what = "createKey"
                                               THEN {task[t].job.id} ELSE {}]
  /\ Rest(t)
  /\ UNCHANGED <<page, server, traffic, app, timer>>

Continue(t, whats) ==
  /\ task[t].at = "done"
  /\ task[t].job.what \in whats
  /\ BeginLoad(t, task[t].sees)
  /\ UNCHANGED <<page, server, traffic, panel, timer>>

\* Requests whose answer nothing is taken from.
ActionDone(t) ==
  /\ Continue(t, Writes \ {"createKey", "createPolicy"})
  /\ UNCHANGED <<app, history>>

-----------------------------------------------------------------------------
(* The dialog holds the function it will call, made in the render in which  *)
(* it was asked for.                                                        *)

Ask(what, id) ==
  /\ app' = [app EXCEPT !.confirm = [id |-> id, sees |-> app.selected, what |-> what]]
  /\ UNCHANGED <<page, server, traffic, panel, task, timer, history>>

Dismiss ==
  /\ app.confirm # NoDialog
  /\ app' = [app EXCEPT !.confirm = NoDialog]
  /\ UNCHANGED <<page, server, traffic, panel, task, timer, history>>

Confirm(t) ==
  /\ app.confirm # NoDialog
  /\ Submit(t, Job(app.confirm.what, app.confirm.id, Blank),
            [Render EXCEPT !.selected = app.confirm.sees])
  /\ app' = [app EXCEPT !.confirm = NoDialog]
  /\ UNCHANGED panel

-----------------------------------------------------------------------------
(* Editors.  (PolicyPanel and RoutePolicyPanel have the same.)  A draft     *)
(* knows, for the sake of a property, which row it was made from.           *)

\* The row that is edited, while that is on display.
Edited == {r \in app.rows : r.id = panel.editing}

\* Another row's edit button leads from its editor to this one.
StartEdit(r, draft) ==
  /\ r \notin Edited
  /\ panel' = [panel EXCEPT !.editing = r.id, !.draft = draft]
  /\ UNCHANGED <<page, server, traffic, app, task, timer, history>>

EditDraft(draft) ==
  /\ Edited # {}
  /\ panel' = [panel EXCEPT !.draft.value = draft]
  /\ UNCHANGED <<page, server, traffic, app, task, timer, history>>

Cancel ==
  /\ Edited # {}
  /\ panel' = ClosedPanel(panel.visit)
  /\ UNCHANGED <<page, server, traffic, app, task, timer, history>>

Save(t, what) ==
  /\ Edited # {}
  /\ Submit(t, Job(what, panel.editing, panel.draft.value), Render)
  /\ UNCHANGED <<app, panel>>

\* The administrator goes to another page and comes back.
Revisit ==
  /\ page \in {"policies", "routes"}
  /\ panel.visit < MaxVisits[page]
  /\ panel' = ClosedPanel(panel.visit + 1)
  /\ UNCHANGED <<page, server, traffic, app, task, timer, history>>
=============================================================================
