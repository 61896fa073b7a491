----------------------------- MODULE RoutesPage -----------------------------
(***************************************************************************)
(* The page of route policies (RoutePolicyPanel.jsx), and the part of the  *)
(* API that it calls.  A slot is a method with a pattern.                  *)
(***************************************************************************)
EXTENDS App

CONSTANT Slots    \* the slots the administrator names; 1 is the example's

ASSUME RouteBounds == Slots \subseteq Nat \ {0} /\ 1 \in Slots

\* A route policy that may be there from the start, in the example's slot.
OldRoute == Row(1, [Blank EXCEPT !.slot = 1, !.policy = Last(Policies)], 0)

-----------------------------------------------------------------------------
(* The form *)

TypeSlot ==
  /\ \E s \in Slots : app' = [app EXCEPT !.slot = s]
  /\ UNCHANGED <<page, server, traffic, panel, task, timer, history>>

SelectRoutePolicy == Select

FillExample ==
  /\ app' = [app EXCEPT !.slot = 1,
                        !.selected = IF @ = Nothing /\ app.policies # <<>>
                                     THEN Head(app.policies) ELSE @]
  /\ UNCHANGED <<page, server, traffic, panel, task, timer, history>>

\* The form keeps its values.
AttachRoute(t) ==
  /\ Submit(t, Job("createRoute", Nothing,
                   [Blank EXCEPT !.slot = app.slot, !.policy = app.selected]), Render)
  /\ UNCHANGED <<app, panel>>

\* The policy exists, and no row but the one with this id has the slot.
Attachable(id, value) ==
  /\ value.policy \in ToSet(Policies)
  /\ \A r \in server.rows : r.value.slot = value.slot => r.id = id

InsertRoute(t) ==
  /\ Sent(t, "createRoute")
  /\ Attachable(Nothing, task[t].job.value)
  /\ Insert(t, task[t].job.value)
  /\ UNCHANGED history

-----------------------------------------------------------------------------
(* The editor *)

StartRouteEdit ==
  /\ \E r \in app.rows : StartEdit(r, [of |-> r.id, value |-> r.value])

ChangeRouteDraft ==
  /\ \/ \E s \in Slots : EditDraft([panel.draft.value EXCEPT !.slot = s])
     \/ \E p \in ToSet(app.policies) : EditDraft([panel.draft.value EXCEPT !.policy = p])

SaveRoute(t) == Save(t, "updateRoute")

UpdateRoute(t) ==
  /\ Sent(t, "updateRoute")
  /\ Attachable(task[t].job.id, task[t].job.value)
  /\ Update(t, task[t].job.id, task[t].job.value)
  /\ UNCHANGED history

AskToDeleteRoute ==
  /\ \E r \in app.rows : r.id # panel.editing /\ Ask("deleteRoute", r.id)

DeleteRoute(t) ==
  /\ Sent(t, "deleteRoute")
  /\ Delete(t, task[t].job.id)
  /\ history' = [history EXCEPT !.deleted = @ \cup {task[t].job.id}]

RoutesNext ==
  /\ At("routes")
  /\ \/ TypeSlot
     \/ SelectRoutePolicy
     \/ FillExample
     \/ StartRouteEdit
     \/ ChangeRouteDraft
     \/ AskToDeleteRoute
     \/ \E t \in Task :
          \/ AttachRoute(t)
          \/ InsertRoute(t)
          \/ SaveRoute(t)
          \/ UpdateRoute(t)
          \/ DeleteRoute(t)
=============================================================================
