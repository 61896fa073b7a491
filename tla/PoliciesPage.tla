---------------------------- MODULE PoliciesPage ----------------------------
(***************************************************************************)
(* The page of policies (PolicyPanel.jsx), and the part of the API that it *)
(* calls.  Of a policy there is its limit and its burst capacity, which    *)
(* has no field in either form.                                            *)
(***************************************************************************)
EXTENDS App

CONSTANT Typed    \* limits the administrator types; zero, an empty field, is refused

ASSUME PolicyBounds == Typed \subseteq Nat

emptyPolicy == [Blank EXCEPT !.limit = 100, !.burst = 100]

\* The policy that is there from the start.
SeedPolicy == Row(1, [Blank EXCEPT !.limit = 10, !.burst = 10], 0)

-----------------------------------------------------------------------------
(* The form for a new policy *)

\* The burst capacity stays.
TypePolicy ==
  /\ \E n \in Typed : app' = [app EXCEPT !.newPolicy.limit = n]
  /\ UNCHANGED <<page, server, traffic, panel, task, timer, history>>

ResetPolicy ==
  /\ app' = [app EXCEPT !.newPolicy = emptyPolicy]
  /\ UNCHANGED <<page, server, traffic, panel, task, timer, history>>

CreatePolicy(t) ==
  /\ Submit(t, Job("createPolicy", Nothing, app.newPolicy), Render)
  /\ UNCHANGED <<app, panel>>

Valid(policy) == policy.limit > 0

Validated(policy) == [policy EXCEPT !.burst = IF @ <= 0 THEN policy.limit ELSE @]

InsertPolicy(t) ==
  /\ Sent(t, "createPolicy")
  /\ Valid(task[t].job.value)
  /\ Insert(t, Validated(task[t].job.value))
  /\ UNCHANGED history

\* What has been typed since the request was sent is lost.
PolicyCreated(t) ==
  /\ Continue(t, {"createPolicy"})
  /\ app' = [app EXCEPT !.newPolicy = emptyPolicy]
  /\ UNCHANGED history

-----------------------------------------------------------------------------
(* The editor *)

\* Mutant: the draft is the one of the row edited before.
OldDraft(r) == panel.draft

PolicyDraft(r) ==
  [of |-> r.id,
   value |-> [r.value EXCEPT !.burst = IF @ = 0 THEN r.value.limit ELSE @]]

StartPolicyEdit ==
  /\ \E r \in app.rows : StartEdit(r, PolicyDraft(r))

\* Mutant: the editor, like the form, leaves the burst capacity alone.
LimitOnly(n) == [panel.draft.value EXCEPT !.limit = n]

LimitAndBurst(n) == [panel.draft.value EXCEPT !.limit = n, !.burst = n]

ChangePolicyDraft ==
  /\ \E n \in Typed : EditDraft(LimitAndBurst(n))

SavePolicy(t) == Save(t, "updatePolicy")

UpdatePolicy(t) ==
  /\ Sent(t, "updatePolicy")
  /\ Valid(task[t].job.value)
  /\ Update(t, task[t].job.id, Validated(task[t].job.value))
  /\ UNCHANGED history

AskToDeletePolicy ==
  /\ \E r \in app.rows : r.id # panel.editing /\ Ask("deletePolicy", r.id)

\* A policy in use is refused, which is a failure like any other.
DeletePolicy(t) ==
  /\ Sent(t, "deletePolicy")
  /\ Delete(t, task[t].job.id)
  /\ history' = [history EXCEPT !.deleted = @ \cup {task[t].job.id}]

PoliciesNext ==
  /\ At("policies")
  /\ \/ TypePolicy
     \/ ResetPolicy
     \/ StartPolicyEdit
     \/ ChangePolicyDraft
     \/ AskToDeletePolicy
     \/ \E t \in Task :
          \/ CreatePolicy(t)
          \/ InsertPolicy(t)
          \/ PolicyCreated(t)
          \/ SavePolicy(t)
          \/ UpdatePolicy(t)
          \/ DeletePolicy(t)
=============================================================================
