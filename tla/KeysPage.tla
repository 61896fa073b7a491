------------------------------ MODULE KeysPage ------------------------------
(***************************************************************************)
(* The page of API keys (KeyPanel.jsx), the request tester that sends the  *)
(* key on display (RequestTester.jsx), and the part of the API that they   *)
(* call.                                                                   *)
(***************************************************************************)
EXTENDS App

SelectKeyPolicy == Select

\* The form keeps its values, and nothing stops a second click.
AskForKey(t) ==
  /\ Submit(t, Job("createKey", Nothing, [Blank EXCEPT !.policy = app.selected]), Render)
  /\ UNCHANGED <<app, panel>>

AskToRevoke ==
  /\ \E r \in app.rows : Ask("revokeKey", r.id)

\* Mutant: a key needs no policy.
PolicyExistsAlways(p) == TRUE

PolicyExists(p) == p \in ToSet(Policies)

InsertKey(t) ==
  /\ Sent(t, "createKey")
  /\ PolicyExists(task[t].job.value.policy)
  /\ Insert(t, task[t].job.value)
  /\ UNCHANGED history

\* A revoked key stays in the table.
RevokeKey(t) ==
  LET id == task[t].job.id
  IN  /\ Sent(t, "revokeKey")
      /\ Write(t, {IF r.id = id THEN Row(id, [r.value EXCEPT !.revoked = TRUE], server.writes + 1)
                   ELSE r : r \in server.rows}, id)
      /\ UNCHANGED history

\* Mutant: the first secret stays on display.
ShowsFirst(t) == IF app.createdKey = Nothing THEN task[t].job.id ELSE app.createdKey

Shows(t) == task[t].job.id

\* The answer to the creation of a key has its secret.
KeyCreated(t) ==
  /\ Continue(t, {"createKey"})
  /\ app' = [app EXCEPT !.createdKey = Shows(t)]
  /\ history' = [history EXCEPT !.secrets = @ \cup {Shows(t)}]

-----------------------------------------------------------------------------
(* The request tester *)

\* A test knows, for the sake of a property, how many writes were done before.
Test(t) ==
  /\ Submit(t, [Job("test", app.createdKey, Blank) EXCEPT !.stamp = server.writes], Render)
  /\ UNCHANGED <<app, panel>>

\* Mutant: a revoked key is still known.
KnowsEveryKey(id) == \E r \in server.rows : r.id = id

KnowsKey(id) == \E r \in server.rows : r.id = id /\ ~ r.value.revoked

\* A request without a key is let in by its address.  When the database
\* fails, no key is known.
AnswerTest(t) ==
  /\ Sent(t, "test")
  /\ \E answer \in {"authenticated", "unauthorized"} :
       /\ answer = "authenticated" => task[t].job.id = Nothing \/ KnowsKey(task[t].job.id)
       /\ answer = "unauthorized" => task[t].job.id # Nothing
       /\ Answer(t, [task[t].job EXCEPT !.answer = answer])
  /\ UNCHANGED <<server, history>>

\* Whatever the status, the answer is shown (which is left out), and the lists
\* are loaded.
TestAnswered(t) ==
  /\ Continue(t, {"test"})
  /\ UNCHANGED <<app, history>>

KeysNext ==
  /\ At("keys")
  /\ \/ SelectKeyPolicy
     \/ AskToRevoke
     \/ \E t \in Task :
          \/ AskForKey(t)
          \/ InsertKey(t)
          \/ RevokeKey(t)
          \/ KeyCreated(t)
          \/ Test(t)
          \/ AnswerTest(t)
          \/ TestAnswered(t)
=============================================================================
