------------------------------ MODULE AdminStore ------------------------------
(***************************************************************************)
(* The administration of RateX: policies, API keys and route policies, as  *)
(* the handlers, services and repositories of all the API instances change *)
(* them in one PostgreSQL database (migrations/001_init.sql and 002).      *)
(*                                                                         *)
(* Every operation but one is a single SQL statement, and a request that   *)
(* is refused (400, 409, 500) changes nothing.  PolicyRepository.Delete    *)
(* sends two statements outside a transaction: it counts the rows that use *)
(* the policy and then deletes it.                                         *)
(*                                                                         *)
(* An id is a uuid: here the number of the row, never used again.  The     *)
(* user that owns every key is always there and is left out.               *)
(***************************************************************************)
EXTENDS Integers, FiniteSets

CONSTANTS
  Admin,        \* requests for the deletion of a policy
  Name,         \* names of policies
  Slot,         \* pairs of a method and a route pattern
  Inputs,       \* policies asked for: [algorithm, request_limit, window_seconds,
                \*   burst_capacity]
  MaxPolicies,  \* bounds: rows ever inserted
  MaxKeys,
  MaxRoutes

ASSUME StoreBounds == MaxPolicies \in Nat /\ MaxKeys \in Nat /\ MaxRoutes \in Nat

VARIABLES
  policies,     \* [id, name, params]
  keys,         \* [id, policy, revoked]
  routes,       \* [id, slot, policy, enabled]
  policyCount,  \* rows ever inserted
  routeCount,
  deleting,     \* the policy each deletion has found unused, or Nothing
  attached      \* history: routes attached to that policy since it did

vars == <<policies, keys, routes, policyCount, routeCount, deleting, attached>>

Nothing == 0

Ids(rows) == {r.id : r \in rows}

-----------------------------------------------------------------------------
(* Policies *)

Algorithms == {"token_bucket", "fixed_window", "sliding_window"}

\* The algorithm is asked for in small letters, without spaces around it, or
\* not at all.
Valid(p) ==
  /\ p.algorithm \in Algorithms \cup {""}
  /\ p.request_limit > 0
  /\ p.window_seconds > 0

\* A policy without an algorithm is a token bucket, and one without a burst
\* gets its request limit.
Validated(p) ==
  [p EXCEPT !.algorithm = IF @ = "" THEN "token_bucket" ELSE @,
            !.burst_capacity = IF @ <= 0 THEN p.request_limit ELSE @]

\* The check constraints of the table.
Checks(p) ==
  /\ p.algorithm \in Algorithms
  /\ p.request_limit > 0
  /\ p.window_seconds > 0
  /\ p.burst_capacity > 0

\* Mutant: names need not be unique.
NameFreeAlways(n, id) == TRUE

NameFree(n, id) == \A p \in policies : p.name = n => p.id = id

Row(id, n, p) == [id |-> id, name |-> n, params |-> Validated(p)]

Insertable(id, n, p) == Valid(p) /\ Checks(Validated(p)) /\ NameFree(n, id)

CreatePolicy(n, p) ==
  /\ policyCount < MaxPolicies
  /\ Insertable(policyCount + 1, n, p)
  /\ policyCount' = policyCount + 1
  /\ policies' = policies \cup {Row(policyCount + 1, n, p)}
  /\ UNCHANGED <<keys, routes, routeCount, deleting, attached>>

UpdatePolicy(old, n, p) ==
  /\ Insertable(old.id, n, p)
  /\ policies' = (policies \ {old}) \cup {Row(old.id, n, p)}
  /\ UNCHANGED <<keys, routes, policyCount, routeCount, deleting, attached>>

-----------------------------------------------------------------------------
(* API keys *)

\* The foreign key: the policy exists.
CreateKey(id) ==
  /\ Cardinality(keys) < MaxKeys
  /\ id \in Ids(policies)
  /\ keys' = keys \cup {[id |-> Cardinality(keys) + 1, policy |-> id, revoked |-> FALSE]}
  /\ UNCHANGED <<policies, routes, policyCount, routeCount, deleting, attached>>

\* A revoked key keeps its row, and its policy.
RevokeKey(k) ==
  /\ keys' = (keys \ {k}) \cup {[k EXCEPT !.revoked = TRUE]}
  /\ UNCHANGED <<policies, routes, policyCount, routeCount, deleting, attached>>

-----------------------------------------------------------------------------
(* Route policies *)

SlotFree(s, id) == \A r \in routes : r.slot = s => r.id = id

\* The service enables every route policy, whatever the request says.
Enabled(asked) == TRUE

\* The route policy `id` is written with policy `p`.
Attach(id, s, p, asked) ==
  /\ SlotFree(s, id)
  /\ p \in Ids(policies)
  /\ routes' = {r \in routes : r.id # id}
                 \cup {[id |-> id, slot |-> s, policy |-> p, enabled |-> Enabled(asked)]}
  /\ attached' = [a \in Admin |->
                   IF deleting[a] = p /\ p # Nothing THEN attached[a] \cup {id} ELSE attached[a]]
  /\ UNCHANGED <<policies, keys, policyCount, deleting>>

CreateRoute(s, p, asked) ==
  /\ routeCount < MaxRoutes
  /\ routeCount' = routeCount + 1
  /\ Attach(routeCount + 1, s, p, asked)

UpdateRoute(old, s, p, asked) ==
  /\ Attach(old.id, s, p, asked)
  /\ UNCHANGED routeCount

DeleteRoute(r) ==
  /\ routes' = routes \ {r}
  /\ UNCHANGED <<policies, keys, policyCount, routeCount, deleting, attached>>

-----------------------------------------------------------------------------
(* The deletion of a policy *)

HeldByKey(id) == \E k \in keys : k.policy = id
HeldByRoute(id) == \E r \in routes : r.policy = id

\* Mutant: only the keys are counted.
InUseByKeys(id) == HeldByKey(id)

\* The usage count; revoked keys count, too.
InUse(id) == HeldByKey(id) \/ HeldByRoute(id)

\* The first statement: a policy in use is refused with 409.
CountUsage(a, id) ==
  /\ deleting[a] = Nothing
  /\ ~InUse(id)
  /\ deleting' = [deleting EXCEPT ![a] = id]
  /\ UNCHANGED <<policies, keys, routes, policyCount, routeCount, attached>>

Done(a) ==
  /\ deleting' = [deleting EXCEPT ![a] = Nothing]
  /\ attached' = [attached EXCEPT ![a] = {}]

\* Mutant: the foreign key of api_keys does not restrict the deletion.
RestrictedNever(id) == FALSE

\* The foreign key of api_keys restricts the deletion.
Restricted(id) == HeldByKey(id)

\* The second statement.  The foreign key of route_policies cascades.
DeletePolicy(a) ==
  LET id == deleting[a]
  IN  /\ id # Nothing
      /\ ~Restricted(id)
      /\ policies' = {p \in policies : p.id # id}
      /\ routes' = {r \in routes : r.policy # id}
      /\ Done(a)
      /\ UNCHANGED <<keys, policyCount, routeCount>>

\* The second statement is refused because of a key, or fails: 500.
DeletionFails(a) ==
  /\ deleting[a] # Nothing
  /\ Done(a)
  /\ UNCHANGED <<policies, keys, routes, policyCount, routeCount>>

-----------------------------------------------------------------------------
\* The tables once the policies that the first migration inserts are deleted.
Init ==
  /\ policies = {}
  /\ keys = {}
  /\ routes = {}
  /\ policyCount = 0
  /\ routeCount = 0
  /\ deleting = [a \in Admin |-> Nothing]
  /\ attached = [a \in Admin |-> {}]

Next ==
  \/ \E n \in Name, p \in Inputs :
       \/ CreatePolicy(n, p)
       \/ \E old \in policies : UpdatePolicy(old, n, p)
  \/ \E id \in Ids(policies) : CreateKey(id)
  \/ \E k \in keys : RevokeKey(k)
  \/ \E s \in Slot, p \in Ids(policies), asked \in BOOLEAN :
       \/ CreateRoute(s, p, asked)
       \/ \E old \in routes : UpdateRoute(old, s, p, asked)
  \/ \E r \in routes : DeleteRoute(r)
  \/ \E a \in Admin :
       \/ \E id \in Ids(policies) : CountUsage(a, id)
       \/ DeletePolicy(a)
       \/ DeletionFails(a)

Spec == Init /\ [][Next]_vars

-----------------------------------------------------------------------------
(* Properties *)

Distinct(rows, Field(_)) == \A r, s \in rows : Field(r) = Field(s) => r = s

\* The values the variables take; ids, names and slots are unique, so that the
\* lookup of a route's policy (limit 1, in no order) has one row to find.
TypeOK ==
  /\ policies \subseteq [id : 1..policyCount, name : Name, params : {Validated(p) : p \in Inputs}]
  /\ keys \subseteq [id : 1..MaxKeys, policy : 1..policyCount, revoked : BOOLEAN]
  /\ routes \subseteq [id : 1..routeCount, slot : Slot, policy : 1..policyCount, enabled : {TRUE}]
  /\ Distinct(policies, LAMBDA p : p.id)
  /\ Distinct(policies, LAMBDA p : p.name)
  /\ Distinct(keys, LAMBDA k : k.id)
  /\ Distinct(routes, LAMBDA r : r.id)
  /\ Distinct(routes, LAMBDA r : r.slot)
  /\ policyCount \in 0..MaxPolicies
  /\ routeCount \in 0..MaxRoutes
  /\ deleting \in [Admin -> 0..policyCount]
  /\ attached \in [Admin -> SUBSET (1..routeCount)]

\* Every key and every route policy refers to a policy that exists: the joins
\* by which the middleware looks them up never miss a row, whatever deletions
\* are under way.
References == \A r \in keys \cup routes : r.policy \in Ids(policies)

\* A deletion takes a route policy with it only if that was attached after the
\* deletion had counted: the check keeps its promise but for that gap, and a
\* policy with a key is never deleted at all.
CascadeOnlyInRace ==
  [][\A a \in Admin :
       DeletePolicy(a) =>
         /\ {r.id : r \in routes \ routes'} \subseteq attached[a]
         /\ ~HeldByKey(deleting[a])]_vars

\* "Policies that are assigned to API keys or route policies cannot be deleted."
DeletedOnlyUnused ==
  [][\A id \in Ids(policies) \ Ids(policies') : ~InUse(id)]_vars
=============================================================================
