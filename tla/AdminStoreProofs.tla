--------------------------- MODULE AdminStoreProofs ---------------------------
(***************************************************************************)
(* What the administration keeps for any number of deletions under way, of *)
(* policies, keys and route policies, and whatever is asked for:           *)
(*   - TypeCorrect and ReferencesKept, from the inductive invariant IInv;  *)
(*   - CascadesOnlyInRaces, the promise of the usage count;                *)
(*   - ServiceKeepsConstraints, that what the service lets through passes  *)
(*     the check constraints of the table.                                 *)
(***************************************************************************)
EXTENDS AdminStore, FiniteSetTheorems, TLAPS

\* Keys are numbered by their count, which is why that must never decrease.
KeysAreNumbered ==
  /\ IsFiniteSet(keys)
  /\ Cardinality(keys) <= MaxKeys
  /\ \A k \in keys : k.id <= Cardinality(keys)

\* A deletion under way knows every route policy that has come to use its
\* policy: there was none when it counted.
AttachedAreKnown ==
  \A a \in Admin, r \in routes :
    (deleting[a] # Nothing /\ r.policy = deleting[a]) => r.id \in attached[a]

\* The inductive invariant.
IInv == TypeOK /\ References /\ KeysAreNumbered /\ AttachedAreKnown

-----------------------------------------------------------------------------
(* The parts of the invariant that each table has to do with *)

PoliciesOK ==
  /\ policyCount \in 0..MaxPolicies
  /\ policies \subseteq [id : 1..policyCount, name : Name, params : {Validated(p) : p \in Inputs}]
  /\ \A p, q \in policies : p.id = q.id => p = q
  /\ \A p, q \in policies : p.name = q.name => p = q

KeysOK ==
  /\ keys \subseteq [id : 1..MaxKeys, policy : 1..policyCount, revoked : BOOLEAN]
  /\ \A k, l \in keys : k.id = l.id => k = l
  /\ \A k \in keys : k.policy \in Ids(policies)
  /\ KeysAreNumbered

RoutesOK ==
  /\ routeCount \in 0..MaxRoutes
  /\ routes \subseteq [id : 1..routeCount, slot : Slot, policy : 1..policyCount, enabled : {TRUE}]
  /\ \A r, s \in routes : r.id = s.id => r = s
  /\ \A r, s \in routes : r.slot = s.slot => r = s
  /\ \A r \in routes : r.policy \in Ids(policies)

DeletionsOK ==
  /\ deleting \in [Admin -> 0..policyCount]
  /\ attached \in [Admin -> SUBSET (1..routeCount)]
  /\ AttachedAreKnown

LEMMA InvariantParts == IInv <=> PoliciesOK /\ KeysOK /\ RoutesOK /\ DeletionsOK
BY DEF IInv, TypeOK, References, PoliciesOK, KeysOK, RoutesOK, DeletionsOK, Distinct

LEMMA InvariantInitially == Init => IInv
<1> SUFFICES ASSUME Init PROVE PoliciesOK /\ KeysOK /\ RoutesOK /\ DeletionsOK
  BY InvariantParts
<1>1. KeysAreNumbered
  BY FS_EmptySet, StoreBounds DEF Init, KeysAreNumbered
<1> QED
  BY <1>1, StoreBounds
  DEF Init, PoliciesOK, KeysOK, RoutesOK, DeletionsOK, AttachedAreKnown, Ids, Nothing

-----------------------------------------------------------------------------
(* Steps that leave a table alone keep its part *)

\* A row of a table belongs to it also when its columns may hold more.
LEMMA RouteRows ==
  ASSUME NEW I, NEW J, NEW S, NEW P, NEW Q, NEW E,
         NEW r \in [id : I, slot : S, policy : P, enabled : E], r.id \in J, r.policy \in Q
  PROVE  r \in [id : J, slot : S, policy : Q, enabled : E]
OBVIOUS

\* Policies are inserted and updated: ids stay, and there may be more of them.
MorePolicies ==
  /\ policyCount' \in Nat /\ policyCount' >= policyCount
  /\ Ids(policies) \subseteq Ids(policies')

\* The ids of the table are numbers of rows.
LEMMA IdsAreNumbers ==
  ASSUME PoliciesOK
  PROVE  policyCount \in Nat /\ Ids(policies) \subseteq 1..policyCount
<1>1. policyCount \in Nat
  BY StoreBounds DEF PoliciesOK
<1>2. \A p \in policies : p.id \in 1..policyCount
  BY DEF PoliciesOK
<1> QED
  BY <1>1, <1>2 DEF Ids

LEMMA KeysUnchanged ==
  ASSUME PoliciesOK, KeysOK, MorePolicies, UNCHANGED keys
  PROVE  KeysOK'
BY DEF PoliciesOK, KeysOK, MorePolicies, KeysAreNumbered

LEMMA RoutesUnchanged ==
  ASSUME PoliciesOK, RoutesOK, MorePolicies, UNCHANGED <<routes, routeCount>>
  PROVE  RoutesOK'
<1>1. policyCount \in Nat /\ policyCount' \in Nat /\ policyCount' >= policyCount
  BY IdsAreNumbers DEF MorePolicies
<1>2. routes \subseteq [id : 1..routeCount, slot : Slot, policy : 1..policyCount', enabled : {TRUE}]
  <2> SUFFICES ASSUME NEW r \in routes
               PROVE  r \in [id : 1..routeCount, slot : Slot, policy : 1..policyCount', enabled : {TRUE}]
    OBVIOUS
  <2>1. r \in [id : 1..routeCount, slot : Slot, policy : 1..policyCount, enabled : {TRUE}]
    BY DEF RoutesOK
  <2>2. r.id \in 1..routeCount /\ r.policy \in 1..policyCount
    BY <2>1
  <2>3. r.policy \in 1..policyCount'
    BY <1>1, <2>2
  <2> QED
    BY <2>1, <2>2, <2>3, RouteRows
<1> QED
  BY <1>2 DEF RoutesOK, MorePolicies

LEMMA DeletionsUnchanged ==
  ASSUME PoliciesOK, DeletionsOK, MorePolicies, UNCHANGED <<routeCount, deleting, attached>>,
         routes' \subseteq routes
  PROVE  DeletionsOK'
BY DEF PoliciesOK, DeletionsOK, MorePolicies, AttachedAreKnown

-----------------------------------------------------------------------------
(* Steps that change a table *)

\* A new key has the next number.
LEMMA CreatingKeepsKeys ==
  ASSUME PoliciesOK, KeysOK, NEW id, CreateKey(id)
  PROVE  KeysOK'
<1> DEFINE new == [id |-> Cardinality(keys) + 1, policy |-> id, revoked |-> FALSE]
<1>1. /\ IsFiniteSet(keys) /\ Cardinality(keys) \in Nat
      /\ \A l \in keys : l.id <= Cardinality(keys) /\ l.id \in Nat
  BY FS_CardinalityType DEF KeysOK, KeysAreNumbered
<1>2. keys' = keys \cup {new} /\ new \notin keys
  BY <1>1 DEF CreateKey
<1>3. IsFiniteSet(keys') /\ Cardinality(keys') = Cardinality(keys) + 1
  BY <1>1, <1>2, FS_AddElement
<1>4. id \in 1..policyCount
  BY IdsAreNumbers DEF CreateKey
<1>5. KeysAreNumbered'
  <2>1. Cardinality(keys) < MaxKeys /\ new.id = Cardinality(keys) + 1
    BY DEF CreateKey
  <2> HIDE DEF new
  <2>2. Cardinality(keys') <= MaxKeys
    BY <1>1, <1>3, <2>1, StoreBounds
  <2>3. \A l \in keys' : l.id <= Cardinality(keys')
    BY <1>1, <1>2, <1>3, <2>1
  <2> QED
    BY <1>3, <2>2, <2>3 DEF KeysAreNumbered
<1>6. keys' \subseteq [id : 1..MaxKeys, policy : 1..policyCount, revoked : BOOLEAN]
  <2>1. new \in [id : 1..MaxKeys, policy : 1..policyCount, revoked : BOOLEAN]
    BY <1>1, <1>4, StoreBounds DEF CreateKey
  <2> HIDE DEF new
  <2> QED
    BY <1>2, <2>1 DEF KeysOK
<1> QED
  BY <1>1, <1>2, <1>5, <1>6 DEF KeysOK, CreateKey

\* A revoked key keeps its number.
LEMMA RevokingKeepsKeys ==
  ASSUME KeysOK, NEW k \in keys, RevokeKey(k)
  PROVE  KeysOK'
<1> DEFINE r == [k EXCEPT !.revoked = TRUE]
<1>1. r.id = k.id /\ r.policy = k.policy /\ r.revoked = TRUE
      /\ r \in [id : 1..MaxKeys, policy : 1..policyCount, revoked : BOOLEAN]
  BY DEF KeysOK
<1>2. keys' = (keys \ {k}) \cup {r}
  BY DEF RevokeKey
<1>3. r \notin keys \ {k}
  BY <1>1 DEF KeysOK
<1>4. IsFiniteSet(keys') /\ Cardinality(keys') = Cardinality(keys)
  <2>1. IsFiniteSet(keys) /\ Cardinality(keys) \in Nat
    BY FS_CardinalityType DEF KeysOK, KeysAreNumbered
  <2>2. IsFiniteSet(keys \ {k}) /\ Cardinality(keys \ {k}) = Cardinality(keys) - 1
    BY <2>1, FS_RemoveElement
  <2>3. IsFiniteSet((keys \ {k}) \cup {r}) /\ Cardinality((keys \ {k}) \cup {r}) = Cardinality(keys \ {k}) + 1
    BY <1>3, <2>2, FS_AddElement
  <2> HIDE DEF r
  <2> QED
    BY <1>2, <2>1, <2>2, <2>3
<1>5. KeysAreNumbered'
  BY <1>1, <1>2, <1>4 DEF KeysOK, KeysAreNumbered
<1> HIDE DEF r
<1> QED
  BY <1>1, <1>2, <1>5 DEF KeysOK, RevokeKey

\* Attaching a route policy, a new one or another to the same row, keeps slots
\* unique, and tells the deletions that are after its policy.
LEMMA AttachingKeepsRoutes ==
  ASSUME PoliciesOK, RoutesOK, DeletionsOK, NEW id, NEW s \in Slot, NEW p, NEW asked,
         Attach(id, s, p, asked), id \in 1..routeCount', routeCount' \in routeCount..MaxRoutes
  PROVE  RoutesOK' /\ DeletionsOK'
<1> DEFINE row == [id |-> id, slot |-> s, policy |-> p, enabled |-> Enabled(asked)]
<1>1. /\ routes' = {r \in routes : r.id # id} \cup {row}
      /\ SlotFree(s, id) /\ p \in Ids(policies)
      /\ UNCHANGED <<policies, policyCount, deleting>>
  BY DEF Attach
<1>2. p \in 1..policyCount /\ p # Nothing
  BY <1>1 DEF PoliciesOK, Ids, Nothing
<1>3. routeCount \in Nat /\ routeCount' \in Nat
  BY StoreBounds DEF RoutesOK
<1>4. RoutesOK'
  <2>1. row \in [id : 1..routeCount', slot : Slot, policy : 1..policyCount, enabled : {TRUE}]
    BY <1>2 DEF Enabled
  <2>2. /\ row.id = id /\ row.slot = s /\ row.policy = p
    OBVIOUS
  <2>3. routes' \subseteq [id : 1..routeCount', slot : Slot, policy : 1..policyCount, enabled : {TRUE}]
    <3>1. \A r \in routes : r \in [id : 1..routeCount', slot : Slot, policy : 1..policyCount, enabled : {TRUE}]
      <4> TAKE r \in routes
      <4>1. r \in [id : 1..routeCount, slot : Slot, policy : 1..policyCount, enabled : {TRUE}]
        BY DEF RoutesOK
      <4>2. r.id \in 1..routeCount /\ r.policy \in 1..policyCount
        BY <4>1
      <4>3. r.id \in 1..routeCount'
        BY <1>3, <4>2
      <4> QED
        BY <4>1, <4>2, <4>3, RouteRows
    <3> HIDE DEF row
    <3> QED
      BY <1>1, <2>1, <3>1
  <2> HIDE DEF row
  <2>4. \A q, r \in routes' : q.id = r.id => q = r
    BY <1>1, <2>2 DEF RoutesOK
  <2>5. \A q, r \in routes' : q.slot = r.slot => q = r
    BY <1>1, <2>2 DEF RoutesOK, SlotFree
  <2>6. \A r \in routes' : r.policy \in Ids(policies')
    BY <1>1, <2>2 DEF RoutesOK
  <2>7. routeCount' \in 0..MaxRoutes
    BY <1>3, StoreBounds
  <2> QED
    BY <1>1, <2>3, <2>4, <2>5, <2>6, <2>7, Zenon DEF RoutesOK
<1>5. attached' \in [Admin -> SUBSET (1..routeCount')]
  BY <1>3 DEF Attach, DeletionsOK
<1>6. AttachedAreKnown'
  <2> SUFFICES ASSUME NEW a \in Admin, NEW r \in routes', deleting[a] # Nothing,
                      r.policy = deleting[a]
               PROVE  r.id \in attached'[a]
    BY <1>1 DEF AttachedAreKnown
  <2>1. attached'[a] = IF deleting[a] = p THEN attached[a] \cup {id} ELSE attached[a]
    BY <1>2 DEF Attach
  <2>2. CASE r \in routes
    BY <2>1, <2>2 DEF DeletionsOK, AttachedAreKnown
  <2>3. CASE r = row
    BY <2>1, <2>3
  <2> QED
    BY <1>1, <2>2, <2>3
<1> QED
  BY <1>1, <1>4, <1>5, <1>6 DEF DeletionsOK

\* Inserting or updating a policy keeps ids and names unique.
LEMMA WritingKeepsPolicies ==
  ASSUME PoliciesOK, NEW id \in 1..policyCount', NEW n \in Name, NEW p \in Inputs,
         Insertable(id, n, p), policyCount' \in policyCount..MaxPolicies,
         policies' = {q \in policies : q.id # id} \cup {Row(id, n, p)}
  PROVE  PoliciesOK'
<1> DEFINE row == Row(id, n, p)
           Params == {Validated(q) : q \in Inputs}
<1>1. policyCount \in Nat /\ policyCount' \in Nat /\ policyCount' >= policyCount
      /\ policyCount' \in 0..MaxPolicies
  BY IdsAreNumbers, StoreBounds
<1>2. row.id = id /\ row.name = n /\ row \in [id : 1..policyCount', name : Name, params : Params]
  BY DEF Row
<1> HIDE DEF row, Params
<1>3. policies \subseteq [id : 1..policyCount', name : Name, params : Params]
  BY <1>1 DEF PoliciesOK, Params
<1>4. policies' \subseteq [id : 1..policyCount', name : Name, params : Params]
  BY <1>2, <1>3 DEF row
<1>5. policies' = {q \in policies : q.id # id} \cup {row}
  BY DEF row
<1>6. \A q, r \in policies' : q.id = r.id => q = r
  BY <1>2, <1>5 DEF PoliciesOK
<1>7. \A q, r \in policies' : q.name = r.name => q = r
  BY <1>2, <1>5 DEF PoliciesOK, Insertable, NameFree
<1> QED
  BY <1>1, <1>4, <1>6, <1>7 DEF PoliciesOK, Params

\* Every step keeps the invariant: one step of the proof for each action.
LEMMA InvariantKept == IInv /\ [Next]_vars => IInv'
<1> SUFFICES ASSUME IInv, [Next]_vars
             PROVE  PoliciesOK' /\ KeysOK' /\ RoutesOK' /\ DeletionsOK'
  BY DEF IInv, TypeOK, References, PoliciesOK, KeysOK, RoutesOK, DeletionsOK, Distinct
<1>a. PoliciesOK /\ KeysOK /\ RoutesOK /\ DeletionsOK
  BY InvariantParts
<1>b. /\ policyCount \in Nat /\ routeCount \in Nat
       /\ Ids(policies) \subseteq 1..policyCount
  BY <1>a, IdsAreNumbers, StoreBounds DEF RoutesOK
<1>c. ASSUME UNCHANGED <<policies, policyCount>>
      PROVE  MorePolicies /\ PoliciesOK'
  BY <1>a, <1>b, <1>c DEF MorePolicies, PoliciesOK
<1>1. ASSUME NEW n \in Name, NEW p \in Inputs, CreatePolicy(n, p)
      PROVE  PoliciesOK' /\ KeysOK' /\ RoutesOK' /\ DeletionsOK'
  <2>1. policyCount' \in policyCount..MaxPolicies /\ policyCount' = policyCount + 1
    BY <1>b, <1>1, StoreBounds DEF CreatePolicy
  <2>2. \A q \in policies : q.id # policyCount + 1
    BY <1>b DEF Ids
  <2>3. policies' = {q \in policies : q.id # policyCount'} \cup {Row(policyCount', n, p)}
    BY <1>1, <2>1, <2>2 DEF CreatePolicy
  <2>4. PoliciesOK'
    BY <1>a, <1>b, <1>1, <2>1, <2>3, WritingKeepsPolicies DEF CreatePolicy
  <2>5. MorePolicies
    BY <1>b, <1>1, <2>1 DEF MorePolicies, CreatePolicy, Ids
  <2> QED
    BY <1>a, <1>1, <2>4, <2>5, KeysUnchanged, RoutesUnchanged, DeletionsUnchanged DEF CreatePolicy
<1>2. ASSUME NEW n \in Name, NEW p \in Inputs, NEW old \in policies, UpdatePolicy(old, n, p)
      PROVE  PoliciesOK' /\ KeysOK' /\ RoutesOK' /\ DeletionsOK'
  <2>1. policyCount' = policyCount /\ policyCount' \in policyCount..MaxPolicies /\ old.id \in 1..policyCount'
    BY <1>a, <1>b, <1>2, StoreBounds DEF UpdatePolicy, PoliciesOK, Ids
  <2>2. policies \ {old} = {q \in policies : q.id # old.id}
    BY <1>a DEF PoliciesOK
  <2>3. policies' = {q \in policies : q.id # old.id} \cup {Row(old.id, n, p)}
    BY <1>2, <2>2 DEF UpdatePolicy
  <2>4. PoliciesOK'
    BY <1>a, <1>2, <2>1, <2>3, WritingKeepsPolicies DEF UpdatePolicy
  <2>5. MorePolicies
    <3>1. Row(old.id, n, p).id = old.id
      BY DEF Row
    <3> QED
      BY <1>b, <2>1, <2>3, <3>1 DEF MorePolicies, Ids
  <2> QED
    BY <1>a, <1>2, <2>4, <2>5, KeysUnchanged, RoutesUnchanged, DeletionsUnchanged DEF UpdatePolicy
<1>3. ASSUME NEW id \in Ids(policies), CreateKey(id)
      PROVE  PoliciesOK' /\ KeysOK' /\ RoutesOK' /\ DeletionsOK'
  BY <1>a, <1>c, <1>3, CreatingKeepsKeys, RoutesUnchanged, DeletionsUnchanged DEF CreateKey
<1>4. ASSUME NEW k \in keys, RevokeKey(k)
      PROVE  PoliciesOK' /\ KeysOK' /\ RoutesOK' /\ DeletionsOK'
  BY <1>a, <1>c, <1>4, RevokingKeepsKeys, RoutesUnchanged, DeletionsUnchanged DEF RevokeKey
<1>5. ASSUME NEW s \in Slot, NEW p \in Ids(policies), NEW asked \in BOOLEAN, CreateRoute(s, p, asked)
      PROVE  PoliciesOK' /\ KeysOK' /\ RoutesOK' /\ DeletionsOK'
  <2>1. routeCount + 1 \in 1..routeCount' /\ routeCount' \in routeCount..MaxRoutes
    BY <1>b, <1>5, StoreBounds DEF CreateRoute
  <2> QED
    BY <1>a, <1>c, <1>5, <2>1, AttachingKeepsRoutes, KeysUnchanged DEF CreateRoute, Attach
<1>6. ASSUME NEW s \in Slot, NEW p \in Ids(policies), NEW asked \in BOOLEAN, NEW old \in routes,
             UpdateRoute(old, s, p, asked)
      PROVE  PoliciesOK' /\ KeysOK' /\ RoutesOK' /\ DeletionsOK'
  <2>1. old.id \in 1..routeCount' /\ routeCount' \in routeCount..MaxRoutes
    <3>1. routeCount' = routeCount /\ routeCount \in 0..MaxRoutes
      BY <1>a, <1>6 DEF UpdateRoute, RoutesOK
    <3>2. old.id \in 1..routeCount
      BY <1>a DEF RoutesOK
    <3> QED
      BY <1>b, <3>1, <3>2, StoreBounds
  <2> QED
    BY <1>a, <1>c, <1>6, <2>1, AttachingKeepsRoutes, KeysUnchanged DEF UpdateRoute, Attach
<1>7. ASSUME NEW r \in routes, DeleteRoute(r)
      PROVE  PoliciesOK' /\ KeysOK' /\ RoutesOK' /\ DeletionsOK'
  <2>1. RoutesOK'
    BY <1>a, <1>7 DEF DeleteRoute, RoutesOK
  <2> QED
    BY <1>a, <1>c, <1>7, <2>1, KeysUnchanged, DeletionsUnchanged DEF DeleteRoute
<1>8. ASSUME NEW a \in Admin, NEW id \in Ids(policies), CountUsage(a, id)
      PROVE  PoliciesOK' /\ KeysOK' /\ RoutesOK' /\ DeletionsOK'
  <2>1. DeletionsOK'
    <3>1. deleting' \in [Admin -> 0..policyCount] /\ UNCHANGED <<attached, routes>>
      BY <1>a, <1>b, <1>8 DEF CountUsage, DeletionsOK
    <3>2. AttachedAreKnown'
      BY <1>a, <1>8, <3>1 DEF CountUsage, DeletionsOK, AttachedAreKnown, InUse, HeldByRoute
    <3> QED
      BY <1>a, <1>8, <3>1, <3>2 DEF CountUsage, DeletionsOK
  <2> QED
    BY <1>a, <1>c, <1>8, <2>1, KeysUnchanged, RoutesUnchanged DEF CountUsage
<1>9. ASSUME NEW a \in Admin, DeletePolicy(a)
      PROVE  PoliciesOK' /\ KeysOK' /\ RoutesOK' /\ DeletionsOK'
  <2> DEFINE id == deleting[a]
  <2>1. /\ policies' = {p \in policies : p.id # id} /\ routes' = {r \in routes : r.policy # id}
        /\ \A k \in keys : k.policy # id
        /\ UNCHANGED <<keys, policyCount, routeCount>> /\ Done(a)
    BY <1>9 DEF DeletePolicy, Restricted, HeldByKey
  <2> HIDE DEF id
  <2>2. PoliciesOK'
    BY <1>a, <2>1 DEF PoliciesOK
  <2>3. KeysOK'
    BY <1>a, <2>1 DEF KeysOK, KeysAreNumbered, Ids
  <2>4. RoutesOK'
    BY <1>a, <2>1 DEF RoutesOK, Ids
  <2>5. DeletionsOK'
    BY <1>a, <1>b, <2>1 DEF DeletionsOK, AttachedAreKnown, Done, Nothing
  <2> QED
    BY <2>2, <2>3, <2>4, <2>5
<1>10. ASSUME NEW a \in Admin, DeletionFails(a)
       PROVE  PoliciesOK' /\ KeysOK' /\ RoutesOK' /\ DeletionsOK'
  <2>1. DeletionsOK'
    BY <1>a, <1>b, <1>10 DEF DeletionFails, DeletionsOK, AttachedAreKnown, Done, Nothing
  <2> QED
    BY <1>a, <1>c, <1>10, <2>1, KeysUnchanged, RoutesUnchanged DEF DeletionFails
<1>11. CASE UNCHANGED vars
  BY <1>a, <1>c, <1>11, KeysUnchanged, RoutesUnchanged, DeletionsUnchanged DEF vars
<1> QED
  BY <1>1, <1>2, <1>3, <1>4, <1>5, <1>6, <1>7, <1>8, <1>9, <1>10, <1>11 DEF Next

\* The inductive invariant holds of every behaviour.
THEOREM Invariance == Spec => []IInv
BY InvariantInitially, InvariantKept, PTL DEF Spec

\* The tables keep their types, and ids, names and slots stay unique, however
\* many rows are asked for, edited and deleted.
THEOREM TypeCorrect == Spec => []TypeOK
BY Invariance, PTL DEF IInv

\* No key and no route policy ever refers to a policy that is gone, however
\* many deletions are between their two statements.
THEOREM ReferencesKept == Spec => []References
BY Invariance, PTL DEF IInv

\* A deletion takes only those route policies with it that were attached after
\* it had counted, and never a policy with a key.
THEOREM CascadesOnlyInRaces == Spec => CascadeOnlyInRace
<1>1. IInv /\ [Next]_vars => [\A a \in Admin :
          DeletePolicy(a) =>
            /\ {r.id : r \in routes \ routes'} \subseteq attached[a]
            /\ ~HeldByKey(deleting[a])]_vars
  BY DEF IInv, AttachedAreKnown, DeletePolicy, Restricted
<1> QED
  BY <1>1, Invariance, PTL DEF Spec, CascadeOnlyInRace

\* What the service lets through (validatePolicy), its defaults for algorithm
\* and burst filled in, passes all four check constraints of the table,
\* whatever algorithm and integers are asked for.  (The width of the columns is
\* not among them.)
THEOREM ServiceKeepsConstraints ==
  ASSUME NEW p \in [algorithm : STRING, request_limit : Int, window_seconds : Int,
                    burst_capacity : Int],
         Valid(p)
  PROVE  Checks(Validated(p))
<1> DEFINE q == Validated(p)
<1>1. q.algorithm = IF p.algorithm = "" THEN "token_bucket" ELSE p.algorithm
  BY DEF Validated
<1>2. q.request_limit = p.request_limit /\ q.window_seconds = p.window_seconds
  BY DEF Validated
<1>3. q.burst_capacity = IF p.burst_capacity <= 0 THEN p.request_limit ELSE p.burst_capacity
  BY DEF Validated
<1> HIDE DEF q
<1>4. /\ p.algorithm \in Algorithms \cup {""}
      /\ p.request_limit > 0
      /\ p.window_seconds > 0
  BY DEF Valid
<1>5. q.algorithm \in Algorithms
  <2>1. CASE p.algorithm = ""
    BY <1>1, <2>1 DEF Algorithms
  <2>2. CASE p.algorithm # ""
    BY <1>1, <1>4, <2>2
  <2> QED
    BY <2>1, <2>2
<1>6. q.request_limit > 0 /\ q.window_seconds > 0
  BY <1>2, <1>4
<1>7. q.burst_capacity > 0
  <2>1. p.burst_capacity \in Int
    OBVIOUS
  <2>2. p.burst_capacity <= 0 \/ p.burst_capacity > 0
    BY <2>1
  <2> QED
    BY <1>3, <1>4, <2>2
<1> QED
  BY <1>5, <1>6, <1>7 DEF Checks, q
=============================================================================
