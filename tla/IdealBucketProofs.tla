-------------------------- MODULE IdealBucketProofs --------------------------
(* The abstract bucket keeps its promise, for every size and rate. *)
EXTENDS IdealBucket, TLAPS

\* The bucket never holds more than it can, nor less than nothing.
THEOREM TypeCorrect == Spec => []TypeOK
<1>1. Init => TypeOK
  <2> SUFFICES ASSUME Init PROVE TypeOK
    OBVIOUS
  <2>1. Full \in Nat
    BY DEF Init, Full
  <2> QED
    BY <2>1 DEF Init, TypeOK
<1>2. TypeOK /\ [Next]_vars => TypeOK'
  <2> SUFFICES ASSUME TypeOK, [Next]_vars
               PROVE  TypeOK'
    OBVIOUS
  <2> USE DEF TypeOK
  <2>1. Full \in Nat /\ (UNCHANGED size => Full' = Full)
    BY DEF Full, size
  <2>2. CASE Drip
    BY <2>1, <2>2 DEF Drip, AtMost, size
  <2>3. CASE Pass
    BY <2>1, <2>3 DEF Pass, size
  <2>4. CASE Refuse
    BY <2>1, <2>4 DEF Refuse, size
  <2>5. CASE UNCHANGED vars
    BY <2>1, <2>5 DEF vars, size
  <2> QED
    BY <2>2, <2>3, <2>4, <2>5 DEF Next
<1> QED
  BY <1>1, <1>2, PTL DEF Spec

\* The requests passed never exceed the burst plus the refill of the time
\* elapsed.  This is the promise TokenBucket.Allow makes with one clock.
THEOREM BudgetKept == Spec => []Budget
<1>1. Init => Budget
  <2> SUFFICES ASSUME Init PROVE Budget
    OBVIOUS
  <2>1. capacity \in Nat /\ grain \in Nat /\ Full \in Nat
    BY DEF Init, Full
  <2> QED
    BY <2>1 DEF Init, Budget
<1>2. TypeOK /\ Budget /\ [Next]_vars => Budget'
  <2> SUFFICES ASSUME TypeOK, Budget, [Next]_vars
               PROVE  Budget'
    OBVIOUS
  <2> USE DEF TypeOK, Budget
  <2>1. Full \in Nat /\ (UNCHANGED size => Full' = Full)
    BY DEF Full, size
  <2>2. CASE Drip
    <3>1. level' <= level + capacity
      BY <2>1, <2>2 DEF Drip, AtMost
    <3>2. capacity * (clock + 1) = capacity * clock + capacity
      OBVIOUS
    <3>3. level' \in Int /\ passed * grain \in Int /\ capacity * clock \in Int
      BY <2>1, <2>2 DEF Drip, AtMost
    <3> QED
      BY <2>1, <2>2, <3>1, <3>2, <3>3 DEF Drip, size
  <2>3. CASE Pass
    <3>1. (passed + 1) * grain = passed * grain + grain
      OBVIOUS
    <3>2. passed * grain \in Int /\ capacity * clock \in Int
      OBVIOUS
    <3> QED
      BY <2>1, <2>3, <3>1, <3>2 DEF Pass, size
  <2>4. CASE Refuse
    BY <2>1, <2>4 DEF Refuse, size
  <2>5. CASE UNCHANGED vars
    BY <2>1, <2>5 DEF vars, size
  <2> QED
    BY <2>2, <2>3, <2>4, <2>5 DEF Next
<1> QED
  BY <1>1, <1>2, TypeCorrect, PTL DEF Spec
=============================================================================
