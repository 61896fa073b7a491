------------------------- MODULE SlidingWindowProofs -------------------------
(***************************************************************************)
(* What the sliding window log keeps for any number of instances and       *)
(* handlers, any configuration, delay, clock difference and number of      *)
(* retries: TypeCorrect, SlidingLimitKept, RefusalsAreFair and             *)
(* RetryAfterIsExact, from the inductive invariant IInv, which relates the *)
(* members of the sorted set to the calls that were let through.           *)
(***************************************************************************)
EXTENDS SlidingWindow, FiniteSetTheorems, WellFoundedInduction, TLAPS

ReadingsAreRecent == \A w \in Worker : Calling(w) => ReadingIsRecent(w)

\* Every call in flight has an id of its own.
IdsAreOwn ==
  \A w \in Worker :
    Calling(w) => /\ id[w] \in 1..calls
                  /\ \A v \in Worker : Calling(v) /\ id[v] = id[w] => v = w

\* The member of a call in flight has the score the call would give it again.
MembersMatchCalls ==
  \A w \in Worker, e \in log : Calling(w) /\ e.id = id[w] => e.score = now[w]

\* No uuid is twice in the sorted set, nor charged twice, and none is of a call
\* to come.
IdsAreDistinct ==
  /\ \A e, f \in log : e.id = f.id => e = f
  /\ \A c, d \in charged : c.id = d.id => c = d
  /\ \A e \in log : e.id <= calls
  /\ \A c \in charged : c.id <= calls

\* The key lives two windows from the last call it let through.
KeyOutlivesCharges ==
  \A c \in charged : c.at <= time /\ (Ttl > 0 => c.at + Ttl <= expires)

\* What was let through within the window is in the sorted set, with a score
\* that is late by MaxLag at most.
RecentChargesAreMembers ==
  lim.window > 0 =>
    \A c \in ChargedSince(time - (Window - MaxLag - MaxSkew)) :
      \E e \in log : e.id = c.id /\ e.score >= c.at - MaxLag

\* What is in the sorted set was let through, MaxSkew before its score at the
\* earliest.
MembersAreCharged ==
  \A e \in log :
    e.score - MaxSkew > time - Horizon =>
      \E c \in charged : c.id = e.id /\ c.at >= e.score - MaxSkew

\* A key that is deleted by every call holds nothing.
NothingWithoutTtl == Ttl <= 0 => log = {}

\* The inductive invariant.
IInv ==
  /\ TypeOK
  /\ IsFiniteSet(log)
  /\ IsFiniteSet(charged)
  /\ ReadingsAreRecent
  /\ IdsAreOwn
  /\ MembersMatchCalls
  /\ IdsAreDistinct
  /\ KeyOutlivesCharges
  /\ RecentChargesAreMembers
  /\ MembersAreCharged
  /\ NothingWithoutTtl

-----------------------------------------------------------------------------
(* The parts of the invariant, by the variables they are about *)

Member == [id : 1..MaxCalls, score : Nat]
Charge == [id : 1..MaxCalls, at : Nat]

CallsOK ==
  /\ lim \in Limiters
  /\ CallTypeOK
  /\ calls \in 0..MaxCalls
  /\ id \in [Worker -> 0..MaxCalls]
  /\ ReadingsAreRecent
  /\ IdsAreOwn

StoreOK ==
  /\ log \subseteq Member
  /\ Cardinality(log) <= Room
  /\ expires \in Nat \cup {Absent}
  /\ charged \subseteq Charge
  /\ IsFiniteSet(log)
  /\ IsFiniteSet(charged)
  /\ IdsAreDistinct
  /\ KeyOutlivesCharges
  /\ RecentChargesAreMembers
  /\ MembersAreCharged
  /\ NothingWithoutTtl

LEMMA InvariantParts == IInv <=> CallsOK /\ StoreOK /\ MembersMatchCalls
BY DEF IInv, TypeOK, CallsOK, StoreOK, Member, Charge

\* The sizes are numbers.
LEMMA Sizes ==
  ASSUME lim \in Limiters
  PROVE  /\ lim.limit \in Int /\ lim.window \in Int
         /\ Window \in Int /\ Ttl \in Int /\ Horizon \in Int /\ Room \in Nat
         /\ Ttl = 2 * Window /\ Horizon = Window + MaxLag + MaxSkew
         /\ lim.window > 0 => Window > 0
<1>1. lim.limit \in Int /\ lim.window \in Int
  BY LimitersAssumption
<1>2. lim.window * TicksPerSecond \in Int
  BY <1>1, TicksAssumption
<1>3. lim.window > 0 => lim.window * TicksPerSecond > 0
  BY <1>1, TicksAssumption
<1> QED
  BY <1>1, <1>2, <1>3, DelayAssumption DEF Window, Ttl, Horizon, Room

LEMMA SizesUnchanged ==
  ASSUME UNCHANGED lim
  PROVE  Window' = Window /\ Ttl' = Ttl /\ Horizon' = Horizon /\ Room' = Room
BY DEF Window, Ttl, Horizon, Room

\* The reading of a call in flight.
LEMMA Reading ==
  ASSUME CallsOK, NEW w \in Worker, Calling(w)
  PROVE  /\ time \in Nat /\ now[w] \in Nat
         /\ now[w] <= time + MaxSkew
         /\ now[w] >= time - MaxLag
         /\ MaxSkew \in Nat /\ MaxLag \in Nat
BY DelayAssumption DEF CallsOK, CallTypeOK, ReadingsAreRecent, ReadingIsRecent

-----------------------------------------------------------------------------
(* Sets that are matched by the ids of their elements *)

\* A set whose elements have partners of their own is no larger.
LEMMA Matched ==
  ASSUME NEW S, NEW T, IsFiniteSet(T),
         \A s \in S : \E t \in T : t.id = s.id,
         \A r, s \in S : r.id = s.id => r = s
  PROVE  IsFiniteSet(S) /\ Cardinality(S) <= Cardinality(T)
<1> DEFINE f == [s \in S |-> CHOOSE t \in T : t.id = s.id]
<1>1. \A s \in S : f[s] \in T /\ f[s].id = s.id
  OBVIOUS
<1>2. f \in Injection(S, T)
  BY <1>1 DEF Injection, IsInjective
<1> QED
  BY <1>2, FS_Injection

-----------------------------------------------------------------------------
(* What the script does to the key *)

MemberOf(w) == [id |-> id[w], score |-> now[w]]
ChargeOf(w) == [id |-> id[w], at |-> time]

\* What ZREMRANGEBYSCORE leaves.
LEMMA TrimmedLog ==
  ASSUME StoreOK, NEW n
  PROVE  /\ UpToDate(n) \subseteq log
         /\ IsFiniteSet(UpToDate(n))
         /\ Cardinality(UpToDate(n)) \in Nat
         /\ Cardinality(UpToDate(n)) <= Cardinality(log)
         /\ Cardinality(log) \in Nat
         /\ \A e \in log : time <= expires /\ e.score > n - Window => e \in UpToDate(n)
         /\ \A e \in UpToDate(n) : e.score > n - Window
<1>1. UpToDate(n) \subseteq log
  BY DEF UpToDate, Live
<1>2. \A e \in log : time <= expires /\ e.score > n - Window => e \in UpToDate(n)
  BY DEF UpToDate, Live
<1>3. \A e \in UpToDate(n) : e.score > n - Window
  BY DEF UpToDate
<1>4. IsFiniteSet(log)
  BY DEF StoreOK
<1> QED
  BY <1>1, <1>2, <1>3, <1>4, FS_Subset, FS_CardinalityType

\* The members the script stores, of a call let through or refused.
LEMMA StoredMembers ==
  ASSUME CallsOK, StoreOK, MembersMatchCalls, NEW w \in Worker, Calling(w), NEW members,
         \/ members = UpToDate(now[w])
         \/ members = UpToDate(now[w]) \cup {MemberOf(w)} /\ HasRoom(now[w])
  PROVE  /\ members \subseteq log \cup {MemberOf(w)}
         /\ UpToDate(now[w]) \subseteq members
         /\ members \subseteq Member
         /\ IsFiniteSet(members)
         /\ Cardinality(members) <= Room
         /\ \A e, f \in members : e.id = f.id => e = f
         /\ \A e \in members : e.id <= calls
<1> DEFINE u == UpToDate(now[w])
           m == MemberOf(w)
<1>1. /\ m \in Member
      /\ m.id = id[w]
      /\ m.score = now[w]
      /\ m.id <= calls
  BY DEF CallsOK, CallTypeOK, IdsAreOwn, Member, MemberOf
<1>2. \A e \in log : e.id = m.id => e = m
  <2> SUFFICES ASSUME NEW e \in log, e.id = m.id
               PROVE  e = m
    OBVIOUS
  <2>1. e.score = m.score
    BY <1>1 DEF MembersMatchCalls
  <2>2. e \in Member
    BY DEF StoreOK
  <2> HIDE DEF m
  <2> QED
    BY <1>1, <2>1, <2>2 DEF Member
<1>3. /\ u \subseteq log /\ IsFiniteSet(u) /\ Cardinality(u) \in Nat
      /\ Cardinality(u) <= Cardinality(log) /\ Cardinality(log) \in Nat
      /\ Cardinality(log) <= Room
  BY TrimmedLog DEF StoreOK
<1>4. /\ IsFiniteSet(u \cup {m})
      /\ Cardinality(u \cup {m}) <= Cardinality(u) + 1
  <2> HIDE DEF u, m
  <2>1. /\ IsFiniteSet(u \cup {m})
        /\ Cardinality(u \cup {m}) = IF m \in u THEN Cardinality(u) ELSE Cardinality(u) + 1
    BY <1>3, FS_AddElement
  <2> QED
    BY <1>3, <2>1
<1>5. members = u \/ (members = u \cup {m} /\ Cardinality(u) < lim.limit)
  BY DEF HasRoom
<1>6. lim.limit \in Int /\ Room = (IF lim.limit > 0 THEN lim.limit ELSE 0) /\ Cardinality(u \cup {m}) \in Nat
  BY <1>4, LimitersAssumption, FS_CardinalityType DEF CallsOK, Room
<1> HIDE DEF u, m
<1>7. IsFiniteSet(members) /\ Cardinality(members) <= Room
  BY <1>3, <1>4, <1>5, <1>6
<1>8. /\ members \subseteq log \cup {m}
      /\ u \subseteq members
  BY <1>3, <1>5
<1>9. /\ \A e, f \in log : e.id = f.id => e = f
      /\ \A e \in log : e.id <= calls
      /\ log \subseteq Member
  BY DEF StoreOK, IdsAreDistinct
<1>10. /\ members \subseteq Member
       /\ \A e, f \in members : e.id = f.id => e = f
       /\ \A e \in members : e.id <= calls
  BY <1>1, <1>2, <1>8, <1>9
<1> QED
  BY <1>7, <1>8, <1>10 DEF u, m

\* A call, let through or refused, keeps the key's part of the invariant.
LEMMA ExecutionKeepsStore ==
  ASSUME CallsOK, StoreOK, MembersMatchCalls, NEW w \in Worker, Calling(w),
         UNCHANGED <<lim, time, calls>>, Let(w) \/ Deny(w)
  PROVE  StoreOK' /\ log' \subseteq log \cup {MemberOf(w)}
<1> DEFINE u == UpToDate(now[w])
           m == MemberOf(w)
           c0 == ChargeOf(w)
           others == {c \in charged : c.id # id[w]}
<1>1. PICK members :
        /\ log' = IF Ttl > 0 THEN members ELSE {}
        /\ expires' = IF Ttl > 0 THEN time + Ttl ELSE Absent
        /\ \/ /\ members = u \cup {m}
              /\ HasRoom(now[w])
              /\ charged' = others \cup {c0}
           \/ members = u /\ charged' = charged
  BY DEF Let, Deny, Store, MemberOf, ChargeOf
<1>2. /\ members \subseteq log \cup {m}
      /\ u \subseteq members
      /\ members \subseteq Member
      /\ IsFiniteSet(members)
      /\ Cardinality(members) <= Room
      /\ \A e, f \in members : e.id = f.id => e = f
      /\ \A e \in members : e.id <= calls
  BY <1>1, StoredMembers
<1>3. /\ time \in Nat /\ now[w] \in Nat
      /\ now[w] <= time + MaxSkew
      /\ now[w] >= time - MaxLag
      /\ MaxSkew \in Nat /\ MaxLag \in Nat
  BY Reading
<1>4. /\ Window \in Int /\ Ttl \in Int /\ Horizon \in Int /\ Room \in Nat
      /\ Ttl = 2 * Window /\ Horizon = Window + MaxLag + MaxSkew
      /\ lim.window > 0 => Window > 0
      /\ lim.window \in Int
      /\ Window' = Window /\ Ttl' = Ttl /\ Horizon' = Horizon /\ Room' = Room
  BY Sizes, SizesUnchanged DEF CallsOK
<1>5. /\ c0 \in Charge /\ c0.id = id[w] /\ c0.at = time /\ c0.id <= calls
      /\ m.id = id[w] /\ m.score = now[w]
  BY <1>3 DEF CallsOK, IdsAreOwn, ChargeOf, MemberOf, Charge
<1>6. /\ \A e \in log : time <= expires /\ e.score > now[w] - Window => e \in u
      /\ \A e \in u : e.score > now[w] - Window
      /\ u \subseteq log
  BY TrimmedLog
<1>7. /\ log \subseteq Member /\ charged \subseteq Charge /\ expires \in Nat \cup {Absent}
      /\ IsFiniteSet(charged)
      /\ \A c, d \in charged : c.id = d.id => c = d
      /\ \A c \in charged : c.id <= calls
      /\ \A c \in charged : c.at <= time /\ (Ttl > 0 => c.at + Ttl <= expires)
  BY DEF StoreOK, IdsAreDistinct, KeyOutlivesCharges
<1>8. others \subseteq charged /\ \A c \in others : c.id # id[w]
  OBVIOUS
<1>9. charged' = charged \/ charged' = others \cup {c0}
  BY <1>1
<1>10. log' \subseteq members /\ (Ttl > 0 => log' = members)
  BY <1>1
<1>11. \A e \in log : e.id = id[w] => e.score = now[w]
  BY DEF MembersMatchCalls
<1>a. IsFiniteSet(others \cup {c0})
  BY <1>7, <1>8, FS_Subset, FS_AddElement
<1> HIDE DEF u, m, c0, others
<1>12. /\ charged' \subseteq Charge
       /\ \A c, d \in charged' : c.id = d.id => c = d
       /\ \A c \in charged' : c.id <= calls
  BY <1>5, <1>7, <1>8, <1>9
<1>13. IsFiniteSet(charged')
  BY <1>7, <1>9, <1>a
<1>14. log' \subseteq Member /\ IsFiniteSet(log') /\ Cardinality(log') <= Room
  <2>1. CASE Ttl > 0
    BY <1>2, <1>10, <2>1
  <2>2. CASE ~(Ttl > 0)
    BY <1>1, <1>4, <2>2, FS_EmptySet
  <2> QED
    BY <2>1, <2>2
<1>15. expires' \in Nat \cup {Absent}
  BY <1>1, <1>3, <1>4
<1>16. IdsAreDistinct'
  BY <1>2, <1>10, <1>12 DEF IdsAreDistinct
<1>17. KeyOutlivesCharges'
  <2> SUFFICES ASSUME NEW c \in charged'
               PROVE  c.at <= time /\ (Ttl > 0 => c.at + Ttl <= expires')
    BY <1>4 DEF KeyOutlivesCharges
  <2>1. c \in Charge /\ (c \in charged \/ c.at = time)
    BY <1>5, <1>8, <1>9, <1>12
  <2>2. c.at \in Nat
    BY <2>1 DEF Charge
  <2>3. c.at <= time
    BY <1>3, <1>7, <2>1
  <2> QED
    BY <1>1, <1>3, <1>4, <2>2, <2>3
<1>18. RecentChargesAreMembers'
  <2> SUFFICES ASSUME lim.window > 0, NEW c \in charged',
                      c.at > time - (Window - MaxLag - MaxSkew)
               PROVE  \E e \in log' : e.id = c.id /\ e.score >= c.at - MaxLag
    BY <1>4 DEF RecentChargesAreMembers, ChargedSince
  <2>1. log' = members /\ Window > 0 /\ Ttl > 0
    BY <1>4, <1>10
  <2>2. CASE c \in charged
    <3>1. PICK e \in log : e.id = c.id /\ e.score >= c.at - MaxLag
      BY <2>2 DEF StoreOK, RecentChargesAreMembers, ChargedSince
    <3>2. e.score \in Nat /\ c.at \in Nat
      BY <1>7, <2>2 DEF Member, Charge
    <3>3. expires \in Int /\ c.at + Ttl <= expires
      BY <1>7, <2>1, <2>2 DEF Absent
    <3>4. time <= expires
      BY <1>3, <1>4, <2>1, <3>2, <3>3
    <3>5. e.score > now[w] - Window
      BY <1>3, <1>4, <3>1, <3>2
    <3>6. e \in members
      BY <1>2, <1>6, <3>4, <3>5
    <3> QED
      BY <2>1, <3>1, <3>6
  <2>3. CASE c \notin charged
    <3>1. c = c0 /\ members = u \cup {m}
      BY <1>1, <1>8, <2>3
    <3>2. m \in members /\ m.id = c.id /\ m.score = now[w] /\ c.at = time
      BY <1>5, <3>1
    <3> QED
      BY <1>3, <2>1, <3>2
  <2> QED
    BY <2>2, <2>3
<1>19. MembersAreCharged'
  <2> SUFFICES ASSUME NEW e \in log', e.score - MaxSkew > time - Horizon
               PROVE  \E c \in charged' : c.id = e.id /\ c.at >= e.score - MaxSkew
    BY <1>4 DEF MembersAreCharged
  <2>1. e \in members /\ e \in log \cup {m}
    BY <1>2, <1>10
  <2>2. e.score \in Nat
    BY <1>2, <2>1 DEF Member
  <2>3. CASE members = u /\ charged' = charged
    <3>1. e \in log
      BY <1>6, <2>1, <2>3
    <3> QED
      BY <2>3, <3>1 DEF StoreOK, MembersAreCharged
  <2>4. CASE charged' = others \cup {c0} /\ e.id = id[w]
    <3>1. e.score = now[w]
      BY <1>5, <1>11, <2>1, <2>4
    <3> QED
      BY <1>3, <1>5, <2>4, <3>1
  <2>5. CASE charged' = others \cup {c0} /\ e.id # id[w]
    <3>1. e \in log
      BY <1>5, <2>1, <2>5
    <3>2. PICK c \in charged : c.id = e.id /\ c.at >= e.score - MaxSkew
      BY <3>1 DEF StoreOK, MembersAreCharged
    <3>3. c \in charged'
      BY <2>5, <3>2 DEF others
    <3> QED
      BY <3>2, <3>3
  <2> QED
    BY <1>1, <2>3, <2>4, <2>5
<1>20. NothingWithoutTtl'
  BY <1>1, <1>4 DEF NothingWithoutTtl
<1>21. log' \subseteq log \cup {MemberOf(w)}
  BY <1>2, <1>10 DEF m
<1>22. Cardinality(log') <= Room'
  BY <1>4, <1>14
<1> QED
  BY <1>12, <1>13, <1>14, <1>15, <1>16, <1>17, <1>18, <1>19, <1>20, <1>21, <1>22 DEF StoreOK

-----------------------------------------------------------------------------
(* Retry-After *)

\* Division rounded up: the least multiple that reaches a.
LEMMA RoundedUp ==
  ASSUME NEW a \in Nat, NEW b \in Nat \ {0}
  PROVE  /\ CeilDiv(a, b) \in Nat
         /\ b * CeilDiv(a, b) >= a
         /\ b * (CeilDiv(a, b) - 1) < a
<1> DEFINE q == (a + b - 1) \div b
<1>1. q \in Int /\ b * q <= a + b - 1 /\ a + b - 1 < b * q + b
  OBVIOUS
<1> QED
  BY <1>1 DEF CeilDiv

\* The script finds an oldest member, unless it finds none: one that the fewest
\* members come before.
LEMMA OldestMember ==
  ASSUME NEW S, S \subseteq Member, IsFiniteSet(S), S # {}
  PROVE  LET oldest == CHOOSE e \in S : \A f \in S : e.score <= f.score
         IN  /\ oldest \in S
             /\ \A f \in S : oldest.score <= f.score
<1> DEFINE Before(e) == {f \in S : f.score < e.score}
           befores == {Before(e) : e \in S}
           R == StrictSubsetOrdering(S)
<1>1. befores \subseteq FiniteSubsetsOf(S) /\ befores # {}
  <2>1. \A e \in S : Before(e) \in SUBSET S /\ IsFiniteSet(Before(e))
    BY FS_Subset
  <2> QED
    BY <2>1 DEF FiniteSubsetsOf
<1>2. \E x \in befores : \A y \in befores : <<y, x>> \notin R
  <2>1. IsWellFoundedOn(R, FiniteSubsetsOf(S))
    BY FS_StrictSubsetOrderingWellFounded
  <2> HIDE DEF befores, R
  <2> QED
    BY <1>1, <2>1, WFMin
<1>3. PICK e \in S : \A f \in S : <<Before(f), Before(e)>> \notin R
  BY <1>2
<1>4. \A f \in S : f.score \in Nat
  BY DEF Member
<1>5. ASSUME NEW f \in S, f.score < e.score
      PROVE  FALSE
  <2>1. /\ Before(f) \subseteq Before(e)
        /\ f \in Before(e) /\ f \notin Before(f)
    BY <1>4, <1>5
  <2>2. <<Before(f), Before(e)>> \in R
    <3>1. Before(f) \in SUBSET S /\ Before(e) \in SUBSET S /\ Before(f) # Before(e)
      BY <2>1
    <3> HIDE DEF Before
    <3> QED
      BY <2>1, <3>1 DEF StrictSubsetOrdering
  <2> QED
    BY <1>3, <2>2
<1>6. \A f \in S : e.score <= f.score
  BY <1>4, <1>5
<1> QED
  BY <1>6

\* What a client is told to wait: until the oldest member, which is in the
\* window now, has left it.
LEMMA WaitForOldest ==
  ASSUME CallsOK, StoreOK, NEW w \in Worker, Calling(w)
  PROVE  /\ Wait(now[w]) \in Nat
         /\ UpToDate(now[w]) # {} =>
              \E e \in UpToDate(now[w]) :
                /\ \A f \in UpToDate(now[w]) : e.score <= f.score
                /\ TicksPerSecond * Wait(now[w]) >= e.score + Window - now[w]
                /\ TicksPerSecond * (Wait(now[w]) - 1) < e.score + Window - now[w]
<1> DEFINE u == UpToDate(now[w])
           oldest == CHOOSE e \in u : \A f \in u : e.score <= f.score
           left == oldest.score + Window - now[w]
           wait == CeilDiv(left, TicksPerSecond)
<1>1. CASE u = {}
  BY <1>1 DEF Wait
<1>2. CASE u # {}
  <2>1. u \subseteq Member /\ IsFiniteSet(u)
    BY TrimmedLog DEF StoreOK
  <2>2. oldest \in u /\ \A f \in u : oldest.score <= f.score
    <3> HIDE DEF u
    <3> QED
      BY <1>2, <2>1, OldestMember
  <2>3. oldest.score \in Nat /\ oldest.score > now[w] - Window
    <3>1. \A e \in u : e.score > now[w] - Window
      BY TrimmedLog
    <3> HIDE DEF u, oldest
    <3> QED
      BY <2>1, <2>2, <3>1 DEF Member
  <2>4. now[w] \in Nat /\ Window \in Int
    BY Reading, Sizes DEF CallsOK
  <2>5. left \in Nat \ {0}
    BY <2>3, <2>4
  <2>6. /\ wait \in Nat
        /\ TicksPerSecond * wait >= left
        /\ TicksPerSecond * (wait - 1) < left
    <3> HIDE DEF left
    <3> QED
      BY <2>5, TicksAssumption, RoundedUp
  <2>7. wait >= 1
    <3> HIDE DEF left, wait
    <3> QED
      BY <2>5, <2>6, TicksAssumption
  <2>8. Wait(now[w]) = wait
    BY <1>2, <2>6, <2>7 DEF Wait
  <2> QED
    BY <2>2, <2>6, <2>8
<1> QED
  BY <1>1, <1>2

-----------------------------------------------------------------------------
(* What the commands do to the calls *)

\* A call that ends.
LEMMA EndKeepsCalls ==
  ASSUME CallsOK, NEW w \in Worker, UNCHANGED <<config, time, calls, id>>,
         NEW outcome \in Verdicts \ {"calling"}, NEW wait \in Nat, End(w, outcome, wait)
  PROVE  /\ CallsOK'
         /\ \A v \in Worker : Calling(v)' => Calling(v) /\ now'[v] = now[v] /\ v # w
<1> USE DelayAssumption DEF CallsOK, CallTypeOK, config, End
<1>1. \A v \in Worker : Calling(v)' => Calling(v) /\ now'[v] = now[v] /\ v # w
  BY DEF Calling
<1>2. CallTypeOK'
  OBVIOUS
<1>3. ReadingsAreRecent' /\ IdsAreOwn'
  BY <1>1 DEF ReadingsAreRecent, ReadingIsRecent, IdsAreOwn
<1> QED
  BY <1>1, <1>2, <1>3

\* A failed attempt, be it the last or not.
LEMMA FailAttemptKeepsCalls ==
  ASSUME CallsOK, NEW w \in Worker, UNCHANGED <<config, time, calls, id>>, FailAttempt(w)
  PROVE  /\ CallsOK'
         /\ \A v \in Worker : Calling(v)' => Calling(v) /\ now'[v] = now[v]
<1>1. CASE tries[w] < MaxRetries
  <2> USE <1>1, DelayAssumption DEF CallsOK, CallTypeOK, config, FailAttempt
  <2>1. UNCHANGED <<verdict, now, retryAfter>> /\ CallTypeOK'
    OBVIOUS
  <2>2. /\ ReadingsAreRecent' /\ IdsAreOwn'
        /\ \A v \in Worker : Calling(v)' => Calling(v) /\ now'[v] = now[v]
    BY <2>1 DEF ReadingsAreRecent, ReadingIsRecent, Calling, IdsAreOwn
  <2> QED
    BY <2>1, <2>2
<1>2. CASE ~(tries[w] < MaxRetries)
  BY <1>2, EndKeepsCalls DEF FailAttempt, Verdicts
<1> QED
  BY <1>1, <1>2

\* Members match the calls that are left: a new member is the caller's, and
\* two calls have two ids.
LEMMA MatchKept ==
  ASSUME CallsOK, MembersMatchCalls, NEW w \in Worker, Calling(w), UNCHANGED id,
         log' \subseteq log \cup {MemberOf(w)},
         \A v \in Worker : Calling(v)' => Calling(v) /\ now'[v] = now[v]
  PROVE  MembersMatchCalls'
<1> SUFFICES ASSUME NEW v \in Worker, NEW e \in log', Calling(v)', e.id = id[v]
             PROVE  e.score = now'[v]
  BY DEF MembersMatchCalls
<1>1. Calling(v) /\ now'[v] = now[v]
  OBVIOUS
<1>2. CASE e \in log
  BY <1>1, <1>2 DEF MembersMatchCalls
<1>3. CASE e = MemberOf(w)
  <2>1. e.id = id[w] /\ e.score = now[w]
    BY <1>3 DEF MemberOf
  <2>2. v = w
    BY <1>1, <2>1 DEF CallsOK, IdsAreOwn
  <2> QED
    BY <1>1, <2>1, <2>2
<1> QED
  BY <1>2, <1>3

\* A step that leaves the key alone.
LEMMA StoreUnchanged ==
  ASSUME StoreOK, UNCHANGED <<lim, time, log, expires, charged>>, calls \in Nat,
         calls' = calls \/ calls' = calls + 1
  PROVE  StoreOK'
<1>1. Window' = Window /\ Ttl' = Ttl /\ Horizon' = Horizon /\ Room' = Room
  BY SizesUnchanged
<1>2. IdsAreDistinct'
  <2>1. /\ \A e \in log : e.id \in Nat /\ e.id <= calls
        /\ \A c \in charged : c.id \in Nat /\ c.id <= calls
    BY DEF StoreOK, IdsAreDistinct, Member, Charge
  <2> QED
    BY <2>1 DEF StoreOK, IdsAreDistinct
<1> QED
  BY <1>1, <1>2 DEF StoreOK, KeyOutlivesCharges, RecentChargesAreMembers, ChargedSince,
                    MembersAreCharged, NothingWithoutTtl

-----------------------------------------------------------------------------
(* The invariant *)

\* The invariant holds before the first call.
LEMMA InvariantInitially == Init => IInv
<1> SUFFICES ASSUME Init PROVE CallsOK /\ StoreOK /\ MembersMatchCalls
  BY InvariantParts
<1>1. CallsOK
  BY DelayAssumption, MaxCallsAssumption
     DEF Init, CallInit, CallsOK, CallTypeOK, Verdicts, ReadingsAreRecent, IdsAreOwn, Calling
<1>2. Room \in Nat
  BY Sizes DEF Init
<1>3. log = {} /\ charged = {} /\ expires = Absent
  BY DEF Init
<1>4. StoreOK /\ MembersMatchCalls
  BY <1>2, <1>3, FS_EmptySet
     DEF StoreOK, IdsAreDistinct, KeyOutlivesCharges, RecentChargesAreMembers, ChargedSince,
         MembersAreCharged, NothingWithoutTtl, MembersMatchCalls
<1> QED
  BY <1>1, <1>4

\* Every step keeps the invariant: one step of the proof for each action.
LEMMA InvariantKept == IInv /\ [Next]_vars => IInv'
<1> SUFFICES ASSUME IInv, [Next]_vars
             PROVE  CallsOK' /\ StoreOK' /\ MembersMatchCalls'
  BY InvariantParts DEF IInv, TypeOK, CallsOK, StoreOK, Member, Charge
<1> DEFINE Kept == CallsOK' /\ StoreOK' /\ MembersMatchCalls'
<1>a. CallsOK /\ StoreOK /\ MembersMatchCalls
  BY InvariantParts
<1>b. calls \in Nat
  BY <1>a DEF CallsOK
<1>1. CASE Tick
  <2>1. /\ UNCHANGED <<lim, skew, log, expires, calls, id, verdict, now, tries, retryAfter>>
        /\ time' = time + 1
        /\ \A w \in Worker : Calling(w) => time - (now[w] - skew[w]) < MaxLag
        /\ charged' = {c \in charged : c.at > time' - Horizon}
    BY <1>1 DEF Tick, TimePasses, config, call
  <2>2. CallsOK'
    BY <1>a, <2>1, DelayAssumption
       DEF CallsOK, CallTypeOK, ReadingsAreRecent, ReadingIsRecent, Calling, IdsAreOwn
  <2>3. MembersMatchCalls'
    BY <1>a, <2>1 DEF MembersMatchCalls, Calling
  <2>4. /\ Window \in Int /\ Ttl \in Int /\ Horizon \in Int /\ time \in Nat
        /\ MaxLag \in Nat /\ MaxSkew \in Nat
        /\ Window' = Window /\ Ttl' = Ttl /\ Horizon' = Horizon /\ Room' = Room
    BY <1>a, <2>1, Sizes, SizesUnchanged, DelayAssumption DEF CallsOK, CallTypeOK
  <2>5. log \subseteq Member /\ charged \subseteq Charge /\ charged' \subseteq charged
    BY <1>a, <2>1 DEF StoreOK
  <2>6. \A c \in charged : c.at \in Nat
    BY <2>5 DEF Charge
  <2>7. \A e \in log : e.score \in Nat
    BY <2>5 DEF Member
  <2>8. KeyOutlivesCharges'
    BY <1>a, <2>1, <2>4, <2>5, <2>6 DEF StoreOK, KeyOutlivesCharges
  <2>9. RecentChargesAreMembers'
    BY <1>a, <2>1, <2>4, <2>5, <2>6 DEF StoreOK, RecentChargesAreMembers, ChargedSince
  <2>10. MembersAreCharged'
    <3> SUFFICES ASSUME NEW e \in log, e.score - MaxSkew > time' - Horizon
                 PROVE  \E c \in charged' : c.id = e.id /\ c.at >= e.score - MaxSkew
      BY <2>1, <2>4 DEF MembersAreCharged
    <3>1. PICK c \in charged : c.id = e.id /\ c.at >= e.score - MaxSkew
      BY <1>a, <2>1, <2>4, <2>7 DEF StoreOK, MembersAreCharged
    <3>2. c.at > time' - Horizon
      BY <2>1, <2>4, <2>6, <2>7, <3>1
    <3> QED
      BY <2>1, <3>1, <3>2
  <2>11. IdsAreDistinct' /\ NothingWithoutTtl'
    BY <1>a, <2>1, <2>4, <2>5 DEF StoreOK, IdsAreDistinct, NothingWithoutTtl
  <2>12. IsFiniteSet(charged')
    BY <1>a, <2>5, FS_Subset DEF StoreOK
  <2>13. StoreOK'
    BY <1>a, <2>1, <2>4, <2>5, <2>8, <2>9, <2>10, <2>11, <2>12 DEF StoreOK
  <2> QED
    BY <2>2, <2>3, <2>13
<1>2. ASSUME NEW w \in Worker, Arrive(w)
      PROVE  Kept
  <2>1. /\ UNCHANGED <<lim, skew, time, log, expires, charged, tries>>
        /\ ~Calling(w)
        /\ calls < MaxCalls /\ calls' = calls + 1
        /\ id' = [id EXCEPT ![w] = calls + 1]
        /\ verdict' = [verdict EXCEPT ![w] = "calling"]
        /\ now' = [now EXCEPT ![w] = time + skew[w]]
        /\ retryAfter' = [retryAfter EXCEPT ![w] = 0]
    BY <1>2 DEF Arrive, Send, config, store
  <2>2. /\ CallTypeOK' /\ calls' \in 0..MaxCalls /\ id' \in [Worker -> 0..MaxCalls]
    BY <1>a, <2>1, DelayAssumption, MaxCallsAssumption DEF CallsOK, CallTypeOK, Verdicts
  <2>3. \A v \in Worker \ {w} : (Calling(v)' <=> Calling(v)) /\ now'[v] = now[v] /\ id'[v] = id[v]
    BY <1>a, <2>1 DEF CallsOK, CallTypeOK, Calling
  <2>4. now'[w] = time + skew[w] /\ id'[w] = calls + 1
    BY <1>a, <2>1 DEF CallsOK, CallTypeOK
  <2>5. ReadingsAreRecent'
    <3>1. time \in Nat /\ \A v \in Worker : skew[v] \in Nat
      BY <1>a, DelayAssumption DEF CallsOK, CallTypeOK
    <3> QED
      BY <1>a, <2>1, <2>3, <2>4, <3>1, DelayAssumption DEF CallsOK, ReadingsAreRecent, ReadingIsRecent
  <2>6. IdsAreOwn'
    <3>1. \A v \in Worker : Calling(v) => id[v] \in 1..calls
      BY <1>a DEF CallsOK, IdsAreOwn
    <3> SUFFICES ASSUME NEW u \in Worker, Calling(u)'
                 PROVE  /\ id'[u] \in 1..calls'
                        /\ \A v \in Worker : Calling(v)' /\ id'[v] = id'[u] => v = u
      BY DEF IdsAreOwn
    <3>2. id'[u] \in 1..calls'
      BY <1>b, <2>1, <2>3, <2>4, <3>1
    <3>3. ASSUME NEW v \in Worker, Calling(v)', id'[v] = id'[u]
          PROVE  v = u
      BY <1>a, <1>b, <2>3, <2>4, <3>1, <3>3 DEF CallsOK, IdsAreOwn
    <3> QED
      BY <3>2, <3>3
  <2>7. CallsOK'
    BY <1>a, <2>1, <2>2, <2>5, <2>6 DEF CallsOK
  <2>8. StoreOK'
    BY <1>a, <1>b, <2>1, StoreUnchanged
  <2>9. MembersMatchCalls'
    <3>1. \A e \in log : e.id \in Nat /\ e.id <= calls
      BY <1>a DEF StoreOK, IdsAreDistinct, Member
    <3> QED
      BY <1>a, <1>b, <2>1, <2>3, <2>4, <3>1 DEF MembersMatchCalls
  <2> QED
    BY <2>7, <2>8, <2>9
<1>3. ASSUME NEW w \in Worker, Admit(w) \/ Reject(w)
      PROVE  Kept
  <2>1. /\ Calling(w)
        /\ Let(w) \/ Deny(w)
        /\ UNCHANGED <<lim, skew, time, calls, id>>
    BY <1>3 DEF Admit, Reject, config
  <2>2. Wait(now[w]) \in Nat
    BY <1>a, <2>1, WaitForOldest
  <2>3. PICK outcome \in {"allowed", "rejected"}, wait \in Nat : End(w, outcome, wait)
    BY <1>3, <2>2 DEF Admit, Reject
  <2>4. StoreOK' /\ log' \subseteq log \cup {MemberOf(w)}
    BY <1>a, <2>1, ExecutionKeepsStore
  <2>5. CallsOK' /\ \A v \in Worker : Calling(v)' => Calling(v) /\ now'[v] = now[v]
    BY <1>a, <2>1, <2>3, EndKeepsCalls DEF config, Verdicts
  <2>6. MembersMatchCalls'
    BY <1>a, <2>1, <2>4, <2>5, MatchKept
  <2> QED
    BY <2>4, <2>5, <2>6
<1>4. ASSUME NEW w \in Worker, LoseReply(w)
      PROVE  Kept
  <2>1. /\ Calling(w)
        /\ Let(w) \/ Deny(w)
        /\ FailAttempt(w)
        /\ UNCHANGED <<lim, skew, time, calls, id>>
    BY <1>4 DEF LoseReply, config
  <2>2. StoreOK' /\ log' \subseteq log \cup {MemberOf(w)}
    BY <1>a, <2>1, ExecutionKeepsStore
  <2>3. CallsOK' /\ \A v \in Worker : Calling(v)' => Calling(v) /\ now'[v] = now[v]
    BY <1>a, <2>1, FailAttemptKeepsCalls DEF config
  <2>4. MembersMatchCalls'
    BY <1>a, <2>1, <2>2, <2>3, MatchKept
  <2> QED
    BY <2>2, <2>3, <2>4
<1>5. ASSUME NEW w \in Worker, Unreachable(w) \/ Cancel(w)
      PROVE  Kept
  <2>1. /\ Calling(w)
        /\ FailAttempt(w) \/ End(w, "error", 0)
        /\ UNCHANGED <<lim, skew, time, log, expires, charged, calls, id>>
    BY <1>5 DEF Unreachable, Cancel, Abandon, config, store
  <2>2. CallsOK' /\ \A v \in Worker : Calling(v)' => Calling(v) /\ now'[v] = now[v]
    BY <1>a, <2>1, FailAttemptKeepsCalls, EndKeepsCalls DEF config, Verdicts
  <2>3. StoreOK'
    BY <1>a, <1>b, <2>1, StoreUnchanged
  <2>4. MembersMatchCalls'
    BY <1>a, <2>1, <2>2, MatchKept
  <2> QED
    BY <2>2, <2>3, <2>4
<1>6. CASE UNCHANGED vars
  <2>1. UNCHANGED <<lim, skew, time, log, expires, charged, calls, id, verdict, now, tries, retryAfter>>
    BY <1>6 DEF vars, config, store, call
  <2>2. CallsOK'
    BY <1>a, <2>1 DEF CallsOK, CallTypeOK, ReadingsAreRecent, ReadingIsRecent, Calling, IdsAreOwn
  <2>3. StoreOK'
    BY <1>a, <1>b, <2>1, StoreUnchanged
  <2>4. MembersMatchCalls'
    BY <1>a, <2>1 DEF MembersMatchCalls, Calling
  <2> QED
    BY <2>2, <2>3, <2>4
<1> QED
  BY <1>1, <1>2, <1>3, <1>4, <1>5, <1>6 DEF Next

\* The inductive invariant holds of every behaviour.
THEOREM Invariance == Spec => []IInv
BY InvariantInitially, InvariantKept, PTL DEF Spec

\* The variables keep their types, and the sorted set its size: the count the
\* script takes and the member it adds are one step.
THEOREM TypeCorrect == Spec => []TypeOK
BY Invariance, PTL DEF IInv

\* No interval as long as the window, less the delays and skews of readings,
\* sees more than `limit` calls let through, over any number of instances.
THEOREM SlidingLimitKept == Spec => []SlidingLimit
<1>1. IInv => SlidingLimit
  <2> DEFINE recent == ChargedSince(time - (Window - MaxLag - MaxSkew))
  <2> SUFFICES ASSUME IInv, lim.window > 0
               PROVE  Cardinality(recent) <= Room
    BY DEF SlidingLimit
  <2>1. StoreOK /\ lim \in Limiters
    BY InvariantParts DEF CallsOK
  <2>2. /\ \A c \in recent : \E e \in log : e.id = c.id
        /\ \A c, d \in recent : c.id = d.id => c = d
    BY <2>1 DEF StoreOK, RecentChargesAreMembers, IdsAreDistinct, ChargedSince
  <2>3. IsFiniteSet(log) /\ Cardinality(log) \in Nat /\ Cardinality(log) <= Room /\ Room \in Nat
    BY <2>1, Sizes, FS_CardinalityType DEF StoreOK
  <2>4. IsFiniteSet(recent) /\ Cardinality(recent) <= Cardinality(log)
    <3> HIDE DEF recent
    <3> QED
      BY <2>2, <2>3, Matched
  <2>5. Cardinality(recent) \in Nat
    BY <2>4, FS_CardinalityType
  <2> QED
    BY <2>3, <2>4, <2>5
<1> QED
  BY <1>1, Invariance, PTL

\* Who ends as rejected has been denied by the script.
LEMMA RejectedIsDenied ==
  ASSUME CallsOK, Next, NEW w \in Worker, Calling(w), verdict'[w] = "rejected"
  PROVE  Reject(w)
<1> USE DEF CallsOK, CallTypeOK
<1>1. ~Tick
  BY DEF Tick, call, Calling
<1>2. \A x \in Worker : ~Arrive(x)
  BY DEF Arrive, Send, Calling
<1>3. \A x \in Worker : ~(Admit(x) \/ LoseReply(x) \/ Unreachable(x) \/ Cancel(x))
  BY DEF Admit, LoseReply, Unreachable, Cancel, Abandon, FailAttempt, End, Calling
<1>4. \A x \in Worker : Reject(x) => x = w
  BY DEF Reject, End, Calling
<1> QED
  BY <1>1, <1>2, <1>3, <1>4 DEF Next

\* Nobody is refused unless `limit` calls were let through within the window,
\* give or take delays and skews.
THEOREM RefusalsAreFair == Spec => RefusesOnlyWhenFull
<1>1. ASSUME IInv, Next, NEW w \in Worker, Calling(w), verdict'[w] = "rejected"
      PROVE  Cardinality(ChargedSince(time - Horizon)) >= lim.limit
  <2> DEFINE u == UpToDate(now[w])
             before == ChargedSince(time - Horizon)
  <2>1. CallsOK /\ StoreOK /\ lim \in Limiters
    BY <1>1, InvariantParts DEF CallsOK
  <2>2. Cardinality(u) >= lim.limit
    <3>1. ~HasRoom(now[w])
      BY <1>1, <2>1, RejectedIsDenied DEF Reject, Deny
    <3>2. Cardinality(u) \in Nat /\ lim.limit \in Int
      BY <2>1, TrimmedLog, Sizes
    <3> QED
      BY <3>1, <3>2 DEF HasRoom
  <2>3. /\ time \in Nat /\ now[w] \in Nat /\ now[w] >= time - MaxLag
        /\ MaxSkew \in Nat /\ MaxLag \in Nat
        /\ Window \in Int /\ Horizon = Window + MaxLag + MaxSkew
    BY <1>1, <2>1, Reading, Sizes
  <2>4. ASSUME NEW e \in u
        PROVE  \E c \in before : c.id = e.id
    <3>1. e \in log /\ e.score > now[w] - Window
      BY <2>1, TrimmedLog
    <3>2. e.score \in Nat
      BY <2>1, <3>1 DEF StoreOK, Member
    <3>3. e.score - MaxSkew > time - Horizon
      BY <2>3, <3>1, <3>2
    <3>4. PICK c \in charged : c.id = e.id /\ c.at >= e.score - MaxSkew
      BY <2>1, <3>1, <3>3 DEF StoreOK, MembersAreCharged
    <3>5. c.at \in Nat
      BY <2>1 DEF StoreOK, Charge
    <3> QED
      BY <2>3, <3>2, <3>3, <3>4, <3>5 DEF ChargedSince
  <2>5. \A e, f \in u : e.id = f.id => e = f
    BY <2>1, TrimmedLog DEF StoreOK, IdsAreDistinct
  <2>6. IsFiniteSet(before)
    BY <2>1, FS_Subset DEF StoreOK, ChargedSince
  <2>7. Cardinality(u) <= Cardinality(before)
    <3> HIDE DEF u, before
    <3> QED
      BY <2>4, <2>5, <2>6, Matched
  <2>8. Cardinality(u) \in Nat /\ Cardinality(before) \in Nat /\ lim.limit \in Int
    BY <2>1, <2>6, TrimmedLog, FS_CardinalityType, Sizes
  <2> QED
    BY <2>2, <2>7, <2>8
<1>2. IInv /\ [Next]_vars =>
        [\A w \in Worker :
           (Calling(w) /\ verdict'[w] = "rejected" /\ lim.window > 0) =>
             Cardinality(ChargedSince(time - Horizon)) >= lim.limit]_vars
  BY <1>1
<1> QED
  BY <1>2, Invariance, PTL DEF Spec, RefusesOnlyWhenFull

\* The seconds a refused client is told to wait are the least number after
\* which it finds room.
THEOREM RetryAfterIsExact == Spec => RetryIsExact
<1>1. ASSUME IInv, Next, NEW w \in Worker, Calling(w), verdict'[w] = "rejected", lim.limit > 0
      PROVE  LET LeftAfter(s) == {e \in log' : e.score > now[w] + s * TicksPerSecond - Window}
             IN  /\ Cardinality(LeftAfter(retryAfter'[w])) < lim.limit
                 /\ Cardinality(LeftAfter(retryAfter'[w] - 1)) >= lim.limit
  <2> DEFINE u == UpToDate(now[w])
             wait == retryAfter'[w]
             LeftAfter(s) == {e \in log' : e.score > now[w] + s * TicksPerSecond - Window}
  <2>1. CallsOK /\ StoreOK /\ lim \in Limiters
    BY <1>1, InvariantParts DEF CallsOK
  <2>2. Reject(w)
    BY <1>1, <2>1, RejectedIsDenied
  <2>3. wait = Wait(now[w])
    BY <2>1, <2>2 DEF Reject, End, CallsOK, CallTypeOK
  <2>4. /\ u \subseteq log /\ IsFiniteSet(u) /\ Cardinality(u) \in Nat
        /\ Cardinality(u) <= Cardinality(log) /\ Cardinality(log) \in Nat
    BY <2>1, TrimmedLog
  <2>5. /\ lim.limit \in Nat /\ Room = lim.limit /\ Ttl \in Int /\ Window \in Int
        /\ now[w] \in Nat
    BY <1>1, <2>1, Sizes, Reading DEF Room
  <2>6. Cardinality(u) = lim.limit
    <3>1. ~HasRoom(now[w]) /\ Cardinality(log) <= Room
      BY <2>1, <2>2 DEF Reject, Deny, StoreOK
    <3> QED
      BY <2>4, <2>5, <3>1 DEF HasRoom
  <2>7. u # {}
    BY <1>1, <2>6, FS_EmptySet
  <2>8. log' = u
    <3>1. Ttl > 0
      BY <2>1, <2>4, <2>5, <2>7 DEF StoreOK, NothingWithoutTtl
    <3> QED
      BY <2>2, <3>1 DEF Reject, Deny, Store
  <2>9. PICK oldest \in u : /\ \A f \in u : oldest.score <= f.score
                            /\ TicksPerSecond * wait >= oldest.score + Window - now[w]
                            /\ TicksPerSecond * (wait - 1) < oldest.score + Window - now[w]
    BY <1>1, <2>1, <2>3, <2>7, WaitForOldest
  <2>10. wait \in Nat
    BY <1>1, <2>1, <2>3, WaitForOldest
  <2>11. \A e \in u : e.score \in Nat
    BY <2>1, <2>4 DEF StoreOK, Member
  <2>12. /\ TicksPerSecond * wait = wait * TicksPerSecond
         /\ TicksPerSecond * (wait - 1) = (wait - 1) * TicksPerSecond
         /\ wait * TicksPerSecond \in Int
         /\ (wait - 1) * TicksPerSecond \in Int
    BY <2>10, TicksAssumption
  <2> HIDE DEF u, wait
  <2>13. LeftAfter(wait - 1) = u
    BY <2>5, <2>8, <2>9, <2>11, <2>12
  <2>14. LeftAfter(wait) \subseteq u /\ oldest \notin LeftAfter(wait)
    BY <2>5, <2>8, <2>9, <2>11, <2>12
  <2>15. Cardinality(LeftAfter(wait)) < lim.limit
    <3> HIDE DEF LeftAfter
    <3>1. /\ IsFiniteSet(LeftAfter(wait))
          /\ Cardinality(LeftAfter(wait)) <= Cardinality(u)
          /\ Cardinality(u) = Cardinality(LeftAfter(wait)) => u = LeftAfter(wait)
      BY <2>4, <2>14, FS_Subset
    <3>2. Cardinality(LeftAfter(wait)) \in Nat
      BY <3>1, FS_CardinalityType
    <3>3. Cardinality(LeftAfter(wait)) # Cardinality(u)
      BY <2>9, <2>14, <3>1
    <3> QED
      BY <2>4, <2>6, <3>1, <3>2, <3>3
  <2>16. Cardinality(LeftAfter(wait - 1)) >= lim.limit
    <3> HIDE DEF LeftAfter
    <3> QED
      BY <2>5, <2>6, <2>13
  <2> USE DEF wait
  <2> QED
    BY ONLY <2>15, <2>16
<1>2. IInv /\ [Next]_vars =>
        [\A w \in Worker :
           (Calling(w) /\ verdict'[w] = "rejected" /\ lim.limit > 0) =>
             LET LeftAfter(s) == {e \in log' : e.score > now[w] + s * TicksPerSecond - Window}
             IN  /\ Cardinality(LeftAfter(retryAfter'[w])) < lim.limit
                 /\ Cardinality(LeftAfter(retryAfter'[w] - 1)) >= lim.limit]_vars
  BY <1>1
<1> QED
  BY <1>2, Invariance, PTL DEF Spec, RetryIsExact
==============================================================================
