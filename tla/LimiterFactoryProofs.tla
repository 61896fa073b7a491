------------------------- MODULE LimiterFactoryProofs -------------------------
(***************************************************************************)
(* What the factory and its in-process limiters keep for any number of     *)
(* handlers, any policies and any edits of them: TypeCorrect, LedgerKept,  *)
(* LimitersAreFew and TokenWithinASecond, from the inductive invariant     *)
(* IInv.                                                                   *)
(***************************************************************************)
EXTENDS LimiterFactory, FiniteSetTheorems, SequenceTheorems, TLAPS

Bucket == [tokens : Int, lastRefill : Int, nan : BOOLEAN]

Limiter ==
  [policy : Policies \cup Defaults, used : BOOLEAN, bucket : Bucket, born : Nat, taken : Nat]

\* A limiter that is not used gave nothing out; one that is has in its bucket
\* what its burst and the time up to the last refill left.
Sound(l, t) ==
  LET c == Config(l.policy)
      b == l.bucket
  IN  /\ ~l.used => l.taken = 0
      /\ Paying(l) /\ l.used =>
           /\ b.tokens \in 0..Full(c)
           /\ l.born <= b.lastRefill /\ b.lastRefill <= t
           /\ ~b.nan
           /\ l.taken * Token(c) + b.tokens <= Full(c) + c.capacity * (b.lastRefill - l.born)

LimitersAreSound == \A i \in 1..Len(limiters) : Sound(limiters[i], time)

\* The first limiter is the default one.
DefaultIsFirst == Len(limiters) > 0 /\ limiters[1].policy = fallback

\* The map holds limiters of their policies, and knows every policy that has one.
CacheIsRight ==
  \A p \in CacheKeys :
    IF cache[p] = Missing THEN Indices(p) = {} ELSE limiters[cache[p]].policy = p

\* A request that is about to ask its limiter has one.
HoldersHold == \A w \in Worker : pc[w] = "allow" => holds[w] # Missing

Creating(p) == {w \in Worker : pc[w] = "create" /\ found[w] = p}

\* A policy has at most one limiter for each handler that made it or will.
MakersAreFew ==
  \A p \in CacheKeys : Cardinality(Indices(p)) + Cardinality(Creating(p)) <= Cardinality(Worker)

\* The inductive invariant.
IInv ==
  /\ TypeOK
  /\ limiters \in Seq(Limiter)
  /\ LimitersAreSound
  /\ DefaultIsFirst
  /\ CacheIsRight
  /\ HoldersHold
  /\ MakersAreFew

-----------------------------------------------------------------------------
(* The parts of the invariant, by the variables they are about *)

EnvironmentOK ==
  /\ time \in 0..MaxTime
  /\ fallback \in Defaults
  /\ policy \in Policies \cup {Unset}
  /\ edits \in 0..MaxEdits
  /\ requests \in 0..MaxRequests

LimitersOK ==
  /\ limiters \in Seq(Limiter)
  /\ LimitersAreSound
  /\ DefaultIsFirst

CacheOK ==
  /\ cache \in [CacheKeys -> 0..Len(limiters)]
  /\ CacheIsRight

Places == {"done", "lookup", "create", "allow"}

RequestsOK ==
  /\ pc \in [Worker -> Places]
  /\ found \in [Worker -> Policies \cup {fallback}]
  /\ holds \in [Worker -> 0..Len(limiters)]
  /\ \A w \in Worker : pc[w] = "allow" => limiters[holds[w]].policy = found[w]
  /\ HoldersHold
  /\ retryAfter \in [Worker -> Nat]

LEMMA InvariantParts ==
  IInv <=> EnvironmentOK /\ LimitersOK /\ CacheOK /\ RequestsOK /\ MakersAreFew
BY DEF IInv, TypeOK, EnvironmentOK, LimitersOK, CacheOK, RequestsOK, Places

-----------------------------------------------------------------------------
(* A limiter that serves a request *)

\* The sizes of a limiter are numbers.
LEMMA Sizes ==
  ASSUME NEW p \in Policies \cup Defaults
  PROVE  LET c == Config(p)
         IN  /\ c.capacity \in Int
             /\ c.window \in Nat
             /\ Token(c) \in Nat
             /\ Full(c) \in Int
             /\ c.capacity > 0 /\ c.window > 0 => Token(c) > 0 /\ Token(c) <= Full(c)
<1> DEFINE c == Config(p)
<1>1. c.capacity \in Int /\ c.window \in Nat
  BY PoliciesAreNumbers DEF Config
<1> HIDE DEF c
<1>2. Token(c) \in Nat
  BY <1>1, TicksAssumption DEF Token
<1>3. Full(c) \in Int
  BY <1>1, <1>2 DEF Full
<1>4. ASSUME c.capacity > 0, c.window > 0
      PROVE  Token(c) > 0 /\ Token(c) <= Full(c)
  <2>1. Token(c) > 0
    BY <1>1, <1>4, TicksAssumption DEF Token
  <2>2. Token(c) * 1 <= Token(c) * c.capacity
    BY <1>1, <1>2, <1>4
  <2> QED
    BY <1>1, <1>2, <2>1, <2>2 DEF Full
<1> QED
  BY <1>1, <1>2, <1>3, <1>4 DEF c

\* A record is one of the set of records whose fields are in the right sets.
LEMMA LimiterRecord ==
  ASSUME NEW P, NEW U, NEW B, NEW p \in P, NEW u \in U, NEW b \in B, NEW n \in Nat, NEW k \in Nat
  PROVE  LET m == [policy |-> p, used |-> u, bucket |-> b, born |-> n, taken |-> k]
         IN  /\ m \in [policy : P, used : U, bucket : B, born : Nat, taken : Nat]
             /\ m.policy = p /\ m.used = u /\ m.bucket = b /\ m.born = n /\ m.taken = k
OBVIOUS

\* What Finish writes.
LEMMA ServedFields ==
  ASSUME NEW l \in Limiter, NEW bucket \in Bucket, NEW took \in Nat, time \in Nat
  PROVE  LET m == Served(l, bucket, took)
         IN  /\ m \in Limiter
             /\ m.policy = l.policy /\ m.used /\ m.bucket = bucket
             /\ m.taken = l.taken + took
             /\ m.born = IF l.used THEN l.born ELSE time
<1>1. l.born \in Nat /\ l.taken \in Nat /\ l.policy \in Policies \cup Defaults
  BY DEF Limiter
<1> DEFINE born == IF l.used THEN l.born ELSE time
<1>2. born \in Nat /\ l.taken + took \in Nat
  BY <1>1
<1> HIDE DEF born
<1>3. TRUE \in BOOLEAN
  OBVIOUS
<1>4. Served(l, bucket, took) =
        [policy |-> l.policy, used |-> TRUE, bucket |-> bucket, born |-> born,
         taken |-> l.taken + took]
  BY Zenon DEF Served, born
<1> DEFINE m == Served(l, bucket, took)
           taken == l.taken + took
<1> HIDE DEF m, taken
<1>5. /\ m \in [policy : Policies \cup Defaults, used : BOOLEAN, bucket : Bucket, born : Nat, taken : Nat]
      /\ m.policy = l.policy /\ m.used = TRUE /\ m.bucket = bucket /\ m.born = born
      /\ m.taken = taken
  <2>1. m = [policy |-> l.policy, used |-> TRUE, bucket |-> bucket, born |-> born, taken |-> taken]
    BY <1>4 DEF m, taken
  <2>2. taken \in Nat
    BY <1>2 DEF taken
  <2> QED
    BY <1>1, <1>2, <1>3, <2>1, <2>2, LimiterRecord, Zenon
<1> QED
  BY <1>5, Zenon DEF Limiter, m, taken, born

\* The bucket that a request finds, refilled to the present.
Found(l, t) ==
  LET c == Config(l.policy)
  IN  Refilled(c, IF l.used THEN l.bucket ELSE Fresh(c, t), t)

LEMMA FoundBucket ==
  ASSUME NEW l \in Limiter, NEW t \in Nat, Sound(l, t)
  PROVE  LET c == Config(l.policy)
             b == Found(l, t)
             born == IF l.used THEN l.born ELSE t
         IN  /\ b.tokens \in Int /\ b.nan \in BOOLEAN /\ b.lastRefill = t
             /\ b \in Bucket
             /\ Paying(l) =>
                  /\ b.tokens \in 0..Full(c)
                  /\ born <= t
                  /\ ~b.nan
                  /\ l.taken * Token(c) + b.tokens <= Full(c) + c.capacity * (t - born)
<1> DEFINE c == Config(l.policy)
           a == IF l.used THEN l.bucket ELSE Fresh(c, t)
           b == Found(l, t)
           born == IF l.used THEN l.born ELSE t
<1>1. /\ l.policy \in Policies \cup Defaults /\ l.bucket \in Bucket
      /\ l.born \in Nat /\ l.taken \in Nat /\ l.used \in BOOLEAN
  BY DEF Limiter
<1>2. /\ c.capacity \in Int /\ c.window \in Nat /\ Token(c) \in Nat /\ Full(c) \in Int
      /\ c.capacity > 0 /\ c.window > 0 => Token(c) > 0 /\ Token(c) <= Full(c)
  BY <1>1, Sizes
<1>3. Paying(l) <=> c.capacity > 0 /\ c.window > 0
  BY DEF Paying
<1>4. /\ ~l.used => l.taken = 0
      /\ Paying(l) /\ l.used =>
           /\ l.bucket.tokens \in 0..Full(c)
           /\ l.born <= l.bucket.lastRefill /\ l.bucket.lastRefill <= t
           /\ ~l.bucket.nan
           /\ l.taken * Token(c) + l.bucket.tokens
                <= Full(c) + c.capacity * (l.bucket.lastRefill - l.born)
  BY DEF Sound
<1>5. b = Refilled(c, a, t)
  BY DEF Found
<1> HIDE DEF c, b
<1>6. /\ l.used => a.tokens = l.bucket.tokens /\ a.lastRefill = l.bucket.lastRefill
                   /\ a.nan = l.bucket.nan
      /\ ~l.used => a.tokens = Full(c) /\ a.lastRefill = t /\ a.nan = FALSE
  BY DEF Fresh
<1>7. a.tokens \in Int /\ a.lastRefill \in Int
  BY <1>1, <1>2, <1>6 DEF Bucket
<1>8. a.nan \in BOOLEAN
  BY <1>1, <1>6, Zenon DEF Bucket
<1> HIDE DEF a
<1>9. /\ b.tokens = AtMost(Full(c), a.tokens + (t - a.lastRefill) * c.capacity)
      /\ b.lastRefill = t
      /\ b.nan = (a.nan \/ c.window = 0)
      /\ b = [tokens |-> b.tokens, lastRefill |-> b.lastRefill, nan |-> b.nan]
  BY <1>5 DEF Refilled
<1> DEFINE gain == (t - a.lastRefill) * c.capacity
<1>10. gain \in Int
  BY <1>2, <1>7
<1>11. b.tokens \in Int
  BY <1>2, <1>7, <1>9, <1>10 DEF AtMost
<1>12. b.nan \in BOOLEAN
  BY <1>9, Zenon
<1>13. b \in Bucket
  <2>1. b.lastRefill \in Int
    BY <1>9
  <2> QED
    BY <1>9, <1>11, <1>12, <2>1, Zenon DEF Bucket
<1>14. ASSUME Paying(l)
       PROVE  /\ b.tokens \in 0..Full(c)
              /\ born <= t
              /\ l.taken * Token(c) + b.tokens <= Full(c) + c.capacity * (t - born)
  <2>1. gain >= 0 /\ a.tokens \in 0..Full(c)
    <3>1. t - a.lastRefill \in Nat /\ c.capacity \in Nat
      BY <1>1, <1>2, <1>3, <1>4, <1>6, <1>7, <1>14
    <3> QED
      BY <1>2, <1>3, <1>4, <1>6, <1>14, <3>1
  <2>2. b.tokens \in 0..Full(c) /\ b.tokens <= a.tokens + gain /\ b.tokens <= Full(c)
    <3> HIDE DEF gain
    <3> QED
      BY <1>2, <1>9, <1>10, <2>1 DEF AtMost, gain
  <2>3. CASE l.used
    <3>1. c.capacity * (t - l.born) = c.capacity * (a.lastRefill - l.born) + gain
      BY <1>1, <1>2, <1>7
    <3>2. l.taken * Token(c) \in Int /\ c.capacity * (a.lastRefill - l.born) \in Int
      BY <1>1, <1>2, <1>7
    <3>3. born = l.born /\ born <= t
      BY <1>1, <1>4, <1>6, <1>7, <1>14, <2>3
    <3>4. l.taken * Token(c) + a.tokens <= Full(c) + c.capacity * (a.lastRefill - l.born)
      BY <1>4, <1>6, <1>14, <2>3
    <3> HIDE DEF gain, born
    <3> QED
      BY <1>2, <1>7, <1>10, <1>11, <2>2, <3>1, <3>2, <3>3, <3>4
  <2>4. CASE ~l.used
    <3>1. l.taken * Token(c) = 0 /\ c.capacity * (t - born) = 0 /\ born = t
      BY <1>2, <1>4, <2>4
    <3> QED
      BY <1>2, <2>2, <3>1
  <2> QED
    BY <2>3, <2>4
<1>15. Paying(l) => ~b.nan
  <2>1. Paying(l) => ~a.nan
    BY <1>4, <1>6
  <2>2. Paying(l) => c.window # 0
    BY <1>2, <1>3
  <2> QED
    BY <1>9, <2>1, <2>2
<1> QED
  BY <1>9, <1>11, <1>12, <1>13, <1>14, <1>15 DEF b, c

\* Serving a request keeps a limiter sound, whether the request gets a token
\* or not.
LEMMA ServingIsSound ==
  ASSUME time \in Nat, NEW l \in Limiter, Sound(l, time),
         NEW bucket, NEW took,
         \/ /\ HasToken(Config(l.policy), Found(l, time))
            /\ bucket = Spent(Config(l.policy), Found(l, time))
            /\ took = 1
         \/ bucket = Found(l, time) /\ took = 0
  PROVE  LET m == Served(l, bucket, took)
         IN  m \in Limiter /\ m.policy = l.policy /\ Sound(m, time)
<1> DEFINE c == Config(l.policy)
           b == Found(l, time)
           m == Served(l, bucket, took)
           born == IF l.used THEN l.born ELSE time
<1>1. /\ b.tokens \in Int /\ b.nan \in BOOLEAN /\ b.lastRefill = time
      /\ b \in Bucket
      /\ Paying(l) =>
           /\ b.tokens \in 0..Full(c)
           /\ born <= time
           /\ ~b.nan
           /\ l.taken * Token(c) + b.tokens <= Full(c) + c.capacity * (time - born)
  BY FoundBucket
<1>2. l.policy \in Policies \cup Defaults /\ l.taken \in Nat /\ l.born \in Nat
  BY DEF Limiter
<1>3. /\ c.capacity \in Int /\ Token(c) \in Nat /\ Full(c) \in Int
  BY <1>2, Sizes
<1>4. took \in {0, 1}
  OBVIOUS
<1> HIDE DEF c, b
<1>5. /\ bucket \in Bucket
      /\ bucket.tokens = b.tokens - took * Token(c)
      /\ bucket.lastRefill = time
      /\ bucket.nan = b.nan
      /\ took = 1 => b.tokens >= Token(c)
  <2>1. CASE bucket = b /\ took = 0
    BY <1>1, <1>3, <2>1
  <2>2. CASE HasToken(c, b) /\ bucket = Spent(c, b) /\ took = 1
    <3>1. b.tokens - Token(c) \in Int
      BY <1>1, <1>3
    <3>2. bucket = [b EXCEPT !.tokens = b.tokens - Token(c)]
      BY <2>2 DEF Spent
    <3> HIDE DEF Bucket
    <3>3. bucket \in Bucket
      BY <1>1, <3>1, <3>2 DEF Bucket
    <3>4. bucket.tokens = b.tokens - Token(c) /\ bucket.lastRefill = b.lastRefill
          /\ bucket.nan = b.nan
      BY <1>1, <3>2 DEF Bucket
    <3> QED
      BY <1>1, <1>3, <2>2, <3>3, <3>4 DEF HasToken
  <2> QED
    BY <2>1, <2>2 DEF b, c
<1>6. /\ m \in Limiter
      /\ m.policy = l.policy /\ m.used /\ m.bucket = bucket
      /\ m.taken = l.taken + took
      /\ m.born = born
  BY <1>4, <1>5, ServedFields
<1> HIDE DEF m, born
<1>7. ASSUME Paying(l)
      PROVE  /\ bucket.tokens \in 0..Full(c)
             /\ born <= time
             /\ ~bucket.nan
             /\ (l.taken + took) * Token(c) + bucket.tokens <= Full(c) + c.capacity * (time - born)
  <2>1. (l.taken + took) * Token(c) = l.taken * Token(c) + took * Token(c)
    BY <1>2, <1>3, <1>4
  <2>2. took * Token(c) = (IF took = 1 THEN Token(c) ELSE 0) /\ l.taken * Token(c) \in Int
    BY <1>2, <1>3, <1>4
  <2>3. born \in Int /\ c.capacity * (time - born) \in Int
    BY <1>2, <1>3 DEF born
  <2> QED
    BY <1>1, <1>3, <1>4, <1>5, <1>7, <2>1, <2>2, <2>3
<1>8. Paying(m) <=> Paying(l)
  BY <1>6 DEF Paying
<1>9. Config(m.policy) = c
  BY <1>6 DEF c
<1>10. Sound(m, time)
  BY <1>5, <1>6, <1>7, <1>8, <1>9 DEF Sound
<1> QED
  BY <1>6, <1>10 DEF m

LEMMA NewLimiterIsSound ==
  ASSUME NEW p \in Policies \cup Defaults, NEW t \in Nat
  PROVE  NewLimiter(p) \in Limiter /\ NewLimiter(p).policy = p /\ Sound(NewLimiter(p), t)
<1> DEFINE l == NewLimiter(p)
<1>1. NoBucket \in Bucket
  BY DEF NoBucket, Bucket
<1>2. l = [policy |-> p, used |-> FALSE, bucket |-> NoBucket, born |-> 0, taken |-> 0]
  BY Zenon DEF NewLimiter
<1>3. 0 \in Nat /\ FALSE \in BOOLEAN
  OBVIOUS
<1> HIDE DEF l
<1>4. /\ l \in [policy : Policies \cup Defaults, used : BOOLEAN, bucket : Bucket, born : Nat, taken : Nat]
      /\ l.policy = p /\ l.used = FALSE /\ l.taken = 0
  BY <1>1, <1>2, <1>3, LimiterRecord, Zenon
<1>5. Sound(l, t)
  BY <1>4 DEF Sound
<1> QED
  BY <1>4, <1>5, Zenon DEF Limiter, l

\* Time alone does not disturb a limiter.
LEMMA SoundLater ==
  ASSUME NEW l \in Limiter, NEW t \in Nat, Sound(l, t)
  PROVE  Sound(l, t + 1)
<1>1. l.bucket.lastRefill \in Int
  BY DEF Limiter, Bucket
<1> QED
  BY <1>1 DEF Sound

\* The wait that a rejected client is told is a number.
LEMMA WaitsAreNumbers ==
  ASSUME NEW p \in Policies \cup Defaults, NEW b, b.tokens \in Int
  PROVE  Waits(Config(p), b) \subseteq Nat
<1> DEFINE c == Config(p)
<1>1. c.capacity \in Int /\ Token(c) \in Nat
  BY Sizes
<1> HIDE DEF c
<1>2. CASE c.capacity > 0 /\ ~b.nan
  <2> DEFINE d == c.capacity * TicksPerSecond
             short == Token(c) - b.tokens
             wait == short \div d
  <2>1. d \in Nat /\ d > 0
    BY <1>1, <1>2, TicksAssumption
  <2>2. short \in Int
    BY <1>1
  <2> HIDE DEF d, short
  <2>3. wait \in Int
    BY <2>1, <2>2
  <2>4. Waits(c, b) = {IF wait < 1 THEN 1 ELSE wait}
    BY <1>1, <1>2 DEF Waits, d, short
  <2> HIDE DEF wait
  <2> QED
    BY <2>3, <2>4 DEF c
<1>3. CASE c.capacity <= 0 \/ b.nan
  BY <1>1, <1>3 DEF Waits, HugeWait, c
<1> QED
  BY <1>1, <1>2, <1>3

-----------------------------------------------------------------------------
(* The limiters of a policy and the handlers that are making one *)

LEMMA KeysArePolicies ==
  /\ CacheKeys = Policies \cup Defaults
  /\ \A p : CacheKey(p) = p
BY DEF CacheKeys, CacheKey

LEMMA LimiterCounts ==
  ASSUME limiters \in Seq(Limiter), NEW p
  PROVE  /\ IsFiniteSet(Indices(p)) /\ Cardinality(Indices(p)) \in Nat
         /\ IsFiniteSet(Creating(p)) /\ Cardinality(Creating(p)) \in Nat
         /\ Cardinality(Worker) \in Nat
<1>1. Len(limiters) \in Nat
  BY LenProperties
<1>2. IsFiniteSet(1..Len(limiters))
  BY <1>1, FS_Interval
<1>3. Indices(p) \in SUBSET (1..Len(limiters))
  BY DEF Indices
<1>4. Creating(p) \in SUBSET Worker
  BY DEF Creating
<1>5. IsFiniteSet(Indices(p)) /\ IsFiniteSet(Creating(p)) /\ IsFiniteSet(Worker)
  BY <1>2, <1>3, <1>4, WorkersAreFinite, FS_Subset
<1> QED
  BY <1>5, FS_CardinalityType

\* The limiter of a request that is about to ask it.
LEMMA Holder ==
  ASSUME EnvironmentOK, LimitersOK, RequestsOK, NEW w \in Worker, pc[w] = "allow"
  PROVE  /\ holds[w] \in 1..Len(limiters)
         /\ limiters[holds[w]] \in Limiter
         /\ limiters[holds[w]].policy \in Policies \cup Defaults
         /\ Sound(limiters[holds[w]], time)
         /\ limiters[holds[w]].policy = found[w]
         /\ time \in Nat
         /\ Find(w) = Found(limiters[holds[w]], time)
<1>1. Len(limiters) \in Nat
  BY LenProperties DEF LimitersOK
<1>2. holds[w] \in 1..Len(limiters)
  BY <1>1 DEF RequestsOK, HoldersHold, Missing
<1>3. limiters[holds[w]] \in Limiter
  BY <1>2, ElementOfSeq DEF LimitersOK
<1>4. limiters[holds[w]].policy \in Policies \cup Defaults
  BY <1>3 DEF Limiter
<1>5. time \in Nat
  BY FactoryBounds DEF EnvironmentOK
<1>6. Sound(limiters[holds[w]], time)
  BY <1>2 DEF LimitersOK, LimitersAreSound
<1>7. Find(w) = Found(limiters[holds[w]], time)
  BY Zenon DEF Find, Found
<1> QED
  BY <1>2, <1>3, <1>4, <1>5, <1>6, <1>7 DEF RequestsOK

\* The counts are kept by a step that makes no limiter and starts to make none.
LEMMA MakersKept ==
  ASSUME limiters \in Seq(Limiter), limiters' \in Seq(Limiter), MakersAreFew,
         \A p \in CacheKeys : Indices(p)' = Indices(p) /\ Creating(p)' \subseteq Creating(p)
  PROVE  MakersAreFew'
<1> SUFFICES ASSUME NEW p \in CacheKeys
             PROVE  Cardinality(Indices(p)') + Cardinality(Creating(p)') <= Cardinality(Worker)
  BY DEF MakersAreFew, Indices, Creating
<1>1. Cardinality(Indices(p)) + Cardinality(Creating(p)) <= Cardinality(Worker)
  BY DEF MakersAreFew
<1>2. /\ IsFiniteSet(Creating(p)) /\ Cardinality(Creating(p)) \in Nat
      /\ Cardinality(Indices(p)) \in Nat /\ Cardinality(Worker) \in Nat
  BY LimiterCounts
<1>3. Indices(p)' = Indices(p) /\ Creating(p)' \in SUBSET Creating(p)
  OBVIOUS
<1>4. IsFiniteSet(Creating(p)') /\ Cardinality(Creating(p)') <= Cardinality(Creating(p))
  BY <1>2, <1>3, FS_Subset
<1>5. Cardinality(Creating(p)') \in Nat
  BY <1>4, FS_CardinalityType
<1> QED
  BY <1>1, <1>2, <1>3, <1>4, <1>5

-----------------------------------------------------------------------------
(* The invariant *)

\* With nothing asked for yet there is the default limiter alone, and a handler
\* at least, which could have made it.
LEMMA InvariantInitially == Init => IInv
<1> SUFFICES ASSUME Init
             PROVE  EnvironmentOK /\ LimitersOK /\ CacheOK /\ RequestsOK /\ MakersAreFew
  BY InvariantParts
<1> USE DEF Init
<1> DEFINE l == NewLimiter(fallback)
<1>1. l \in Limiter /\ l.policy = fallback /\ Sound(l, 0)
  BY NewLimiterIsSound
<1> HIDE DEF l
<1>2. limiters = <<l>>
  BY DEF l
<1>3. /\ limiters \in Seq(Limiter) /\ Len(limiters) = 1 /\ limiters[1] = l
  BY <1>1, <1>2
<1>4. EnvironmentOK
  BY FactoryBounds DEF EnvironmentOK
<1>5. LimitersOK
  BY <1>1, <1>3 DEF LimitersOK, LimitersAreSound, DefaultIsFirst
<1>6. \A p : Indices(p) = IF p = fallback THEN {1} ELSE {}
  BY <1>1, <1>3 DEF Indices
<1>7. cache = [k \in Policies \cup Defaults |-> IF k = fallback THEN 1 ELSE 0]
  BY KeysArePolicies DEF Missing
<1>8. CacheOK
  BY <1>1, <1>3, <1>6, <1>7, KeysArePolicies DEF CacheOK, CacheIsRight, Missing
<1>9. RequestsOK
  BY <1>3 DEF RequestsOK, HoldersHold, Places, Missing
<1>10. MakersAreFew
  <2> SUFFICES ASSUME NEW p \in CacheKeys
               PROVE  Cardinality(Indices(p)) + Cardinality(Creating(p)) <= Cardinality(Worker)
    BY DEF MakersAreFew
  <2>1. Creating(p) = {}
    BY DEF Creating
  <2>2. Cardinality(Creating(p)) = 0
    BY <2>1, FS_EmptySet
  <2>3. Cardinality(Worker) \in Nat /\ Cardinality(Worker) # 0
    BY WorkersAreFinite, FS_CardinalityType, FS_EmptySet
  <2>4. Cardinality(Indices(p)) \in {0, 1}
    BY <1>6, FS_EmptySet, FS_Singleton
  <2> QED
    BY <2>2, <2>3, <2>4
<1> QED
  BY <1>4, <1>5, <1>8, <1>9, <1>10

LEMMA TickKeeps ==
  ASSUME IInv, Tick
  PROVE  IInv'
<1> USE DEF Tick, request
<1>1. EnvironmentOK /\ LimitersOK /\ CacheOK /\ RequestsOK /\ MakersAreFew
  BY InvariantParts
<1>2. time \in Nat /\ time' = time + 1
  BY <1>1, FactoryBounds DEF EnvironmentOK
<1>3. EnvironmentOK'
  BY <1>1, <1>2, FactoryBounds DEF EnvironmentOK
<1>4. LimitersAreSound'
  <2> SUFFICES ASSUME NEW i \in 1..Len(limiters)
               PROVE  Sound(limiters[i], time + 1)
    BY <1>2 DEF LimitersAreSound
  <2>1. limiters[i] \in Limiter
    BY <1>1, ElementOfSeq DEF LimitersOK
  <2>2. Sound(limiters[i], time)
    BY <1>1 DEF LimitersOK, LimitersAreSound
  <2> QED
    BY <1>2, <2>1, <2>2, SoundLater
<1>5. LimitersOK'
  BY <1>1, <1>4 DEF LimitersOK, DefaultIsFirst
<1>6. CacheOK'
  BY <1>1 DEF CacheOK, CacheIsRight, Indices
<1>7. RequestsOK'
  BY <1>1 DEF RequestsOK, HoldersHold
<1>8. MakersAreFew'
  BY <1>1 DEF MakersAreFew, Indices, Creating
<1> QED
  BY <1>3, <1>5, <1>6, <1>7, <1>8, InvariantParts, PTL

\* A step that leaves the limiters and the time alone keeps the limiters sound.
LEMMA LimitersUntouched ==
  ASSUME LimitersOK, UNCHANGED <<time, fallback, limiters>>
  PROVE  /\ LimitersOK'
         /\ \A p : Indices(p)' = Indices(p)
BY DEF LimitersOK, LimitersAreSound, DefaultIsFirst, Indices

LEMMA EditPolicyKeeps ==
  ASSUME IInv, EditPolicy
  PROVE  IInv'
<1> USE DEF EditPolicy, request
<1>1. EnvironmentOK /\ LimitersOK /\ CacheOK /\ RequestsOK /\ MakersAreFew
  BY InvariantParts
<1>2. EnvironmentOK'
  BY <1>1, FactoryBounds DEF EnvironmentOK
<1>3. LimitersOK'
  BY <1>1, LimitersUntouched
<1>4. CacheOK'
  BY <1>1 DEF CacheOK, CacheIsRight, Indices
<1>5. RequestsOK'
  BY <1>1 DEF RequestsOK, HoldersHold
<1>6. MakersAreFew'
  BY <1>1 DEF MakersAreFew, Indices, Creating
<1> QED
  BY <1>2, <1>3, <1>4, <1>5, <1>6, InvariantParts, PTL

LEMMA IdentifyKeeps ==
  ASSUME IInv, NEW w \in Worker, Identify(w)
  PROVE  IInv'
<1> USE DEF Identify
<1>1. EnvironmentOK /\ LimitersOK /\ CacheOK /\ RequestsOK /\ MakersAreFew
  BY InvariantParts
<1>2. EnvironmentOK'
  BY <1>1, FactoryBounds DEF EnvironmentOK
<1>3. LimitersOK' /\ \A p : Indices(p)' = Indices(p)
  BY <1>1, LimitersUntouched
<1>4. CacheOK'
  BY <1>1 DEF CacheOK, CacheIsRight, Indices
<1>5. RequestsOK'
  <2>1. 1 \in 0..Len(limiters) /\ limiters[1].policy = fallback /\ Len(limiters) \in Nat
    BY <1>1, LenProperties DEF LimitersOK, DefaultIsFirst
  <2>2. policy # Unset => policy \in Policies
    BY <1>1 DEF EnvironmentOK
  <2>3. CASE policy # Unset
    BY <1>1, <2>2, <2>3 DEF RequestsOK, HoldersHold, Places, Missing
  <2>4. CASE policy = Unset
    <3>1. /\ pc' = [pc EXCEPT ![w] = "allow"]
          /\ found' = [found EXCEPT ![w] = fallback]
          /\ holds' = [holds EXCEPT ![w] = 1]
          /\ UNCHANGED <<fallback, limiters, retryAfter>>
      BY <2>4
    <3> QED
      BY ONLY <1>1, <2>1, <3>1 DEF RequestsOK, HoldersHold, Places, Missing
  <2> QED
    BY <2>3, <2>4
<1>6. MakersAreFew'
  <2>1. \A p : Creating(p)' \subseteq Creating(p)
    BY <1>1 DEF RequestsOK, Creating, Places
  <2> QED
    BY <1>1, <1>3, <2>1, MakersKept DEF LimitersOK
<1> QED
  BY <1>2, <1>3, <1>4, <1>5, <1>6, InvariantParts, PTL

LEMMA HitKeeps ==
  ASSUME IInv, NEW w \in Worker, Hit(w)
  PROVE  IInv'
<1> USE DEF Hit
<1>1. EnvironmentOK /\ LimitersOK /\ CacheOK /\ RequestsOK /\ MakersAreFew
  BY InvariantParts
<1>2. EnvironmentOK'
  BY <1>1 DEF EnvironmentOK
<1>3. LimitersOK' /\ \A p : Indices(p)' = Indices(p)
  BY <1>1, LimitersUntouched
<1>4. CacheOK'
  BY <1>1 DEF CacheOK, CacheIsRight, Indices
<1>5. RequestsOK'
  <2>1. found[w] \in CacheKeys
    BY <1>1, KeysArePolicies DEF RequestsOK, EnvironmentOK
  <2>2. holds'[w] = cache[found[w]] /\ cache[found[w]] # Missing
    BY <1>1, KeysArePolicies DEF RequestsOK, IsCached
  <2>3. cache[found[w]] \in 0..Len(limiters) /\ limiters[cache[found[w]]].policy = found[w]
    BY <1>1, <2>1, <2>2 DEF CacheOK, CacheIsRight
  <2> QED
    BY <1>1, <2>2, <2>3, KeysArePolicies DEF RequestsOK, HoldersHold, Places
<1>6. MakersAreFew'
  <2>1. \A p : Creating(p)' \subseteq Creating(p)
    BY <1>1 DEF RequestsOK, Creating, Places
  <2> QED
    BY <1>1, <1>3, <2>1, MakersKept DEF LimitersOK
<1> QED
  BY <1>2, <1>3, <1>4, <1>5, <1>6, InvariantParts, PTL

LEMMA MissKeeps ==
  ASSUME IInv, NEW w \in Worker, Miss(w)
  PROVE  IInv'
<1> USE DEF Miss
<1>1. EnvironmentOK /\ LimitersOK /\ CacheOK /\ RequestsOK /\ MakersAreFew
  BY InvariantParts
<1>2. EnvironmentOK'
  BY <1>1 DEF EnvironmentOK
<1>3. LimitersOK' /\ \A p : Indices(p)' = Indices(p)
  BY <1>1, LimitersUntouched
<1>4. CacheOK'
  BY <1>1 DEF CacheOK, CacheIsRight, Indices
<1>5. RequestsOK'
  BY <1>1 DEF RequestsOK, HoldersHold, Places
<1>6. MakersAreFew'
  <2> SUFFICES ASSUME NEW p \in CacheKeys
               PROVE  Cardinality(Indices(p)') + Cardinality(Creating(p)') <= Cardinality(Worker)
    BY DEF MakersAreFew, Indices, Creating
  <2>1. CASE p # found[w]
    <3>1. Creating(p)' = Creating(p)
      BY <1>1, <2>1 DEF RequestsOK, Creating, Places
    <3> QED
      BY <1>1, <1>3, <3>1 DEF MakersAreFew
  <2>2. CASE p = found[w]
    <3>1. cache[p] = Missing
      BY <2>2, KeysArePolicies DEF IsCached
    <3>2. Indices(p)' = {}
      BY <1>1, <1>3, <3>1 DEF CacheOK, CacheIsRight
    <3>3. Creating(p)' \in SUBSET Worker
      BY DEF Creating
    <3>4. /\ IsFiniteSet(Creating(p)') /\ Cardinality(Creating(p)') <= Cardinality(Worker)
          /\ Cardinality(Creating(p)') \in Nat /\ Cardinality(Indices(p)') = 0
      BY <3>2, <3>3, WorkersAreFinite, FS_Subset, FS_CardinalityType, FS_EmptySet
    <3> QED
      BY <3>4, WorkersAreFinite, FS_CardinalityType
  <2> QED
    BY <2>1, <2>2
<1> QED
  BY <1>2, <1>3, <1>4, <1>5, <1>6, InvariantParts, PTL

LEMMA CreateKeeps ==
  ASSUME IInv, NEW w \in Worker, Create(w)
  PROVE  IInv'
<1> DEFINE p == found[w]
           n == Len(limiters)
           l == NewLimiter(p)
<1> USE DEF Create
<1>1. EnvironmentOK /\ LimitersOK /\ CacheOK /\ RequestsOK /\ MakersAreFew
  BY InvariantParts
<1>2. n \in Nat /\ time \in Nat /\ limiters \in Seq(Limiter)
  BY <1>1, LenProperties, FactoryBounds DEF LimitersOK, EnvironmentOK
<1>3. p \in Policies \cup Defaults /\ p \in CacheKeys
  BY <1>1, KeysArePolicies DEF RequestsOK, EnvironmentOK
<1>4. l \in Limiter /\ l.policy = p /\ Sound(l, time)
  BY <1>2, <1>3, NewLimiterIsSound
<1>5. limiters' = Append(limiters, l)
  OBVIOUS
<1> HIDE DEF l
<1>6. /\ limiters' \in Seq(Limiter)
      /\ Len(limiters') = n + 1
      /\ \A i \in 1..n : limiters'[i] = limiters[i]
      /\ limiters'[n + 1] = l
  BY <1>2, <1>4, <1>5, AppendProperties
<1>7. /\ cache' = [cache EXCEPT ![p] = n + 1]
      /\ holds' = [holds EXCEPT ![w] = n + 1]
      /\ pc' = [pc EXCEPT ![w] = "allow"]
      /\ pc[w] = "create"
      /\ UNCHANGED <<time, fallback, policy, edits, requests, found, retryAfter>>
  BY <1>6, KeysArePolicies
<1> HIDE DEF p, n, Create
<1>8. EnvironmentOK'
  BY <1>1, <1>7 DEF EnvironmentOK
<1>9. LimitersOK'
  <2>1. \A i \in 1..(n + 1) : i \in 1..n \/ i = n + 1
    BY <1>2
  <2>2. LimitersAreSound'
    BY <1>1, <1>4, <1>6, <1>7, <2>1 DEF LimitersOK, LimitersAreSound, n
  <2>3. DefaultIsFirst'
    BY <1>1, <1>2, <1>6, <1>7 DEF LimitersOK, DefaultIsFirst, n
  <2> QED
    BY <1>6, <2>2, <2>3 DEF LimitersOK
<1>10. \A q : Indices(q)' = IF q = p THEN Indices(q) \cup {n + 1} ELSE Indices(q)
  <2> TAKE q
  <2>1. \A i : i \in Indices(q)' <=> i \in 1..(n + 1) /\ limiters'[i].policy = q
    BY <1>6 DEF Indices
  <2>2. \A i : i \in Indices(q) <=> i \in 1..n /\ limiters[i].policy = q
    BY DEF Indices, n
  <2>3. \A i : i \in 1..(n + 1) <=> i \in 1..n \/ i = n + 1
    BY <1>2
  <2>4. \A i : i \in Indices(q)' <=> i \in Indices(q) \/ (i = n + 1 /\ q = p)
    BY <1>4, <1>6, <2>1, <2>2, <2>3
  <2> HIDE DEF Indices
  <2> QED
    BY <2>4
<1>11. CacheOK'
  <2>1. cache \in [CacheKeys -> 0..n] /\ 0..n \subseteq 0..(n + 1) /\ n + 1 \in 0..(n + 1)
    BY <1>1, <1>2 DEF CacheOK, n
  <2>2. cache' \in [CacheKeys -> 0..(n + 1)]
    BY <1>7, <2>1
  <2>3. ASSUME NEW q \in CacheKeys
        PROVE  IF cache'[q] = Missing THEN Indices(q)' = {} ELSE limiters'[cache'[q]].policy = q
    <3>1. CASE q = p
      BY <1>2, <1>3, <1>4, <1>6, <1>7, <2>1, <3>1 DEF Missing
    <3>2. CASE q # p
      <4>1. cache'[q] = cache[q] /\ cache[q] \in 0..n
        BY <1>7, <2>1, <3>2
      <4>2. IF cache[q] = Missing THEN Indices(q) = {} ELSE limiters[cache[q]].policy = q
        BY <1>1 DEF CacheOK, CacheIsRight
      <4> QED
        BY <1>2, <1>6, <1>10, <3>2, <4>1, <4>2 DEF Missing
    <3> QED
      BY <3>1, <3>2
  <2>4. CacheIsRight'
    BY <2>3 DEF CacheIsRight, CacheKeys, Missing
  <2> QED
    BY <1>6, <2>2, <2>4 DEF CacheOK, CacheKeys
<1>12. RequestsOK'
  <2>1. /\ pc \in [Worker -> Places] /\ found \in [Worker -> Policies \cup {fallback}]
        /\ holds \in [Worker -> 0..n] /\ retryAfter \in [Worker -> Nat]
        /\ \A v \in Worker : pc[v] = "allow" =>
             holds[v] # Missing /\ limiters[holds[v]].policy = found[v]
    BY <1>1 DEF RequestsOK, HoldersHold, n
  <2>2. 0..n \subseteq 0..(n + 1) /\ n + 1 \in 0..(n + 1)
    BY <1>2
  <2>3. holds' \in [Worker -> 0..(n + 1)] /\ pc' \in [Worker -> Places]
    BY <1>7, <2>1, <2>2 DEF Places
  <2>4. ASSUME NEW v \in Worker, pc'[v] = "allow"
        PROVE  holds'[v] # Missing /\ limiters'[holds'[v]].policy = found'[v]
    <3>1. CASE v = w
      BY <1>2, <1>4, <1>6, <1>7, <2>1, <3>1 DEF Missing, p
    <3>2. CASE v # w
      <4>1. holds'[v] = holds[v] /\ pc[v] = "allow" /\ holds[v] \in 1..n
        BY <1>2, <1>7, <2>1, <2>4, <3>2 DEF Missing
      <4> QED
        BY <1>6, <1>7, <2>1, <4>1
    <3> QED
      BY <3>1, <3>2
  <2> QED
    BY <1>6, <1>7, <2>1, <2>3, <2>4 DEF RequestsOK, HoldersHold, Missing
<1>13. MakersAreFew'
  <2> SUFFICES ASSUME NEW q \in CacheKeys
               PROVE  Cardinality(Indices(q)') + Cardinality(Creating(q)') <= Cardinality(Worker)
    BY DEF MakersAreFew, Indices, Creating
  <2>1. /\ IsFiniteSet(Indices(q)) /\ IsFiniteSet(Creating(q))
        /\ Cardinality(Indices(q)) \in Nat /\ Cardinality(Creating(q)) \in Nat
        /\ Cardinality(Worker) \in Nat
        /\ Cardinality(Indices(q)) + Cardinality(Creating(q)) <= Cardinality(Worker)
    BY <1>1, <1>2, LimiterCounts DEF MakersAreFew
  <2>2. Creating(q)' = Creating(q) \ {w}
    BY <1>1, <1>7 DEF RequestsOK, Creating
  <2>3. w \in Creating(q) <=> q = p
    BY <1>7 DEF Creating, p
  <2>4. n + 1 \notin Indices(q)
    BY <1>2 DEF Indices, n
  <2>5. Cardinality(Creating(q)') =
          IF q = p THEN Cardinality(Creating(q)) - 1 ELSE Cardinality(Creating(q))
    BY <2>1, <2>2, <2>3, FS_RemoveElement
  <2>6. Cardinality(Indices(q)') =
          IF q = p THEN Cardinality(Indices(q)) + 1 ELSE Cardinality(Indices(q))
    BY <1>10, <2>1, <2>4, FS_AddElement
  <2> QED
    BY <2>1, <2>5, <2>6
<1> QED
  BY <1>8, <1>9, <1>11, <1>12, <1>13, InvariantParts, PTL

\* What a request leaves in the limiter that it held, and whether it got a token.
Outcome(l, bucket, took) ==
  \/ /\ HasToken(Config(l.policy), Found(l, time))
     /\ bucket = Spent(Config(l.policy), Found(l, time))
     /\ took = 1
  \/ bucket = Found(l, time) /\ took = 0

LEMMA FinishKeeps ==
  ASSUME IInv, NEW w \in Worker, pc[w] = "allow", NEW bucket, NEW took, NEW wait \in Nat,
         Outcome(limiters[holds[w]], bucket, took),
         Finish(w, bucket, took, wait)
  PROVE  IInv'
<1> DEFINE i == holds[w]
           l == limiters[i]
           m == Served(l, bucket, took)
<1>1. EnvironmentOK /\ LimitersOK /\ CacheOK /\ RequestsOK /\ MakersAreFew
  BY InvariantParts
<1>2. /\ i \in 1..Len(limiters) /\ l \in Limiter /\ Sound(l, time) /\ time \in Nat
  BY <1>1, Holder
<1>3. m \in Limiter /\ m.policy = l.policy /\ Sound(m, time)
  BY <1>2, ServingIsSound, Zenon DEF Outcome
<1>4. /\ limiters' = [limiters EXCEPT ![i] = m]
      /\ pc' = [pc EXCEPT ![w] = "done"]
      /\ holds' = [holds EXCEPT ![w] = Missing]
      /\ retryAfter' = [retryAfter EXCEPT ![w] = wait]
      /\ UNCHANGED <<time, fallback, policy, edits, requests, cache, found>>
  BY DEF Finish
<1> HIDE DEF i, l, m
<1>5. /\ limiters' \in Seq(Limiter)
      /\ Len(limiters') = Len(limiters) /\ Len(limiters) \in Nat
      /\ \A j \in 1..Len(limiters) : limiters'[j] = IF j = i THEN m ELSE limiters[j]
  BY <1>1, <1>2, <1>3, <1>4, ExceptSeq, LenProperties DEF LimitersOK
<1>6. \A j \in 1..Len(limiters) : limiters'[j].policy = limiters[j].policy
  BY <1>3, <1>5 DEF l
<1>7. \A p : Indices(p)' = Indices(p)
  BY <1>5, <1>6 DEF Indices
<1>8. EnvironmentOK'
  BY <1>1, <1>4 DEF EnvironmentOK
<1>9. LimitersOK'
  <2>1. LimitersAreSound'
    BY <1>1, <1>3, <1>4, <1>5 DEF LimitersOK, LimitersAreSound
  <2>2. DefaultIsFirst'
    BY <1>1, <1>4, <1>5, <1>6 DEF LimitersOK, DefaultIsFirst
  <2> QED
    BY <1>5, <2>1, <2>2 DEF LimitersOK
<1>10. CacheOK'
  <2>1. /\ cache \in [CacheKeys -> 0..Len(limiters)]
        /\ \A p \in CacheKeys :
             IF cache[p] = Missing THEN Indices(p) = {} ELSE limiters[cache[p]].policy = p
    BY <1>1 DEF CacheOK, CacheIsRight
  <2>2. \A p \in CacheKeys : cache[p] # Missing => cache[p] \in 1..Len(limiters)
    BY <1>5, <2>1 DEF Missing
  <2>3. \A p \in CacheKeys :
          IF cache[p] = Missing THEN Indices(p)' = {} ELSE limiters'[cache[p]].policy = p
    BY <1>6, <1>7, <2>1, <2>2
  <2> QED
    BY <1>4, <1>5, <2>1, <2>3 DEF CacheOK, CacheIsRight, CacheKeys, Missing
<1>11. RequestsOK'
  <2>1. /\ pc \in [Worker -> Places] /\ found \in [Worker -> Policies \cup {fallback}]
        /\ holds \in [Worker -> 0..Len(limiters)] /\ retryAfter \in [Worker -> Nat]
        /\ \A v \in Worker : pc[v] = "allow" =>
             holds[v] # Missing /\ limiters[holds[v]].policy = found[v]
    BY <1>1 DEF RequestsOK, HoldersHold
  <2>2. /\ holds' \in [Worker -> 0..Len(limiters)] /\ pc' \in [Worker -> Places]
        /\ retryAfter' \in [Worker -> Nat]
    BY <1>4, <1>5, <2>1 DEF Places, Missing
  <2>3. ASSUME NEW v \in Worker, pc'[v] = "allow"
        PROVE  holds'[v] # Missing /\ limiters'[holds'[v]].policy = found'[v]
    <3>1. v # w /\ pc[v] = "allow" /\ holds'[v] = holds[v]
      BY <1>4, <2>1, <2>3
    <3>2. holds[v] \in 1..Len(limiters)
      BY <1>5, <2>1, <3>1 DEF Missing
    <3> QED
      BY <1>4, <1>6, <2>1, <3>1, <3>2
  <2> QED
    BY <1>4, <1>5, <2>1, <2>2, <2>3 DEF RequestsOK, HoldersHold, Missing
<1>12. MakersAreFew'
  <2>1. \A p : Creating(p)' \subseteq Creating(p)
    BY <1>1, <1>4 DEF RequestsOK, Creating, Places
  <2> QED
    BY <1>1, <1>5, <1>7, <2>1, MakersKept DEF LimitersOK
<1> QED
  BY <1>8, <1>9, <1>10, <1>11, <1>12, InvariantParts, PTL

LEMMA AdmitKeeps ==
  ASSUME IInv, NEW w \in Worker, Admit(w)
  PROVE  IInv'
<1> DEFINE l == limiters[holds[w]]
<1>1. pc[w] = "allow"
  BY DEF Admit
<1>2. Find(w) = Found(l, time)
  BY <1>1, InvariantParts, Holder
<1>3. /\ HasToken(Config(l.policy), Find(w))
      /\ Finish(w, Spent(Config(l.policy), Find(w)), 1, 0)
  BY Zenon DEF Admit
<1>4. Outcome(l, Spent(Config(l.policy), Find(w)), 1)
  BY <1>2, <1>3, Zenon DEF Outcome
<1>5. 0 \in Nat
  OBVIOUS
<1> QED
  BY <1>1, <1>3, <1>4, <1>5, FinishKeeps, Zenon

LEMMA RejectKeeps ==
  ASSUME IInv, NEW w \in Worker, Reject(w)
  PROVE  IInv'
<1> DEFINE l == limiters[holds[w]]
<1>1. pc[w] = "allow"
  BY DEF Reject
<1>2. /\ Find(w) = Found(l, time) /\ l \in Limiter /\ Sound(l, time) /\ time \in Nat
      /\ l.policy \in Policies \cup Defaults
  BY <1>1, InvariantParts, Holder
<1>3. PICK wait \in Waits(Config(l.policy), Find(w)) : Finish(w, Find(w), 0, wait)
  BY Zenon DEF Reject
<1>4. wait \in Nat
  <2>1. Find(w).tokens \in Int
    BY <1>2, FoundBucket
  <2> HIDE DEF l
  <2> QED
    BY <1>2, <1>3, <2>1, WaitsAreNumbers
<1>5. Outcome(l, Find(w), 0)
  BY <1>2, Zenon DEF Outcome
<1> QED
  BY <1>1, <1>3, <1>4, <1>5, FinishKeeps, Zenon

\* Every step of a request, the clock and the administrator keeps it.
LEMMA InvariantKept == IInv /\ [Next]_vars => IInv'
<1> SUFFICES ASSUME IInv, [Next]_vars
             PROVE  IInv'
  OBVIOUS
<1>1. CASE Tick
  BY <1>1, TickKeeps
<1>2. CASE EditPolicy
  BY <1>2, EditPolicyKeeps
<1>3. ASSUME NEW w \in Worker,
             \/ Identify(w) \/ Hit(w) \/ Miss(w) \/ Create(w) \/ Admit(w) \/ Reject(w)
      PROVE  IInv'
  BY <1>3, IdentifyKeeps, HitKeeps, MissKeeps, CreateKeeps, AdmitKeeps, RejectKeeps
<1>4. CASE UNCHANGED vars
  BY <1>4 DEF vars, request, IInv, TypeOK, LimitersAreSound, DefaultIsFirst, CacheIsRight,
       HoldersHold, MakersAreFew, Indices, Creating
<1> QED
  BY <1>1, <1>2, <1>3, <1>4, Zenon DEF Next

\* Every reachable state satisfies the inductive invariant.
THEOREM Invariance == Spec => []IInv
<1> QED
  BY InvariantInitially, InvariantKept, PTL DEF Spec

\* Type correctness: no request is about to use a limiter that was not made for
\* the policy it was identified with, however the policy is edited meanwhile.
THEOREM TypeCorrect == Spec => []TypeOK
<1>1. IInv => TypeOK
  BY DEF IInv
<1> QED
  BY <1>1, Invariance, PTL

\* What a capacity pays for only grows with time.
LEMMA BudgetGrows ==
  ASSUME NEW taken \in Nat, NEW token \in Nat, NEW tokens \in Int, NEW full \in Int,
         NEW capacity \in Int, capacity > 0,
         NEW born \in Nat, NEW refill \in Int, NEW t \in Nat, refill <= t,
         taken * token + tokens <= full + capacity * (refill - born)
  PROVE  taken * token + tokens <= full + capacity * (t - born)
<1>1. capacity * (t - born) = capacity * (refill - born) + capacity * (t - refill)
  OBVIOUS
<1>2. t - refill \in Nat /\ capacity \in Nat
  OBVIOUS
<1>3. capacity * (t - refill) >= 0
  BY <1>2
<1>4. taken * token \in Int /\ capacity * (refill - born) \in Int /\ capacity * (t - refill) \in Int
  OBVIOUS
<1> QED
  BY <1>1, <1>3, <1>4

\* Each limiter keeps its own budget (memory.go), whichever requests share it
\* and whichever policies come and go.
THEOREM LedgerKept == Spec => []LimiterLedger
<1>1. IInv => LimiterLedger
  <2> SUFFICES ASSUME IInv, NEW i \in 1..Len(limiters), Paying(limiters[i]), limiters[i].used
               PROVE  LET l == limiters[i]
                          c == Config(l.policy)
                      IN  l.taken * Token(c) + l.bucket.tokens
                            <= Full(c) + c.capacity * (time - l.born)
    BY DEF LimiterLedger
  <2> DEFINE l == limiters[i]
             c == Config(l.policy)
  <2>1. l \in Limiter /\ time \in Nat /\ Sound(l, time)
    BY ElementOfSeq, FactoryBounds DEF IInv, TypeOK, LimitersAreSound
  <2>2. /\ l.policy \in Policies \cup Defaults /\ l.born \in Nat /\ l.taken \in Nat
        /\ l.bucket.tokens \in Int /\ l.bucket.lastRefill \in Int
    BY <2>1 DEF Limiter, Bucket
  <2>3. c.capacity \in Int /\ Token(c) \in Nat /\ Full(c) \in Int /\ c.capacity > 0
    BY <2>2, Sizes DEF Paying
  <2>4. /\ l.bucket.lastRefill <= time
        /\ l.taken * Token(c) + l.bucket.tokens
             <= Full(c) + c.capacity * (l.bucket.lastRefill - l.born)
    BY <2>1 DEF Sound
  <2> HIDE DEF l, c
  <2>5. l.taken * Token(c) + l.bucket.tokens <= Full(c) + c.capacity * (time - l.born)
    BY <2>1, <2>2, <2>3, <2>4, BudgetGrows
  <2> QED
    BY <2>5 DEF l, c
<1> QED
  BY <1>1, Invariance, PTL

\* A policy never gets more limiters than there are handlers, although the map
\* is read and written under separate locks (rate_limit.go), for any number of
\* requests and edits.
THEOREM LimitersAreFew == Spec => []RaceIsBounded
<1>1. IInv => RaceIsBounded
  <2> SUFFICES ASSUME IInv, NEW p \in Policies \cup {fallback}
               PROVE  Cardinality(Indices(p)) <= Cardinality(Worker)
    BY DEF RaceIsBounded
  <2>1. p \in CacheKeys
    BY KeysArePolicies DEF IInv, TypeOK
  <2>2. Cardinality(Indices(p)) + Cardinality(Creating(p)) <= Cardinality(Worker)
    BY <2>1 DEF IInv, MakersAreFew
  <2>3. /\ Cardinality(Indices(p)) \in Nat /\ Cardinality(Creating(p)) \in Nat
        /\ Cardinality(Worker) \in Nat
    BY LimiterCounts DEF IInv
  <2> QED
    BY <2>2, <2>3
<1> QED
  BY <1>1, Invariance, PTL

\* The wait is short by less than a second.
LEMMA WaitIsEnough ==
  ASSUME NEW c, c.capacity \in Nat, c.capacity > 0, Token(c) \in Nat,
         NEW b, b.tokens \in Int, ~b.nan, NEW wait \in Waits(c, b)
  PROVE  b.tokens + ((wait + 1) * TicksPerSecond) * c.capacity >= Token(c)
<1> DEFINE d == c.capacity * TicksPerSecond
           short == Token(c) - b.tokens
           q == short \div d
<1>1. d \in Nat /\ d > 0 /\ short \in Int
  BY TicksAssumption
<1>2. wait = IF q < 1 THEN 1 ELSE q
  BY DEF Waits
<1> HIDE DEF d, short
<1>3. q \in Int /\ short < d * (q + 1)
  BY <1>1
<1> HIDE DEF q
<1>4. wait \in Int /\ wait >= q
  BY <1>2, <1>3
<1>5. d * (wait + 1) = d * (q + 1) + d * (wait - q) /\ d * (wait - q) >= 0
  <2>1. wait - q \in Nat
    BY <1>3, <1>4
  <2>2. d * (wait - q) >= 0
    BY <1>1, <2>1
  <2> QED
    BY <1>1, <1>3, <1>4, <2>2
<1>6. d * (wait + 1) \in Int /\ d * (q + 1) \in Int
  BY <1>1, <1>3, <1>4
<1>7. short < d * (wait + 1)
  <2> DEFINE x == d * (wait + 1)
             y == d * (q + 1)
             z == d * (wait - q)
  <2>1. x = y + z /\ z >= 0 /\ short < y
    BY <1>3, <1>5
  <2>2. x \in Int /\ y \in Int /\ z \in Int
    BY <1>1, <1>3, <1>4
  <2> HIDE DEF x, y, z
  <2>3. short < x
    BY <1>1, <2>1, <2>2
  <2> QED
    BY <2>3 DEF x
<1>8. ((wait + 1) * TicksPerSecond) * c.capacity = d * (wait + 1)
  BY <1>4, TicksAssumption DEF d
<1> QED
  BY <1>6, <1>7, <1>8 DEF short

LEMMA RejectedFindsAToken ==
  ASSUME IInv, NEW w \in Worker, Reject(w), Paying(limiters[holds[w]])
  PROVE  LET l == limiters'[holds[w]]
             c == Config(l.policy)
             back == time + (retryAfter'[w] + 1) * TicksPerSecond
         IN  HasToken(c, Refilled(c, l.bucket, back))
<1> DEFINE i == holds[w]
           l == limiters[i]
           c == Config(l.policy)
           b == Find(w)
<1>1. pc[w] = "allow"
  BY DEF Reject
<1>2. /\ EnvironmentOK /\ LimitersOK /\ RequestsOK
      /\ i \in 1..Len(limiters) /\ l \in Limiter /\ l.policy \in Policies \cup Defaults
      /\ Sound(l, time) /\ time \in Nat /\ b = Found(l, time)
  BY <1>1, InvariantParts, Holder
<1>3. PICK wait \in Waits(c, b) : Finish(w, b, 0, wait)
  BY Zenon DEF Reject
<1>4. /\ limiters' = [limiters EXCEPT ![i] = Served(l, b, 0)]
      /\ retryAfter' = [retryAfter EXCEPT ![w] = wait]
  BY <1>3 DEF Finish
<1>5. /\ b.tokens \in Int /\ b.lastRefill = time /\ b \in Bucket
      /\ ~b.nan
  BY <1>2, FoundBucket
<1>6. /\ c.capacity \in Nat /\ c.capacity > 0 /\ c.window \in Nat /\ c.window > 0
      /\ Token(c) \in Nat /\ Full(c) \in Int /\ Token(c) <= Full(c)
  BY <1>2, Sizes DEF Paying
<1>7. wait \in Nat
  BY <1>2, <1>3, <1>5, WaitsAreNumbers
<1> DEFINE m == Served(l, b, 0)
<1>8. m.policy = l.policy /\ m.bucket = b
  <2> HIDE DEF l, b
  <2> QED
    BY <1>2, <1>5, ServedFields
<1>9. limiters'[i] = m /\ retryAfter'[w] = wait
  <2>1. i \in DOMAIN limiters
    BY <1>2, LenProperties DEF LimitersOK
  <2>2. w \in DOMAIN retryAfter
    BY <1>2 DEF RequestsOK
  <2> HIDE DEF m, l, i
  <2> QED
    BY <1>4, <2>1, <2>2, Zenon DEF m, l, i
<1>10. b.tokens + ((wait + 1) * TicksPerSecond) * c.capacity >= Token(c)
  <2> HIDE DEF c, b
  <2> QED
    BY <1>3, <1>5, <1>6, WaitIsEnough
<1> DEFINE back == time + (wait + 1) * TicksPerSecond
           r == Refilled(c, b, back)
<1>11. HasToken(c, r)
  <2> HIDE DEF c, b, back
  <2>1. back - time = (wait + 1) * TicksPerSecond
    BY <1>2, <1>7, TicksAssumption DEF back
  <2>2. /\ r.tokens = AtMost(Full(c), b.tokens + ((wait + 1) * TicksPerSecond) * c.capacity)
        /\ r.nan = (b.nan \/ c.window = 0)
    BY <1>5, <2>1 DEF Refilled
  <2> DEFINE gain == ((wait + 1) * TicksPerSecond) * c.capacity
  <2>3. gain \in Int
    BY <1>6, <1>7, TicksAssumption
  <2>4. r.tokens >= Token(c)
    <3>1. r.tokens = AtMost(Full(c), b.tokens + gain) /\ b.tokens + gain >= Token(c)
      BY <1>10, <2>2
    <3> HIDE DEF gain, r
    <3> QED
      BY <1>5, <1>6, <2>3, <3>1 DEF AtMost
  <2>5. c.window # 0
    BY <1>6
  <2> HIDE DEF r
  <2>6. ~r.nan
    BY <1>5, <2>2, <2>5, Zenon
  <2> QED
    BY <2>4, <2>6 DEF HasToken
<1> HIDE DEF m
<1> QED
  BY <1>8, <1>9, <1>11

\* A rejected client that waits Retry-After and a second more finds a token in
\* the limiter that rejected it (memory.go truncates the seconds).
THEOREM TokenWithinASecond == Spec => RetryWithinASecond
<1> DEFINE A == \A w \in Worker :
                  (Reject(w) /\ Paying(limiters[holds[w]])) =>
                    LET l == limiters'[holds[w]]
                        c == Config(l.policy)
                        back == time + (retryAfter'[w] + 1) * TicksPerSecond
                    IN  HasToken(c, Refilled(c, l.bucket, back))
<1>1. IInv /\ [Next]_vars => [A]_vars
  BY RejectedFindsAToken, Zenon
<1> QED
  BY <1>1, Invariance, PTL DEF Spec, RetryWithinASecond

==============================================================================
