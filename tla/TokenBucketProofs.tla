-------------------------- MODULE TokenBucketProofs --------------------------
(***************************************************************************)
(* What the shared token bucket guarantees for any number of instances and *)
(* handlers, any configuration, any delay below the window:                *)
(*   - TypeCorrect, LedgerKept, ExpiryGivesNothing and RetryAfterIsExact,  *)
(*     from the inductive invariant IInv;                                  *)
(*   - with one clock and no delay, the bucket implements IdealBucket and  *)
(*     keeps its budget.                                                   *)
(***************************************************************************)
EXTENDS TokenBucket, TLAPS

\* Products of two unknowns grow with either: the solver needs to be told.
LEMMA ProductGrows ==
  ASSUME NEW c \in Nat, NEW a \in Int, NEW b \in Int, a <= b
  PROVE  c * a <= c * b
OBVIOUS

\* The sizes are numbers as soon as the limiter has a capacity, and two
\* windows refill the bucket twice.
LEMMA Sizes ==
  ASSUME lim \in Limiters, lim.capacity > 0
  PROVE  /\ lim.capacity \in Nat \ {0}
         /\ lim.window \in Int
         /\ Token \in Nat \ {0}
         /\ Full \in Nat
         /\ Token <= Full
         /\ lim.capacity * Token = Full
         /\ Ttl \in Int
         /\ lim.window > 0 => Ttl = 2 * Token /\ MaxLag + MaxSkew <= Token
<1>1. lim.capacity \in Nat \ {0} /\ lim.window \in Int
  BY LimitersAssumption
<1>2. Token \in Nat \ {0}
  BY <1>1, TicksAssumption DEF Token, RefillWindow
<1>3. Full \in Nat /\ lim.capacity * Token = Full
  BY <1>1, <1>2 DEF Full
<1>4. Token <= Full
  <2>1. Token * 1 <= Token * lim.capacity
    BY <1>1, <1>2, ProductGrows
  <2> QED
    BY <1>1, <1>2, <2>1 DEF Full
<1>5. Ttl \in Int
  BY <1>1, TicksAssumption DEF Ttl
<1>6. lim.window > 0 => Ttl = 2 * Token /\ MaxLag + MaxSkew <= Token
  BY <1>1, TicksAssumption, LagBelowWindow DEF Ttl, Token, RefillWindow
<1> QED
  BY <1>1, <1>2, <1>3, <1>4, <1>5, <1>6

\* What the script finds at a reading is a level of the bucket.
LEMMA RefilledInRange ==
  ASSUME TypeOK, lim.capacity > 0, NEW n \in Int
  PROVE  Refilled(n) \in 0..Full
<1> USE Sizes DEF TypeOK, CallTypeOK
<1>1. lim.capacity \in Nat /\ Full \in Nat
  OBVIOUS
<1>2. Elapsed(n) \in Nat
  BY DEF Elapsed, Positive
<1>3. Elapsed(n) * lim.capacity \in Nat
  BY <1>1, <1>2
<1> QED
  BY <1>1, <1>3 DEF Refilled, AtMost

\* A key that has expired had been idle for a window, less the skew of the
\* clock that wrote it.
LEMMA ExpiredLongAgo ==
  ASSUME TypeOK, KeyLives, lim.window > 0, bucket.expires # Absent, ~Present
  PROVE  time - bucket.last_refill >= Token + MaxLag
<1> USE Sizes, DelayAssumption DEF TypeOK, CallTypeOK, KeyLives, Absent
<1>1. time > bucket.expires
  BY DEF Present
<1>2. bucket.last_refill <= bucket.expires - 2 * Token + MaxSkew
  OBVIOUS
<1> QED
  BY <1>1, <1>2

\* The heart of Ledger: whatever the script finds at the reading n of a call
\* in flight is paid for by the time up to n and by the moves back, this one
\* included.
LEMMA RefillIsPaid ==
  ASSUME IInv, lim.window > 0, NEW w \in Worker, Calling(w)
  PROVE  taken * Token + Refilled(now[w])
           <= Full + lim.capacity * (now[w] + (regress + MovedBack(now[w])))
<1> DEFINE n == now[w]
           c == lim.capacity
<1>1. /\ TypeOK /\ KeyLives /\ NothingBeforeTheFirstWrite
      /\ taken * Token + bucket.tokens <= Full + c * (bucket.last_refill + regress)
      /\ c > 0 /\ time - (n - skew[w]) <= MaxLag
  BY DEF IInv, Ledger, ReadingsAreRecent, ReadingIsRecent
<1>2. /\ n \in Nat /\ regress \in Nat /\ taken \in Nat /\ time \in Nat
      /\ bucket.tokens \in Nat /\ bucket.last_refill \in Nat /\ skew[w] \in 0..MaxSkew
      /\ lim \in Limiters
  BY <1>1 DEF TypeOK, CallTypeOK
<1>3. c \in Nat /\ Token \in Nat /\ Full \in Nat /\ c * Token = Full
  BY <1>1, <1>2, Sizes
<1>4. taken * Token \in Nat
  BY <1>2, <1>3
<1>5. CASE Present
  <2>1. Elapsed(n) \in Nat /\ Elapsed(n) * c \in Nat
    BY <1>2, <1>3 DEF Elapsed, Positive
  <2>2. Refilled(n) <= bucket.tokens + Elapsed(n) * c /\ Refilled(n) \in Int
    BY <1>2, <1>3, <1>5, <2>1 DEF Refilled, AtMost
  <2>3. n + (regress + MovedBack(n)) = (bucket.last_refill + regress) + Elapsed(n)
    BY <1>2, <1>5 DEF Elapsed, MovedBack, Positive
  <2>4. c * ((bucket.last_refill + regress) + Elapsed(n))
          = c * (bucket.last_refill + regress) + Elapsed(n) * c
    BY <1>2, <1>3, <2>1
  <2>5. c * (bucket.last_refill + regress) \in Int
    BY <1>2, <1>3
  <2> HIDE DEF n, c
  <2>6. taken * Token + Refilled(n) <= Full + c * (n + (regress + MovedBack(n)))
    BY <1>1, <1>2, <1>3, <1>4, <2>1, <2>2, <2>3, <2>4, <2>5
  <2> QED
    BY <2>6 DEF n, c
<1>6. CASE ~Present /\ bucket.expires = Absent
  <2>1. taken = 0 /\ Refilled(n) = Full /\ MovedBack(n) = 0
    BY <1>1, <1>6 DEF NothingBeforeTheFirstWrite, Refilled, MovedBack
  <2>2. c * (n + (regress + 0)) \in Nat
    BY <1>2, <1>3
  <2> QED
    BY <1>3, <2>1, <2>2
<1>7. CASE ~Present /\ bucket.expires # Absent
  <2>1. Refilled(n) = Full /\ MovedBack(n) = 0
    BY <1>7 DEF Refilled, MovedBack
  <2>2. time - bucket.last_refill >= Token + MaxLag
    BY <1>1, <1>7, ExpiredLongAgo
  <2>3. bucket.last_refill + regress + Token <= n + (regress + 0)
    BY <1>1, <1>2, <1>3, <2>2, DelayAssumption
  <2>4. c * (bucket.last_refill + regress + Token) <= c * (n + (regress + 0))
    BY <1>2, <1>3, <2>3, ProductGrows
  <2>5. c * (bucket.last_refill + regress + Token) = c * (bucket.last_refill + regress) + Full
    BY <1>2, <1>3
  <2>6. c * (bucket.last_refill + regress) \in Int /\ c * (n + (regress + 0)) \in Int
    BY <1>2, <1>3
  <2> HIDE DEF n, c
  <2>7. taken * Token + Full <= Full + c * (n + (regress + 0))
    BY <1>1, <1>2, <1>3, <1>4, <2>4, <2>5, <2>6
  <2> QED
    BY <2>1, <2>7 DEF n, c
<1> QED
  BY <1>5, <1>6, <1>7

-----------------------------------------------------------------------------
(* The invariant is inductive *)

\* The sizes depend on nothing but the configuration, which no step changes.
LEMMA SizesUnchanged ==
  ASSUME UNCHANGED lim
  PROVE  Token' = Token /\ Full' = Full /\ Ttl' = Ttl
BY DEF Token, Full, Ttl, RefillWindow

\* What one execution of the script, rejected or not, answered or not, leaves
\* behind.
StoreOK ==
  /\ bucket \in [tokens : Nat, last_refill : Nat, expires : Nat \cup {Absent}]
  /\ taken \in Nat /\ refused \in Nat /\ regress \in Nat
  /\ KeyLives /\ NothingBeforeTheFirstWrite /\ Ledger

\* One execution of the script keeps the store's part of the invariant,
\* whether its reply arrives or not.
LEMMA ExecutionKeepsTheStore ==
  ASSUME IInv, NEW w \in Worker, Calling(w), UNCHANGED <<config, time>>,
         Give(now[w]) \/ Withhold(now[w])
  PROVE  StoreOK'
<1> DEFINE n == now[w]
           c == lim.capacity
<1>1. /\ TypeOK /\ Ledger
      /\ c > 0 /\ n - skew[w] <= time
  BY DEF IInv, ReadingsAreRecent, ReadingIsRecent
<1>2. /\ n \in Nat /\ regress \in Nat /\ taken \in Nat /\ refused \in Nat /\ time \in Nat
      /\ bucket.tokens \in Nat /\ bucket.last_refill \in Nat /\ skew[w] \in 0..MaxSkew
      /\ lim \in Limiters /\ MaxSkew \in Nat
  BY <1>1, DelayAssumption DEF TypeOK, CallTypeOK
<1>3. /\ c \in Nat /\ lim.window \in Int /\ Token \in Nat \ {0} /\ Full \in Nat
      /\ Ttl \in Int /\ (lim.window > 0 => Ttl = 2 * Token)
  BY <1>1, <1>2, Sizes
<1>4. Refilled(n) \in 0..Full
  BY <1>1, <1>2, RefilledInRange
<1>5. PICK left \in 0..Full :
        /\ bucket' = Written(left, n)
        /\ taken' \in {taken, taken + 1}
        /\ refused' \in Nat
        /\ left = Refilled(n) - (taken' - taken) * Token
  BY <1>2, <1>3, <1>4 DEF Give, Withhold
<1>6. regress' = regress + MovedBack(n) /\ MovedBack(n) \in Nat
  BY <1>2 DEF Give, Withhold, MovedBack, Positive
<1>7. UNCHANGED <<lim, time>> /\ Token' = Token /\ Full' = Full /\ Ttl' = Ttl
  BY SizesUnchanged DEF config
<1>8. /\ bucket'.tokens = left /\ bucket'.last_refill = n
      /\ bucket'.expires = (IF Ttl > 0 THEN time + Ttl ELSE Absent)
      /\ bucket' \in [tokens : Nat, last_refill : Nat, expires : Nat \cup {Absent}]
  BY <1>2, <1>3, <1>5 DEF Written, ExpiryAt
<1>9. KeyLives'
  <2> SUFFICES ASSUME Ttl > 0
               PROVE  KeyLives'
    BY <1>3, <1>7, <1>8 DEF KeyLives, Absent
  <2>1. lim.window > 0
    BY <1>3, TicksAssumption DEF Ttl
  <2> QED
    BY <1>1, <1>2, <1>3, <1>5, <1>7, <1>8, <2>1 DEF KeyLives
<1>10. NothingBeforeTheFirstWrite'
  BY <1>2, <1>3, <1>7, <1>8 DEF NothingBeforeTheFirstWrite, Absent
<1>11. Ledger'
  <2> SUFFICES ASSUME lim.window > 0
               PROVE  taken' * Token + left <= Full + c * (n + regress')
    BY <1>7, <1>8 DEF Ledger
  <2>1. taken * Token + Refilled(n) <= Full + c * (n + regress')
    BY <1>6, RefillIsPaid
  <2>2. taken' * Token + left = taken * Token + Refilled(n)
    <3>1. CASE taken' = taken
      BY <1>2, <1>3, <1>4, <1>5, <3>1
    <3>2. CASE taken' = taken + 1
      BY <1>2, <1>3, <1>4, <1>5, <3>2
    <3> QED
      BY <1>5, <3>1, <3>2
  <2> QED
    BY <2>1, <2>2
<1> QED
  BY <1>2, <1>5, <1>6, <1>8, <1>9, <1>10, <1>11 DEF StoreOK

\* What the calls keep of their own variables: their values, and readings
\* that stay recent.
CallsOK ==
  /\ lim \in Limiters
  /\ skew \in [Worker -> 0..MaxSkew]
  /\ time \in Nat
  /\ verdict \in [Worker -> Verdicts]
  /\ now \in [Worker -> Nat]
  /\ tries \in [Worker -> 0..MaxRetries]
  /\ retryAfter \in [Worker -> Nat]
  /\ ReadingsAreRecent

\* The invariant is what the calls keep and what the store keeps.
LEMMA InvariantParts == IInv <=> CallsOK /\ StoreOK
BY DEF IInv, CallsOK, StoreOK, TypeOK, CallTypeOK

\* Ending a call keeps the calls' part of the invariant.
LEMMA EndKeepsCalls ==
  ASSUME CallsOK, NEW w \in Worker, UNCHANGED <<config, time>>,
         NEW outcome \in Verdicts \ {"calling"}, NEW wait \in Nat, End(w, outcome, wait)
  PROVE  CallsOK'
<1> USE DelayAssumption DEF CallsOK, config, End
<1>1. ReadingsAreRecent'
  BY DEF ReadingsAreRecent, ReadingIsRecent, Calling
<1> QED
  BY <1>1

\* So does a failed attempt, be it the last or not.
LEMMA FailAttemptKeepsCalls ==
  ASSUME CallsOK, NEW w \in Worker, UNCHANGED <<config, time>>, FailAttempt(w)
  PROVE  CallsOK'
<1>1. CASE tries[w] < MaxRetries
  <2> USE <1>1, DelayAssumption DEF CallsOK, config, FailAttempt
  <2>1. ReadingsAreRecent'
    BY DEF ReadingsAreRecent, ReadingIsRecent, Calling
  <2> QED
    BY <2>1
<1>2. CASE ~(tries[w] < MaxRetries)
  BY <1>2, EndKeepsCalls DEF FailAttempt, Verdicts
<1> QED
  BY <1>1, <1>2

\* A call that leaves the store alone.
LEMMA StoreUnchanged ==
  ASSUME StoreOK, UNCHANGED <<config, time, bucket, history>>
  PROVE  StoreOK'
<1>1. UNCHANGED <<lim, time, bucket, taken, refused, regress>> /\ Token' = Token /\ Full' = Full /\ Ttl' = Ttl
  BY SizesUnchanged DEF config, history
<1> QED
  BY <1>1 DEF StoreOK, KeyLives, NothingBeforeTheFirstWrite, Ledger

\* The invariant holds before the first call.
LEMMA InvariantInitially == Init => IInv
<1> SUFFICES ASSUME Init PROVE IInv
  OBVIOUS
<1>1. CallsOK
  BY DelayAssumption DEF Init, CallInit, CallsOK, ReadingsAreRecent, ReadingIsRecent, Calling, Verdicts
<1>2. Ledger
  <2> SUFFICES ASSUME lim.capacity > 0
               PROVE  0 * Token + 0 <= Full + lim.capacity * (0 + 0)
    BY DEF Init, Ledger
  <2>1. lim.capacity \in Nat /\ Token \in Nat /\ Full \in Nat
    BY Sizes DEF Init
  <2> QED
    BY <2>1
<1>3. StoreOK
  BY <1>2 DEF Init, StoreOK, KeyLives, NothingBeforeTheFirstWrite
<1> QED
  BY <1>1, <1>3, InvariantParts

\* Every step keeps the invariant: one step of the proof for each action.
LEMMA InvariantKept == IInv /\ [Next]_vars => IInv'
<1> SUFFICES ASSUME IInv, [Next]_vars
             PROVE  CallsOK' /\ StoreOK'
  BY DEF IInv, CallsOK, StoreOK, TypeOK, CallTypeOK
<1>1. CallsOK /\ StoreOK
  BY InvariantParts
<1>2. CASE Tick
  <2>1. UNCHANGED <<lim, skew, bucket, verdict, now, tries, retryAfter, taken, refused, regress>>
        /\ time' = time + 1 /\ Token' = Token /\ Full' = Full /\ Ttl' = Ttl
    BY <1>2, SizesUnchanged DEF Tick, TimePasses, config, call, history
  <2>2. CallsOK'
    BY <1>1, <1>2, <2>1, DelayAssumption DEF Tick, TimePasses, CallsOK, ReadingsAreRecent, ReadingIsRecent, Calling
  <2>3. KeyLives'
    <3> SUFFICES ASSUME bucket.expires # Absent
                 PROVE  bucket.expires <= time + 1 + Ttl
      BY <1>1, <2>1 DEF StoreOK, KeyLives
    <3>1. bucket.expires <= time + Ttl /\ bucket.expires \in Nat /\ time \in Nat /\ lim \in Limiters
          /\ lim.capacity > 0
      BY <1>1 DEF StoreOK, KeyLives, CallsOK, Absent
    <3> QED
      BY <3>1, Sizes
  <2> QED
    BY <1>1, <2>1, <2>2, <2>3 DEF StoreOK, NothingBeforeTheFirstWrite, Ledger
<1>3. ASSUME NEW w \in Worker, Arrive(w)
      PROVE  CallsOK' /\ StoreOK'
  <2>1. StoreOK'
    BY <1>1, <1>3, StoreUnchanged DEF Arrive, Send
  <2>2. CallsOK'
    BY <1>1, <1>3, DelayAssumption
    DEF Arrive, Send, CallsOK, ReadingsAreRecent, ReadingIsRecent, Calling, Verdicts, config
  <2> QED
    BY <2>1, <2>2
<1>4. ASSUME NEW w \in Worker, RefuseNoCapacity(w)
      PROVE  CallsOK' /\ StoreOK'
  <2>1. StoreOK'
    BY <1>1, <1>4, StoreUnchanged DEF RefuseNoCapacity
  <2>2. CallsOK'
    BY <1>1, <1>4 DEF RefuseNoCapacity, CallsOK, ReadingsAreRecent, ReadingIsRecent, Calling, Verdicts, config
  <2> QED
    BY <2>1, <2>2
<1>5. ASSUME NEW w \in Worker, Admit(w)
      PROVE  CallsOK' /\ StoreOK'
  BY <1>1, <1>5, ExecutionKeepsTheStore, EndKeepsCalls DEF Admit, Verdicts
<1>6. ASSUME NEW w \in Worker, Reject(w)
      PROVE  CallsOK' /\ StoreOK'
  <2>1. StoreOK'
    BY <1>6, ExecutionKeepsTheStore DEF Reject
  <2>2. Wait(Refilled(now[w])) \in Nat
    <3>1. TypeOK /\ lim \in Limiters /\ lim.capacity > 0 /\ now[w] \in Nat
      BY <1>1, <1>6 DEF IInv, TypeOK, CallTypeOK, ReadingsAreRecent, ReadingIsRecent, Reject
    <3>2. Refilled(now[w]) \in Nat /\ Refilled(now[w]) < Token /\ Token \in Nat
      BY <1>6, <3>1, RefilledInRange, Sizes DEF Reject, Withhold
    <3>3. lim.capacity * TicksPerSecond \in Nat \ {0}
      BY <3>1, Sizes, TicksAssumption
    <3> QED
      BY <3>2, <3>3 DEF Wait
  <2> QED
    BY <1>1, <1>6, <2>1, <2>2, EndKeepsCalls DEF Reject, Verdicts
<1>7. ASSUME NEW w \in Worker, LoseReply(w)
      PROVE  CallsOK' /\ StoreOK'
  BY <1>1, <1>7, ExecutionKeepsTheStore, FailAttemptKeepsCalls DEF LoseReply
<1>8. ASSUME NEW w \in Worker, Unreachable(w)
      PROVE  CallsOK' /\ StoreOK'
  BY <1>1, <1>8, StoreUnchanged, FailAttemptKeepsCalls DEF Unreachable
<1>9. ASSUME NEW w \in Worker, Cancel(w)
      PROVE  CallsOK' /\ StoreOK'
  BY <1>1, <1>9, StoreUnchanged, EndKeepsCalls DEF Cancel, Abandon, Verdicts
<1>10. CASE UNCHANGED vars
  <2>1. StoreOK'
    BY <1>1, <1>10, StoreUnchanged DEF vars
  <2>2. CallsOK'
    BY <1>1, <1>10 DEF vars, config, call, CallsOK, ReadingsAreRecent, ReadingIsRecent, Calling
  <2> QED
    BY <2>1, <2>2
<1> QED
  BY <1>2, <1>3, <1>4, <1>5, <1>6, <1>7, <1>8, <1>9, <1>10 DEF Next, Attempt

\* The inductive invariant holds of every behaviour.
THEOREM Invariance == Spec => []IInv
BY InvariantInitially, InvariantKept, PTL DEF Spec

\* The variables keep their types under every interleaving, delay and retry.
THEOREM TypeCorrect == Spec => []TypeOK
BY Invariance, PTL DEF IInv

\* Every token given out is paid for by burst, time or a backward move of
\* last_refill, whatever the number of instances, delays and retries.
THEOREM LedgerKept == Spec => []Ledger
BY Invariance, PTL DEF IInv

\* Letting Redis forget an idle bucket gives no tokens away.
THEOREM ExpiryGivesNothing == Spec => []ExpiryIsFree
<1>1. IInv => ExpiryIsFree
  <2> SUFFICES ASSUME IInv, lim.window > 0, bucket.expires # Absent, ~Present
               PROVE  bucket.tokens + (time - bucket.last_refill) * lim.capacity >= Full
    BY DEF ExpiryIsFree
  <2>1. TypeOK /\ KeyLives /\ lim.capacity > 0 /\ lim \in Limiters
    BY DEF IInv, KeyLives, TypeOK, CallTypeOK
  <2>2. time - bucket.last_refill >= Token
    BY <2>1, ExpiredLongAgo, Sizes, DelayAssumption DEF TypeOK, CallTypeOK
  <2>3. lim.capacity * Token <= lim.capacity * (time - bucket.last_refill)
    BY <2>1, <2>2, ProductGrows, Sizes DEF TypeOK, CallTypeOK
  <2> QED
    BY <2>1, <2>3, Sizes DEF TypeOK, CallTypeOK
<1> QED
  BY <1>1, Invariance, PTL

-----------------------------------------------------------------------------
(* Retry-After *)

\* Division rounded up: the least multiple that reaches a.
LEMMA RoundedUp ==
  ASSUME NEW a \in Nat, NEW b \in Nat \ {0}
  PROVE  LET q == (a + b - 1) \div b
         IN  q \in Nat /\ b * q >= a /\ b * (q - 1) < a
<1> DEFINE q == (a + b - 1) \div b
<1>1. q \in Int /\ b * q <= a + b - 1 /\ a + b - 1 < b * q + b
  OBVIOUS
<1> QED
  BY <1>1

\* The seconds a rejected client is told to wait are enough for a token, and
\* one second less is not, whatever the rate.
THEOREM RetryAfterIsExact == Spec => RetryIsExact
<1>1. IInv /\ [Next]_vars => [\A w \in Worker :
          (Calling(w) /\ verdict'[w] = "rejected") =>
            /\ bucket'.tokens + retryAfter'[w] * TicksPerSecond * lim.capacity >= Token
            /\ bucket'.tokens + (retryAfter'[w] - 1) * TicksPerSecond * lim.capacity < Token]_vars
  <2> SUFFICES ASSUME IInv, Next, NEW w \in Worker, Calling(w), verdict'[w] = "rejected"
               PROVE  /\ bucket'.tokens + retryAfter'[w] * TicksPerSecond * lim.capacity >= Token
                      /\ bucket'.tokens + (retryAfter'[w] - 1) * TicksPerSecond * lim.capacity < Token
    OBVIOUS
  <2>1. /\ TypeOK /\ lim \in Limiters /\ lim.capacity > 0 /\ now[w] \in Nat
        /\ verdict \in [Worker -> Verdicts] /\ retryAfter \in [Worker -> Nat]
    BY DEF IInv, TypeOK, CallTypeOK, ReadingsAreRecent
  <2>2. Reject(w)
    <3>1. ~Tick
      BY DEF Tick, call, Calling
    <3>2. \A x \in Worker : ~(Arrive(x) \/ RefuseNoCapacity(x))
      BY <2>1 DEF Arrive, Send, RefuseNoCapacity, Calling
    <3>3. \A x \in Worker : ~(Admit(x) \/ LoseReply(x) \/ Unreachable(x) \/ Cancel(x))
      BY <2>1 DEF Admit, LoseReply, Unreachable, Cancel, Abandon, FailAttempt, End, Calling
    <3>4. \A x \in Worker : Reject(x) => x = w
      BY <2>1 DEF Reject, End, Calling
    <3> QED
      BY <3>1, <3>2, <3>3, <3>4 DEF Next, Attempt
  <2> DEFINE rate == lim.capacity * TicksPerSecond
             missing == Token - Refilled(now[w])
  <2>3. rate \in Nat \ {0} /\ lim.capacity \in Nat /\ TicksPerSecond \in Nat
    BY <2>1, Sizes, TicksAssumption
  <2>4. /\ Refilled(now[w]) \in Nat /\ missing \in Nat
        /\ bucket'.tokens = Refilled(now[w])
        /\ retryAfter'[w] = (missing + rate - 1) \div rate
    BY <2>1, <2>2, RefilledInRange, Sizes DEF Reject, Withhold, Written, End, Wait
  <2>5. /\ retryAfter'[w] \in Nat
        /\ rate * retryAfter'[w] >= missing
        /\ rate * (retryAfter'[w] - 1) < missing
    BY <2>3, <2>4, RoundedUp
  <2>6. /\ retryAfter'[w] * TicksPerSecond * lim.capacity = rate * retryAfter'[w]
        /\ (retryAfter'[w] - 1) * TicksPerSecond * lim.capacity = rate * (retryAfter'[w] - 1)
    BY <2>3, <2>5
  <2>7. Token \in Nat
    BY <2>1, Sizes
  <2> QED
    BY <2>3, <2>4, <2>5, <2>6, <2>7
<1> QED
  BY <1>1, Invariance, PTL DEF Spec, RetryIsExact

-----------------------------------------------------------------------------
(* Refinement: with one clock and no delay, the shared bucket is ideal *)

\* The reading of every call in flight is the present, and the key's expiry
\* tells when it was last written.
LEMMA ReadingsArePresent ==
  ASSUME IInv, Synchronous
  PROVE  /\ \A w \in Worker : Calling(w) => now[w] = time
         /\ bucket.expires # Absent =>
              bucket.last_refill <= bucket.expires - Ttl /\ bucket.last_refill <= time
<1>1. \A w \in Worker : skew[w] = 0
  BY DEF IInv, TypeOK, CallTypeOK, Synchronous
<1>2. ASSUME NEW w \in Worker, Calling(w)
      PROVE  now[w] = time
  BY <1>1, <1>2 DEF IInv, TypeOK, CallTypeOK, ReadingsAreRecent, ReadingIsRecent, Synchronous
<1>3. ASSUME bucket.expires # Absent
      PROVE  bucket.last_refill <= bucket.expires - Ttl /\ bucket.last_refill <= time
  <2>1. lim \in Limiters /\ lim.capacity > 0 /\ bucket.last_refill \in Nat
        /\ bucket.expires \in Nat /\ time \in Nat
    BY <1>3 DEF IInv, TypeOK, CallTypeOK, KeyLives
  <2> QED
    BY <1>3, <2>1, Sizes DEF IInv, KeyLives, Synchronous
<1> QED
  BY <1>2, <1>3

\* One execution of the script is a Pass or a Refuse of the ideal bucket.
LEMMA ExecutionIsIdeal ==
  ASSUME IInv, Synchronous, NEW w \in Worker, Calling(w), UNCHANGED <<config, time>>,
         Give(now[w]) \/ Withhold(now[w])
  PROVE  Ideal!Pass \/ Ideal!Refuse
<1>1. now[w] = time /\ TypeOK /\ lim \in Limiters /\ lim.capacity > 0 /\ lim.window > 0
      /\ time \in Nat
  BY ReadingsArePresent DEF IInv, TypeOK, CallTypeOK, ReadingsAreRecent, ReadingIsRecent, Synchronous
<1>2. /\ lim.capacity \in Nat /\ Token \in Nat \ {0} /\ Full \in Nat
      /\ Ttl \in Nat \ {0} /\ Level \in 0..Full
  BY <1>1, Sizes, RefilledInRange DEF Level
<1>3. UNCHANGED <<lim, time>> /\ Token' = Token /\ Full' = Full /\ Ttl' = Ttl
  BY SizesUnchanged DEF config
<1>4. ASSUME NEW left \in 0..Full, bucket' = Written(left, time)
      PROVE  Level' = left
  <2>1. bucket'.tokens = left /\ bucket'.last_refill = time /\ bucket'.expires = time + Ttl
    BY <1>2, <1>4 DEF Written, ExpiryAt
  <2>2. Present'
    BY <1>1, <1>2, <1>3, <2>1 DEF Present, Absent
  <2>3. Elapsed(time)' = 0
    BY <1>1, <1>3, <2>1 DEF Elapsed, Positive
  <2>4. Level' = AtMost(Full, left + 0 * lim.capacity)
    BY <1>3, <2>1, <2>2, <2>3 DEF Level, Refilled
  <2> QED
    BY <1>2, <2>4 DEF AtMost
<1>5. CASE Give(now[w])
  <2>1. Level >= Token /\ bucket' = Written(Level - Token, time) /\ taken' = taken + 1
        /\ UNCHANGED refused
    BY <1>1, <1>5 DEF Give, Level
  <2>2. Level' = Level - Token
    BY <1>2, <1>4, <2>1
  <2> QED
    BY <1>3, <2>1, <2>2 DEF Ideal!Pass, Ideal!size
<1>6. CASE Withhold(now[w])
  <2>1. Level < Token /\ bucket' = Written(Level, time) /\ refused' = refused + 1
        /\ UNCHANGED taken
    BY <1>1, <1>6 DEF Withhold, Level
  <2>2. Level' = Level
    BY <1>2, <1>4, <2>1
  <2> QED
    BY <1>3, <2>1, <2>2 DEF Ideal!Refuse, Ideal!size
<1> QED
  BY <1>5, <1>6

\* A tick refills the bucket by one tick's worth, also when the key expires.
LEMMA TickIsIdeal ==
  ASSUME IInv, Synchronous, Tick
  PROVE  Ideal!Drip
<1>1. TypeOK /\ KeyLives /\ lim \in Limiters /\ lim.capacity > 0 /\ lim.window > 0
      /\ time \in Nat /\ bucket.tokens \in Nat /\ bucket.last_refill \in Nat
      /\ (bucket.expires = Absent \/ bucket.expires \in Nat)
  BY DEF IInv, TypeOK, CallTypeOK, Synchronous
<1>2. /\ lim.capacity \in Nat \ {0} /\ Token \in Nat \ {0} /\ Full \in Nat
      /\ Ttl = 2 * Token /\ lim.capacity * Token = Full
  BY <1>1, Sizes
<1>3. UNCHANGED <<lim, bucket, taken, refused>> /\ time' = time + 1
      /\ Token' = Token /\ Full' = Full
  BY SizesUnchanged DEF Tick, TimePasses, config, history
<1>4. bucket.expires # Absent =>
        bucket.last_refill <= bucket.expires - Ttl /\ bucket.last_refill <= time
  BY ReadingsArePresent
<1>5. Level' = AtMost(Full, Level + lim.capacity)
  <2>1. CASE ~Present
    <3>1. ~Present'
      BY <1>1, <1>3, <2>1 DEF Present, Absent
    <3>2. Level = Full /\ Level' = Full
      BY <1>3, <2>1, <3>1 DEF Level, Refilled
    <3> QED
      BY <1>2, <3>2 DEF AtMost
  <2>2. CASE Present
    <3> DEFINE past == time - bucket.last_refill
    <3>1. past \in Nat /\ Elapsed(time) = past
      BY <1>1, <1>4, <2>2 DEF Present, Elapsed, Positive
    <3>2. Level = AtMost(Full, bucket.tokens + past * lim.capacity)
      BY <2>2, <3>1 DEF Level, Refilled
    <3>3. past * lim.capacity \in Nat
      BY <1>2, <3>1
    <3>4. CASE Present'
      <4>1. Elapsed(time)' = past + 1
        BY <1>1, <1>3, <1>4, <2>2 DEF Present, Elapsed, Positive
      <4>2. Level' = AtMost(Full, bucket.tokens + (past + 1) * lim.capacity)
        BY <1>3, <3>4, <4>1 DEF Level, Refilled
      <4>3. (past + 1) * lim.capacity = past * lim.capacity + lim.capacity
        BY <1>2, <3>1
      <4> QED
        BY <1>1, <1>2, <3>2, <3>3, <4>2, <4>3 DEF AtMost
    <3>5. CASE ~Present'
      <4>1. Level' = Full
        BY <1>3, <3>5 DEF Level, Refilled
      <4>2. past >= Token
        BY <1>1, <1>2, <1>3, <1>4, <2>2, <3>5 DEF Present, Absent
      <4>3. lim.capacity * Token <= lim.capacity * past
        BY <1>2, <3>1, <4>2, ProductGrows
      <4>4. past * lim.capacity >= Full
        BY <1>2, <3>1, <4>3
      <4> QED
        BY <1>1, <1>2, <3>2, <3>3, <4>1, <4>4 DEF AtMost
    <3> QED
      BY <3>4, <3>5
  <2> QED
    BY <2>1, <2>2
<1> QED
  BY <1>3, <1>5 DEF Ideal!Drip, Ideal!Full, Ideal!AtMost, Ideal!size, AtMost, Full

\* When all instances share one clock and no command is delayed, however they
\* interleave and retry, the script over the lazily refilled, expiring Redis
\* hash is step by step the ideal bucket.
THEOREM SynchronousIsIdeal ==
  ASSUME Synchronous
  PROVE  Spec => ImplementsIdeal
<1>1. Init => Ideal!Init
  <2> SUFFICES ASSUME Init PROVE Ideal!Init
    OBVIOUS
  <2>1. lim.capacity > 0 /\ lim \in Limiters
    BY DEF Init, Synchronous
  <2>2. Level = Full
    BY DEF Init, Level, Refilled, Present
  <2> QED
    BY <2>1, <2>2, Sizes DEF Init, CallInit, Ideal!Init, Ideal!Full, Full
<1>2. IInv /\ [Next]_vars => [Ideal!Next]_Ideal!vars
  <2> SUFFICES ASSUME IInv, [Next]_vars
               PROVE  [Ideal!Next]_Ideal!vars
    OBVIOUS
  <2> USE Synchronous
  <2>1. ASSUME UNCHANGED <<config, time, bucket, history>>
        PROVE  UNCHANGED Ideal!vars
    <3>1. UNCHANGED <<lim, time, bucket, taken, refused>> /\ Token' = Token /\ Full' = Full
      BY <2>1, SizesUnchanged DEF config, history
    <3>2. Level' = Level
      BY <3>1 DEF Level, Refilled, Present, Elapsed
    <3> QED
      BY <3>1, <3>2 DEF Ideal!vars, Ideal!size
  <2>2. CASE Tick
    BY <2>2, TickIsIdeal DEF Ideal!Next
  <2>3. ASSUME NEW w \in Worker, Arrive(w) \/ RefuseNoCapacity(w) \/ Unreachable(w) \/ Cancel(w)
        PROVE  UNCHANGED Ideal!vars
    BY <2>1, <2>3 DEF Arrive, Send, RefuseNoCapacity, Unreachable, Cancel, Abandon
  <2>4. ASSUME NEW w \in Worker, Admit(w) \/ Reject(w) \/ LoseReply(w)
        PROVE  Ideal!Next
    BY <2>4, ExecutionIsIdeal DEF Admit, Reject, LoseReply, Ideal!Next
  <2>5. CASE UNCHANGED vars
    BY <2>1, <2>5 DEF vars
  <2> QED
    BY <2>2, <2>3, <2>4, <2>5 DEF Next, Attempt
<1> QED
  BY <1>1, <1>2, Invariance, PTL DEF Spec, ImplementsIdeal, Ideal!Spec

IdealProofs == INSTANCE IdealBucketProofs WITH
  capacity <- lim.capacity, grain <- Token,
  level <- Level, passed <- taken, refused <- refused, clock <- time

\* So the limit a reader of the README expects holds then: all instances
\* together admit no more than the burst and the refill of the elapsed time.
\* (Without Synchronous it fails: the run token_regress.)
THEOREM SynchronousBudget ==
  ASSUME Synchronous
  PROVE  Spec => []Budget
<1>1. Ideal!Init => IdealProofs!Init
  BY DEF Ideal!Init, IdealProofs!Init, Ideal!Full, IdealProofs!Full
<1>2. [Ideal!Next]_Ideal!vars => [IdealProofs!Next]_IdealProofs!vars
  BY DEF Ideal!Next, Ideal!Drip, Ideal!Pass, Ideal!Refuse, Ideal!vars, Ideal!size, Ideal!Full,
         Ideal!AtMost, IdealProofs!Next, IdealProofs!Drip, IdealProofs!Pass, IdealProofs!Refuse,
         IdealProofs!vars, IdealProofs!size, IdealProofs!Full, IdealProofs!AtMost
<1>3. ImplementsIdeal => []IdealProofs!Budget
  BY <1>1, <1>2, IdealProofs!BudgetKept, PTL DEF ImplementsIdeal, Ideal!Spec, IdealProofs!Spec
<1>4. IInv /\ IdealProofs!Budget => Budget
  <2> SUFFICES ASSUME IInv, IdealProofs!Budget, lim.capacity > 0, lim.window > 0
               PROVE  taken * Token <= Full + lim.capacity * time
    BY DEF Budget
  <2>1. TypeOK /\ lim \in Limiters
    BY DEF IInv, TypeOK, CallTypeOK
  <2>2. Level \in 0..Full /\ lim.capacity \in Nat /\ Token \in Nat /\ Full \in Nat
    BY <2>1, RefilledInRange, Sizes DEF TypeOK, CallTypeOK, Level
  <2>3. taken * Token + Level <= Full + lim.capacity * time
    BY DEF IdealProofs!Budget, IdealProofs!Full, Full
  <2>4. taken * Token \in Int /\ lim.capacity * time \in Int
    BY <2>1, <2>2 DEF TypeOK, CallTypeOK
  <2> QED
    BY <2>2, <2>3, <2>4
<1> QED
  BY <1>3, <1>4, SynchronousIsIdeal, Invariance, PTL
=============================================================================
