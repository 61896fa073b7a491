-------------------------- MODULE FixedWindowProofs --------------------------
(***************************************************************************)
(* What the fixed window counter keeps for any number of instances and     *)
(* handlers, any configuration and any delay, although a call is three     *)
(* commands each of which may be lost or sent twice: TypeCorrect,          *)
(* LimitKept, LateLimitKept, LeaksNeedLoss and NextWindowReached, from the *)
(* inductive invariant IInv.                                               *)
(***************************************************************************)
EXTENDS FixedWindow, TLAPS

ReadingsAreRecent == \A w \in Worker : Calling(w) => ReadingIsRecent(w)

\* Who calls has found a window to divide by.
CallsHaveWindows == \A w \in Worker : Calling(w) => lim.window > 0

\* While a window is open its key cannot expire, so that the counter has
\* counted every admission.
CountedWhileOpen == \A k \in WindowIds : StillOpen(k) => inTime[k] <= keys[k].count

\* A key that expires does so when its window is over on every clock but the
\* slowest ones.
ExpiresAfterWindow ==
  \A k \in WindowIds :
    keys[k].expires # Forever => keys[k].expires >= (k + 1) * Window - MaxSkew

\* The counter c of window k has counted every admission, and has not been
\* dropped before.
FirstLife(k, c) ==
  /\ admitted[k] <= c.count
  /\ admitted[k] > 0 => admitted[k] <= lim.limit

\* It was dropped once, when the window was over; when it is dropped again, no
\* call that reads this window is left.
SecondLife(k, c) ==
  /\ time > (k + 1) * Window - MaxSkew
  /\ admitted[k] > 0 => admitted[k] <= lim.limit + c.count /\ admitted[k] <= 2 * lim.limit
  /\ c.expires # Forever => c.expires >= (k + 1) * Window + Window - MaxSkew

Life(k, c) == FirstLife(k, c) \/ SecondLife(k, c)

\* Every counter is in its first or its second life.
TwoLives == MaxLag + MaxSkew <= Window => \A k \in WindowIds : Life(k, keys[k])

\* The inductive invariant.
IInv ==
  /\ TypeOK
  /\ time <= MaxTime
  /\ ReadingsAreRecent
  /\ CallsHaveWindows
  /\ InTimeLimit
  /\ CountedWhileOpen
  /\ ExpiresAfterWindow
  /\ TwoLives
  /\ LeaksOnlyByLoss

-----------------------------------------------------------------------------
(* The parts of the invariant, by the variables they are about *)

Steps == {"incr", "expire", "ttl"}

CallsOK ==
  /\ lim \in Limiters
  /\ CallTypeOK
  /\ time <= MaxTime
  /\ calls \in 0..MaxCalls
  /\ step \in [Worker -> Steps]
  /\ got \in [Worker -> Nat]
  /\ \A w \in Worker : At(w, "expire") => got[w] = 1
  /\ ReadingsAreRecent
  /\ CallsHaveWindows

KeyType == [count : Nat, expires : Nat \cup {Forever}]

KeysOK ==
  /\ keys \in [WindowIds -> KeyType]
  /\ inTime \in [WindowIds -> Nat]
  /\ InTimeLimit
  /\ CountedWhileOpen
  /\ ExpiresAfterWindow

LeaksOK == orphans \subseteq WindowIds /\ LeaksOnlyByLoss

AdmissionsOK == admitted \in [WindowIds -> Nat] /\ TwoLives

LEMMA InvariantParts == IInv <=> CallsOK /\ KeysOK /\ AdmissionsOK /\ LeaksOK
BY DEF IInv, TypeOK, CallsOK, KeysOK, AdmissionsOK, LeaksOK, Steps, KeyType

-----------------------------------------------------------------------------
(* Windows *)

\* Division rounded down.
LEMMA RoundedDown ==
  ASSUME NEW a \in Nat, NEW b \in Nat \ {0}
  PROVE  a \div b \in Nat /\ b * (a \div b) <= a /\ a < b * (a \div b) + b
OBVIOUS

\* Products of two unknowns grow with either: the solver needs to be told.
LEMMA ProductGrows ==
  ASSUME NEW c \in Nat, NEW a \in Int, NEW b \in Int, a <= b
  PROVE  c * a <= c * b
OBVIOUS

LEMMA WindowSize ==
  ASSUME lim \in Limiters
  PROVE  /\ Window \in Nat
         /\ lim.window > 0 => Window >= TicksPerSecond /\ Window \in Nat \ {0}
<1>1. lim.window \in Nat
  BY LimitersAssumption
<1>2. lim.window > 0 => TicksPerSecond * 1 <= TicksPerSecond * lim.window
  BY <1>1, TicksAssumption, ProductGrows
<1>3. Window \in Nat /\ Window = TicksPerSecond * lim.window
  BY <1>1, TicksAssumption DEF Window
<1> QED
  BY <1>1, <1>2, <1>3, TicksAssumption

\* A call works on the key of a window that its reading falls in, which began
\* at most MaxSkew from now.
LEMMA KeyOfCall ==
  ASSUME CallsOK, NEW w \in Worker, Calling(w)
  PROVE  /\ Key(w) \in WindowIds
         /\ Key(w) \in Nat
         /\ Window \in Nat
         /\ Key(w) * Window <= time + MaxSkew
<1>1. /\ time \in Nat /\ time <= MaxTime /\ now[w] \in Nat /\ now[w] <= time + MaxSkew
      /\ lim \in Limiters /\ lim.window > 0
  BY DelayAssumption
     DEF CallsOK, CallTypeOK, ReadingsAreRecent, ReadingIsRecent, CallsHaveWindows
<1>2. Window \in Nat \ {0} /\ Window >= TicksPerSecond
  BY <1>1, WindowSize
<1>3. Key(w) \in Nat /\ Window * Key(w) <= now[w]
  BY <1>1, <1>2, RoundedDown DEF Key, WindowOf
<1> DEFINE last == (MaxTime + MaxSkew) \div TicksPerSecond
<1>4. /\ last \in Nat
      /\ MaxTime + MaxSkew < TicksPerSecond * last + TicksPerSecond
      /\ MaxTime \in Nat /\ MaxSkew \in Nat
  BY TicksAssumption, DelayAssumption, MaxTimeAssumption, RoundedDown
<1>5. Key(w) <= last
  <2> HIDE DEF last
  <2> SUFFICES ASSUME last + 1 <= Key(w)
               PROVE  FALSE
    BY <1>3, <1>4
  <2>1. TicksPerSecond * (last + 1) <= TicksPerSecond * Key(w)
    BY <1>3, <1>4, TicksAssumption, ProductGrows
  <2>2. Key(w) * TicksPerSecond <= Key(w) * Window
    BY <1>2, <1>3, TicksAssumption, ProductGrows
  <2> QED
    BY <1>1, <1>2, <1>3, <1>4, <2>1, <2>2, TicksAssumption
<1> QED
  BY <1>1, <1>2, <1>3, <1>4, <1>5, DelayAssumption DEF WindowIds

\* The key as it is shown is a key, and the one stored while its window is open.
LEMMA ShownKey ==
  ASSUME CallsOK, KeysOK, NEW k \in WindowIds
  PROVE  /\ Shown(k) \in KeyType
         /\ StillOpen(k) => Shown(k) = keys[k]
         /\ Shown(k).expires # Forever => Shown(k) = keys[k] /\ time <= Shown(k).expires
<1>1. keys[k] \in KeyType /\ time \in Nat
  BY DEF CallsOK, CallTypeOK, KeysOK
<1>2. NoKey \in KeyType /\ NoKey.expires = Forever
  BY DEF NoKey, KeyType, Forever
<1>3. Shown(k) = keys[k] \/ (Shown(k) = NoKey /\ keys[k].expires # Forever /\ time > keys[k].expires)
  BY DEF Shown
<1>4. StillOpen(k) => ~(keys[k].expires # Forever /\ time > keys[k].expires)
  <2>1. Window \in Nat /\ k \in Int /\ MaxSkew \in Nat
    BY WindowSize, DelayAssumption DEF CallsOK, WindowIds
  <2>2. (k + 1) * Window - MaxSkew \in Int
    BY <2>1
  <2> QED
    BY <1>1, <2>2 DEF StillOpen, KeysOK, ExpiresAfterWindow, KeyType, Forever
<1>5. Shown(k).expires # Forever => time <= Shown(k).expires
  BY <1>1, <1>2, <1>3 DEF Shown, KeyType, Forever
<1> QED
  BY <1>1, <1>2, <1>3, <1>4, <1>5

-----------------------------------------------------------------------------
(* What the commands do to the keys *)

\* Nothing but the configuration and the clock moves the end of a window.
LEMMA WindowsStay ==
  ASSUME UNCHANGED <<lim, time>>
  PROVE  Window' = Window /\ \A k \in WindowIds : StillOpen(k)' <=> StillOpen(k)
BY DEF Window, StillOpen

LEMMA KeysUnchanged ==
  ASSUME KeysOK, UNCHANGED <<lim, time, keys, inTime>>
  PROVE  KeysOK'
BY WindowsStay DEF KeysOK, InTimeLimit, CountedWhileOpen, ExpiresAfterWindow

\* An INCR keeps the keys, and its admission is counted when it passes.
LEMMA IncrementKeepsKeys ==
  ASSUME CallsOK, KeysOK, NEW k \in WindowIds, UNCHANGED <<lim, time>>, Increment(k),
         \/ inTime' = inTime
         \/ /\ inTime' = [inTime EXCEPT ![k] = @ + 1]
            /\ Passes(Shown(k).count + 1)
            /\ StillOpen(k)
  PROVE  KeysOK'
<1> DEFINE shown == Shown(k)
<1>1. /\ shown \in KeyType
      /\ StillOpen(k) => shown = keys[k]
      /\ shown.expires # Forever => shown = keys[k]
  BY ShownKey
<1>2. /\ keys \in [WindowIds -> KeyType]
      /\ keys' = [keys EXCEPT ![k] = [shown EXCEPT !.count = @ + 1]]
  BY DEF KeysOK, Increment
<1>3. inTime \in [WindowIds -> Nat] /\ inTime' \in [WindowIds -> Nat]
  BY DEF KeysOK
<1>4. lim.limit \in Int
  BY LimitersAssumption DEF CallsOK
<1> HIDE DEF shown
<1>5. [shown EXCEPT !.count = @ + 1] \in KeyType
  BY <1>1 DEF KeyType
<1>6. /\ keys' \in [WindowIds -> KeyType]
      /\ keys'[k].count = shown.count + 1
      /\ keys'[k].expires = shown.expires
      /\ \A j \in WindowIds \ {k} : keys'[j] = keys[j]
  BY <1>1, <1>2, <1>5 DEF KeyType
<1>7. CountedWhileOpen'
  <2> SUFFICES ASSUME NEW j \in WindowIds, StillOpen(j)
               PROVE  inTime'[j] <= keys'[j].count
    BY WindowsStay DEF CountedWhileOpen
  <2>1. inTime[j] <= keys[j].count /\ keys[j].count \in Nat /\ inTime[j] \in Nat
    BY <1>2, <1>3 DEF KeysOK, CountedWhileOpen, KeyType
  <2>2. CASE j = k
    BY <1>1, <1>3, <1>6, <2>1, <2>2
  <2>3. CASE j # k
    BY <1>3, <1>6, <2>1, <2>3
  <2> QED
    BY <2>2, <2>3
<1>8. InTimeLimit'
  <2> SUFFICES ASSUME NEW j \in WindowIds, inTime'[j] > 0
               PROVE  inTime'[j] <= lim.limit
    BY DEF InTimeLimit
  <2>1. CASE inTime'[j] = inTime[j]
    BY <2>1 DEF KeysOK, InTimeLimit
  <2>2. CASE inTime'[j] # inTime[j]
    <3>1. j = k /\ inTime'[k] = inTime[k] + 1 /\ Passes(shown.count + 1) /\ StillOpen(k)
      BY <1>3, <2>2 DEF shown
    <3>2. inTime[k] <= shown.count /\ shown.count \in Nat /\ inTime[k] \in Nat
      BY <1>1, <1>3, <3>1 DEF KeysOK, CountedWhileOpen, KeyType
    <3> QED
      BY <1>4, <3>1, <3>2 DEF Passes
  <2> QED
    BY <2>1, <2>2
<1>9. ExpiresAfterWindow'
  <2> SUFFICES ASSUME NEW j \in WindowIds, keys'[j].expires # Forever
               PROVE  keys'[j].expires >= (j + 1) * Window - MaxSkew
    BY WindowsStay DEF ExpiresAfterWindow
  <2>1. keys'[j].expires = keys[j].expires
    BY <1>1, <1>6
  <2> QED
    BY <2>1 DEF KeysOK, ExpiresAfterWindow
<1> QED
  BY <1>3, <1>6, <1>7, <1>8, <1>9 DEF KeysOK

\* An EXPIRE keeps the keys: it is sent by a call that reads the key's window
\* on its clock, so that the window is over before the key is.
LEMMA SetExpiryKeepsKeys ==
  ASSUME CallsOK, KeysOK, NEW w \in Worker, Calling(w), UNCHANGED <<lim, time, inTime>>,
         SetExpiry(Key(w))
  PROVE  KeysOK'
<1> DEFINE k == Key(w)
           shown == Shown(k)
           written == IF shown.count = 0 THEN NoKey ELSE [shown EXCEPT !.expires = time + Window]
<1>1. k \in WindowIds /\ k \in Nat /\ Window \in Nat /\ k * Window <= time + MaxSkew
  BY KeyOfCall
<1>2. /\ shown \in KeyType
      /\ StillOpen(k) => shown = keys[k]
  BY <1>1, ShownKey
<1>3. /\ keys \in [WindowIds -> KeyType]
      /\ inTime \in [WindowIds -> Nat]
      /\ keys' = [keys EXCEPT ![k] = written]
      /\ time \in Nat
  BY DEF CallsOK, CallTypeOK, KeysOK, SetExpiry
<1>4. time + Window >= (k + 1) * Window - MaxSkew
  <2>1. k * Window \in Nat /\ (k + 1) * Window = k * Window + Window
    BY <1>1
  <2> QED
    BY <1>1, <1>3, <2>1, DelayAssumption
<1> HIDE DEF k, shown
<1>5. /\ written \in KeyType
      /\ written.count = shown.count
      /\ written.expires # Forever => written.expires = time + Window
  BY <1>1, <1>2, <1>3 DEF KeyType, NoKey, Forever
<1> HIDE DEF written
<1>6. /\ keys' \in [WindowIds -> KeyType]
      /\ keys'[k] = written
      /\ \A j \in WindowIds \ {k} : keys'[j] = keys[j]
  BY <1>1, <1>3, <1>5
<1>7. CountedWhileOpen'
  <2> SUFFICES ASSUME NEW j \in WindowIds, StillOpen(j)
               PROVE  inTime[j] <= keys'[j].count
    BY WindowsStay DEF CountedWhileOpen
  <2> QED
    BY <1>2, <1>5, <1>6 DEF KeysOK, CountedWhileOpen
<1>8. ExpiresAfterWindow'
  <2> SUFFICES ASSUME NEW j \in WindowIds, keys'[j].expires # Forever
               PROVE  keys'[j].expires >= (j + 1) * Window - MaxSkew
    BY WindowsStay DEF ExpiresAfterWindow
  <2>1. CASE j = k
    BY <1>4, <1>5, <1>6, <2>1
  <2>2. CASE j # k
    BY <1>6, <2>2 DEF KeysOK, ExpiresAfterWindow
  <2> QED
    BY <2>1, <2>2
<1> QED
  BY <1>3, <1>6, <1>7, <1>8 DEF KeysOK, InTimeLimit

-----------------------------------------------------------------------------
(* All admissions of a window, the late ones included *)

\* A call finds the counter of its window in its first life or its second: one
\* that was dropped before is not dropped while a call still reads its window.
LEMMA LifeFound ==
  ASSUME CallsOK, KeysOK, AdmissionsOK, NEW w \in Worker, Calling(w), MaxLag + MaxSkew <= Window
  PROVE  Life(Key(w), Shown(Key(w)))
<1> DEFINE k == Key(w)
           end == (k + 1) * Window
<1>1. k \in WindowIds /\ k \in Nat /\ Window \in Nat
  BY KeyOfCall
<1>2. keys[k] \in KeyType /\ admitted[k] \in Nat /\ time \in Nat /\ Life(k, keys[k])
  BY <1>1 DEF CallsOK, CallTypeOK, KeysOK, AdmissionsOK, TwoLives
<1>3. end \in Int
  BY <1>1
<1>4. time < end + MaxLag
  <2>1. /\ now[w] \in Nat /\ skew[w] \in Nat
        /\ time - (now[w] - skew[w]) <= MaxLag
    BY DelayAssumption DEF CallsOK, CallTypeOK, ReadingsAreRecent, ReadingIsRecent
  <2>2. now[w] < end
    <3>1. Window > 0
      <4>1. lim \in Limiters /\ lim.window > 0
        BY DEF CallsOK, CallsHaveWindows
      <4> QED
        BY <4>1, WindowSize
    <3>2. now[w] < Window * k + Window
      <4>1. Window \in Nat \ {0}
        BY <1>1, <3>1
      <4>2. now[w] < Window * (now[w] \div Window) + Window
        BY <2>1, <4>1, RoundedDown
      <4> QED
        BY <4>2 DEF Key, WindowOf
    <3>3. end = Window * k + Window
      BY <1>1
    <3> QED
      BY <3>2, <3>3
  <2> HIDE DEF end
  <2> QED
    BY <1>2, <1>3, <2>1, <2>2, DelayAssumption
<1>5. CASE ~(keys[k].expires # Forever /\ time > keys[k].expires)
  BY <1>2, <1>5 DEF Shown
<1>6. CASE keys[k].expires # Forever /\ time > keys[k].expires
  <2>1. Shown(k) = NoKey /\ keys[k].expires \in Nat
    BY <1>2, <1>6 DEF Shown, KeyType
  <2>2. time > end - MaxSkew
    <3>1. keys[k].expires >= end - MaxSkew
      BY <1>1, <1>6 DEF KeysOK, ExpiresAfterWindow
    <3> HIDE DEF end
    <3> QED
      BY <1>2, <1>3, <1>6, <2>1, <3>1, DelayAssumption
  <2>3. ~SecondLife(k, keys[k])
    <3> SUFFICES ASSUME keys[k].expires >= end + Window - MaxSkew
                 PROVE  FALSE
      BY <1>6 DEF SecondLife
    <3> HIDE DEF end
    <3> QED
      BY <1>1, <1>2, <1>3, <1>4, <1>6, <2>1, DelayAssumption
  <2>4. FirstLife(k, keys[k]) /\ lim.limit \in Int
    BY <1>2, <2>3, LimitersAssumption DEF Life, CallsOK
  <2>5. SecondLife(k, NoKey)
    BY <1>2, <2>2, <2>4 DEF FirstLife, SecondLife, NoKey, Forever
  <2> QED
    BY <2>1, <2>5 DEF Life
<1> QED
  BY <1>5, <1>6

\* A step that writes one counter keeps all counters in their two lives, if it
\* keeps that one there.
LEMMA LifeWritten ==
  ASSUME AdmissionsOK, UNCHANGED <<lim, time>>, NEW k \in WindowIds,
         admitted' \in [WindowIds -> Nat],
         \A j \in WindowIds \ {k} : keys'[j] = keys[j] /\ admitted'[j] = admitted[j],
         MaxLag + MaxSkew <= Window => Life(k, keys[k])'
  PROVE  AdmissionsOK'
<1>1. Window' = Window
  BY DEF Window
<1>2. ASSUME NEW j \in WindowIds \ {k}, Life(j, keys[j])
      PROVE  Life(j, keys[j])'
  BY <1>1, <1>2 DEF Life, FirstLife, SecondLife
<1> QED
  BY <1>1, <1>2 DEF AdmissionsOK, TwoLives

LEMMA AdmissionsUnchanged ==
  ASSUME AdmissionsOK, UNCHANGED <<lim, time, keys, admitted>>
  PROVE  AdmissionsOK'
BY DEF AdmissionsOK, TwoLives, Life, FirstLife, SecondLife, Window

\* An INCR, whether its reply arrives or not.
LEMMA IncrementKeepsLives ==
  ASSUME CallsOK, KeysOK, AdmissionsOK, NEW w \in Worker, Calling(w),
         NEW k \in WindowIds, k = Key(w), UNCHANGED <<lim, time>>, Increment(k),
         \/ admitted' = admitted
         \/ /\ admitted' = [admitted EXCEPT ![k] = @ + 1]
            /\ Passes(Shown(k).count + 1)
  PROVE  AdmissionsOK'
<1> DEFINE shown == Shown(k)
           end == (k + 1) * Window
<1>1. k \in WindowIds /\ k \in Nat /\ Window \in Nat
  BY KeyOfCall
<1>2. /\ shown \in KeyType
      /\ admitted \in [WindowIds -> Nat]
      /\ time \in Nat
      /\ lim.limit \in Int
      /\ end \in Int
  BY <1>1, ShownKey, LimitersAssumption DEF CallsOK, CallTypeOK, AdmissionsOK
<1>3. /\ keys'[k] = [shown EXCEPT !.count = @ + 1]
      /\ \A j \in WindowIds \ {k} : keys'[j] = keys[j] /\ admitted'[j] = admitted[j]
      /\ admitted' \in [WindowIds -> Nat]
  <2>1. keys \in [WindowIds -> KeyType] /\ keys' = [keys EXCEPT ![k] = [shown EXCEPT !.count = @ + 1]]
    BY DEF KeysOK, Increment
  <2> HIDE DEF shown
  <2>2. admitted' \in [WindowIds -> Nat] /\ \A j \in WindowIds \ {k} : admitted'[j] = admitted[j]
    BY <1>2
  <2> QED
    BY <2>1, <2>2
<1>4. keys'[k].count = shown.count + 1 /\ keys'[k].expires = shown.expires
  BY <1>2, <1>3 DEF KeyType
<1>5. ASSUME MaxLag + MaxSkew <= Window
      PROVE  Life(k, keys[k])'
  <2>1. Life(k, shown)
    BY <1>5, LifeFound
  <2>2. Window' = Window
    BY DEF Window
  <2>3. \/ admitted'[k] = admitted[k]
        \/ admitted'[k] = admitted[k] + 1 /\ shown.count + 1 <= lim.limit
    BY <1>1, <1>2 DEF Passes
  <2>4. admitted[k] \in Nat /\ shown.count \in Nat
    BY <1>1, <1>2 DEF KeyType
  <2> HIDE DEF shown
  <2>5. CASE FirstLife(k, shown)
    <3>1. admitted'[k] <= keys'[k].count
      BY <1>4, <2>3, <2>4, <2>5 DEF FirstLife
    <3>2. admitted'[k] > 0 => admitted'[k] <= lim.limit
      BY <1>2, <2>3, <2>4, <2>5 DEF FirstLife
    <3> QED
      BY <2>2, <3>1, <3>2 DEF Life, FirstLife
  <2>6. CASE SecondLife(k, shown)
    <3>1. admitted'[k] > 0 => /\ admitted'[k] <= lim.limit + keys'[k].count
                              /\ admitted'[k] <= 2 * lim.limit
      BY <1>2, <1>4, <2>3, <2>4, <2>6 DEF SecondLife
    <3> QED
      BY <1>4, <2>2, <2>6, <3>1 DEF Life, SecondLife
  <2> QED
    BY <2>1, <2>5, <2>6 DEF Life
<1> QED
  BY <1>1, <1>3, <1>5, LifeWritten

\* An EXPIRE: in a second life the window is over, so that the key stays for
\* another one.
LEMMA SetExpiryKeepsLives ==
  ASSUME CallsOK, KeysOK, AdmissionsOK, NEW w \in Worker, Calling(w),
         NEW k \in WindowIds, k = Key(w), UNCHANGED <<lim, time, admitted>>, SetExpiry(k)
  PROVE  AdmissionsOK'
<1> DEFINE shown == Shown(k)
           end == (k + 1) * Window
           written == IF shown.count = 0 THEN NoKey ELSE [shown EXCEPT !.expires = time + Window]
<1>1. k \in WindowIds /\ k \in Nat /\ Window \in Nat
  BY KeyOfCall
<1>2. /\ shown \in KeyType
      /\ admitted \in [WindowIds -> Nat]
      /\ time \in Nat
      /\ end \in Int
  BY <1>1, ShownKey DEF CallsOK, CallTypeOK, AdmissionsOK
<1>3. /\ keys'[k] = written
      /\ \A j \in WindowIds \ {k} : keys'[j] = keys[j] /\ admitted'[j] = admitted[j]
      /\ admitted' \in [WindowIds -> Nat]
  BY <1>1, <1>2 DEF KeysOK, SetExpiry
<1>4. /\ written.count = shown.count
      /\ written.expires # Forever => written.expires = time + Window
  BY <1>2 DEF KeyType, NoKey, Forever
<1>5. ASSUME MaxLag + MaxSkew <= Window
      PROVE  Life(k, keys[k])'
  <2>1. Life(k, shown)
    BY <1>5, LifeFound
  <2>2. Window' = Window
    BY DEF Window
  <2> HIDE DEF shown, written
  <2>3. CASE FirstLife(k, shown)
    BY <1>3, <1>4, <2>3 DEF Life, FirstLife
  <2>4. CASE SecondLife(k, shown)
    <3>1. written.expires # Forever => written.expires >= end + Window - MaxSkew
      <4>1. time > end - MaxSkew
        BY <2>4 DEF SecondLife
      <4> HIDE DEF end
      <4> QED
        BY <1>1, <1>2, <1>4, <4>1, DelayAssumption
    <3> QED
      BY <1>3, <1>4, <2>2, <2>4, <3>1 DEF Life, SecondLife
  <2> QED
    BY <2>1, <2>3, <2>4 DEF Life
<1> QED
  BY <1>1, <1>3, <1>5, LifeWritten

-----------------------------------------------------------------------------
(* Counters without an expiry *)

Endless(k) == Shown(k).count > 0 /\ Shown(k).expires = Forever

Excused(k) == k \in orphans \/ \E w \in Worker : At(w, "expire") /\ Key(w) = k

LEMMA LeaksAreExcused == LeaksOnlyByLoss <=> \A k \in WindowIds : Endless(k) => Excused(k)
BY DEF LeaksOnlyByLoss, Endless, Excused

\* A call excuses a window as long as it is at its EXPIRE, or leaves an orphan.
LEMMA ExcuseStays ==
  ASSUME NEW w \in Worker, NEW k \in WindowIds, Excused(k), UNCHANGED lim,
         orphans \subseteq orphans',
         \A u \in Worker \ {w} :
           verdict'[u] = verdict[u] /\ step'[u] = step[u] /\ now'[u] = now[u],
         At(w, "expire") => \/ Key(w) \in orphans'
                            \/ At(w, "expire")' /\ now'[w] = now[w]
  PROVE  Excused(k)'
<1>1. CASE k \in orphans
  BY <1>1 DEF Excused
<1>2. ASSUME NEW u \in Worker, At(u, "expire"), Key(u) = k
      PROVE  Excused(k)'
  <2>1. \/ k \in orphans'
        \/ At(u, "expire")' /\ now'[u] = now[u]
    BY <1>2 DEF At, Calling
  <2>2. now'[u] = now[u] => Key(u)' = Key(u)
    BY DEF Key, WindowOf, Window
  <2> QED
    BY <1>2, <2>1, <2>2 DEF Excused
<1> QED
  BY <1>1, <1>2 DEF Excused

-----------------------------------------------------------------------------
(* What the commands do to the calls *)

OnlyCallOf(w) ==
  \A u \in Worker \ {w} : /\ verdict'[u] = verdict[u]
                          /\ now'[u] = now[u]
                          /\ step'[u] = step[u]
                          /\ got'[u] = got[u]

\* A call that ends keeps the calls' part of the invariant.
LEMMA EndKeepsCalls ==
  ASSUME CallsOK, NEW w \in Worker, UNCHANGED <<config, time, calls>>,
         NEW outcome \in Verdicts \ {"calling"}, NEW wait \in Nat, End(w, outcome, wait),
         step' \in [Worker -> Steps], got' \in [Worker -> Nat],
         \A u \in Worker \ {w} : step'[u] = step[u] /\ got'[u] = got[u]
  PROVE  CallsOK' /\ ~Calling(w)' /\ OnlyCallOf(w)
<1> USE DelayAssumption DEF CallsOK, CallTypeOK, config
<1>1. ~Calling(w)' /\ OnlyCallOf(w)
  BY DEF End, Calling, OnlyCallOf
<1>2. CallTypeOK'
  BY DEF End
<1>3. /\ \A u \in Worker : At(u, "expire")' => got'[u] = 1
      /\ CallsHaveWindows'
  BY <1>1 DEF At, Calling, CallsHaveWindows, OnlyCallOf
<1>4. ReadingsAreRecent'
  BY <1>1 DEF ReadingsAreRecent, ReadingIsRecent, Calling, OnlyCallOf
<1> QED
  BY <1>1, <1>2, <1>3, <1>4

\* So does a failed attempt, after which the call is where it was, or ended.
LEMMA FailAttemptKeepsCalls ==
  ASSUME CallsOK, NEW w \in Worker, UNCHANGED <<config, time, calls, step, got>>, FailAttempt(w)
  PROVE  /\ CallsOK'
         /\ OnlyCallOf(w)
         /\ tries[w] < MaxRetries => UNCHANGED <<verdict, now>>
         /\ ~(tries[w] < MaxRetries) => ~Calling(w)'
<1>1. CASE tries[w] < MaxRetries
  <2> USE <1>1, DelayAssumption DEF CallsOK, CallTypeOK, config, FailAttempt
  <2>1. UNCHANGED <<verdict, now, step, got, retryAfter>> /\ CallTypeOK'
    OBVIOUS
  <2>2. /\ ReadingsAreRecent'
        /\ \A u \in Worker : At(u, "expire")' => got'[u] = 1
        /\ CallsHaveWindows'
    BY <2>1 DEF ReadingsAreRecent, ReadingIsRecent, Calling, At, CallsHaveWindows
  <2> QED
    BY <2>1, <2>2 DEF OnlyCallOf
<1>2. CASE ~(tries[w] < MaxRetries)
  BY <1>2, EndKeepsCalls DEF FailAttempt, Verdicts, CallsOK
<1> QED
  BY <1>1, <1>2

\* A call that proceeds to its next command has counted one if that is EXPIRE.
LEMMA ProceedKeepsCalls ==
  ASSUME CallsOK, NEW w \in Worker, UNCHANGED <<config, time, calls>>,
         NEW s \in Steps, NEW n \in Nat, Proceed(w, s), got' = [got EXCEPT ![w] = n],
         s = "expire" => n = 1
  PROVE  CallsOK' /\ OnlyCallOf(w) /\ UNCHANGED <<verdict, now>> /\ step'[w] = s
<1> USE DelayAssumption DEF CallsOK, CallTypeOK, config, Proceed
<1>1. UNCHANGED <<verdict, now, retryAfter>> /\ CallTypeOK' /\ step'[w] = s /\ got'[w] = n
  OBVIOUS
<1>2. OnlyCallOf(w)
  BY DEF OnlyCallOf
<1>3. /\ ReadingsAreRecent'
      /\ \A u \in Worker : At(u, "expire")' => got'[u] = 1
      /\ CallsHaveWindows'
  BY <1>1, <1>2 DEF ReadingsAreRecent, ReadingIsRecent, Calling, At, CallsHaveWindows, OnlyCallOf
<1> QED
  BY <1>1, <1>2, <1>3

\* A step that leaves the keys alone: its call goes on, or leaves an orphan.
LEMMA LeaksUntouched ==
  ASSUME LeaksOK, NEW w \in Worker, UNCHANGED <<lim, time, keys>>, OnlyCallOf(w),
         orphans \subseteq orphans', orphans' \subseteq WindowIds,
         At(w, "expire") => \/ Key(w) \in orphans'
                            \/ At(w, "expire")' /\ now'[w] = now[w]
  PROVE  LeaksOK'
<1> SUFFICES ASSUME NEW k \in WindowIds, Endless(k)'
             PROVE  Excused(k)'
  BY LeaksAreExcused DEF LeaksOK, LeaksOnlyByLoss, Endless, Excused
<1>1. Endless(k) /\ Excused(k)
  BY LeaksAreExcused DEF Endless, Shown, LeaksOK
<1> QED
  BY <1>1, ExcuseStays DEF OnlyCallOf

\* An INCR: who finds no counter must set an expiry, or leaves an orphan.
LEMMA LeaksByIncrement ==
  ASSUME CallsOK, KeysOK, LeaksOK, NEW w \in Worker, UNCHANGED <<lim, time>>,
         ~At(w, "expire"), OnlyCallOf(w),
         orphans \subseteq orphans', orphans' \subseteq WindowIds,
         NEW mine \in WindowIds, Increment(mine), Shown(mine).count = 0 => Excused(mine)'
  PROVE  LeaksOK'
<1> SUFFICES ASSUME NEW k \in WindowIds, Endless(k)'
             PROVE  Excused(k)'
  BY LeaksAreExcused DEF LeaksOK, LeaksOnlyByLoss, Endless, Excused
<1>1. Shown(mine) \in KeyType
  BY ShownKey
<1>2. Endless(k) \/ (k = mine /\ Shown(k).count = 0)
  <2>1. CASE k # mine
    <3>1. keys'[k] = keys[k]
      BY <1>1, <2>1 DEF Increment, KeysOK
    <3> QED
      BY <3>1 DEF Endless, Shown
  <2>2. CASE k = mine
    <3>1. keys'[k] = [Shown(k) EXCEPT !.count = @ + 1]
      BY <1>1, <2>2 DEF Increment, KeysOK
    <3>2. keys'[k].expires = Shown(k).expires
      BY <1>1, <2>2, <3>1 DEF KeyType
    <3>3. Shown(k).expires = Forever
      <4>1. Shown(k).expires # Forever => time <= Shown(k).expires
        BY ShownKey
      <4>2. time \in Nat /\ (Shown(k).expires # Forever => Shown(k).expires \in Nat)
        BY <1>1, <2>2 DEF CallsOK, CallTypeOK, KeyType
      <4>3. Shown(k)' = IF Shown(k).expires # Forever /\ time > Shown(k).expires
                        THEN NoKey ELSE keys'[k]
        BY <3>2 DEF Shown
      <4> SUFFICES ASSUME Shown(k).expires # Forever
                   PROVE  FALSE
        OBVIOUS
      <4>4. Shown(k)' = keys'[k]
        BY <4>1, <4>2, <4>3
      <4> QED
        BY <3>2, <4>4 DEF Endless
    <3>4. Shown(k).count \in Nat
      BY <1>1, <2>2 DEF KeyType
    <3> QED
      BY <2>2, <3>3, <3>4 DEF Endless
  <2> QED
    BY <2>1, <2>2
<1>3. CASE Endless(k)
  <2>1. Excused(k)
    BY <1>3, LeaksAreExcused DEF LeaksOK
  <2> QED
    BY <2>1, ExcuseStays DEF OnlyCallOf
<1>4. CASE k = mine /\ Shown(k).count = 0
  BY <1>4
<1> QED
  BY <1>2, <1>3, <1>4

\* An EXPIRE: its key ends, and no other call was about to end another.
LEMMA LeaksByExpiry ==
  ASSUME CallsOK, KeysOK, LeaksOK, NEW w \in Worker, UNCHANGED <<lim, time, orphans>>,
         Calling(w), OnlyCallOf(w), SetExpiry(Key(w))
  PROVE  LeaksOK'
<1> SUFFICES ASSUME NEW k \in WindowIds, Endless(k)'
             PROVE  Excused(k)'
  BY LeaksAreExcused DEF LeaksOK, LeaksOnlyByLoss, Endless, Excused
<1>1. /\ Key(w) \in WindowIds /\ Shown(Key(w)) \in KeyType /\ time \in Nat /\ Window \in Nat
      /\ keys \in [WindowIds -> KeyType]
  BY KeyOfCall, ShownKey DEF CallsOK, CallTypeOK, KeysOK
<1>2. k # Key(w)
  <2> SUFFICES ASSUME k = Key(w)
               PROVE  FALSE
    OBVIOUS
  <2>1. keys'[k] = IF Shown(k).count = 0 THEN NoKey
                   ELSE [Shown(k) EXCEPT !.expires = time + Window]
    BY <1>1 DEF SetExpiry
  <2>2. keys'[k].count > 0 => keys'[k].expires = time + Window
    BY <1>1, <2>1 DEF KeyType, NoKey
  <2>3. time + Window # Forever
    BY <1>1 DEF Forever
  <2> QED
    BY <2>2, <2>3 DEF Endless, Shown, NoKey
<1>3. Endless(k)
  BY <1>1, <1>2 DEF Endless, Shown, SetExpiry
<1>4. Excused(k)
  BY <1>3, LeaksAreExcused DEF LeaksOK
<1>5. ~(At(w, "expire") /\ Key(w) = k)
  BY <1>2
<1>6. CASE k \in orphans
  BY <1>6 DEF Excused
<1>7. ASSUME NEW u \in Worker, At(u, "expire"), Key(u) = k
      PROVE  Excused(k)'
  BY <1>5, <1>7 DEF Excused, OnlyCallOf, At, Calling, Key, WindowOf, Window
<1> QED
  BY <1>4, <1>6, <1>7 DEF Excused

-----------------------------------------------------------------------------
(* The invariant *)

\* What the client is told to wait is never negative.
LEMMA ResetInRange ==
  ASSUME CallsOK, KeysOK, NEW k \in WindowIds
  PROVE  ResetAfter(k) \in Nat
<1>1. /\ Shown(k) \in KeyType
      /\ Shown(k).expires # Forever => time <= Shown(k).expires
      /\ time \in Nat
  BY ShownKey DEF CallsOK, CallTypeOK
<1>2. CASE Shown(k).expires = Forever
  BY <1>2 DEF ResetAfter
<1>3. CASE Shown(k).expires # Forever
  <2> DEFINE left == Shown(k).expires - time
             half == TicksPerSecond \div 2
  <2>1. left \in Nat /\ half \in Nat
    BY <1>1, <1>3, TicksAssumption, RoundedDown DEF KeyType
  <2>2. (left + half) \div TicksPerSecond \in Nat
    <3> HIDE DEF left, half
    <3> QED
      BY <2>1, TicksAssumption, RoundedDown
  <2> QED
    BY <1>3, <2>2 DEF ResetAfter
<1> QED
  BY <1>2, <1>3

\* The invariant holds before the first call.
LEMMA InvariantInitially == Init => IInv
<1> SUFFICES ASSUME Init PROVE CallsOK /\ KeysOK /\ AdmissionsOK /\ LeaksOK
  BY InvariantParts
<1>1. CallsOK
  BY DelayAssumption, MaxTimeAssumption, MaxCallsAssumption
     DEF Init, CallInit, CallsOK, CallTypeOK, Verdicts, Steps, ReadingsAreRecent, CallsHaveWindows,
         At, Calling
<1>2. KeysOK
  <2>1. keys = [k \in WindowIds |-> NoKey] /\ inTime = [k \in WindowIds |-> 0]
    BY DEF Init
  <2>2. NoKey \in KeyType /\ NoKey.expires = Forever /\ NoKey.count = 0
    BY DEF NoKey, KeyType, Forever
  <2> QED
    BY <2>1, <2>2 DEF KeysOK, InTimeLimit, CountedWhileOpen, ExpiresAfterWindow
<1>3. LeaksOK
  <2>1. ASSUME NEW k \in WindowIds
        PROVE  ~Endless(k)
    BY DEF Init, Endless, Shown, NoKey
  <2> QED
    BY <2>1, LeaksAreExcused DEF Init, LeaksOK
<1>4. AdmissionsOK
  <2>1. ASSUME NEW k \in WindowIds
        PROVE  FirstLife(k, keys[k])
    BY DEF Init, FirstLife, NoKey
  <2> QED
    BY <2>1 DEF Init, AdmissionsOK, TwoLives, Life
<1> QED
  BY <1>1, <1>2, <1>3, <1>4

\* Every step keeps the invariant: one step of the proof for each action.
LEMMA InvariantKept == IInv /\ [Next]_vars => IInv'
<1> SUFFICES ASSUME IInv, [Next]_vars
             PROVE  CallsOK' /\ KeysOK' /\ AdmissionsOK' /\ LeaksOK'
  BY InvariantParts DEF IInv, TypeOK, CallsOK, KeysOK, AdmissionsOK, LeaksOK, Steps, KeyType
<1> DEFINE Kept == CallsOK' /\ KeysOK' /\ AdmissionsOK' /\ LeaksOK'
<1>a. CallsOK /\ KeysOK /\ AdmissionsOK /\ LeaksOK
  BY InvariantParts
<1>1. CASE Tick
  <2>1. /\ UNCHANGED <<lim, skew, keys, calls, step, got, verdict, now, tries, retryAfter, inTime, admitted, orphans>>
        /\ time' = time + 1 /\ time < MaxTime
        /\ \A w \in Worker : Calling(w) => time - (now[w] - skew[w]) < MaxLag
    BY <1>1 DEF Tick, TimePasses, config, call, admissions, history
  <2>2. CallsOK'
    BY <1>a, <2>1, DelayAssumption, MaxTimeAssumption
       DEF CallsOK, CallTypeOK, ReadingsAreRecent, ReadingIsRecent, Calling, At, CallsHaveWindows
  <2>3. /\ Window' = Window
        /\ \A k \in WindowIds : StillOpen(k)' => StillOpen(k)
    <3>1. Window \in Nat /\ Window' = Window /\ time \in Nat
      BY <1>a, <2>1, WindowSize DEF CallsOK, CallTypeOK, Window
    <3>2. ASSUME NEW k \in WindowIds
          PROVE  (k + 1) * Window - MaxSkew \in Int
      BY <3>1, DelayAssumption DEF WindowIds
    <3> QED
      BY <2>1, <3>1, <3>2 DEF StillOpen
  <2>4. KeysOK'
    BY <1>a, <2>1, <2>3 DEF KeysOK, InTimeLimit, CountedWhileOpen, ExpiresAfterWindow
  <2>5. LeaksOK'
    <3> SUFFICES ASSUME NEW k \in WindowIds, Endless(k)'
                 PROVE  Excused(k)'
      BY <1>a, <2>1, LeaksAreExcused DEF LeaksOK, LeaksOnlyByLoss, Endless, Excused
    <3>1. Endless(k)
      BY <1>a, <2>1 DEF Endless, Shown, NoKey
    <3>2. Excused(k)
      BY <1>a, <3>1, LeaksAreExcused DEF LeaksOK
    <3> QED
      BY <2>1, <3>2 DEF Excused, At, Calling, Key, WindowOf, Window
  <2>6. AdmissionsOK'
    <3>1. ASSUME NEW k \in WindowIds, Life(k, keys[k])
          PROVE  Life(k, keys[k])'
      <4>1. CASE FirstLife(k, keys[k])
        BY <2>1, <4>1 DEF Life, FirstLife
      <4>2. CASE SecondLife(k, keys[k])
        <5>1. time' > (k + 1) * Window - MaxSkew
          <6> DEFINE end == (k + 1) * Window
          <6>1. end \in Int /\ time \in Nat
            BY <1>a, WindowSize DEF CallsOK, CallTypeOK, WindowIds
          <6>2. time > end - MaxSkew
            BY <4>2 DEF SecondLife
          <6> HIDE DEF end
          <6>3. time' > end - MaxSkew
            BY <2>1, <6>1, <6>2, DelayAssumption
          <6> QED
            BY <6>3 DEF end
        <5> QED
          BY <2>1, <2>3, <4>2, <5>1 DEF Life, SecondLife
      <4> QED
        BY <3>1, <4>1, <4>2 DEF Life
    <3> QED
      BY <1>a, <2>1, <2>3, <3>1 DEF AdmissionsOK, TwoLives
  <2> QED
    BY <2>2, <2>4, <2>5, <2>6
<1>2. ASSUME NEW w \in Worker, Panic(w)
      PROVE  Kept
  <2>1. UNCHANGED <<lim, skew, time, keys, calls, step, got, now, tries, retryAfter, inTime, admitted, orphans>>
    BY <1>2 DEF Panic, config, admissions, history
  <2>2. CallsOK' /\ OnlyCallOf(w) /\ ~Calling(w)
    BY <1>a, <1>2, <2>1
       DEF Panic, CallsOK, CallTypeOK, Verdicts, ReadingsAreRecent, ReadingIsRecent, Calling, At,
           CallsHaveWindows, OnlyCallOf
  <2>3. KeysOK'
    BY <1>a, <2>1, KeysUnchanged
  <2>4. LeaksOK'
    BY <1>a, <2>1, <2>2, LeaksUntouched DEF At, LeaksOK
  <2> QED
    BY <1>a, <2>1, <2>2, <2>3, <2>4, AdmissionsUnchanged
<1>3. ASSUME NEW w \in Worker, Arrive(w)
      PROVE  Kept
  <2>1. /\ UNCHANGED <<lim, skew, time, keys, got, tries, inTime, admitted, orphans>>
        /\ lim.window > 0 /\ ~Calling(w)
        /\ calls < MaxCalls /\ calls' = calls + 1
        /\ step' = [step EXCEPT ![w] = "incr"]
        /\ verdict' = [verdict EXCEPT ![w] = "calling"]
        /\ now' = [now EXCEPT ![w] = time + skew[w]]
        /\ retryAfter' = [retryAfter EXCEPT ![w] = 0]
    BY <1>3 DEF Arrive, Send, config, admissions, history
  <2>2. OnlyCallOf(w)
    BY <1>a, <2>1 DEF CallsOK, CallTypeOK, OnlyCallOf
  <2>3. CallTypeOK' /\ calls' \in 0..MaxCalls /\ step' \in [Worker -> Steps]
    BY <1>a, <2>1, DelayAssumption, MaxCallsAssumption DEF CallsOK, CallTypeOK, Verdicts, Steps
  <2>4. /\ ReadingsAreRecent'
        /\ \A u \in Worker : At(u, "expire")' => got'[u] = 1
        /\ CallsHaveWindows'
    BY <1>a, <2>1, DelayAssumption
       DEF CallsOK, CallTypeOK, ReadingsAreRecent, ReadingIsRecent, Calling, At, CallsHaveWindows
  <2>5. CallsOK'
    BY <1>a, <2>1, <2>3, <2>4 DEF CallsOK
  <2>6. KeysOK'
    BY <1>a, <2>1, KeysUnchanged
  <2>7. LeaksOK'
    BY <1>a, <2>1, <2>2, LeaksUntouched DEF At, LeaksOK
  <2> QED
    BY <1>a, <2>1, <2>5, <2>6, <2>7, AdmissionsUnchanged
<1>4. ASSUME NEW w \in Worker, Incr(w)
      PROVE  Kept
  <2>1. PICK k \in WindowIds : k = Key(w) /\ Shown(k) \in KeyType
    BY <1>a, <1>4, KeyOfCall, ShownKey DEF Incr, At
  <2> DEFINE count == Shown(k).count + 1
             next == IF SetsExpiry(count) THEN "expire" ELSE "ttl"
  <2>2. /\ At(w, "incr") /\ Calling(w) /\ ~At(w, "expire")
        /\ Increment(k)
        /\ got' = [got EXCEPT ![w] = count]
        /\ Proceed(w, next)
        /\ UNCHANGED <<lim, skew, time, calls, orphans>>
    BY <1>4, <2>1 DEF Incr, At, config
  <2>3. count \in Nat /\ next \in Steps /\ (next = "expire" => count = 1)
    BY <2>1 DEF KeyType, Steps, SetsExpiry
  <2>4. CallsOK' /\ OnlyCallOf(w) /\ UNCHANGED <<verdict, now>> /\ step'[w] = next
    <3> HIDE DEF count, next
    <3> QED
      BY <1>a, <2>2, <2>3, ProceedKeepsCalls DEF config
  <2>5. KeysOK'
    BY <1>a, <1>4, <2>1, <2>2, IncrementKeepsKeys DEF Incr
  <2>6. Shown(k).count = 0 => Excused(k)'
    <3>1. Shown(k).count = 0 => step'[w] = "expire"
      BY <2>4 DEF SetsExpiry
    <3>2. Key(w)' = k
      BY <2>1, <2>2, <2>4 DEF Key, WindowOf, Window
    <3> QED
      BY <2>2, <2>4, <3>1, <3>2 DEF Excused, At, Calling
  <2>7. LeaksOK'
    BY <1>a, <2>2, <2>4, <2>6, LeaksByIncrement DEF LeaksOK
  <2>8. AdmissionsOK'
    BY <1>a, <1>4, <2>1, <2>2, IncrementKeepsLives DEF Incr
  <2> QED
    BY <2>4, <2>5, <2>7, <2>8
<1>5. ASSUME NEW w \in Worker, LoseIncr(w)
      PROVE  Kept
  <2>1. PICK k \in WindowIds : k = Key(w)
    BY <1>a, <1>5, KeyOfCall DEF LoseIncr, At
  <2>2. /\ ~At(w, "expire")
        /\ Increment(k)
        /\ FailAttempt(w)
        /\ orphans' = IF Shown(k).count = 0 THEN orphans \cup {k} ELSE orphans
        /\ UNCHANGED <<lim, skew, time, calls, step, got, inTime, admitted>>
    BY <1>5, <2>1 DEF LoseIncr, At, config, admissions
  <2>3. CallsOK' /\ OnlyCallOf(w)
    BY <1>a, <2>2, FailAttemptKeepsCalls DEF config
  <2>4. KeysOK'
    BY <1>a, <2>2, IncrementKeepsKeys
  <2>5. /\ Shown(k).count = 0 => Excused(k)'
        /\ orphans \subseteq orphans' /\ orphans' \subseteq WindowIds
    BY <1>a, <2>2 DEF Excused, LeaksOK
  <2>6. LeaksOK'
    BY <1>a, <2>2, <2>3, <2>5, LeaksByIncrement
  <2>7. AdmissionsOK'
    BY <1>a, <1>5, <2>1, <2>2, IncrementKeepsLives DEF LoseIncr, At
  <2> QED
    BY <2>3, <2>4, <2>6, <2>7
<1>6. ASSUME NEW w \in Worker, Expire(w)
      PROVE  Kept
  <2>1. /\ Calling(w)
        /\ SetExpiry(Key(w))
        /\ Proceed(w, "ttl")
        /\ UNCHANGED <<lim, skew, time, calls, got, inTime, admitted, orphans>>
    BY <1>6 DEF Expire, At, config, admissions, history
  <2>2. got' = [got EXCEPT ![w] = got[w]] /\ got[w] \in Nat
    BY <1>a, <2>1 DEF CallsOK
  <2>3. CallsOK' /\ OnlyCallOf(w)
    BY <1>a, <2>1, <2>2, ProceedKeepsCalls DEF config, Steps
  <2>4. AdmissionsOK'
    BY <1>a, <2>1, KeyOfCall, SetExpiryKeepsLives
  <2> QED
    BY <1>a, <2>1, <2>3, <2>4, SetExpiryKeepsKeys, LeaksByExpiry
<1>7. ASSUME NEW w \in Worker, LoseExpire(w)
      PROVE  Kept
  <2>1. /\ Calling(w)
        /\ SetExpiry(Key(w))
        /\ FailAttempt(w)
        /\ UNCHANGED <<lim, skew, time, calls, step, got, inTime, admitted, orphans>>
    BY <1>7 DEF LoseExpire, At, config, admissions, history
  <2>2. CallsOK' /\ OnlyCallOf(w)
    BY <1>a, <2>1, FailAttemptKeepsCalls DEF config
  <2>3. AdmissionsOK'
    BY <1>a, <2>1, KeyOfCall, SetExpiryKeepsLives
  <2> QED
    BY <1>a, <2>1, <2>2, <2>3, SetExpiryKeepsKeys, LeaksByExpiry
<1>8. ASSUME NEW w \in Worker, Unreachable(w)
      PROVE  Kept
  <2>1. /\ Calling(w)
        /\ FailAttempt(w)
        /\ orphans' = IF tries[w] < MaxRetries THEN orphans ELSE Orphaned(w)
        /\ UNCHANGED <<lim, skew, time, keys, calls, step, got, inTime, admitted>>
    BY <1>8 DEF Unreachable, At, config, admissions
  <2>2. /\ CallsOK' /\ OnlyCallOf(w)
        /\ tries[w] < MaxRetries => UNCHANGED <<verdict, now>>
    BY <1>a, <2>1, FailAttemptKeepsCalls DEF config
  <2>3. KeysOK'
    BY <1>a, <2>1, KeysUnchanged
  <2>4. Key(w) \in WindowIds
    BY <1>a, <2>1, KeyOfCall
  <2>5. /\ orphans \subseteq orphans' /\ orphans' \subseteq WindowIds
        /\ At(w, "expire") => \/ Key(w) \in orphans'
                              \/ At(w, "expire")' /\ now'[w] = now[w]
    BY <1>a, <2>1, <2>2, <2>4 DEF Orphaned, LeaksOK, At, Calling
  <2> QED
    BY <1>a, <2>1, <2>2, <2>3, <2>5, LeaksUntouched, AdmissionsUnchanged
<1>9. ASSUME NEW w \in Worker, Cancel(w)
      PROVE  Kept
  <2>1. /\ Calling(w)
        /\ End(w, "error", 0)
        /\ orphans' = Orphaned(w)
        /\ UNCHANGED <<lim, skew, time, keys, calls, step, got, inTime, admitted>>
    BY <1>9 DEF Cancel, Abandon, At, config, admissions
  <2>2. CallsOK' /\ OnlyCallOf(w)
    <3>1. step' \in [Worker -> Steps] /\ got' \in [Worker -> Nat]
      BY <1>a, <2>1 DEF CallsOK
    <3> QED
      BY <1>a, <2>1, <3>1, EndKeepsCalls DEF config, Verdicts
  <2>3. KeysOK'
    BY <1>a, <2>1, KeysUnchanged
  <2>4. Key(w) \in WindowIds
    BY <1>a, <2>1, KeyOfCall
  <2>5. /\ orphans \subseteq orphans' /\ orphans' \subseteq WindowIds
        /\ At(w, "expire") => Key(w) \in orphans'
    BY <1>a, <2>1, <2>4 DEF Orphaned, LeaksOK, At
  <2> QED
    BY <1>a, <2>1, <2>2, <2>3, <2>5, LeaksUntouched, AdmissionsUnchanged
<1>10. ASSUME NEW w \in Worker, Ttl(w) \/ TtlFails(w)
       PROVE  Kept
  <2>1. PICK reset \in Nat :
           /\ At(w, "ttl")
           /\ Answer(w, reset)
           /\ UNCHANGED <<lim, skew, time, keys, calls, inTime, admitted, orphans>>
    <3>1. Calling(w)
      BY <1>10 DEF Ttl, TtlFails, At
    <3>2. ResetAfter(Key(w)) \in Nat
      BY <1>a, <3>1, KeyOfCall, ResetInRange
    <3> QED
      BY <1>10, <3>2 DEF Ttl, TtlFails, config, admissions, history
  <2>2. PICK outcome \in {"allowed", "rejected"}, wait \in Nat : End(w, outcome, wait)
    BY <2>1 DEF Answer
  <2>3. /\ got' \in [Worker -> Nat] /\ step' \in [Worker -> Steps]
        /\ \A u \in Worker \ {w} : step'[u] = step[u] /\ got'[u] = got[u]
    BY <1>a, <2>1 DEF Answer, CallsOK, Steps
  <2>4. CallsOK' /\ OnlyCallOf(w)
    BY <1>a, <2>1, <2>2, <2>3, EndKeepsCalls DEF config, Verdicts
  <2>5. KeysOK'
    BY <1>a, <2>1, KeysUnchanged
  <2>6. LeaksOK'
    BY <1>a, <2>1, <2>4, LeaksUntouched DEF LeaksOK, At
  <2> QED
    BY <1>a, <2>1, <2>4, <2>5, <2>6, AdmissionsUnchanged
<1>11. CASE UNCHANGED vars
  <2>1. UNCHANGED <<lim, skew, time, keys, calls, step, got, verdict, now, tries, retryAfter, inTime, admitted, orphans>>
    BY <1>11 DEF vars, config, call, admissions, history
  <2>2. CallsOK'
    BY <1>a, <2>1
       DEF CallsOK, CallTypeOK, ReadingsAreRecent, ReadingIsRecent, Calling, At, CallsHaveWindows
  <2>3. KeysOK'
    BY <1>a, <2>1, KeysUnchanged
  <2>4. LeaksOK'
    BY <1>a, <2>1 DEF LeaksOK, LeaksOnlyByLoss, Shown, At, Calling, Key, WindowOf, Window
  <2> QED
    BY <1>a, <2>1, <2>2, <2>3, <2>4, AdmissionsUnchanged
<1> QED
  BY <1>1, <1>2, <1>3, <1>4, <1>5, <1>6, <1>7, <1>8, <1>9, <1>10, <1>11 DEF Next, Command

\* The inductive invariant holds of every behaviour.
THEOREM Invariance == Spec => []IInv
BY InvariantInitially, InvariantKept, PTL DEF Spec

\* The variables keep their types although a call is three commands that may
\* be interleaved, lost and repeated.
THEOREM TypeCorrect == Spec => []TypeOK
BY Invariance, PTL DEF IInv

\* No window admits more than the limit before it is over, in any number of
\* instances, whatever is delayed, lost or sent twice.
THEOREM LimitKept == Spec => []InTimeLimit
BY Invariance, PTL DEF IInv

\* Calls delayed past the end of their window, whose INCR starts a new count,
\* gain one more limit and no further, in any number.
THEOREM LateLimitKept == Spec => []TwiceAtMost
<1>1. ASSUME IInv, MaxLag + MaxSkew <= Window, NEW k \in WindowIds, admitted[k] > 0
      PROVE  admitted[k] <= 2 * lim.limit
  <2>1. Life(k, keys[k]) /\ admitted[k] \in Nat /\ lim.limit \in Int
    BY <1>1, LimitersAssumption DEF IInv, TypeOK, TwoLives
  <2> QED
    BY <1>1, <2>1 DEF Life, FirstLife, SecondLife
<1>2. IInv => TwiceAtMost
  BY <1>1 DEF TwiceAtMost
<1> QED
  BY <1>2, Invariance, PTL

\* A counter that never expires is due to a lost reply or command.
THEOREM LeaksNeedLoss == Spec => []LeaksOnlyByLoss
BY Invariance, PTL DEF IInv

\* Retry-After, rounded as it is, takes a rejected client to the next window.
THEOREM NextWindowReached == Spec => RetryReachesNextWindow
<1>1. ASSUME IInv, Next, NEW w \in Worker, Ttl(w), verdict'[w] = "rejected",
             Shown(Key(w)).expires # Forever
      PROVE  WindowOf(time + skew[w] + retryAfter'[w] * TicksPerSecond
                        + TicksPerSecond \div 2 + MaxSkew) > Key(w)
  <2> DEFINE k == Key(w)
             end == (k + 1) * Window
             left == Shown(k).expires - time
             half == TicksPerSecond \div 2
             reset == (left + half) \div TicksPerSecond
             return == time + skew[w] + reset * TicksPerSecond + half + MaxSkew
  <2>1. CallsOK /\ KeysOK /\ Calling(w)
    BY <1>1, InvariantParts DEF Ttl, At
  <2>2. /\ k \in WindowIds /\ k \in Nat
        /\ lim \in Limiters /\ lim.window > 0
        /\ time \in Nat /\ skew[w] \in Nat
    BY <2>1, KeyOfCall, DelayAssumption DEF CallsOK, CallTypeOK, CallsHaveWindows
  <2>3. Window \in Nat \ {0} /\ end \in Nat
    BY <2>2, WindowSize
  <2>4. left \in Nat /\ time + left >= end - MaxSkew
    <3>1. Shown(k) = keys[k] /\ time <= Shown(k).expires /\ Shown(k) \in KeyType
      BY <1>1, <2>1, <2>2, ShownKey
    <3>2. keys[k].expires >= end - MaxSkew
      BY <1>1, <2>1, <2>2, <3>1 DEF KeysOK, ExpiresAfterWindow
    <3> QED
      BY <1>1, <2>2, <3>1, <3>2 DEF KeyType
  <2>5. half \in Nat /\ 2 * half >= TicksPerSecond - 1
    BY TicksAssumption
  <2>6. retryAfter'[w] = reset
    BY <1>1, <2>1 DEF Ttl, Answer, End, ResetAfter, CallsOK, CallTypeOK
  <2>7. reset \in Nat /\ left + half < TicksPerSecond * reset + TicksPerSecond
    <3> HIDE DEF left, half
    <3> QED
      BY <2>4, <2>5, TicksAssumption, RoundedDown
  <2>8. return \in Nat /\ return >= end
    <3> HIDE DEF k, end, left, half, reset
    <3>1. reset * TicksPerSecond = TicksPerSecond * reset /\ TicksPerSecond * reset \in Nat
      BY <2>7, TicksAssumption
    <3> QED
      BY <2>2, <2>3, <2>4, <2>5, <2>7, <3>1, TicksAssumption, DelayAssumption
  <2>9. return \div Window > k
    <3> DEFINE q == return \div Window
    <3> HIDE DEF return
    <3>1. q \in Nat /\ return < Window * q + Window
      BY <2>3, <2>8, RoundedDown
    <3> HIDE DEF k, q
    <3>2. q <= k - 1 \/ q = k \/ q > k
      BY <2>2, <3>1
    <3> SUFFICES ASSUME q + 1 <= k + 1, ~(q > k)
                 PROVE  FALSE
      BY <2>2, <3>1 DEF q
    <3>3. Window * (q + 1) <= Window * (k + 1)
      BY <2>2, <2>3, <3>1, ProductGrows
    <3> QED
      BY <2>2, <2>3, <2>8, <3>1, <3>3
  <2> QED
    BY <2>6, <2>9 DEF WindowOf
<1>2. IInv /\ [Next]_vars =>
        [\A w \in Worker :
           (Ttl(w) /\ verdict'[w] = "rejected" /\ Shown(Key(w)).expires # Forever) =>
             LET return == time + skew[w] + retryAfter'[w] * TicksPerSecond
             IN  WindowOf(return + TicksPerSecond \div 2 + MaxSkew) > Key(w)]_vars
  BY <1>1
<1> QED
  BY <1>2, Invariance, PTL DEF Spec, RetryReachesNextWindow
==============================================================================
