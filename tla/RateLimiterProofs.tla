------------------------- MODULE RateLimiterProofs -------------------------
(***************************************************************************)
(* Theorems about RateLimiter, for any limit, window, resolution of the    *)
(* clock and length of time.                                               *)
(***************************************************************************)
EXTENDS RateLimiter, FiniteSetTheorems, TLAPS

(* Whole seconds: those of a later instant are no fewer, and a window      *)
(* earlier they are a window's fewer.                                      *)
LEMMA SecondsOf ==
    ASSUME NEW t \in Int, NEW d \in Nat \ {0}
    PROVE  /\ t \div d \in Int
           /\ d * (t \div d) <= t
           /\ t < d * (t \div d) + d
  OBVIOUS

LEMMA SecondsAreMonotonic ==
    ASSUME NEW d \in Nat \ {0}, NEW q \in Int, NEW r \in Int,
           NEW s \in Int, NEW t \in Int, s <= t,
           d * q <= s, t < d * r + d
    PROVE  q <= r
  <1>1. d * q < d * (r + 1)
    OBVIOUS
  <1> QED
    BY <1>1

LEMMA SecondsEarlier ==
    ASSUME NEW d \in Nat \ {0}, NEW q \in Int, NEW r \in Int, NEW w \in Nat,
           NEW t \in Int, NEW u \in Int, u > t - w * d,
           d * q <= t, u < d * r + d
    PROVE  r >= q - w
  <1>1. d * (q - w) < d * (r + 1)
    OBVIOUS
  <1> QED
    BY <1>1

-----------------------------------------------------------------------------
(* The inductive invariant.  The present window holds the requests counted *)
(* and no request is from beyond its end.  Of those from before it at most *)
(* one window's worth is younger than some second p, a window or more      *)
(* before the present one began: p is where the previous window began.     *)

Requests == DOMAIN granted
Second(i) == Seconds(granted[i])
InWindow == {i \in Requests : Second(i) >= window_start}
Before(p) == {i \in Requests : p <= Second(i) /\ Second(i) < window_start}
Within(t) == {i \in Requests : t <= granted[i] /\ granted[i] < t + WindowTicks}

WindowOK ==
    /\ RateTypeOK
    /\ \A i \in Requests : granted[i] <= tick /\ Second(i) < window_start + window_seconds
    /\ Cardinality(InWindow) = request_count
    /\ \E p \in Int : p + window_seconds <= window_start /\ Cardinality(Before(p)) <= max_requests

LEMMA RequestsFinite ==
    ASSUME RateTypeOK
    PROVE  /\ Requests = 1..Len(granted) /\ Len(granted) \in Nat
           /\ IsFiniteSet(Requests)
           /\ \A i \in Requests : granted[i] \in Nat
  <1>1. Requests = 1..Len(granted) /\ Len(granted) \in Nat
    BY DEF RateTypeOK, Requests
  <1>2. \A i \in Requests : granted[i] \in Nat
    BY <1>1 DEF RateTypeOK, Requests
  <1> QED
    BY <1>1, <1>2, FS_Interval

LEMMA SecondsType ==
    ASSUME NEW t \in Int
    PROVE  /\ Seconds(t) \in Int
           /\ TicksPerSecond * Seconds(t) <= t
           /\ t < TicksPerSecond * Seconds(t) + TicksPerSecond
  BY RateAssumption, SecondsOf DEF Seconds

LEMMA SecondsGrow ==
    ASSUME NEW s \in Int, NEW t \in Int, s <= t
    PROVE  Seconds(s) <= Seconds(t)
  <1>1. TicksPerSecond \in Nat \ {0}
    BY RateAssumption
  <1>2. /\ Seconds(s) \in Int /\ TicksPerSecond * Seconds(s) <= s
        /\ Seconds(t) \in Int /\ t < TicksPerSecond * Seconds(t) + TicksPerSecond
    BY SecondsType
  <1> QED
    BY <1>1, <1>2, SecondsAreMonotonic

(* A stretch that has not ended holds no request from before p: it is      *)
(* covered by the present window and what is younger than p.               *)
LEMMA TwoWindowsCover ==
    ASSUME WindowOK, NEW t \in Int, t > tick - WindowTicks
    PROVE  Cardinality(Within(t)) <= 2 * max_requests
  <1>1. PICK p \in Int : /\ p + window_seconds <= window_start
                         /\ Cardinality(Before(p)) <= max_requests
    BY DEF WindowOK
  <1>2. tick \in Nat /\ window_start \in Nat /\ window_start <= Now
    BY SecondsType DEF WindowOK, RateTypeOK, Now
  <1>3. \A i \in Within(t) : i \in InWindow \/ i \in Before(p)
    <2> SUFFICES ASSUME NEW i \in Within(t) PROVE i \in InWindow \/ i \in Before(p)
      OBVIOUS
    <2>1. /\ i \in Requests /\ granted[i] \in Int
          /\ granted[i] > tick - window_seconds * TicksPerSecond
      BY <1>2, RequestsFinite, RateAssumption DEF Within, WindowOK, WindowTicks
    <2>2. /\ Seconds(tick) \in Int /\ TicksPerSecond * Seconds(tick) <= tick
          /\ Second(i) \in Int
          /\ granted[i] < TicksPerSecond * Second(i) + TicksPerSecond
      BY <1>2, <2>1, SecondsType DEF Second
    <2>3. Second(i) >= Seconds(tick) - window_seconds
      BY <1>2, <2>1, <2>2, SecondsEarlier, RateAssumption
    <2>4. Second(i) >= p
      BY <1>1, <1>2, <2>2, <2>3, RateAssumption DEF Now
    <2> QED
      BY <1>2, <2>1, <2>2, <2>4 DEF InWindow, Before
  <1>4. /\ IsFiniteSet(InWindow) /\ IsFiniteSet(Before(p)) /\ IsFiniteSet(Within(t))
    BY RequestsFinite, FS_Subset DEF WindowOK, InWindow, Before, Within
  <1>5. Within(t) \subseteq InWindow \cup Before(p)
    BY <1>3
  <1>6. /\ Cardinality(InWindow) \in Nat /\ Cardinality(Before(p)) \in Nat
        /\ IsFiniteSet(InWindow \cup Before(p))
        /\ Cardinality(InWindow \cup Before(p)) <= Cardinality(InWindow) + Cardinality(Before(p))
    <2>1. /\ IsFiniteSet(InWindow \cup Before(p))
          /\ Cardinality(InWindow \cup Before(p)) =
               Cardinality(InWindow) + Cardinality(Before(p)) - Cardinality(InWindow \cap Before(p))
      BY <1>4, FS_Union
    <2>2. IsFiniteSet(InWindow \cap Before(p))
      BY <1>4, FS_Subset
    <2>3. Cardinality(InWindow \cap Before(p)) \in Nat
      BY <2>2, FS_CardinalityType
    <2>4. Cardinality(InWindow) \in Nat /\ Cardinality(Before(p)) \in Nat
      BY <1>4, FS_CardinalityType
    <2> QED
      BY <2>1, <2>3, <2>4
  <1>7. /\ Cardinality(Within(t)) \in Nat
        /\ Cardinality(Within(t)) <= Cardinality(InWindow \cup Before(p))
        /\ Cardinality(InWindow \cup Before(p)) \in Nat
    BY <1>4, <1>5, <1>6, FS_Subset, FS_CardinalityType
  <1>8. Cardinality(InWindow) <= max_requests
    BY DEF WindowOK, RateTypeOK
  <1> QED
    BY <1>1, <1>6, <1>7, <1>8, RateAssumption

-----------------------------------------------------------------------------
(* It is inductive.                                                        *)

LEMMA WindowInit == RateInit => WindowOK
  <1> SUFFICES ASSUME RateInit PROVE WindowOK
    OBVIOUS
  <1>1. tick \in Nat /\ Now \in Int /\ Now >= 0
    <2>1. tick \in Nat
      BY RateAssumption DEF RateInit
    <2>2. 0 <= Seconds(tick) /\ Seconds(tick) \in Int
      <3>1. Seconds(0) \in Int /\ 0 < TicksPerSecond * Seconds(0) + TicksPerSecond
        BY SecondsType
      <3>2. Seconds(0) >= 0
        BY <3>1, RateAssumption, SecondsAreMonotonic
      <3> QED
        BY <2>1, <3>1, <3>2, SecondsGrow, SecondsType
    <2> QED
      BY <2>1, <2>2 DEF Now
  <1>2. RateTypeOK
    <2>1. tick \in Nat /\ request_count \in 0..max_requests /\ window_start \in 0..Now
      BY <1>1, RateAssumption DEF RateInit
    <2>2. closed \in BOOLEAN
      BY DEF RateInit
    <2>3. granted \in Seq(Nat)
      BY DEF RateInit
    <2> QED
      BY <2>1, <2>2, <2>3 DEF RateTypeOK
  <1>3. Requests = {}
    BY DEF RateInit, Requests
  <1>4. InWindow = {} /\ \A p \in Int : Before(p) = {}
    BY <1>3 DEF InWindow, Before
  <1>5. window_start - window_seconds \in Int
    BY <1>1, RateAssumption DEF RateInit
  <1> QED
    <2>1. \A i \in Requests : granted[i] <= tick /\ Second(i) < window_start + window_seconds
      BY <1>3
    <2>2. Cardinality(InWindow) = request_count
      BY <1>4, FS_EmptySet DEF RateInit
    <2>3. /\ (window_start - window_seconds) + window_seconds <= window_start
          /\ Cardinality(Before(window_start - window_seconds)) <= max_requests
      BY <1>1, <1>4, <1>5, FS_EmptySet, RateAssumption DEF RateInit
    <2> QED
      BY <1>2, <1>5, <2>1, <2>2, <2>3 DEF WindowOK

LEMMA TickKeepsWindows == WindowOK /\ Tick => WindowOK'
  <1> SUFFICES ASSUME WindowOK, Tick PROVE WindowOK'
    OBVIOUS
  <1>1. /\ tick' = tick + 1 /\ tick \in Nat
        /\ UNCHANGED <<request_count, window_start, closed, granted>>
    BY DEF Tick, WindowOK, RateTypeOK, limiterVars
  <1>2. Now <= Now' /\ Now \in Int /\ Now' \in Int
    BY <1>1, SecondsGrow, SecondsType DEF Now
  <1>3. RateTypeOK'
    BY <1>1, <1>2 DEF WindowOK, RateTypeOK
  <1>4. /\ Requests' = Requests /\ InWindow' = InWindow
        /\ \A p : Before(p)' = Before(p)
    BY <1>1 DEF Requests, InWindow, Before, Second, Seconds
  <1>5. \A i \in Requests : granted[i] \in Nat
    BY RequestsFinite DEF WindowOK
  <1> QED
    BY <1>1, <1>3, <1>4, <1>5 DEF WindowOK, Second, Seconds

(* A request that is let through is the last of them all.                  *)
LEMMA NewRequest ==
    ASSUME WindowOK, granted' = Append(granted, tick),
           NEW n \in Nat, n = Len(granted) + 1
    PROVE  /\ n \notin Requests /\ Requests' = Requests \cup {n}
           /\ granted'[n] = tick /\ \A i \in Requests : granted'[i] = granted[i]
           /\ granted' \in Seq(Nat)
           /\ Second(n)' = Now /\ \A i \in Requests : Second(i)' = Second(i)
  <1>1. tick \in Nat /\ granted \in Seq(Nat)
    BY DEF WindowOK, RateTypeOK
  <1>2. granted' \in Seq(Nat) /\ Len(granted') = n
    BY <1>1
  <1>3. Requests = 1..Len(granted) /\ Requests' = 1..n
    BY <1>1, <1>2 DEF Requests
  <1>4. granted'[n] = tick /\ \A i \in Requests : granted'[i] = granted[i]
    BY <1>1, <1>3
  <1>5. Len(granted) \in Nat
    BY <1>1
  <1>6. n \notin Requests /\ Requests' = Requests \cup {n}
    BY <1>3, <1>5
  <1>7. Second(n)' = Now /\ \A i \in Requests : Second(i)' = Second(i)
    BY <1>4 DEF Second, Seconds, Now
  <1> QED
    BY <1>2, <1>4, <1>6, <1>7

LEMMA RequestKeepsWindows == WindowOK /\ Request => WindowOK'
  <1> SUFFICES ASSUME WindowOK, Request PROVE WindowOK'
    OBVIOUS
  <1>0. PICK n \in Nat : n = Len(granted) + 1
    BY RequestsFinite DEF WindowOK
  <1>1. /\ tick \in Nat /\ tick' = tick /\ Now' = Now /\ Now \in Int
        /\ window_start \in Nat /\ window_start <= Now
        /\ request_count \in Nat /\ request_count <= max_requests
    BY SecondsType, RateAssumption DEF Request, WindowOK, RateTypeOK, Now
  <1>2. \A i \in Requests : Second(i) \in Int
    <2>1. \A i \in Requests : granted[i] \in Int
      BY RequestsFinite DEF WindowOK
    <2> QED
      BY <2>1, SecondsType DEF Second
  <1>7. ASSUME granted' = Append(granted, tick)
        PROVE  /\ n \notin Requests /\ Requests' = Requests \cup {n}
               /\ granted'[n] = tick /\ \A i \in Requests : granted'[i] = granted[i]
               /\ granted' \in Seq(Nat)
               /\ Second(n)' = Now /\ \A i \in Requests : Second(i)' = Second(i)
    BY <1>0, <1>7, NewRequest
  <1>8. \A i \in Requests : granted[i] <= tick /\ Second(i) < window_start + window_seconds
    BY DEF WindowOK
  <1>3. IsFiniteSet(InWindow) /\ Cardinality(InWindow) = request_count
    BY RequestsFinite, FS_Subset DEF WindowOK, InWindow
  <1>4. CASE Refused
    <2>1. UNCHANGED <<tick, request_count, window_start, granted>> /\ closed' \in BOOLEAN
      BY <1>1, <1>4, RateAssumption
      DEF Request, CountRequest, Refused, WindowOver, Elapsed, limiterVars
    <2>2. RateTypeOK'
      BY <1>1, <2>1 DEF WindowOK, RateTypeOK
    <2>3. /\ Requests' = Requests /\ InWindow' = InWindow
          /\ \A p : Before(p)' = Before(p)
      BY <2>1 DEF Requests, InWindow, Before, Second, Seconds
    <2> QED
      BY <2>1, <2>2, <2>3 DEF WindowOK, Second, Seconds
  <1>5. CASE ~Refused /\ ~WindowOver
    <2>1. /\ granted' = Append(granted, tick) /\ window_start' = window_start
          /\ request_count' = request_count + 1 /\ request_count < max_requests
          /\ closed' \in BOOLEAN /\ Now < window_start + window_seconds
      BY <1>1, <1>5, RateAssumption DEF Request, CountRequest, Refused, WindowOver, Elapsed
    <2>2. RateTypeOK'
      <3>1. /\ tick' \in Nat /\ request_count' \in 0..max_requests
            /\ window_start' \in 0..Now'
        BY <1>1, <2>1, RateAssumption
      <3> QED
        BY <2>1, <1>7, <3>1 DEF RateTypeOK
    <2>3. InWindow' = InWindow \cup {n} /\ n \notin InWindow
      BY <1>1, <2>1, <1>7 DEF InWindow
    <2>4. Cardinality(InWindow') = request_count'
      BY <1>3, <2>1, <2>3, FS_AddElement
    <2>5. \A p \in Int : Before(p)' = Before(p)
      BY <1>1, <2>1, <1>7 DEF Before
    <2>6. \A i \in Requests' :
             granted'[i] <= tick' /\ Second(i)' < window_start' + window_seconds
      <3>1. Second(n)' < window_start' + window_seconds /\ granted'[n] <= tick'
        <4>1. Second(n)' = Now /\ granted'[n] = tick
          BY <2>1, <1>7
        <4>2. granted'[n] <= tick'
          BY <1>1, <4>1
        <4> QED
          BY <1>1, <2>1, <4>1, <4>2
      <3>2. \A i \in Requests : granted'[i] <= tick' /\ Second(i)' < window_start' + window_seconds
        BY <1>1, <1>8, <2>1, <1>7
      <3> QED
        BY <2>1, <1>7, <3>1, <3>2
    <2> QED
      BY <2>1, <2>2, <2>4, <2>5, <2>6 DEF WindowOK
  <1>6. CASE WindowOver
    <2>1. /\ granted' = Append(granted, tick) /\ window_start' = Now
          /\ request_count' = 1 /\ closed' \in BOOLEAN
          /\ window_start + window_seconds <= Now
      BY <1>1, <1>6, RateAssumption DEF Request, CountRequest, Refused, WindowOver, Elapsed
    <2>2. RateTypeOK'
      BY <1>1, <2>1, <1>7, RateAssumption DEF RateTypeOK
    <2>3. \A i \in Requests : Second(i) < Now
      BY <1>1, <1>2, <2>1, RateAssumption DEF WindowOK
    <2>4. InWindow' = {n}
      BY <1>1, <1>2, <2>1, <2>3, <1>7 DEF InWindow
    <2> PICK p \in Int : p = window_start
      BY <1>1
    <2>5. Before(p)' = InWindow
      BY <1>1, <1>2, <2>1, <2>3, <1>7 DEF Before, InWindow
    <2>6. \A i \in Requests' :
             granted'[i] <= tick' /\ Second(i)' < window_start' + window_seconds
      <3>1. Second(n)' < window_start' + window_seconds /\ granted'[n] <= tick'
        <4>1. Second(n)' = Now /\ granted'[n] = tick
          BY <2>1, <1>7
        <4>2. granted'[n] <= tick'
          BY <1>1, <4>1
        <4> QED
          BY <1>1, <2>1, <4>1, <4>2, RateAssumption
      <3>2. \A i \in Requests : granted'[i] <= tick' /\ Second(i)' < window_start' + window_seconds
        <4>1. \A i \in Requests : granted'[i] = granted[i] /\ Second(i)' = Second(i)
          BY <2>1, <1>7
        <4>2. \A i \in Requests : Second(i) < Now + window_seconds
          BY <1>1, <1>2, <2>3, RateAssumption
        <4> QED
          BY <1>1, <1>8, <2>1, <4>1, <4>2
      <3> QED
        BY <2>1, <1>7, <3>1, <3>2
    <2>7. Cardinality(InWindow') = request_count'
      BY <2>1, <2>4, FS_Singleton
    <2> QED
      BY <1>1, <1>3, <2>1, <2>2, <2>5, <2>6, <2>7 DEF WindowOK
  <1> QED
    BY <1>4, <1>5, <1>6

LEMMA WindowStep == WindowOK /\ [RateNext]_rateVars => WindowOK'
  <1> SUFFICES ASSUME WindowOK, UNCHANGED rateVars PROVE WindowOK'
    BY TickKeepsWindows, RequestKeepsWindows DEF RateNext
  <1> QED
    BY DEF rateVars, limiterVars, WindowOK, RateTypeOK, Requests, InWindow, Before,
           Second, Seconds, Now

LEMMA WindowAlways == RateSpec => []WindowOK
  BY WindowInit, WindowStep, PTL DEF RateSpec

(* rate_limiter_check: its counter is the number of requests let through   *)
(* since the window began.                                                 *)
THEOREM CounterIsExact == RateSpec => []CountsItsWindow
  <1>1. WindowOK => CountsItsWindow
    BY DEF WindowOK, CountsItsWindow, InWindow, Requests, Second
  <1> QED
    BY <1>1, WindowAlways, PTL

-----------------------------------------------------------------------------
(* Any stretch as long as a window.                                        *)

Bounded == \A t \in Int : Cardinality(Within(t)) <= 2 * max_requests

OpenBounded ==
    \A t \in Int : t > tick - WindowTicks => Cardinality(Within(t)) <= 2 * max_requests

LEMMA OpenStretch == WindowOK => OpenBounded
  BY TwoWindowsCover DEF OpenBounded

LEMMA BoundedStep == WindowOK /\ Bounded /\ [RateNext]_rateVars => Bounded'
  <1> SUFFICES ASSUME WindowOK, Bounded, [RateNext]_rateVars, NEW t \in Int
               PROVE  Cardinality(Within(t)') <= 2 * max_requests
    BY DEF Bounded
  <1>0. WindowOK' => OpenBounded'
    BY OpenStretch, PTL
  <1>1. CASE granted' = granted
    BY <1>1 DEF Bounded, Within, Requests
  <1>3. PICK n \in Nat : n = Len(granted) + 1
    BY RequestsFinite DEF WindowOK
  <1>2. CASE granted' # granted
    <2>1. granted' = Append(granted, tick) /\ tick' = tick /\ tick \in Nat
      BY <1>2 DEF RateNext, Request, Tick, rateVars, WindowOK, RateTypeOK
    <2>2. WindowOK'
      BY WindowStep
    <2>3. CASE t > tick - WindowTicks
      BY <1>0, <2>1, <2>2, <2>3 DEF OpenBounded
    <2>4. CASE t <= tick - WindowTicks
      <3>1. WindowTicks \in Int
        BY RateAssumption DEF WindowTicks
      <3>2. Within(t)' = Within(t)
        <4>1. /\ Requests' = Requests \cup {n} /\ granted'[n] = tick
              /\ \A i \in Requests : granted'[i] = granted[i]
          BY <1>3, <2>1, NewRequest
        <4>2. ~ tick < t + WindowTicks
          BY <2>1, <2>4, <3>1
        <4> QED
          BY <4>1, <4>2 DEF Within, WindowTicks
      <3> QED
        BY <3>2 DEF Bounded
    <2> QED
      BY <2>1, <2>3, <2>4, RateAssumption DEF WindowTicks
  <1> QED
    BY <1>1, <1>2

(* rate_limiter_check: at most twice max_requests get through in any       *)
(* stretch of window_seconds, wherever it starts within a second.          *)
THEOREM TwoWindowsAtMost == RateSpec => []AtMostTwoWindows
  <1>1. RateInit => Bounded
    BY FS_EmptySet, RateAssumption DEF RateInit, Bounded, Within, Requests
  <1>2. WindowOK /\ Bounded => AtMostTwoWindows
    BY DEF WindowOK, RateTypeOK, Bounded, AtMostTwoWindows, GrantedWithin, Within, Requests
  <1> QED
    BY <1>1, <1>2, WindowAlways, BoundedStep, PTL DEF RateSpec
=============================================================================
