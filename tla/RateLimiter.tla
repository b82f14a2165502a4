---------------------------- MODULE RateLimiter ----------------------------
(***************************************************************************)
(* The rate limiter of one connection (rate_limiter.c), with the clock it  *)
(* reads and a client that may send a request at any moment.               *)
(*                                                                         *)
(* time(NULL) counts whole seconds, requests arrive at finer instants, so  *)
(* the clock runs in ticks and the limiter sees their seconds.             *)
(***************************************************************************)
EXTENDS Integers, Sequences, FiniteSets

CONSTANTS
    max_requests,     \* requests allowed per window (5)
    window_seconds,   \* its length (1)
    TicksPerSecond,   \* resolution of the model's clock
    MaxTicks          \* bound on the clock

ASSUME RateAssumption ==
    /\ max_requests \in Nat \ {0}
    /\ window_seconds \in Nat \ {0}
    /\ TicksPerSecond \in Nat \ {0}
    /\ MaxTicks \in Nat

VARIABLES
    tick,             \* the instant
    request_count,    \* requests counted in the present window
    window_start,     \* the second it started
    closed,           \* a request was refused: handle_client ends the connection
    granted           \* history: the instants of the requests let through

limiterVars == <<request_count, window_start>>
rateVars == <<tick, limiterVars, closed, granted>>

(* time(NULL) *)
Seconds(t) == t \div TicksPerSecond
Now == Seconds(tick)

(* Instants are counted from the call of rate_limiter_init, which comes    *)
(* anywhere within a second.                                               *)
RateInit ==
    /\ tick \in 0..(TicksPerSecond - 1)
    /\ request_count = 0
    /\ window_start = Now
    /\ closed = FALSE
    /\ granted = << >>

Elapsed == Now - window_start

(* Mutant of WindowOver: the last second still belongs to the old window.  *)
WindowOverLate == Elapsed > window_seconds

WindowOver == Elapsed >= window_seconds

(* Mutant of Refused: the counter is compared after one request too many.  *)
RefusedLate == ~WindowOver /\ request_count > max_requests

Refused == ~WindowOver /\ request_count >= max_requests

(* Mutant of CountRequest: the request that opens a window is not counted. *)
CountRequestFromZero ==
    \/ /\ WindowOver
       /\ request_count' = 0
       /\ window_start' = Now
    \/ /\ ~WindowOver /\ ~Refused
       /\ request_count' = request_count + 1
       /\ UNCHANGED window_start
    \/ /\ Refused
       /\ UNCHANGED limiterVars

(* rate_limiter_check; it returns ~Refused.                                *)
CountRequest ==
    \/ /\ WindowOver
       /\ request_count' = 1
       /\ window_start' = Now
    \/ /\ ~WindowOver /\ ~Refused
       /\ request_count' = request_count + 1
       /\ UNCHANGED window_start
    \/ /\ Refused
       /\ UNCHANGED limiterVars

(* A request comes in; handle_client closes the connection on a refusal.   *)
Request ==
    /\ ~closed
    /\ CountRequest
    /\ closed' = Refused
    /\ granted' = IF Refused THEN granted ELSE Append(granted, tick)
    /\ UNCHANGED tick

Tick ==
    /\ tick < MaxTicks
    /\ tick' = tick + 1
    /\ UNCHANGED <<limiterVars, closed, granted>>

RateNext == Request \/ Tick

RateSpec == RateInit /\ [][RateNext]_rateVars

-----------------------------------------------------------------------------
(* Properties.                                                             *)

RateTypeOK ==
    /\ tick \in Nat
    /\ request_count \in 0..max_requests
    /\ window_start \in 0..Now
    /\ closed \in BOOLEAN
    /\ granted \in Seq(Nat)

GrantedWithin(from, to) ==
    Cardinality({i \in DOMAIN granted : from <= granted[i] /\ granted[i] < to})

(* The counter is the number of requests let through since the window      *)
(* began: none is forgotten when the window moves, none counted twice.     *)
CountsItsWindow ==
    request_count =
        Cardinality({i \in DOMAIN granted : Seconds(granted[i]) >= window_start})

(* In any stretch of time as long as a window at most two windows' worth   *)
(* of requests gets through, wherever it starts.                           *)
WindowTicks == window_seconds * TicksPerSecond
AtMostTwoWindows ==
    \A t \in 0..tick : GrantedWithin(t, t + WindowTicks) <= 2 * max_requests
=============================================================================
