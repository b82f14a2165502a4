-------------------------- MODULE GameClientProofs --------------------------
(***************************************************************************)
(* Theorems about GameClient, for all intervals that satisfy its two       *)
(* assumptions: nobody who watches is dropped, nobody unhurried refused.   *)
(***************************************************************************)
EXTENDS GameClient, TLAPS

(* What each step does, for proofs that go through all of them.            *)
LEMMA Steps ==
  ASSUME [Next]_vars
  PROVE  \/ PollEnds \/ OtherKey \/ SpaceKey \/ RequestAttack \/ AttackReturns
         \/ SendAttack \/ AttackAnswered \/ LeaveScreen \/ NextRound
         \/ HeartbeatAnswered
         \/ FirstHeartbeat \/ FirstAnswered \/ TakeRequest \/ NetAttackAnswered
         \/ NetHeartbeatAnswered \/ NetWakes \/ Shoot \/ ShotAnswered
         \/ PauseEnds \/ ServerTakes \/ Tick
         \/ UNCHANGED vars
  BY DEF Next, UIStep, NetStep

(* The intervals, one by one.                                              *)
LEMMA Intervals ==
    /\ TicksPerSecond \in Nat /\ TicksPerSecond > 0
    /\ Poll \in Nat /\ FastPoll \in Nat /\ FastPoll > 0
    /\ DiceTicks \in Nat /\ DiceTicks > 0
    /\ HeartbeatTicks \in Nat /\ HeartbeatTicks > 0
    /\ StressTicks \in Nat /\ StressTicks > 0
    /\ MaxRequests \in Nat /\ ReceiveTimeout \in Nat /\ MaxLag \in Nat
  <1>1. TicksPerSecond \in Nat /\ TicksPerSecond > 0
    BY ClientAssumption
  <1>2. Poll \in Nat /\ FastPoll \in Nat /\ FastPoll > 0
    BY ClientAssumption
  <1>3. DiceTicks \in Nat /\ DiceTicks > 0
    BY ClientAssumption
  <1>4. /\ HeartbeatTicks \in Nat /\ HeartbeatTicks > 0
        /\ StressTicks \in Nat /\ StressTicks > 0
    BY ClientAssumption
  <1>5. MaxRequests \in Nat /\ ReceiveTimeout \in Nat /\ MaxLag \in Nat
    BY ClientAssumption
  <1> QED
    BY <1>1, <1>2, <1>3, <1>4, <1>5

-----------------------------------------------------------------------------
(* Types.  A timer has run out at most MaxLag ticks before it is noticed.  *)

ValuesOK ==
    /\ mode \in {"threaded", "single", "stress"}
    /\ line \in {"idle", "request", "answer"} /\ closed \in {"no", "refused", "silent"}
    /\ ui_timer \in Int /\ net_timer \in Int /\ line_timer \in Int
    /\ poll \in {Poll, FastPoll} /\ idle_ticks \in 0..5
    /\ phase \in 0..(TicksPerSecond - 1)
    /\ request_count \in 0..MaxRequests /\ window_start \in {-1, 0}
    /\ silence \in Nat

FlagsOK ==
    /\ attack_requested \in BOOLEAN /\ attack_completed \in BOOLEAN
    /\ hurried \in BOOLEAN /\ screened \in BOOLEAN

InTime == ui_timer >= -MaxLag /\ net_timer >= -MaxLag /\ line_timer >= -MaxLag

(* Who is where in each mode, and whose the exchange is.  An attack of the *)
(* threaded client is pending exactly while its player waits for it.       *)
Threaded ==
    /\ ui \in {"loop", "dice", "waiting", "next", "screen", "victory"}
    /\ net \in {"first", "opening", "take", "attack", "heartbeat", "sleep"}
    /\ line = "idle" <=> net \in {"first", "take", "sleep"}
    /\ idle_ticks = 0
    /\ attack_requested \/ net = "attack" <=> ui = "waiting" /\ ~attack_completed
    /\ ~(attack_requested /\ net = "attack")

Single ==
    /\ net = "none" /\ ~attack_requested
    /\ ui \in {"loop", "dice", "attack", "next", "heartbeat", "screen", "victory"}
    /\ line # "idle" <=> ui \in {"attack", "heartbeat"}
    /\ ui = "heartbeat" => idle_ticks = 0

Stress ==
    /\ ui = "none" /\ net \in {"shoot", "shot", "pause"} /\ ~attack_requested
    /\ line = "idle" <=> net # "shot"

Roles ==
    /\ mode = "threaded" => Threaded
    /\ mode = "single" => Single
    /\ mode = "stress" => Stress

-----------------------------------------------------------------------------
(* The clock: one tick later, or the next second.                          *)
LEMMA Division ==
    ASSUME NEW d \in Nat \ {0}, NEW t \in 0..(d - 1)
    PROVE  /\ t \div d = 0
           /\ t + 1 < d => (t + 1) % d = t + 1
           /\ t + 1 = d => (t + 1) % d = 0
  OBVIOUS

LEMMA TickPhase ==
    ASSUME ValuesOK, Tick
    PROVE  \/ /\ phase' = phase + 1 /\ phase' < TicksPerSecond
              /\ UNCHANGED <<request_count, window_start>>
           \/ phase' = 0 /\ window_start' = -1 /\ UNCHANGED request_count
  <1>1. phase \in 0..(TicksPerSecond - 1) /\ TicksPerSecond \in Nat \ {0}
    BY ClientAssumption DEF ValuesOK
  <1>2. /\ phase' = (phase + 1) % TicksPerSecond /\ UNCHANGED request_count
        /\ window_start' = IF phase' = 0 THEN -1 ELSE window_start
    BY DEF Tick
  <1>3. phase + 1 < TicksPerSecond \/ phase + 1 = TicksPerSecond
    BY <1>1
  <1>4. /\ phase + 1 < TicksPerSecond => (phase + 1) % TicksPerSecond = phase + 1
        /\ phase + 1 = TicksPerSecond => (phase + 1) % TicksPerSecond = 0
    BY <1>1, Division
  <1> QED
    BY <1>1, <1>2, <1>3, <1>4

(* The limiter.  What it has counted in the present second.                *)
Count == IF window_start = 0 THEN request_count ELSE 0

LEMMA ServerCounts ==
    ASSUME ValuesOK, ServerTakes
    PROVE  /\ request_count' \in 0..MaxRequests /\ window_start' \in {-1, 0}
           /\ Count < MaxRequests => Count' = Count + 1 /\ UNCHANGED closed
           /\ closed' \in {closed, "refused"}
  <1>1. phase \div TicksPerSecond = 0
    BY ClientAssumption, Division DEF ValuesOK
  <1>2. Limiter!Now = 0
    BY <1>1 DEF Limiter!Now, Limiter!Seconds
  <1>3. MaxRequests \in Nat \ {0} /\ window_start \in {-1, 0}
        /\ request_count \in 0..MaxRequests
    BY ClientAssumption DEF ValuesOK
  <1>4. Limiter!WindowOver <=> window_start = -1
    BY <1>2, <1>3 DEF Limiter!WindowOver, Limiter!Elapsed
  <1>5. Limiter!Refused <=> window_start = 0 /\ request_count >= MaxRequests
    BY <1>3, <1>4 DEF Limiter!Refused
  <1>6. /\ Limiter!CountRequest
        /\ closed' = IF Limiter!Refused THEN "refused" ELSE closed
    BY DEF ServerTakes
  <1>7. CASE window_start = -1
    <2>1. request_count' = 1 /\ window_start' = 0
      BY <1>2, <1>4, <1>5, <1>6, <1>7 DEF Limiter!CountRequest
    <2> QED
      BY <1>3, <1>5, <1>6, <1>7, <2>1 DEF Count
  <1>8. CASE window_start = 0 /\ request_count < MaxRequests
    <2>1. request_count' = request_count + 1 /\ window_start' = window_start
      BY <1>3, <1>4, <1>5, <1>6, <1>8 DEF Limiter!CountRequest
    <2> QED
      BY <1>3, <1>5, <1>6, <1>8, <2>1 DEF Count
  <1>9. CASE window_start = 0 /\ request_count >= MaxRequests
    <2>1. UNCHANGED <<request_count, window_start>>
      BY <1>3, <1>4, <1>5, <1>6, <1>9 DEF Limiter!CountRequest, Limiter!limiterVars
    <2> QED
      BY <1>3, <1>5, <1>6, <1>9, <2>1 DEF Count
  <1> QED
    BY <1>3, <1>7, <1>8, <1>9

-----------------------------------------------------------------------------
LEMMA PlacesInit == Init => ValuesOK /\ FlagsOK /\ InTime /\ Roles
  <1> SUFFICES ASSUME Init PROVE ValuesOK /\ FlagsOK /\ InTime /\ Roles
    OBVIOUS
  <1>1. FlagsOK
    BY Zenon DEF Init, FlagsOK
  <1>2. ValuesOK
    BY Intervals DEF Init, ValuesOK
  <1>3. InTime
    BY Intervals DEF Init, InTime
  <1>4. Roles
    BY DEF Init, Roles, Threaded, Single, Stress
  <1> QED
    BY <1>1, <1>2, <1>3, <1>4

LEMMA FlagsStep == FlagsOK /\ [Next]_vars => FlagsOK'
  <1> SUFFICES ASSUME FlagsOK, [Next]_vars PROVE FlagsOK'
    OBVIOUS
  <1> USE DEF FlagsOK, uiVars, sharedVars, serverVars
  <1>1. CASE PollEnds \/ OtherKey \/ SpaceKey \/ RequestAttack \/ AttackReturns
    BY <1>1, Zenon DEF PollEnds, OtherKey, SpaceKey, RequestAttack, AttackReturns
  <1>2. CASE SendAttack \/ AttackAnswered \/ LeaveScreen \/ NextRound \/ HeartbeatAnswered
    BY <1>2, Zenon DEF SendAttack, AttackAnswered, LeaveScreen, NextRound, HeartbeatAnswered
  <1>3. CASE FirstHeartbeat \/ FirstAnswered \/ TakeRequest \/ NetAttackAnswered
    BY <1>3, Zenon DEF FirstHeartbeat, FirstAnswered, TakeRequest, NetAttackAnswered
  <1>4. CASE NetHeartbeatAnswered \/ NetWakes \/ Shoot \/ ShotAnswered \/ PauseEnds
    BY <1>4, Zenon DEF NetHeartbeatAnswered, NetWakes, Shoot, ShotAnswered, PauseEnds
  <1>5. CASE ServerTakes \/ Tick \/ UNCHANGED vars
    BY <1>5, Zenon DEF ServerTakes, Tick, vars
  <1> QED
    BY <1>1, <1>2, <1>3, <1>4, <1>5, Steps

LEMMA ValuesStep == ValuesOK /\ [Next]_vars => ValuesOK'
  <1> SUFFICES ASSUME ValuesOK, [Next]_vars PROVE ValuesOK'
    OBVIOUS
  <1> USE Intervals
      DEF ValuesOK, uiVars, netVars, lineVars,
          limiterVars, serverVars, UIGoes, OrScreen, NetGoes, Send, Receive
  <1>1. CASE PollEnds \/ SpaceKey \/ LeaveScreen \/ OtherKey \/ RequestAttack
    BY <1>1 DEF PollEnds, SpaceKey, LeaveScreen, OtherKey, RequestAttack
  <1>2. CASE AttackReturns \/ SendAttack \/ AttackAnswered
    BY <1>2 DEF AttackReturns, SendAttack, AttackAnswered
  <1>3. CASE NextRound \/ HeartbeatAnswered
    BY <1>3 DEF NextRound, HeartbeatAnswered
  <1>4. CASE FirstHeartbeat \/ FirstAnswered
    BY <1>4 DEF FirstHeartbeat, FirstAnswered
  <1>10. CASE TakeRequest
    BY <1>10 DEF TakeRequest
  <1>11. CASE NetAttackAnswered
    BY <1>11 DEF NetAttackAnswered
  <1>5. CASE NetHeartbeatAnswered \/ NetWakes
    BY <1>5 DEF NetHeartbeatAnswered, NetWakes
  <1>9. CASE Shoot \/ ShotAnswered \/ PauseEnds
    BY <1>9 DEF Shoot, ShotAnswered, PauseEnds
  <1>6. CASE ServerTakes
    <2>1. /\ line' = "answer" /\ line_timer' = 0 /\ silence' = 0
          /\ UNCHANGED <<mode, ui, ui_timer, net, net_timer, poll, idle_ticks, phase>>
      BY <1>6 DEF ServerTakes
    <2> QED
      BY <1>6, <2>1, ServerCounts
  <1>7. CASE Tick
    <2>1. /\ phase' \in 0..(TicksPerSecond - 1) /\ window_start' \in {-1, 0}
          /\ UNCHANGED request_count
      BY <1>7, TickPhase
    <2>2. /\ ui_timer' \in Int /\ net_timer' \in Int /\ line_timer' \in Int
          /\ silence' \in Nat /\ closed' \in {"no", "refused", "silent"}
          /\ UNCHANGED <<mode, ui, net, poll, idle_ticks, line>>
      BY <1>7 DEF Tick
    <2> QED
      BY <2>1, <2>2
  <1>8. CASE UNCHANGED vars
    BY <1>8 DEF vars
  <1> QED
    BY <1>1, <1>2, <1>3, <1>4, <1>5, <1>6, <1>7, <1>8, <1>9, <1>10, <1>11, Steps

LEMMA InTimeStep == ValuesOK /\ InTime /\ [Next]_vars => InTime'
  <1> SUFFICES ASSUME ValuesOK, InTime, [Next]_vars PROVE InTime'
    OBVIOUS
  <1> USE Intervals
      DEF InTime, ValuesOK, uiVars, netVars, lineVars, UIGoes, OrScreen,
          NetGoes, Send, Receive
  <1>1. CASE PollEnds \/ SpaceKey \/ LeaveScreen \/ OtherKey \/ RequestAttack
    BY <1>1 DEF PollEnds, SpaceKey, LeaveScreen, OtherKey, RequestAttack
  <1>2. CASE AttackReturns \/ SendAttack \/ AttackAnswered
    BY <1>2 DEF AttackReturns, SendAttack, AttackAnswered
  <1>3. CASE NextRound \/ HeartbeatAnswered
    BY <1>3 DEF NextRound, HeartbeatAnswered
  <1>4. CASE FirstHeartbeat \/ FirstAnswered
    BY <1>4 DEF FirstHeartbeat, FirstAnswered
  <1>10. CASE TakeRequest
    BY <1>10 DEF TakeRequest
  <1>11. CASE NetAttackAnswered
    BY <1>11 DEF NetAttackAnswered
  <1>5. CASE NetHeartbeatAnswered \/ NetWakes
    BY <1>5 DEF NetHeartbeatAnswered, NetWakes
  <1>9. CASE Shoot \/ ShotAnswered \/ PauseEnds
    BY <1>9 DEF Shoot, ShotAnswered, PauseEnds
  <1>6. CASE ServerTakes
    BY <1>6 DEF ServerTakes
  <1>7. CASE Tick
    <2>1. /\ line # "idle" => line_timer > -MaxLag
          /\ UITimed => ui_timer > -MaxLag
          /\ NetTimed => net_timer > -MaxLag
          /\ ui_timer' = IF UITimed THEN ui_timer - 1 ELSE ui_timer
          /\ net_timer' = IF NetTimed THEN net_timer - 1 ELSE net_timer
          /\ line_timer' = IF line # "idle" THEN line_timer - 1 ELSE line_timer
      BY <1>7 DEF Tick
    <2> QED
      BY <2>1
  <1>8. CASE UNCHANGED vars
    BY <1>8 DEF vars
  <1> QED
    BY <1>1, <1>2, <1>3, <1>4, <1>5, <1>6, <1>7, <1>8, <1>9, <1>10, <1>11, Steps

LEMMA RolesStep == ValuesOK /\ Roles /\ [Next]_vars => Roles'
  <1> SUFFICES ASSUME ValuesOK, Roles, [Next]_vars PROVE Roles'
    OBVIOUS
  <1>0. mode \in {"threaded", "single", "stress"}
    BY DEF ValuesOK
  <1> USE <1>0 DEF Roles, Threaded, Single, Stress, uiVars, netVars, sharedVars,
          lineVars, UIGoes, OrScreen, NetGoes, Send, Receive
  <1>1. CASE PollEnds \/ SpaceKey \/ OtherKey
    BY <1>1 DEF PollEnds, SpaceKey, OtherKey
  <1>2. CASE RequestAttack \/ AttackReturns
    BY <1>2 DEF RequestAttack, AttackReturns
  <1>3. CASE SendAttack \/ AttackAnswered \/ LeaveScreen
    BY <1>3 DEF SendAttack, AttackAnswered, LeaveScreen
  <1>4. CASE NextRound \/ HeartbeatAnswered
    BY <1>4 DEF NextRound, HeartbeatAnswered
  <1>5. CASE FirstHeartbeat \/ FirstAnswered
    BY <1>5 DEF FirstHeartbeat, FirstAnswered
  <1>6. CASE TakeRequest
    BY <1>6 DEF TakeRequest
  <1>7. CASE NetAttackAnswered
    BY <1>7 DEF NetAttackAnswered
  <1>8. CASE NetHeartbeatAnswered \/ NetWakes
    BY <1>8 DEF NetHeartbeatAnswered, NetWakes
  <1>9. CASE Shoot \/ ShotAnswered \/ PauseEnds
    BY <1>9 DEF Shoot, ShotAnswered, PauseEnds
  <1>10. CASE ServerTakes \/ Tick \/ UNCHANGED vars
    BY <1>10 DEF ServerTakes, Tick, vars
  <1> QED
    BY <1>1, <1>2, <1>3, <1>4, <1>5, <1>6, <1>7, <1>8, <1>9, <1>10, Steps

-----------------------------------------------------------------------------
(* Silence.  In each place: how long it can have lasted.                   *)

Rest == IF mode = "threaded" THEN HeartbeatTicks ELSE StressTicks

NetSilence ==
    /\ line = "answer" => silence <= -line_timer
    /\ line = "request" => silence <= Rest + 3 * MaxLag - line_timer
    /\ net \in {"sleep", "pause"} => silence <= Rest + MaxLag - net_timer
    /\ net \in {"first", "take", "shoot"} => silence <= Rest + 2 * MaxLag - net_timer

Rounds(n) == n * (Poll + 2 * MaxLag)

UISilence ==
    /\ line = "answer" => silence <= -line_timer
    /\ ui \in {"screen", "victory"} => silence <= MaxLag
    /\ ui = "loop" => silence <= Rounds(idle_ticks) + Poll + MaxLag - ui_timer
    /\ ui = "next" => silence <= Rounds(idle_ticks) + Poll + 2 * MaxLag - ui_timer
    /\ ui = "dice" =>
         silence <= Rounds(idle_ticks) + Poll + DiceTicks + 2 * MaxLag - ui_timer
    /\ line = "request" =>
         silence <= Rounds(5) + Poll + DiceTicks + 3 * MaxLag - line_timer

SilenceInv ==
    /\ mode = "single" /\ ~screened => UISilence
    /\ mode # "single" => NetSilence

LEMMA RoundsGrow ==
    ASSUME NEW n \in 0..5
    PROVE  /\ Rounds(n) \in Nat /\ Rounds(0) = 0
           /\ Rounds(n) <= Rounds(5) /\ Rounds(5) = 5 * Poll + 10 * MaxLag
           /\ n < 5 => Rounds(n + 1) = Rounds(n) + Poll + 2 * MaxLag
  <1>1. n \in {0, 1, 2, 3, 4, 5}
    OBVIOUS
  <1>2. Poll \in Nat /\ MaxLag \in Nat
    BY Intervals
  <1> QED
    BY <1>1, <1>2 DEF Rounds

LEMMA SilenceInit == Init => SilenceInv
  BY Intervals, RoundsGrow DEF Init, SilenceInv, NetSilence, UISilence, Rest

(* The UI's steps are the single-threaded client's.                        *)
LEMMA UISilenceStep ==
    ASSUME ValuesOK, InTime, Roles, SilenceInv, UIStep
    PROVE  SilenceInv'
  <1>1. UNCHANGED <<mode, silence, screened, net, net_timer>>
    BY DEF UIStep, PollEnds, OtherKey, SpaceKey, RequestAttack, AttackReturns,
           SendAttack, AttackAnswered, LeaveScreen, NextRound, HeartbeatAnswered,
           netVars, serverVars
  <1>2. CASE mode # "single"
    <2>1. UNCHANGED <<line, line_timer>>
      BY <1>2
         DEF Roles, Threaded, Stress, ValuesOK, UIStep, PollEnds, OtherKey, SpaceKey,
             RequestAttack, AttackReturns, SendAttack, AttackAnswered, LeaveScreen,
             NextRound, HeartbeatAnswered, UIGoes, OrScreen, lineVars
    <2> QED
      BY <1>1, <1>2, <2>1 DEF SilenceInv, NetSilence, Rest
  <1>3. CASE mode = "single" /\ screened
    BY <1>1, <1>3 DEF SilenceInv
  <1>4. CASE mode = "single" /\ ~screened
    <2>1. UISilence
      BY <1>4 DEF SilenceInv
    <2>2. UISilence'
      <3>1. /\ idle_ticks \in 0..5 /\ silence \in Nat /\ poll \in Nat /\ poll <= Poll
            /\ ui_timer \in Int /\ line_timer \in Int
            /\ ui_timer >= -MaxLag /\ line_timer >= -MaxLag
        BY Intervals, PaceAssumption DEF ValuesOK, InTime
      <3>2. /\ Rounds(idle_ticks) \in Nat /\ Rounds(0) = 0
            /\ Rounds(5) \in Nat /\ Rounds(idle_ticks) <= Rounds(5)
            /\ idle_ticks < 5 =>
                 Rounds(idle_ticks + 1) = Rounds(idle_ticks) + Poll + 2 * MaxLag
        BY <3>1, RoundsGrow
      <3>3. /\ ui \in {"loop", "dice", "attack", "next", "heartbeat", "screen", "victory"}
            /\ line # "idle" <=> ui \in {"attack", "heartbeat"}
            /\ ui = "heartbeat" => idle_ticks = 0
        BY <1>4 DEF Roles, Single
      <3> USE Intervals, <1>1, <1>4, <2>1, <3>1, <3>2, <3>3
          DEF UISilence, uiVars, lineVars, UIGoes, OrScreen, Send, Receive
      <3> HIDE DEF Rounds
      <3>4. CASE PollEnds \/ OtherKey \/ SpaceKey
        BY <3>4 DEF PollEnds, OtherKey, SpaceKey
      <3>5. CASE SendAttack
        BY <3>5 DEF SendAttack
      <3>6. CASE AttackAnswered \/ LeaveScreen
        BY <3>6 DEF AttackAnswered, LeaveScreen
      <3>7. CASE NextRound
        BY <3>7 DEF NextRound
      <3>8. CASE HeartbeatAnswered
        BY <3>8 DEF HeartbeatAnswered
      <3>9. ~RequestAttack /\ ~AttackReturns
        BY DEF RequestAttack, AttackReturns
      <3> QED
        BY <3>4, <3>5, <3>6, <3>7, <3>8, <3>9 DEF UIStep
    <2> QED
      BY <1>1, <1>4, <2>2 DEF SilenceInv
  <1> QED
    BY <1>2, <1>3, <1>4

LEMMA NetSilenceStep ==
    ASSUME ValuesOK, InTime, Roles, SilenceInv, NetStep
    PROVE  SilenceInv'
  <1>1. UNCHANGED <<mode, silence>>
    BY DEF NetStep, FirstHeartbeat, FirstAnswered, TakeRequest, NetAttackAnswered,
           NetHeartbeatAnswered, NetWakes, Shoot, ShotAnswered, PauseEnds, serverVars
  <1>2. mode # "single"
    BY DEF Roles, Single, NetStep, FirstHeartbeat, FirstAnswered, TakeRequest,
           NetAttackAnswered, NetHeartbeatAnswered, NetWakes, Shoot, ShotAnswered,
           PauseEnds, NetGoes
  <1>3. NetSilence
    BY <1>2 DEF SilenceInv
  <1>4. NetSilence'
    <2>1. /\ silence \in Nat /\ net_timer \in Int /\ line_timer \in Int
          /\ net_timer >= -MaxLag /\ line_timer >= -MaxLag
          /\ mode \in {"threaded", "stress"}
      BY <1>2 DEF ValuesOK, InTime
    <2>2. Rest \in Nat /\ Rest' = Rest
      BY <1>1, Intervals DEF Rest
    <2>3. /\ mode = "threaded" => Rest = HeartbeatTicks
          /\ mode = "stress" => Rest = StressTicks
      BY DEF Rest
    <2> USE Intervals, <1>1, <1>3, <2>1, <2>2, <2>3
        DEF NetSilence, lineVars, NetGoes, Send, Receive
    <2>4. CASE FirstHeartbeat \/ FirstAnswered
      BY <2>4 DEF FirstHeartbeat, FirstAnswered
    <2>5. CASE TakeRequest
      BY <2>5 DEF TakeRequest
    <2>6. CASE NetAttackAnswered
      BY <2>6 DEF NetAttackAnswered
    <2>7. CASE NetHeartbeatAnswered
      <3>1. mode = "threaded"
        BY <2>7 DEF NetHeartbeatAnswered, Roles, Stress
      <3> QED
        BY <2>7, <3>1 DEF NetHeartbeatAnswered
    <2>8. CASE NetWakes \/ Shoot \/ PauseEnds
      BY <2>8 DEF NetWakes, Shoot, PauseEnds
    <2>9. CASE ShotAnswered
      <3>1. mode = "stress"
        BY <2>9 DEF ShotAnswered, Roles, Threaded
      <3> QED
        BY <2>9, <3>1 DEF ShotAnswered
    <2> QED
      BY <2>4, <2>5, <2>6, <2>7, <2>8, <2>9 DEF NetStep
  <1> QED
    BY <1>1, <1>2, <1>4 DEF SilenceInv

LEMMA ServerSilenceStep ==
    ASSUME ValuesOK, Roles, SilenceInv, ServerTakes
    PROVE  SilenceInv'
  <1>1. /\ line = "request" /\ line' = "answer" /\ line_timer' = 0 /\ silence' = 0
        /\ UNCHANGED <<mode, ui, net>>
    BY DEF ServerTakes, uiVars, netVars
  <1>2. mode = "single" => ui \in {"attack", "heartbeat"}
    BY <1>1 DEF Roles, Single
  <1>3. mode # "single" => net \notin {"sleep", "pause", "first", "take", "shoot"}
    BY <1>1 DEF Roles, Threaded, Stress, ValuesOK
  <1> QED
    BY <1>1, <1>2, <1>3 DEF SilenceInv, UISilence, NetSilence

(* A tick that would make the silence too long finds somebody late.        *)
LEMMA TickSilenceStep ==
    ASSUME ValuesOK, InTime, Roles, SilenceInv, Tick
    PROVE  /\ SilenceInv'
           /\ ~(mode = "single" /\ screened') => silence' < ReceiveTimeout
  <1>1. /\ silence' = silence + 1 /\ UNCHANGED <<mode, ui, net, line, idle_ticks>>
        /\ UITimed => ui_timer > -MaxLag /\ ui_timer' = ui_timer - 1
        /\ NetTimed => net_timer > -MaxLag /\ net_timer' = net_timer - 1
        /\ line # "idle" => line_timer > -MaxLag /\ line_timer' = line_timer - 1
        /\ screened' = (screened \/ Screen)
    BY DEF Tick
  <1>2. /\ silence \in Nat /\ net_timer \in Int /\ line_timer \in Int /\ ui_timer \in Int
        /\ idle_ticks \in 0..5 /\ line \in {"idle", "request", "answer"}
        /\ mode \in {"single", "threaded", "stress"}
    BY DEF ValuesOK
  <1>3. CASE mode # "single"
    <2>1. NetSilence
      BY <1>3 DEF SilenceInv
    <2>2. net \in {"sleep", "pause", "first", "take", "shoot"} => NetTimed
      BY DEF NetTimed
    <2>3. line = "idle" => net \in {"sleep", "pause", "first", "take", "shoot"}
      BY <1>2, <1>3 DEF Roles, Threaded, Stress
    <2>4. Rest \in {HeartbeatTicks, StressTicks} /\ Rest' = Rest
      BY <1>1 DEF Rest
    <2>5. NetSilence'
      BY <1>1, <1>2, <2>1, <2>2, <2>4, Intervals DEF NetSilence
    <2>6. silence' < ReceiveTimeout
      BY <1>1, <1>2, <2>1, <2>2, <2>3, <2>4, Intervals, PaceAssumption DEF NetSilence
    <2> QED
      BY <1>1, <1>3, <2>5, <2>6 DEF SilenceInv
  <1>4. CASE mode = "single" /\ screened'
    BY <1>1, <1>4 DEF SilenceInv
  <1>5. CASE mode = "single" /\ ~screened'
    <2>1. ~screened /\ ui \notin {"screen", "victory"}
      BY <1>1, <1>5, Zenon DEF Screen
    <2>2. UISilence
      BY <1>5, <2>1 DEF SilenceInv
    <2>3. ui \in {"loop", "dice", "next"} => UITimed
      BY DEF UITimed
    <2>4. line = "idle" => ui \in {"loop", "dice", "next"}
      BY <1>5, <2>1 DEF Roles, Single
    <2>5. /\ Rounds(idle_ticks) \in Nat /\ Rounds(idle_ticks) <= Rounds(5)
          /\ Rounds(5) = 5 * Poll + 10 * MaxLag
      BY <1>2, RoundsGrow
    <2> HIDE DEF Rounds
    <2>6. UISilence'
      BY <1>1, <1>2, <2>1, <2>2, <2>3, <2>5, Intervals DEF UISilence
    <2>7. silence' < ReceiveTimeout
      BY <1>1, <1>2, <2>2, <2>3, <2>4, <2>5, Intervals, PaceAssumption DEF UISilence
    <2> QED
      BY <1>1, <1>5, <2>6, <2>7 DEF SilenceInv
  <1> QED
    BY <1>3, <1>4, <1>5

PlacesInv == ValuesOK /\ FlagsOK /\ InTime /\ Roles

LEMMA PlacesStep == PlacesInv /\ [Next]_vars => PlacesInv'
  BY FlagsStep, ValuesStep, InTimeStep, RolesStep DEF PlacesInv

(* client.c, the requests between the threads: in each mode one thread at  *)
(* a time has an exchange with the server, the one that waits for its      *)
(* answer, and the threaded client has an attack pending exactly while its *)
(* player waits for it.                                                    *)
THEOREM OneExchangeAtATime == Spec => []Roles
  <1>1. Init => PlacesInv
    BY PlacesInit DEF PlacesInv
  <1>2. PlacesInv => Roles
    BY DEF PlacesInv
  <1> QED
    BY <1>1, <1>2, PlacesStep, PTL DEF Spec

LEMMA SilenceStep ==
    PlacesInv /\ SilenceInv /\ SilentOnlyBehindScreen /\ [Next]_vars =>
        SilenceInv' /\ SilentOnlyBehindScreen'
  <1> SUFFICES ASSUME PlacesInv, SilenceInv, SilentOnlyBehindScreen, [Next]_vars
               PROVE  SilenceInv' /\ SilentOnlyBehindScreen'
    OBVIOUS
  <1>0. ValuesOK /\ InTime /\ Roles
    BY DEF PlacesInv
  <1>1. CASE UIStep
    <2>1. UNCHANGED <<mode, screened, closed>>
      BY <1>1
         DEF UIStep, PollEnds, OtherKey, SpaceKey, RequestAttack, AttackReturns,
             SendAttack, AttackAnswered, LeaveScreen, NextRound, HeartbeatAnswered,
             serverVars
    <2> QED
      BY <1>0, <1>1, <2>1, UISilenceStep DEF SilentOnlyBehindScreen
  <1>2. CASE NetStep
    <2>1. UNCHANGED <<mode, screened, closed>>
      BY <1>2
         DEF NetStep, FirstHeartbeat, FirstAnswered, TakeRequest, NetAttackAnswered,
             NetHeartbeatAnswered, NetWakes, Shoot, ShotAnswered, PauseEnds, serverVars
    <2> QED
      BY <1>0, <1>2, <2>1, NetSilenceStep DEF SilentOnlyBehindScreen
  <1>3. CASE ServerTakes
    <2>1. closed' # "silent"
      BY <1>3 DEF ServerTakes, Open
    <2> QED
      BY <1>0, <1>3, <2>1, ServerSilenceStep DEF SilentOnlyBehindScreen
  <1>4. CASE Tick
    <2>1. closed' = "silent" => silence' >= ReceiveTimeout
      BY <1>4 DEF Tick, Open
    <2>2. ~(mode = "single" /\ screened') => silence' < ReceiveTimeout
      BY <1>0, <1>4, TickSilenceStep
    <2>3. silence' \in Nat /\ mode' = mode
      BY <1>0, <1>4 DEF ValuesOK, Tick
    <2> QED
      BY <1>0, <1>4, <2>1, <2>2, <2>3, TickSilenceStep, Intervals
         DEF SilentOnlyBehindScreen
  <1>5. CASE UNCHANGED vars
    BY <1>5
       DEF vars, uiVars, netVars, sharedVars, lineVars, serverVars, SilenceInv,
           UISilence, NetSilence, Rest, SilentOnlyBehindScreen
  <1> QED
    BY <1>1, <1>2, <1>3, <1>4, <1>5 DEF Next

(* client.c, the pauses of network_thread_func, stress_worker_thread and   *)
(* ui_game_loop, against the server's receive timeout: whoever is in the   *)
(* fight is heard of in time.                                              *)
THEOREM SilentBehindScreen == Spec => []SilentOnlyBehindScreen
  <1>1. Init => PlacesInv /\ SilenceInv /\ SilentOnlyBehindScreen
    BY PlacesInit, SilenceInit DEF Init, PlacesInv, SilentOnlyBehindScreen
  <1> QED
    BY <1>1, PlacesStep, SilenceStep, PTL DEF Spec

-----------------------------------------------------------------------------
(* The limiter.  Of n events at least gap ticks apart, the first in this   *)
(* second, the last can have come ticks into it.                           *)
Fits(n, gap, ticks) == n > 0 => (n - 1) * gap <= ticks

LEMMA FitsLonger ==
    ASSUME NEW n \in 0..4, NEW gap \in Nat, NEW t \in Int, NEW u \in Int,
           Fits(n, gap, t), t <= u
    PROVE  Fits(n, gap, u)
  BY DEF Fits

LEMMA FitsOneMore ==
    ASSUME NEW n \in 0..4, NEW gap \in Nat, NEW t \in Nat, Fits(n, gap, t - gap)
    PROVE  Fits(n + 1, gap, t)
  <1>1. n \in {0, 1, 2, 3, 4}
    OBVIOUS
  <1> QED
    BY <1>1 DEF Fits

LEMMA FitsNumbers ==
    ASSUME NEW n \in 0..4, NEW gap \in Nat, NEW t \in Int, Fits(n, gap, t)
    PROVE  /\ n = 1 => 0 <= t
           /\ n = 2 => gap <= t
           /\ n = 3 => 2 * gap <= t
           /\ n = 4 => 3 * gap <= t
  BY DEF Fits

(* How long ago the last attack was taken: at least the dice, once they    *)
(* are thrown.                                                             *)
AttackOut ==
    \/ attack_requested
    \/ line = "request" /\ (net = "attack" \/ ui = "attack")

SinceAttack ==
    IF ui = "dice" THEN DiceTicks - ui_timer
    ELSE IF AttackOut THEN DiceTicks ELSE 0

(* How far apart heartbeats are, or the attacks of the stress test.        *)
Gap == IF mode = "threaded" THEN HeartbeatTicks
       ELSE IF mode = "stress" THEN StressTicks ELSE 6 * FastPoll

(* How long ago the last one was taken: in the UI loop by the rounds since *)
(* and what the present one has taken, in a thread by its pause.           *)
Short(n) == n * FastPoll

Spent ==
    IF ui = "loop" THEN IF ui_timer < FastPoll THEN FastPoll - ui_timer ELSE 0
    ELSE IF ui = "dice" THEN DiceTicks - ui_timer
    ELSE IF ui = "attack" THEN IF line = "request" THEN DiceTicks ELSE FastPoll
    ELSE IF ui = "heartbeat" THEN IF line = "request" THEN 6 * FastPoll ELSE 0
    ELSE IF ui = "victory" THEN 0 ELSE FastPoll

SinceBeat ==
    IF mode = "single" THEN Short(idle_ticks) + Spent
    ELSE IF line = "answer" /\ net \in {"heartbeat", "shot"} THEN 0
    ELSE IF net \in {"sleep", "pause"} THEN Gap - net_timer ELSE Gap

(* A round with an attack in it is longer than others.  That counts if it  *)
(* began after a heartbeat of this second, as that of the second attack in *)
(* it must have.                                                           *)
Longer(a) == IF mode = "single" /\ a = 2 THEN DiceTicks - FastPoll ELSE 0

(* This second's requests: h heartbeats (in the stress test, its attacks), *)
(* a attacks, and f for the heartbeat that has no pause behind it.         *)
Paced(h, a, f) ==
    /\ Count = h + a + f
    /\ mode = "threaded" => h <= 2
    /\ mode # "threaded" => f = 0
    /\ mode = "stress" => a = 0
    /\ net = "first" \/ (net = "opening" /\ line = "request") => Count = 0
    /\ Fits(a, DiceTicks, phase - SinceAttack)
    /\ Fits(h, Gap, phase - SinceBeat - Longer(a))

Hurried == mode = "single" /\ hurried

InPace == \E h \in 0..4, a \in 0..2, f \in 0..1 : Paced(h, a, f)

PaceInv == ~Hurried => InPace

LEMMA ShortGrow ==
    ASSUME NEW n \in 0..5
    PROVE  /\ Short(n) \in Nat /\ Short(0) = 0 /\ Short(5) = 5 * FastPoll
           /\ n < 5 => Short(n + 1) = Short(n) + FastPoll
  <1>1. n \in {0, 1, 2, 3, 4, 5}
    OBVIOUS
  <1>2. FastPoll \in Nat
    BY Intervals
  <1> QED
    BY <1>1, <1>2 DEF Short

PaceTypesOK ==
    /\ SinceAttack \in Int /\ SinceBeat \in Int /\ Gap \in Nat /\ Count \in Nat
    /\ phase \in Nat /\ phase < TicksPerSecond
    /\ \A a \in 0..2 : Longer(a) \in Nat

LEMMA PaceTypes == ValuesOK => PaceTypesOK
  <1> SUFFICES ASSUME ValuesOK PROVE PaceTypesOK
    OBVIOUS
  <1>1. /\ ui_timer \in Int /\ net_timer \in Int /\ idle_ticks \in 0..5
        /\ request_count \in Nat /\ phase \in 0..(TicksPerSecond - 1)
    BY Intervals DEF ValuesOK
  <1>2. Short(idle_ticks) \in Nat
    BY <1>1, ShortGrow
  <1>3. Gap \in Nat
    BY Intervals DEF Gap
  <1>4. Spent \in Int
    BY <1>1, Intervals DEF Spent
  <1>5. SinceBeat \in Int
    BY <1>1, <1>2, <1>3, <1>4 DEF SinceBeat
  <1>6. SinceAttack \in Int
    BY <1>1, Intervals DEF SinceAttack
  <1>7. \A a \in 0..2 : Longer(a) \in Nat
    BY Intervals, PaceAssumption DEF Longer
  <1> QED
    BY <1>1, <1>3, <1>5, <1>6, <1>7, Intervals DEF Count, PaceTypesOK

LEMMA PaceTypesAfter == ValuesOK' => PaceTypesOK'
  BY PaceTypes, PTL

LEMMA PaceInit == Init => PaceInv
  <1> SUFFICES ASSUME Init PROVE PaceInv
    OBVIOUS
  <1>1. Count = 0
    BY DEF Init, Count
  <1>2. Paced(0, 0, 0)
    BY <1>1 DEF Paced, Fits
  <1> QED
    BY <1>2 DEF PaceInv, InPace

LEMMA LaterAndLess ==
    ASSUME NEW p \in Int, NEW s \in Int, NEW t \in Int, NEW n \in Nat, t <= s + n
    PROVE  p - s \in Int /\ (p + n) - t \in Int /\ p - s <= (p + n) - t
  OBVIOUS

(* Between two requests all this only grows older, as much as the second   *)
(* does.                                                                   *)
Ageing(n) ==
    /\ Count' = Count /\ phase' = phase + n /\ mode' = mode
    /\ SinceAttack' <= SinceAttack + n /\ SinceBeat' <= SinceBeat + n
    /\ net' = "first" \/ (net' = "opening" /\ line' = "request") =>
         net = "first" \/ (net = "opening" /\ line = "request")

LEMMA AgeingKeepsPace ==
    ASSUME ValuesOK, ValuesOK', PaceInv, Hurried => Hurried',
           NEW n \in Nat, Hurried' \/ Ageing(n)
    PROVE  PaceInv'
  <1> SUFFICES ASSUME ~Hurried'
               PROVE  InPace'
    BY DEF PaceInv
  <1>1. PICK h \in 0..4, a \in 0..2, f \in 0..1 : Paced(h, a, f)
    BY DEF PaceInv, InPace
  <1>2. Ageing(n)
    OBVIOUS
  <1>3. /\ Gap \in Nat /\ Gap' = Gap
        /\ Longer(a) \in Nat /\ Longer(a)' = Longer(a)
    BY <1>2, PaceTypes, Zenon DEF Ageing, Gap, Longer, PaceTypesOK
  <1>4. /\ SinceAttack \in Int /\ SinceAttack' \in Int /\ SinceAttack' <= SinceAttack + n
        /\ SinceBeat \in Int /\ SinceBeat' \in Int /\ SinceBeat' <= SinceBeat + n
        /\ phase \in Int /\ phase' = phase + n
    BY <1>2, PaceTypes, PaceTypesAfter DEF Ageing, PaceTypesOK
  <1>5. Fits(a, DiceTicks, phase - SinceAttack)'
    <2>1. Fits(a, DiceTicks, phase - SinceAttack)
      BY <1>1 DEF Paced
    <2> DEFINE t == phase - SinceAttack
               u == (phase + n) - SinceAttack'
    <2>2. t \in Int /\ u \in Int /\ t <= u
      BY <1>4, LaterAndLess, Zenon
    <2> HIDE DEF t, u
    <2>3. Fits(a, DiceTicks, t) /\ a \in 0..4 /\ DiceTicks \in Nat
      BY <2>1, Intervals DEF t
    <2>4. Fits(a, DiceTicks, u)
      BY <2>2, <2>3, FitsLonger
    <2> QED
      BY <1>4, <2>4 DEF u, Fits
  <1>6. Fits(h, Gap, phase - SinceBeat - Longer(a))'
    <2>1. Fits(h, Gap, phase - SinceBeat - Longer(a))
      BY <1>1 DEF Paced
    <2> DEFINE t == phase - SinceBeat
               u == (phase + n) - SinceBeat'
    <2>2. t \in Int /\ u \in Int /\ t <= u
      BY <1>4, LaterAndLess, Zenon
    <2> HIDE DEF t, u
    <2>3. Fits(h, Gap, t - Longer(a))
      BY <2>1 DEF t
    <2>4. Fits(h, Gap, u - Longer(a))
      BY <1>3, <2>2, <2>3, FitsLonger
    <2> QED
      BY <1>3, <1>4, <2>4 DEF u, Fits
  <1>7. Paced(h, a, f)'
    BY <1>1, <1>2, <1>5, <1>6 DEF Paced, Ageing
  <1> QED
    BY <1>7 DEF InPace

LEMMA StillKeepsPace ==
    ASSUME ValuesOK, ValuesOK', PaceInv, Hurried => Hurried',
           Count' = Count, phase' = phase, mode' = mode,
           Hurried' \/ (SinceAttack' <= SinceAttack /\ SinceBeat' <= SinceBeat),
           net' = "first" \/ (net' = "opening" /\ line' = "request") =>
             net = "first" \/ (net = "opening" /\ line = "request")
    PROVE  PaceInv'
  <1>1. SinceAttack \in Int /\ SinceBeat \in Int /\ phase \in Int
    BY PaceTypes DEF PaceTypesOK
  <1>2. SinceAttack + 0 = SinceAttack /\ SinceBeat + 0 = SinceBeat /\ phase + 0 = phase
    BY <1>1
  <1>3. Hurried' \/ Ageing(0)
    BY <1>2, Zenon DEF Ageing
  <1> QED
    BY <1>3, AgeingKeepsPace

LEMMA UIPaceStep ==
    ASSUME PlacesInv, PlacesInv', PaceInv, UIStep
    PROVE  PaceInv'
  <1>0. /\ ValuesOK /\ ValuesOK' /\ Roles
        /\ mode \in {"threaded", "single", "stress"} /\ ui_timer \in Int
        /\ idle_ticks \in 0..5
    BY DEF PlacesInv, ValuesOK
  <1>1. UNCHANGED <<mode, phase, request_count, window_start, netVars>>
    BY DEF UIStep, PollEnds, OtherKey, SpaceKey, RequestAttack, AttackReturns,
           SendAttack, AttackAnswered, LeaveScreen, NextRound, HeartbeatAnswered,
           serverVars, limiterVars
  <1>2. Count' = Count
    BY <1>1 DEF Count
  <1>3. CASE mode = "single"
    <2>1. /\ net = "none" /\ ~attack_requested /\ net' = "none" /\ ~attack_requested'
          /\ ui \in {"loop", "dice", "attack", "next", "heartbeat", "screen", "victory"}
          /\ line # "idle" <=> ui \in {"attack", "heartbeat"}
          /\ ui = "heartbeat" => idle_ticks = 0
      BY <1>1, <1>3 DEF PlacesInv, Roles, Single
    <2>2. /\ Short(idle_ticks) \in Nat /\ Short(0) = 0 /\ Short(5) = 5 * FastPoll
          /\ idle_ticks < 5 => Short(idle_ticks + 1) = Short(idle_ticks) + FastPoll
      BY <1>0, ShortGrow
    <2>3. poll \in Nat /\ poll >= FastPoll
      BY Intervals, PaceAssumption DEF PlacesInv, ValuesOK
    <2> USE <1>0, <1>1, <1>3, <2>1, <2>2, <2>3, Intervals, PaceAssumption
        DEF SinceAttack, SinceBeat, AttackOut, Spent, Hurried, uiVars, lineVars,
            UIGoes, OrScreen, Send, Receive
    <2> HIDE DEF Short
    <2>4. CASE OtherKey
      <3>1. Hurried'
        BY <2>4, Zenon DEF OtherKey
      <3> QED
        BY <3>1 DEF PaceInv
    <2>5. CASE PollEnds \/ SpaceKey
      <3>1. SinceAttack' <= SinceAttack /\ SinceBeat' <= SinceBeat
        BY <2>5 DEF PollEnds, SpaceKey
      <3>2. hurried' = hurried
        BY <2>5 DEF PollEnds, SpaceKey
      <3> QED
        BY <1>2, <3>1, <3>2, StillKeepsPace
    <2>6. CASE SendAttack \/ AttackAnswered \/ LeaveScreen
      <3>1. SinceAttack' <= SinceAttack /\ SinceBeat' <= SinceBeat
        BY <2>6 DEF SendAttack, AttackAnswered, LeaveScreen
      <3>2. hurried' = hurried
        BY <2>6 DEF SendAttack, AttackAnswered, LeaveScreen
      <3> QED
        BY <1>2, <3>1, <3>2, StillKeepsPace
    <2>7. CASE NextRound
      <3>1. SinceAttack' <= SinceAttack
        BY <2>7 DEF NextRound
      <3>2. SinceBeat' <= SinceBeat
        BY <2>7 DEF NextRound
      <3>3. hurried' = hurried
        BY <2>7 DEF NextRound
      <3> QED
        BY <1>2, <3>1, <3>2, <3>3, StillKeepsPace
    <2>8. CASE HeartbeatAnswered
      <3>1. SinceAttack' <= SinceAttack /\ SinceBeat' <= SinceBeat
        BY <2>8 DEF HeartbeatAnswered
      <3>2. hurried' = hurried
        BY <2>8 DEF HeartbeatAnswered
      <3> QED
        BY <1>2, <3>1, <3>2, StillKeepsPace
    <2>9. ~RequestAttack /\ ~AttackReturns
      BY DEF RequestAttack, AttackReturns
    <2> QED
      BY <2>4, <2>5, <2>6, <2>7, <2>8, <2>9 DEF UIStep
  <1>4. CASE mode # "single"
    <2>1. UNCHANGED <<line, line_timer>>
      BY <1>0, <1>4
         DEF Roles, Threaded, Stress, UIStep, PollEnds, OtherKey, SpaceKey,
             RequestAttack, AttackReturns, SendAttack, AttackAnswered, LeaveScreen,
             NextRound, HeartbeatAnswered, UIGoes, OrScreen, lineVars
    <2>2. SinceBeat' <= SinceBeat
      <3>1. SinceBeat' = SinceBeat
        BY <1>1, <1>4, <2>1 DEF SinceBeat, Gap, netVars
      <3> QED
        BY <1>0, <3>1, PaceTypes DEF PaceTypesOK
    <2>3. SinceAttack' <= SinceAttack
      <3>1. mode = "threaded"
        BY <1>0, <1>4 DEF Roles, Stress, UIStep, PollEnds, OtherKey, SpaceKey,
            RequestAttack, AttackReturns, SendAttack, AttackAnswered, LeaveScreen,
            NextRound, HeartbeatAnswered, UIGoes, OrScreen
      <3>2. /\ ui \in {"loop", "dice", "waiting", "next", "screen", "victory"}
            /\ attack_requested \/ net = "attack" <=> ui = "waiting" /\ ~attack_completed
        BY <1>0, <3>1 DEF Roles, Threaded
      <3>3. net' = net
        BY <1>1 DEF netVars
      <3> USE <1>0, <2>1, <3>1, <3>2, <3>3, Intervals
          DEF SinceAttack, AttackOut, UIGoes, OrScreen, Send, Receive, uiVars, sharedVars
      <3>4. CASE PollEnds \/ OtherKey \/ SpaceKey
        BY <3>4 DEF PollEnds, OtherKey, SpaceKey
      <3>5. CASE RequestAttack
        BY <3>5 DEF RequestAttack
      <3>6. CASE AttackReturns \/ LeaveScreen
        BY <3>6 DEF AttackReturns, LeaveScreen
      <3>7. CASE NextRound
        BY <3>7 DEF NextRound
      <3>8. ~SendAttack /\ ~AttackAnswered /\ ~HeartbeatAnswered
        BY DEF SendAttack, AttackAnswered, HeartbeatAnswered
      <3> QED
        BY <3>4, <3>5, <3>6, <3>7, <3>8 DEF UIStep
    <2>4. ~Hurried
      BY <1>4 DEF Hurried
    <2>5. UNCHANGED <<net, line>>
      BY <1>1, <2>1 DEF netVars
    <2> QED
      BY <1>0, <1>1, <1>2, <2>2, <2>3, <2>4, <2>5, StillKeepsPace
  <1> QED
    BY <1>3, <1>4

LEMMA NetPaceStep ==
    ASSUME PlacesInv, PlacesInv', PaceInv, NetStep
    PROVE  PaceInv'
  <1>0. /\ ValuesOK /\ ValuesOK' /\ Roles
        /\ mode \in {"threaded", "single", "stress"} /\ net_timer \in Int
    BY DEF PlacesInv, ValuesOK
  <1>1. UNCHANGED <<mode, phase, request_count, window_start, uiVars>>
    BY DEF NetStep, FirstHeartbeat, FirstAnswered, TakeRequest, NetAttackAnswered,
           NetHeartbeatAnswered, NetWakes, Shoot, ShotAnswered, PauseEnds,
           serverVars, limiterVars
  <1>2. mode # "single" /\ Count' = Count /\ ui' = ui /\ ui_timer' = ui_timer
    BY <1>0, <1>1 DEF Roles, Single, NetStep, FirstHeartbeat, FirstAnswered, TakeRequest,
           NetAttackAnswered, NetHeartbeatAnswered, NetWakes, Shoot, ShotAnswered,
           PauseEnds, NetGoes, Count, uiVars
  <1>3. Gap \in Nat /\ Gap' = Gap
    BY <1>0, <1>1, PaceTypes DEF Gap, PaceTypesOK
  <1>4. /\ mode = "threaded" => Gap = HeartbeatTicks
        /\ mode = "stress" => Gap = StressTicks
    BY DEF Gap
  <1>5. /\ mode = "threaded" => Threaded
        /\ mode = "stress" => Stress
    BY <1>0 DEF Roles
  <1>6. AttackOut' => AttackOut
    <2> USE <1>0, <1>2, <1>5
        DEF AttackOut, NetGoes, Send, Receive, netVars, sharedVars, lineVars
    <2>1. CASE FirstHeartbeat \/ FirstAnswered
      BY <2>1 DEF FirstHeartbeat, FirstAnswered, Threaded, Stress
    <2>2. CASE TakeRequest
      BY <2>2 DEF TakeRequest, Threaded, Stress
    <2>3. CASE NetAttackAnswered
      BY <2>3 DEF NetAttackAnswered
    <2>4. CASE NetHeartbeatAnswered \/ NetWakes
      BY <2>4 DEF NetHeartbeatAnswered, NetWakes
    <2>5. CASE Shoot \/ ShotAnswered \/ PauseEnds
      BY <2>5 DEF Shoot, ShotAnswered, PauseEnds, Threaded, Stress
    <2> QED
      BY <2>1, <2>2, <2>3, <2>4, <2>5 DEF NetStep
  <1>7. SinceBeat' <= SinceBeat
    <2> USE <1>0, <1>2, <1>3, <1>4, <1>5, Intervals
        DEF SinceBeat, NetGoes, Send, Receive, netVars, lineVars
    <2> HIDE DEF Gap
    <2>1. CASE FirstHeartbeat \/ FirstAnswered
      BY <2>1 DEF FirstHeartbeat, FirstAnswered, Threaded, Stress
    <2>2. CASE TakeRequest \/ NetAttackAnswered
      BY <2>2 DEF TakeRequest, NetAttackAnswered, Threaded, Stress
    <2>3. CASE NetHeartbeatAnswered \/ NetWakes
      BY <2>3 DEF NetHeartbeatAnswered, NetWakes, Threaded, Stress
    <2>4. CASE Shoot \/ ShotAnswered \/ PauseEnds
      BY <2>4 DEF Shoot, ShotAnswered, PauseEnds, Threaded, Stress
    <2> QED
      BY <2>1, <2>2, <2>3, <2>4 DEF NetStep
  <1>8. net' = "first" \/ (net' = "opening" /\ line' = "request") => net = "first"
    BY DEF NetStep, FirstHeartbeat, FirstAnswered, TakeRequest, NetAttackAnswered,
           NetHeartbeatAnswered, NetWakes, Shoot, ShotAnswered, PauseEnds, NetGoes
  <1>9. SinceAttack' <= SinceAttack
    BY <1>0, <1>2, <1>6, Intervals DEF SinceAttack, ValuesOK
  <1>10. ~Hurried
    BY <1>2 DEF Hurried
  <1> QED
    BY <1>0, <1>1, <1>2, <1>7, <1>8, <1>9, <1>10, StillKeepsPace

(* The server takes a request while the client is in pace: this second has *)
(* room for it, and it is in pace after it.                                *)
LEMMA AttackTaken ==
    ASSUME PlacesInv, ServerTakes, mode = "single", ui = "attack",
           NEW h \in 0..4, NEW a \in 0..2, NEW f \in 0..1, Paced(h, a, f)
    PROVE  Count < MaxRequests /\ InPace'
  <1>1. /\ ValuesOK /\ Single
        /\ line = "request" /\ line' = "answer"
        /\ mode' = mode /\ ui' = ui /\ net' = net /\ idle_ticks' = idle_ticks
        /\ phase' = phase /\ attack_requested' = attack_requested
    BY DEF PlacesInv, Roles, ServerTakes, uiVars, netVars, sharedVars
  <1>2. net = "none" /\ ~attack_requested
    BY <1>1 DEF Single
  <1>3. /\ phase \in Nat /\ phase < TicksPerSecond /\ Count \in Nat
        /\ Short(idle_ticks) \in Nat
    BY <1>1, PaceTypes, ShortGrow DEF PaceTypesOK, ValuesOK
  <1>4. SinceAttack = DiceTicks /\ SinceAttack' = 0
    BY <1>1, <1>2 DEF SinceAttack, AttackOut
  <1>5. Gap = 6 * FastPoll /\ Gap' = 6 * FastPoll
    BY <1>1 DEF Gap
  <1>6. /\ SinceBeat = Short(idle_ticks) + DiceTicks
        /\ SinceBeat' = Short(idle_ticks) + FastPoll
    <2>1. Short(idle_ticks)' = Short(idle_ticks)
      BY <1>1 DEF Short
    <2> QED
      BY <1>1, <2>1 DEF SinceBeat, Spent
  <1>7. /\ Count = h + a + f /\ f = 0
        /\ Fits(a, DiceTicks, phase - DiceTicks)
        /\ Fits(h, Gap, phase - SinceBeat - Longer(a))
    BY <1>4 DEF Paced
  <1>8. a <= 1
    <2>1. a = 2 => DiceTicks <= phase - DiceTicks
      BY <1>3, <1>7, Intervals, FitsNumbers
    <2> QED
      BY <1>3, <2>1, Intervals, PaceAssumption
  <1>9. Longer(a) = 0
    BY <1>8 DEF Longer
  <1> DEFINE t == phase - Short(idle_ticks) - DiceTicks
             u == phase - Short(idle_ticks) - FastPoll - Longer(a + 1)'
  <1>10. t \in Int /\ phase - SinceBeat - Longer(a) = t
    BY <1>3, <1>6, <1>9, Intervals
  <1>11. h <= 3
    <2>1. h = 4 => 3 * (6 * FastPoll) <= t
      BY <1>5, <1>7, <1>10, Intervals, FitsNumbers
    <2> QED
      BY <1>3, <2>1, Intervals, PaceAssumption
  <1>12. Count < MaxRequests /\ Count' = h + (a + 1) + f
    BY <1>1, <1>3, <1>7, <1>8, <1>11, ServerCounts, Intervals, PaceAssumption
  <1>13. Fits(a + 1, DiceTicks, phase)
    BY <1>3, <1>7, Intervals, FitsOneMore
  <1>14. u \in Int /\ t <= u
    <2>1. Longer(a + 1)' \in {0, DiceTicks - FastPoll}
      BY DEF Longer
    <2> QED
      BY <1>3, <2>1, Intervals, PaceAssumption
  <1>15. Fits(h, 6 * FastPoll, u)
    BY <1>5, <1>7, <1>10, <1>14, Intervals, FitsLonger
  <1>16. Paced(h, a + 1, f)'
    <2>1. Fits(a + 1, DiceTicks, phase - SinceAttack)'
      BY <1>1, <1>3, <1>4, <1>13 DEF Fits
    <2>2. Fits(h, Gap, phase - SinceBeat - Longer(a + 1))'
      <3>1. (phase - SinceBeat - Longer(a + 1))' = u
        BY <1>1, <1>3, <1>6, <1>14, Intervals
      <3> QED
        BY <1>5, <1>15, <3>1 DEF Fits
    <2> QED
      BY <1>1, <1>2, <1>7, <1>12, <2>1, <2>2 DEF Paced
  <1> QED
    BY <1>8, <1>12, <1>16 DEF InPace

LEMMA HeartbeatTaken ==
    ASSUME PlacesInv, ServerTakes, mode = "single", ui = "heartbeat",
           NEW h \in 0..4, NEW a \in 0..2, NEW f \in 0..1, Paced(h, a, f)
    PROVE  Count < MaxRequests /\ InPace'
  <1>1. /\ ValuesOK /\ Single
        /\ line = "request" /\ line' = "answer"
        /\ mode' = mode /\ ui' = ui /\ net' = net /\ idle_ticks' = idle_ticks
        /\ phase' = phase /\ attack_requested' = attack_requested
    BY DEF PlacesInv, Roles, ServerTakes, uiVars, netVars, sharedVars
  <1>2. net = "none" /\ ~attack_requested /\ idle_ticks = 0
    BY <1>1 DEF Single
  <1>3. phase \in Nat /\ phase < TicksPerSecond /\ Count \in Nat
    BY <1>1, PaceTypes DEF PaceTypesOK
  <1>4. SinceAttack = 0 /\ SinceAttack' = 0
    BY <1>1, <1>2 DEF SinceAttack, AttackOut
  <1>5. Gap = 6 * FastPoll /\ Gap' = 6 * FastPoll /\ 6 * FastPoll \in Nat
    BY <1>1, Intervals DEF Gap
  <1>6. SinceBeat = 6 * FastPoll /\ SinceBeat' = 0
    <2>1. Short(idle_ticks) = 0 /\ Short(idle_ticks)' = 0
      BY <1>1, <1>2, ShortGrow DEF Short
    <2> QED
      BY <1>1, <2>1, Intervals DEF SinceBeat, Spent
  <1>7. /\ Count = h + a + f /\ f = 0
        /\ Fits(a, DiceTicks, phase - SinceAttack)
        /\ Fits(h, Gap, phase - SinceBeat - Longer(a))
    BY DEF Paced
  <1>8. a = 2 => DiceTicks <= phase
    BY <1>3, <1>4, <1>7, Intervals, FitsNumbers
  <1>9. Longer(a) = (IF a = 2 THEN DiceTicks - FastPoll ELSE 0) /\ Longer(a)' = Longer(a)
    BY <1>1 DEF Longer
  <1> DEFINE t == phase - Longer(a)
  <1>10. t \in Nat /\ phase - SinceBeat - Longer(a) = t - 6 * FastPoll
    BY <1>3, <1>6, <1>8, <1>9, Intervals, PaceAssumption
  <1>11. h <= 3 /\ (h = 3 => a <= 1)
    <2>1. /\ h = 3 => 2 * (6 * FastPoll) <= t - 6 * FastPoll
          /\ h = 4 => 3 * (6 * FastPoll) <= t - 6 * FastPoll
      BY <1>5, <1>7, <1>10, FitsNumbers
    <2> QED
      BY <1>3, <1>9, <2>1, Intervals, PaceAssumption
  <1>12. Count < MaxRequests /\ Count' = (h + 1) + a + f
    BY <1>1, <1>3, <1>7, <1>11, ServerCounts, Intervals, PaceAssumption
  <1>13. Fits(h + 1, 6 * FastPoll, t)
    BY <1>5, <1>7, <1>10, FitsOneMore
  <1>14. Paced(h + 1, a, f)'
    <2>1. Fits(a, DiceTicks, phase - SinceAttack)'
      BY <1>1, <1>4, <1>7 DEF Fits
    <2>2. Fits(h + 1, Gap, phase - SinceBeat - Longer(a))'
      <3>1. (phase - SinceBeat - Longer(a))' = t
        BY <1>1, <1>3, <1>6, <1>9, <1>10, Intervals
      <3> QED
        BY <1>5, <1>13, <3>1 DEF Fits
    <2> QED
      BY <1>1, <1>2, <1>7, <1>12, <2>1, <2>2 DEF Paced
  <1> QED
    BY <1>11, <1>12, <1>14 DEF InPace

LEMMA ThreadTaken ==
    ASSUME PlacesInv, ServerTakes, mode = "threaded",
           NEW h \in 0..4, NEW a \in 0..2, NEW f \in 0..1, Paced(h, a, f)
    PROVE  Count < MaxRequests /\ InPace'
  <1>1. /\ ValuesOK /\ Threaded
        /\ line = "request" /\ line' = "answer"
        /\ mode' = mode /\ ui' = ui /\ net' = net /\ ui_timer' = ui_timer
        /\ phase' = phase /\ attack_requested' = attack_requested
    BY DEF PlacesInv, Roles, ServerTakes, uiVars, netVars, sharedVars
  <1>2. /\ net \in {"opening", "attack", "heartbeat"}
        /\ ui # "attack"
        /\ net = "attack" => ui = "waiting" /\ ~attack_requested
    BY <1>1 DEF Threaded
  <1>3. /\ phase \in Nat /\ phase < TicksPerSecond /\ Count \in Nat
        /\ SinceAttack \in Int
    BY <1>1, PaceTypes DEF PaceTypesOK
  <1>4. Gap = HeartbeatTicks /\ Gap' = HeartbeatTicks
    BY <1>1 DEF Gap
  <1>5. Longer(0) = 0 /\ Longer(a) = 0 /\ Longer(a)' = 0 /\ Longer(a + 1)' = 0
    BY <1>1 DEF Longer
  <1>6. SinceBeat = HeartbeatTicks
    BY <1>1, <1>2, <1>4 DEF SinceBeat
  <1>7. /\ Count = h + a + f /\ h <= 2
        /\ net = "opening" => Count = 0
        /\ Fits(a, DiceTicks, phase - SinceAttack)
        /\ Fits(h, HeartbeatTicks, phase - HeartbeatTicks)
    <2>1. phase - HeartbeatTicks - Longer(a) = phase - HeartbeatTicks
      BY <1>3, <1>5, Intervals
    <2> QED
      BY <1>1, <1>4, <1>6, <2>1 DEF Paced
  <1>8. CASE net = "opening"
    <2>1. Count < MaxRequests /\ Count' = 0 + 0 + 1
      BY <1>1, <1>3, <1>7, <1>8, ServerCounts, Intervals, PaceAssumption
    <2>2. Paced(0, 0, 1)'
      BY <1>1, <1>8, <2>1 DEF Paced, Fits
    <2> QED
      BY <2>1, <2>2 DEF InPace
  <1>9. CASE net = "attack"
    <2>1. SinceAttack = DiceTicks /\ SinceAttack' = 0
      BY <1>1, <1>2, <1>9 DEF SinceAttack, AttackOut
    <2>2. a <= 1
      <3>1. a = 2 => DiceTicks <= phase - DiceTicks
        BY <1>3, <1>7, <2>1, Intervals, FitsNumbers
      <3> QED
        BY <1>3, <3>1, Intervals, PaceAssumption
    <2>3. Count < MaxRequests /\ Count' = h + (a + 1) + f
      BY <1>1, <1>3, <1>7, <2>2, ServerCounts, Intervals, PaceAssumption
    <2>4. SinceBeat' = HeartbeatTicks
      BY <1>1, <1>4, <1>9 DEF SinceBeat
    <2>5. Fits(a + 1, DiceTicks, phase)
      BY <1>3, <1>7, <2>1, Intervals, FitsOneMore
    <2>6. Paced(h, a + 1, f)'
      <3>1. Fits(a + 1, DiceTicks, phase - SinceAttack)'
        BY <1>1, <1>3, <2>1, <2>5 DEF Fits
      <3>2. Fits(h, Gap, phase - SinceBeat - Longer(a + 1))'
        <4>1. (phase - SinceBeat - Longer(a + 1))' = phase - HeartbeatTicks
          BY <1>1, <1>3, <1>5, <2>4, Intervals
        <4> QED
          BY <1>4, <1>7, <4>1 DEF Fits
      <3> QED
        BY <1>1, <1>7, <1>9, <2>3, <3>1, <3>2 DEF Paced
    <2> QED
      BY <2>2, <2>3, <2>6 DEF InPace
  <1>10. CASE net = "heartbeat"
    <2>1. SinceAttack' = SinceAttack /\ SinceBeat' = 0
      BY <1>1, <1>2, <1>10 DEF SinceAttack, AttackOut, SinceBeat
    <2>2. h <= 1
      <3>1. h = 2 => HeartbeatTicks <= phase - HeartbeatTicks
        BY <1>3, <1>7, Intervals, FitsNumbers
      <3> QED
        BY <1>3, <1>7, <3>1, Intervals, PaceAssumption
    <2>3. Count < MaxRequests /\ Count' = (h + 1) + a + f
      BY <1>1, <1>3, <1>7, <2>2, ServerCounts, Intervals, PaceAssumption
    <2>4. Fits(h + 1, HeartbeatTicks, phase)
      BY <1>3, <1>7, Intervals, FitsOneMore
    <2>5. Paced(h + 1, a, f)'
      <3>1. Fits(a, DiceTicks, phase - SinceAttack)'
        BY <1>1, <1>7, <2>1 DEF Fits
      <3>2. Fits(h + 1, Gap, phase - SinceBeat - Longer(a))'
        <4>1. (phase - SinceBeat - Longer(a))' = phase
          BY <1>1, <1>3, <1>5, <2>1
        <4> QED
          BY <1>4, <2>4, <4>1 DEF Fits
      <3> QED
        BY <1>1, <1>10, <2>2, <2>3, <3>1, <3>2 DEF Paced
    <2> QED
      BY <2>2, <2>3, <2>5 DEF InPace
  <1> QED
    BY <1>2, <1>8, <1>9, <1>10

LEMMA ShotTaken ==
    ASSUME PlacesInv, ServerTakes, mode = "stress",
           NEW h \in 0..4, NEW a \in 0..2, NEW f \in 0..1, Paced(h, a, f)
    PROVE  Count < MaxRequests /\ InPace'
  <1>1. /\ ValuesOK /\ Stress
        /\ line = "request" /\ line' = "answer"
        /\ mode' = mode /\ net' = net /\ phase' = phase
    BY DEF PlacesInv, Roles, ServerTakes, uiVars, netVars, sharedVars
  <1>2. net = "shot"
    BY <1>1 DEF Stress
  <1>3. phase \in Nat /\ phase < TicksPerSecond /\ Count \in Nat
    BY <1>1, PaceTypes DEF PaceTypesOK
  <1>4. Gap = StressTicks /\ Gap' = StressTicks
    BY <1>1 DEF Gap
  <1>5. Longer(0) = 0 /\ Longer(0)' = 0
    BY <1>1 DEF Longer
  <1>6. SinceBeat = StressTicks /\ SinceBeat' = 0
    BY <1>1, <1>2, <1>4 DEF SinceBeat
  <1>7. /\ Count = h /\ a = 0 /\ f = 0
        /\ Fits(h, StressTicks, phase - StressTicks)
    <2>1. phase - StressTicks - Longer(0) = phase - StressTicks
      BY <1>3, <1>5, Intervals
    <2> QED
      BY <1>1, <1>4, <1>6, <2>1 DEF Paced
  <1>8. h <= 3
    <2>1. h = 4 => 3 * StressTicks <= phase - StressTicks
      BY <1>3, <1>7, Intervals, FitsNumbers
    <2> QED
      BY <1>3, <2>1, Intervals, PaceAssumption
  <1>9. Count < MaxRequests /\ Count' = (h + 1) + 0 + 0
    BY <1>1, <1>3, <1>7, <1>8, ServerCounts, Intervals, PaceAssumption
  <1>10. Fits(h + 1, StressTicks, phase)
    BY <1>3, <1>7, Intervals, FitsOneMore
  <1>11. Paced(h + 1, 0, 0)'
    <2>1. Fits(h + 1, Gap, phase - SinceBeat - Longer(0))'
      <3>1. (phase - SinceBeat - Longer(0))' = phase
        BY <1>1, <1>3, <1>5, <1>6
      <3> QED
        BY <1>4, <1>10, <3>1 DEF Fits
    <2>2. Fits(0, DiceTicks, phase - SinceAttack)'
      BY DEF Fits
    <2> QED
      BY <1>1, <1>2, <1>9, <2>1, <2>2 DEF Paced
  <1> QED
    BY <1>8, <1>9, <1>11 DEF InPace

LEMMA ServerPaceStep ==
    ASSUME PlacesInv, PaceInv, ServerTakes
    PROVE  PaceInv' /\ (Hurried \/ UNCHANGED closed)
  <1>1. CASE Hurried
    BY <1>1, Zenon DEF ServerTakes, Hurried, PaceInv, uiVars
  <1>2. CASE ~Hurried
    <2>1. PICK h \in 0..4, a \in 0..2, f \in 0..1 : Paced(h, a, f)
      BY <1>2 DEF PaceInv, InPace
    <2>2. CASE mode = "single"
      <3>1. ui \in {"attack", "heartbeat"}
        BY <2>2 DEF PlacesInv, Roles, Single, ServerTakes
      <3> QED
        BY <2>1, <2>2, <3>1, AttackTaken, HeartbeatTaken, ServerCounts
           DEF PaceInv, PlacesInv
    <2>3. CASE mode = "threaded"
      BY <2>1, <2>3, ThreadTaken, ServerCounts DEF PaceInv, PlacesInv
    <2>4. CASE mode = "stress"
      BY <2>1, <2>4, ShotTaken, ServerCounts DEF PaceInv, PlacesInv
    <2> QED
      BY <2>2, <2>3, <2>4 DEF PlacesInv, ValuesOK
  <1> QED
    BY <1>1, <1>2

(* A tick makes everything older, or begins a second.                      *)
LEMMA OneOlder ==
    ASSUME NEW s \in Int, NEW t \in {s, s + 1}
    PROVE  t <= s + 1
  OBVIOUS

LEMMA TickPaceStep ==
    ASSUME PlacesInv, PlacesInv', PaceInv, Tick
    PROVE  PaceInv'
  <1>1. /\ ValuesOK /\ ValuesOK' /\ Roles
        /\ mode \in {"threaded", "single", "stress"}
        /\ ui_timer \in Int /\ net_timer \in Int
    BY DEF PlacesInv, ValuesOK
  <1>2. /\ UNCHANGED <<mode, ui, net, line, idle_ticks, hurried, attack_requested>>
        /\ ui_timer' \in {ui_timer, ui_timer - 1}
        /\ net_timer' \in {net_timer, net_timer - 1}
    BY DEF Tick, sharedVars
  <1>3. CASE phase' = phase + 1 /\ UNCHANGED <<request_count, window_start>>
    <2>1. AttackOut' = AttackOut /\ Gap' = Gap /\ Short(idle_ticks)' = Short(idle_ticks)
      BY <1>2 DEF AttackOut, Gap, Short
    <2>2. Short(idle_ticks) \in Nat /\ Gap \in Nat
      BY <1>1, PaceTypes, ShortGrow DEF PaceTypesOK, ValuesOK
    <2>3. SinceAttack' <= SinceAttack + 1
      <3>1. ui_timer' = ui_timer => SinceAttack' = SinceAttack
        BY <1>2, <2>1, Zenon DEF SinceAttack
      <3>2. ui_timer' = ui_timer - 1 => SinceAttack' \in {SinceAttack, SinceAttack + 1}
        <4>1. ui = "dice" => SinceAttack = DiceTicks - ui_timer
                          /\ SinceAttack' = DiceTicks - ui_timer'
          BY <1>2 DEF SinceAttack
        <4>2. ui # "dice" => SinceAttack' = SinceAttack
          BY <1>2, <2>1, Zenon DEF SinceAttack
        <4>3. ui_timer' = ui_timer - 1 =>
                DiceTicks - ui_timer' = (DiceTicks - ui_timer) + 1
          BY <1>1, Intervals
        <4> QED
          BY <4>1, <4>2, <4>3, Zenon
      <3>3. SinceAttack \in Int
        BY <1>1, PaceTypes DEF PaceTypesOK
      <3> QED
        BY <1>2, <3>1, <3>2, <3>3, OneOlder, Zenon
    <2>4. Spent \in Int /\ Spent' \in {Spent, Spent + 1}
      <3> DEFINE Late(t) == IF t < FastPoll THEN FastPoll - t ELSE 0
      <3>1. ui = "loop" => Spent = Late(ui_timer) /\ Spent' = Late(ui_timer')
        BY <1>2 DEF Spent
      <3>2. ui = "dice" => Spent = DiceTicks - ui_timer /\ Spent' = DiceTicks - ui_timer'
        BY <1>2 DEF Spent
      <3>3. ui \notin {"loop", "dice"} => Spent' = Spent /\ Spent \in Int
        BY <1>2, Intervals DEF Spent
      <3>4. Late(ui_timer) \in Int /\ Late(ui_timer') \in {Late(ui_timer), Late(ui_timer) + 1}
        <4>1. ui_timer' = ui_timer \/ ui_timer' = ui_timer - 1
          BY <1>2
        <4>2. Late(ui_timer - 1) \in {Late(ui_timer), Late(ui_timer) + 1}
          BY <1>1, Intervals
        <4>3. Late(ui_timer) \in Int
          BY <1>1, Intervals
        <4> HIDE DEF Late
        <4> QED
          BY <4>1, <4>2, <4>3, Zenon
      <3>5. DiceTicks - ui_timer \in Int /\ DiceTicks - (ui_timer - 1) = (DiceTicks - ui_timer) + 1
        BY <1>1, Intervals
      <3> HIDE DEF Late
      <3> QED
        BY <1>2, <3>1, <3>2, <3>3, <3>4, <3>5, Zenon
    <2>5. SinceBeat' <= SinceBeat + 1
      <3>1. SinceBeat' \in {SinceBeat, SinceBeat + 1}
        <4>1. CASE mode = "single"
          <5>1. SinceBeat = Short(idle_ticks) + Spent /\ SinceBeat' = Short(idle_ticks) + Spent'
            BY <1>2, <2>1, <4>1, Zenon DEF SinceBeat
          <5>2. Short(idle_ticks) + (Spent + 1) = (Short(idle_ticks) + Spent) + 1
            BY <2>2, <2>4
          <5> QED
            BY <2>4, <5>1, <5>2, Zenon
        <4>2. CASE mode # "single" /\ net \in {"sleep", "pause"}
          <5>1. SinceBeat = Gap - net_timer /\ SinceBeat' = Gap - net_timer'
            BY <1>2, <2>1, <4>2 DEF SinceBeat
          <5>2. Gap - (net_timer - 1) = (Gap - net_timer) + 1
            BY <1>1, <2>2
          <5> QED
            BY <1>2, <5>1, <5>2, Zenon
        <4>3. CASE mode # "single" /\ net \notin {"sleep", "pause"}
          BY <1>2, <2>1, <4>3 DEF SinceBeat
        <4> QED
          BY <4>1, <4>2, <4>3
      <3>2. SinceBeat \in Int
        BY <1>1, PaceTypes DEF PaceTypesOK
      <3> QED
        BY <3>1, <3>2, OneOlder, Zenon
    <2>6. Count' = Count
      BY <1>3 DEF Count
    <2>7. Ageing(1) /\ Hurried' = Hurried
      BY <1>2, <1>3, <2>3, <2>5, <2>6 DEF Ageing, Hurried
    <2> QED
      BY <1>1, <2>7, AgeingKeepsPace
  <1>4. CASE phase' = 0 /\ window_start' = -1
    <2>1. Count' = 0
      BY <1>4 DEF Count
    <2>2. Paced(0, 0, 0)'
      BY <2>1 DEF Paced, Fits
    <2> QED
      BY <2>2 DEF PaceInv, InPace
  <1> QED
    BY <1>1, <1>3, <1>4, TickPhase

LEMMA PaceStep ==
    PlacesInv /\ PlacesInv' /\ PaceInv /\ RefusedOnlyIfHurried /\ [Next]_vars =>
      PaceInv' /\ RefusedOnlyIfHurried'
  <1> SUFFICES ASSUME PlacesInv, PlacesInv', PaceInv, RefusedOnlyIfHurried, [Next]_vars
               PROVE  PaceInv' /\ RefusedOnlyIfHurried'
    OBVIOUS
  <1>1. CASE UIStep \/ NetStep
    <2>1. Open /\ closed' = closed
      BY <1>1 DEF UIStep, PollEnds, OtherKey, SpaceKey, RequestAttack, AttackReturns,
           SendAttack, AttackAnswered, LeaveScreen, NextRound, HeartbeatAnswered,
           NetStep, FirstHeartbeat, FirstAnswered, TakeRequest, NetAttackAnswered,
           NetHeartbeatAnswered, NetWakes, Shoot, ShotAnswered, PauseEnds,
           UIGoes, NetGoes, OrScreen, Receive, serverVars
    <2> QED
      BY <1>1, <2>1, UIPaceStep, NetPaceStep DEF Open, RefusedOnlyIfHurried
  <1>2. CASE ServerTakes
    <2>1. Open /\ UNCHANGED <<mode, hurried>>
      BY <1>2 DEF ServerTakes, uiVars
    <2> QED
      BY <1>2, <2>1, ServerPaceStep, Zenon DEF Hurried, Open, RefusedOnlyIfHurried
  <1>3. CASE Tick
    BY <1>3, TickPaceStep DEF Tick, Open, RefusedOnlyIfHurried
  <1>4. CASE UNCHANGED vars
    <2>1. UNCHANGED <<mode, ui, ui_timer, idle_ticks, net, net_timer, attack_requested,
                      line, phase, request_count, window_start>>
          /\ UNCHANGED <<hurried, closed>>
      BY <1>4 DEF vars, uiVars, netVars, sharedVars, lineVars, serverVars, limiterVars
    <2> QED
      BY <2>1
         DEF PaceInv, InPace, Hurried, Paced, Fits, Count, SinceAttack, AttackOut, Gap,
             SinceBeat, Short, Spent, Longer, RefusedOnlyIfHurried
  <1> QED
    BY <1>1, <1>2, <1>3, <1>4 DEF Next

(* client.c, the same pauses and the poll of ui_game_loop, against         *)
(* rate_limiter.c: whoever leaves the other keys alone stays in the fight. *)
THEOREM RefusedIfHurried == Spec => []RefusedOnlyIfHurried
  <1>1. Init => PlacesInv /\ PaceInv /\ RefusedOnlyIfHurried
    BY PlacesInit, PaceInit DEF Init, PlacesInv, RefusedOnlyIfHurried
  <1> QED
    BY <1>1, PlacesStep, PaceStep, PTL DEF Spec

=============================================================================
