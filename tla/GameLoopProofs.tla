--------------------------- MODULE GameLoopProofs ---------------------------
(***************************************************************************)
(* Theorems about ClientThreads, for a player who may attack for ever, and *)
(* about GameLoop, for any number of lucky kills.  That the second is a    *)
(* client of the first carries over what is proved there.                  *)
(***************************************************************************)
EXTENDS GameLoop, TLAPS

(* The two threads.  Each invariant is a small one of its own; the types   *)
(* come first.                                                             *)

(* What each step does, for proofs that go through all of them.            *)
LEMMA Steps ==
  ASSUME [Next]_vars
  PROVE  \/ RequestAttack \/ WaitForAttack \/ AttackReturns \/ AttackTimesOut
         \/ SpuriousWakeup \/ HeartbeatCallback \/ Quit \/ Join
         \/ Start \/ FirstHeartbeat \/ TestExit \/ TakeRequest
         \/ AttackAnswered \/ AttackFailed
         \/ HeartbeatAnswered \/ HeartbeatFailed \/ Wake
         \/ UNCHANGED vars
  BY DEF Next, UIStep, NetStep

-----------------------------------------------------------------------------
LEMMA TypeInit == Init => TypeOK
  <1> SUFFICES ASSUME Init PROVE TypeOK
    OBVIOUS
  <1>1. /\ state_updated \in BOOLEAN /\ attack_requested \in BOOLEAN
        /\ attack_completed \in BOOLEAN /\ should_exit \in BOOLEAN
        /\ overlap \in BOOLEAN
    BY Zenon DEF Init
  <1>2. /\ ui \in UI /\ net \in Net /\ network_error \in {0, 1}
        /\ latest_state \in Whose /\ serving \in Whose
        /\ sent \in 0..2 /\ late \in 0..2
    BY DEF Init, UI, Net, Whose
  <1> QED
    BY <1>1, <1>2, Zenon DEF TypeOK

LEMMA TypeStep == TypeOK /\ [Next]_vars => TypeOK'
  <1> SUFFICES ASSUME TypeOK, [Next]_vars PROVE TypeOK'
    OBVIOUS
  <1> USE DEF TypeOK, UI, Net, Whose, sharedVars, historyVars
  <1>1. CASE RequestAttack
    <2>1. /\ attack_requested' \in BOOLEAN /\ attack_completed' \in BOOLEAN
          /\ overlap' \in BOOLEAN
      BY <1>1, Zenon DEF RequestAttack, NewCall
    <2>2. /\ state_updated' \in BOOLEAN /\ should_exit' \in BOOLEAN
          /\ network_error' \in {0, 1} /\ net' \in Net /\ ui' \in UI
      BY <1>1 DEF RequestAttack
    <2>3. /\ latest_state' \in Whose /\ serving' \in Whose
          /\ sent' \in 0..2 /\ late' \in 0..2
      BY <1>1 DEF RequestAttack, NewCall, Aged
    <2> QED
      BY <2>1, <2>2, <2>3, Zenon
  <1>2. CASE WaitForAttack
    BY <1>2 DEF WaitForAttack
  <1>3. CASE AttackReturns
    BY <1>3 DEF AttackReturns
  <1>4. CASE AttackTimesOut
    BY <1>4 DEF AttackTimesOut
  <1>5. CASE SpuriousWakeup
    BY <1>5 DEF SpuriousWakeup
  <1>6. CASE HeartbeatCallback
    BY <1>6 DEF HeartbeatCallback
  <1>7. CASE Quit
    BY <1>7 DEF Quit
  <1>8. CASE Join
    BY <1>8 DEF Join
  <1>9. CASE Start
    BY <1>9 DEF Start, Exchange
  <1>10. CASE FirstHeartbeat
    <2>1. state_updated' \in BOOLEAN
      BY <1>10, Zenon DEF FirstHeartbeat
    <2>2. ui' \in UI /\ net' = "test" /\ latest_state' \in Whose
      BY <1>10 DEF FirstHeartbeat, SignalUI
    <2>3. UNCHANGED <<attack_requested, attack_completed, should_exit,
                      network_error, historyVars>>
      BY <1>10 DEF FirstHeartbeat
    <2> QED
      BY <2>1, <2>2, <2>3
  <1>11. CASE TestExit
    BY <1>11 DEF TestExit
  <1>12. CASE TakeRequest
    <2>1. /\ net' \in Net /\ serving' \in Whose
          /\ sent' \in 0..2 /\ late' \in 0..2
      BY <1>12 DEF TakeRequest, Serve, Exchange
    <2>2. attack_requested' \in BOOLEAN
      BY <1>12, Zenon DEF TakeRequest
    <2>3. UNCHANGED <<ui, latest_state, state_updated, attack_completed,
                      should_exit, network_error, overlap>>
      BY <1>12 DEF TakeRequest
    <2> QED
      BY <2>1, <2>2, <2>3
  <1>13. CASE AttackAnswered
    BY <1>13 DEF AttackAnswered, SignalUI
  <1>14. CASE AttackFailed
    BY <1>14 DEF AttackFailed, SignalUI
  <1>15. CASE HeartbeatAnswered
    BY <1>15 DEF HeartbeatAnswered, SignalUI
  <1>16. CASE HeartbeatFailed
    BY <1>16 DEF HeartbeatFailed, SignalUI
  <1>17. CASE Wake
    BY <1>17 DEF Wake
  <1>18. CASE UNCHANGED vars
    BY <1>18 DEF vars
  <1> QED
    BY <1>1, <1>2, <1>3, <1>4, <1>5, <1>6, <1>7, <1>8, <1>9, <1>10, <1>11,
       <1>12, <1>13, <1>14, <1>15, <1>16, <1>17, <1>18, Steps

(* Every variable keeps to its type.                                       *)
THEOREM TypeCorrect == Spec => []TypeOK
  BY TypeInit, TypeStep, PTL DEF Spec

-----------------------------------------------------------------------------
(* client.c, attack_cb_impl: no wakeup is lost.  The UI thread tests and   *)
(* goes to sleep in one critical section; whatever makes the condition     *)
(* true signals in the same section.                                       *)
THEOREM NoLostWakeup == Spec => []SleepsOnlyWhileNeeded
  <1>1. Init => SleepsOnlyWhileNeeded
    BY DEF Init, SleepsOnlyWhileNeeded
  <1>2. SleepsOnlyWhileNeeded /\ [Next]_vars => SleepsOnlyWhileNeeded'
    <2> SUFFICES ASSUME SleepsOnlyWhileNeeded, [Next]_vars
                 PROVE  SleepsOnlyWhileNeeded'
      OBVIOUS
    <2> USE DEF SleepsOnlyWhileNeeded, sharedVars
    <2>1. CASE WaitForAttack
      BY <2>1 DEF WaitForAttack
    <2>2. CASE AttackAnswered \/ AttackFailed \/ HeartbeatFailed
      BY <2>2 DEF AttackAnswered, AttackFailed, HeartbeatFailed, SignalUI
    <2>3. CASE FirstHeartbeat \/ HeartbeatAnswered
      BY <2>3 DEF FirstHeartbeat, HeartbeatAnswered, SignalUI
    <2>4. CASE \/ RequestAttack \/ AttackReturns \/ AttackTimesOut
               \/ SpuriousWakeup \/ HeartbeatCallback \/ Quit \/ Join
      BY <2>4 DEF RequestAttack, AttackReturns, AttackTimesOut, SpuriousWakeup,
                  HeartbeatCallback, Quit, Join
    <2>5. CASE Start \/ TestExit \/ TakeRequest \/ Wake \/ UNCHANGED vars
      BY <2>5 DEF Start, TestExit, TakeRequest, Wake, vars
    <2> QED
      BY <2>1, <2>2, <2>3, <2>4, <2>5, Steps
  <1> QED
    BY <1>1, <1>2, PTL DEF Spec

-----------------------------------------------------------------------------
(* The attack asked for last is sent, or pending, or neither; never both:  *)
(* the request is taken and cleared in one critical section.               *)

PendingFits == sent + (IF attack_requested THEN 1 ELSE 0) <= 1

(* client.c, network_thread_func: a request is taken at most once.         *)
THEOREM AttacksAreNotMultiplied == Spec => []NoMoreAttacksThanAsked
  <1>1. Init => PendingFits
    BY DEF Init, PendingFits
  <1>2. TypeOK /\ PendingFits /\ [Next]_vars => PendingFits'
    <2> SUFFICES ASSUME TypeOK, PendingFits, [Next]_vars PROVE PendingFits'
      OBVIOUS
    <2>0. sent \in 0..2 /\ attack_requested \in BOOLEAN
      BY DEF TypeOK
    <2> USE DEF PendingFits
    <2>1. CASE RequestAttack
      BY <2>0, <2>1 DEF RequestAttack, NewCall
    <2>2. CASE TakeRequest
      BY <2>0, <2>2 DEF TakeRequest, Serve
    <2>3. CASE UNCHANGED sent /\ UNCHANGED attack_requested
      BY <2>3
    <2>4. ~RequestAttack /\ ~TakeRequest =>
            UNCHANGED sent /\ UNCHANGED attack_requested
      BY Steps
         DEF WaitForAttack, AttackReturns, AttackTimesOut, SpuriousWakeup,
             HeartbeatCallback, Quit, Join, Start, FirstHeartbeat, TestExit,
             AttackAnswered, AttackFailed, HeartbeatAnswered, HeartbeatFailed,
             Wake, vars, sharedVars, historyVars
    <2> QED
      BY <2>1, <2>2, <2>3, <2>4
  <1>3. TypeOK /\ PendingFits => NoMoreAttacksThanAsked
    BY DEF TypeOK, PendingFits, NoMoreAttacksThanAsked
  <1> QED
    BY TypeInit, TypeStep, <1>1, <1>2, <1>3, PTL DEF Spec

-----------------------------------------------------------------------------
(* The one exchange the network thread may begin after the player quit is  *)
(* the one it had already passed the test of should_exit for.              *)

LateInv ==
    /\ late \in {0, 1}
    /\ ui \in {"quit", "finished"} => should_exit
    /\ late = 1 => /\ ui \in {"quit", "finished"}
                   /\ net \notin {"start", "take"}
    /\ ui = "finished" => net = "done"

(* client.c, the unlocked while (!shared->should_exit): the network thread *)
(* stops after at most one more exchange.                                  *)
THEOREM QuitIsNoticed == Spec => []AtMostOneExchangeAfterQuit
  <1>1. Init => LateInv
    BY DEF Init, LateInv
  <1>2. LateInv /\ [Next]_vars => LateInv'
    <2> SUFFICES ASSUME LateInv, [Next]_vars PROVE LateInv'
      OBVIOUS
    <2> USE DEF LateInv, sharedVars, historyVars
    <2>1. CASE Start \/ TakeRequest
      BY <2>1 DEF Start, TakeRequest, Exchange
    <2>2. CASE TestExit
      BY <2>2 DEF TestExit
    <2>3. CASE FirstHeartbeat \/ AttackAnswered \/ AttackFailed
      BY <2>3 DEF FirstHeartbeat, AttackAnswered, AttackFailed, SignalUI
    <2>4. CASE HeartbeatAnswered \/ HeartbeatFailed \/ Wake
      BY <2>4 DEF HeartbeatAnswered, HeartbeatFailed, Wake, SignalUI
    <2>5. CASE RequestAttack \/ WaitForAttack \/ AttackReturns \/ AttackTimesOut
      BY <2>5 DEF RequestAttack, WaitForAttack, AttackReturns, AttackTimesOut
    <2>6. CASE SpuriousWakeup \/ HeartbeatCallback \/ Join
      BY <2>6 DEF SpuriousWakeup, HeartbeatCallback, Join
    <2>7. CASE Quit
      BY <2>7 DEF Quit
    <2>8. CASE UNCHANGED vars
      BY <2>8 DEF vars
    <2> QED
      BY <2>1, <2>2, <2>3, <2>4, <2>5, <2>6, <2>7, <2>8, Steps
  <1>3. LateInv => AtMostOneExchangeAfterQuit
    BY DEF LateInv, AtMostOneExchangeAfterQuit
  <1> QED
    BY <1>1, <1>2, <1>3, PTL DEF Spec

-----------------------------------------------------------------------------
(* Results.  Unless an abandoned attack was still being exchanged when the *)
(* call was made, its request is never left behind: it is pending, or      *)
(* served, or completed, and only its own service can complete it.         *)

Pending == attack_requested /\ net # "attack" /\ ~attack_completed
Served == ~attack_requested /\ net = "attack" /\ serving = "this" /\ ~attack_completed
Completed ==
    /\ ~attack_requested /\ net \notin {"attack", "start"}
    /\ network_error = 0 => latest_state # "older"

CallInv ==
    ui \in {"waiting", "asleep"} /\ ~overlap => Pending \/ Served \/ Completed

LEMMA CallStep == CallInv /\ [Next]_vars => CallInv'
  <1> SUFFICES ASSUME CallInv, [Next]_vars PROVE CallInv'
    OBVIOUS
  <1> USE DEF CallInv, Pending, Served, Completed, sharedVars, historyVars
  <1>1. CASE RequestAttack
    BY <1>1 DEF RequestAttack, NewCall
  <1>2. CASE AttackReturns \/ AttackTimesOut \/ HeartbeatCallback \/ Quit \/ Join
    BY <1>2 DEF AttackReturns, AttackTimesOut, HeartbeatCallback, Quit, Join
  <1>3. CASE WaitForAttack \/ SpuriousWakeup
    BY <1>3 DEF WaitForAttack, SpuriousWakeup
  <1>4. CASE Start \/ TestExit \/ Wake
    BY <1>4 DEF Start, TestExit, Wake
  <1>5. CASE TakeRequest
    BY <1>5 DEF TakeRequest, Serve
  <1>6. CASE FirstHeartbeat
    BY <1>6 DEF FirstHeartbeat, SignalUI
  <1>7. CASE AttackAnswered
    BY <1>7 DEF AttackAnswered, SignalUI
  <1>8. CASE AttackFailed \/ HeartbeatFailed
    BY <1>8 DEF AttackFailed, HeartbeatFailed, SignalUI
  <1>9. CASE HeartbeatAnswered
    BY <1>9 DEF HeartbeatAnswered, SignalUI
  <1>10. CASE UNCHANGED vars
    BY <1>10 DEF vars
  <1> QED
    BY <1>1, <1>2, <1>3, <1>4, <1>5, <1>6, <1>7, <1>8, <1>9, <1>10, Steps

(* client.c, attack_cb_impl: the result it returns is not that of an older *)
(* attack, given up or not, unless the call was made during the exchange   *)
(* of an abandoned one.                                                    *)
THEOREM ResultNotOlder == Spec => ResultIsNotOlder
  <1>1. Init => CallInv
    BY DEF Init, CallInv
  <1>2. CallInv =>
          (AttackReturns /\ network_error = 0 /\ ~should_exit /\ ~overlap
             => latest_state # "older")
    BY DEF CallInv, Pending, Served, Completed, AttackReturns
  <1> QED
    BY <1>1, <1>2, CallStep, PTL DEF Spec, ResultIsNotOlder

-----------------------------------------------------------------------------
(* The game loop.                                                          *)

(* What each step does, for proofs that go through all of them.            *)
LEMMA GameSteps ==
  ASSUME [GameNext]_allVars
  PROVE  \/ GameAttackReturns \/ GameHeartbeatCallback \/ Dismiss
         \/ GameAttackTimesOut \/ GameQuit \/ GameRequestAttack
         \/ WaitForAttack /\ UNCHANGED gameVars
         \/ SpuriousWakeup /\ UNCHANGED gameVars
         \/ Join /\ UNCHANGED gameVars
         \/ GameAttackAnswered \/ GameFirstHeartbeat \/ GameHeartbeatAnswered
         \/ Start /\ UNCHANGED gameVars
         \/ TestExit /\ UNCHANGED gameVars
         \/ TakeRequest /\ UNCHANGED gameVars
         \/ AttackFailed /\ UNCHANGED gameVars
         \/ HeartbeatFailed /\ UNCHANGED gameVars
         \/ Wake /\ UNCHANGED gameVars
         \/ OthersLuckyKill \/ OffAir \/ RaidWon
         \/ UNCHANGED allVars
  BY DEF GameNext, GameUIStep, GameNetStep

LEMMA GameStepIsStep == [GameNext]_allVars => [Next]_vars
  <1> SUFFICES ASSUME [GameNext]_allVars PROVE [Next]_vars
    OBVIOUS
  <1>1. ASSUME \/ GameAttackReturns \/ GameHeartbeatCallback
               \/ GameAttackTimesOut \/ GameQuit \/ GameRequestAttack
        PROVE  Next
    BY <1>1 DEF GameAttackReturns, GameHeartbeatCallback, GameAttackTimesOut,
                GameQuit, GameRequestAttack, Next, UIStep
  <1>2. ASSUME GameAttackAnswered \/ GameFirstHeartbeat \/ GameHeartbeatAnswered
        PROVE  Next
    BY <1>2 DEF GameAttackAnswered, GameFirstHeartbeat, GameHeartbeatAnswered,
                Next, NetStep
  <1>3. ASSUME Dismiss \/ OthersLuckyKill \/ OffAir \/ RaidWon \/ UNCHANGED allVars
        PROVE  UNCHANGED vars
    BY <1>3 DEF Dismiss, OthersLuckyKill, OffAir, RaidWon, allVars
  <1> QED
    BY <1>1, <1>2, <1>3, GameSteps DEF Next, UIStep, NetStep

(* The game loop and the server around them leave the threads what they    *)
(* are: every theorem about ClientThreads is one about the game.           *)
THEOREM GameIsClient == GameSpec => Spec
  <1>1. GameInit => Init
    BY DEF GameInit
  <1> QED
    BY <1>1, GameStepIsStep, PTL DEF GameSpec, Spec

-----------------------------------------------------------------------------
(* Lucky kills.  All that happens to one, step by step.                    *)

luckyVars == <<on_air, events, latest_lucky, has_shown_lucky_kill, shows, attacked>>

Kills ==
    /\ NewEvent
    /\ UNCHANGED <<latest_lucky, has_shown_lucky_kill, shows, attacked>>
Clears ==
    /\ on_air' = 0
    /\ UNCHANGED <<events, latest_lucky, has_shown_lucky_kill, shows, attacked>>
Attacks ==
    /\ attacked' = TRUE
    /\ \/ NewEvent /\ latest_lucky' = events + 1
       \/ latest_lucky' = 0 /\ UNCHANGED <<on_air, events>>
    /\ UNCHANGED <<has_shown_lucky_kill, shows>>
Refreshes ==
    /\ latest_lucky' = on_air
    /\ UNCHANGED <<on_air, events, has_shown_lucky_kill, shows, attacked>>
Shows == GodDue /\ ShowGod /\ UNCHANGED <<on_air, events, latest_lucky>>
Resets ==
    /\ has_shown_lucky_kill' = (has_shown_lucky_kill /\ latest_lucky # 0)
    /\ UNCHANGED <<on_air, events, latest_lucky, shows, attacked>>

LEMMA LuckySteps ==
  ASSUME [GameNext]_allVars
  PROVE  \/ Kills \/ Clears \/ Attacks \/ Refreshes \/ Shows \/ Resets
         \/ UNCHANGED luckyVars
  <1> USE DEF luckyVars, serverVars, latestVars, screenVars
  <1>1. CASE GameAttackReturns
    BY <1>1 DEF GameAttackReturns, Shows
  <1>2. CASE GameHeartbeatCallback
    BY <1>2 DEF GameHeartbeatCallback, Shows, Resets
  <1>3. CASE GameAttackAnswered
    BY <1>3 DEF GameAttackAnswered, Attacks
  <1>4. CASE GameFirstHeartbeat
    BY <1>4 DEF GameFirstHeartbeat, Refreshes
  <1>5. CASE GameHeartbeatAnswered
    BY <1>5 DEF GameHeartbeatAnswered, Refreshes
  <1>6. CASE OthersLuckyKill
    BY <1>6 DEF OthersLuckyKill, Kills
  <1>7. CASE OffAir
    BY <1>7 DEF OffAir, Clears
  <1>8. CASE \/ Dismiss \/ GameAttackTimesOut \/ GameQuit \/ GameRequestAttack
             \/ RaidWon \/ UNCHANGED gameVars \/ UNCHANGED allVars
    BY <1>8 DEF Dismiss, GameAttackTimesOut, GameQuit, GameRequestAttack, RaidWon,
                gameVars, allVars
  <1> QED
    BY <1>1, <1>2, <1>3, <1>4, <1>5, <1>6, <1>7, <1>8, GameSteps

(* The event on the air is the newest; no shown event is newer than the    *)
(* one in latest_state; and while no attack of this player is answered, a  *)
(* shown event that can still be shown again is marked as shown.           *)
LuckyTypeOK ==
    /\ events \in Nat /\ on_air \in {0, events} /\ latest_lucky \in 0..events
    /\ shows \in [Event -> 0..2]

ShownIsPast ==
    \A e \in Event : shows[e] > 0 =>
        /\ e <= events
        /\ latest_lucky # 0 => e <= latest_lucky

ShownIsMarked ==
    \A e \in Event :
        ~attacked /\ shows[e] > 0 /\ (on_air = e \/ latest_lucky = e) =>
            has_shown_lucky_kill /\ latest_lucky = e

LuckyInv == LuckyTypeOK /\ ShownIsPast /\ ShownIsMarked

LEMMA LuckyStep == LuckyInv /\ [GameNext]_allVars => LuckyInv'
  <1> SUFFICES ASSUME LuckyInv, [GameNext]_allVars PROVE LuckyInv'
    OBVIOUS
  <1> USE EventsAssumption DEF LuckyInv, LuckyTypeOK, ShownIsPast, ShownIsMarked, Event
  <1>1. CASE Kills
    BY <1>1 DEF Kills, NewEvent
  <1>2. CASE Clears
    BY <1>2 DEF Clears
  <1>3. CASE Attacks
    BY <1>3 DEF Attacks, NewEvent
  <1>4. CASE Refreshes
    BY <1>4 DEF Refreshes
  <1>5. CASE Shows
    <2>1. shows' = [shows EXCEPT ![latest_lucky] = IF @ < 2 THEN @ + 1 ELSE @]
      BY <1>5 DEF Shows, ShowGod
    <2>2. has_shown_lucky_kill' /\ UNCHANGED <<on_air, events, latest_lucky>>
      BY <1>5 DEF Shows, ShowGod
    <2>3. latest_lucky # 0
      BY <1>5 DEF Shows, GodDue
    <2>4. shows' \in [Event -> 0..2]
      <3> SUFFICES ASSUME NEW e \in Event PROVE shows'[e] \in 0..2
        BY <2>1
      <3>1. shows[e] \in 0..2
        OBVIOUS
      <3>2. shows'[e] = IF e = latest_lucky
                        THEN IF shows[e] < 2 THEN shows[e] + 1 ELSE shows[e]
                        ELSE shows[e]
        BY <2>1
      <3> QED
        BY <3>1, <3>2
    <2>5. ASSUME NEW e \in Event, shows'[e] > 0
          PROVE  e <= latest_lucky /\ e <= events
      BY <2>1, <2>3, <2>5
    <2>6. ASSUME NEW e \in Event, shows'[e] > 0, on_air = e
          PROVE  latest_lucky = e
      BY <2>5, <2>6
    <2> QED
      BY <2>2, <2>4, <2>5, <2>6
  <1>6. CASE Resets
    <2>1. has_shown_lucky_kill /\ latest_lucky # 0 => has_shown_lucky_kill'
      BY <1>6, Zenon DEF Resets
    <2>2. UNCHANGED <<on_air, events, latest_lucky, shows, attacked>>
      BY <1>6, Zenon DEF Resets
    <2> QED
      BY <2>1, <2>2
  <1>7. CASE UNCHANGED luckyVars
    BY <1>7 DEF luckyVars
  <1> QED
    BY <1>1, <1>2, <1>3, <1>4, <1>5, <1>6, <1>7, LuckySteps

(* client_ui.c, has_shown_lucky_kill: it keeps a lucky kill from being     *)
(* shown twice, unless an answer to an attack came in between.             *)
THEOREM ShownAgainAfterAttack == GameSpec => ShownAgainOnlyAfterAttack
  <1>1. GameInit => LuckyInv
    BY EventsAssumption
       DEF GameInit, LuckyInv, LuckyTypeOK, ShownIsPast, ShownIsMarked, Event
  <1>2. LuckyInv /\ [GameNext]_allVars =>
          \A e \in Event : shows[e] = 1 /\ shows'[e] = 2 => attacked
    <2> SUFFICES ASSUME LuckyInv, [GameNext]_allVars, NEW e \in Event,
                        shows[e] = 1, shows'[e] = 2
                 PROVE  attacked
      OBVIOUS
    <2>1. Shows
      <3>1. Shows \/ shows' = shows
        BY LuckySteps, Zenon DEF Kills, Clears, Attacks, Refreshes, Resets, luckyVars
      <3> QED
        BY <3>1
    <2>2. latest_lucky = e /\ ~has_shown_lucky_kill
      BY <2>1 DEF Shows, ShowGod, GodDue, LuckyInv, LuckyTypeOK
    <2> QED
      BY <2>2 DEF LuckyInv, ShownIsMarked
  <1> QED
    BY <1>1, <1>2, LuckyStep, PTL DEF GameSpec, ShownAgainOnlyAfterAttack

-----------------------------------------------------------------------------
(* Types.                                                                  *)

FlagsOK ==
    /\ won \in BOOLEAN /\ latest_won \in BOOLEAN /\ g_won \in BOOLEAN
    /\ has_shown_lucky_kill \in BOOLEAN /\ attacked \in BOOLEAN

ScreenOK ==
    /\ screen \in {"loop", "god", "bonus", "victory"}
    /\ events \in 0..MaxEvents

LEMMA FlagsStep == FlagsOK /\ [GameNext]_allVars => FlagsOK'
  <1> SUFFICES ASSUME FlagsOK, [GameNext]_allVars PROVE FlagsOK'
    OBVIOUS
  <1> USE DEF FlagsOK, serverVars, latestVars, screenVars
  <1>1. CASE GameAttackReturns
    BY <1>1, Zenon DEF GameAttackReturns, ShowGod
  <1>2. CASE GameHeartbeatCallback
    BY <1>2, Zenon DEF GameHeartbeatCallback, ShowGod
  <1>3. CASE GameAttackAnswered
    BY <1>3, Zenon DEF GameAttackAnswered
  <1>4. CASE GameFirstHeartbeat
    BY <1>4, Zenon DEF GameFirstHeartbeat
  <1>5. CASE GameHeartbeatAnswered
    BY <1>5, Zenon DEF GameHeartbeatAnswered
  <1>6. CASE OthersLuckyKill \/ OffAir \/ RaidWon \/ Dismiss
    BY <1>6, Zenon DEF OthersLuckyKill, OffAir, RaidWon, Dismiss
  <1>7. CASE \/ GameAttackTimesOut \/ GameQuit \/ GameRequestAttack
             \/ UNCHANGED gameVars \/ UNCHANGED allVars
    BY <1>7, Zenon DEF GameAttackTimesOut, GameQuit, GameRequestAttack, gameVars, allVars
  <1> QED
    BY <1>1, <1>2, <1>3, <1>4, <1>5, <1>6, <1>7, GameSteps, Zenon

LEMMA ScreenStep == ScreenOK /\ [GameNext]_allVars => ScreenOK'
  <1> SUFFICES ASSUME ScreenOK, [GameNext]_allVars PROVE ScreenOK'
    OBVIOUS
  <1>1. events' \in 0..MaxEvents
    <2>1. NewEvent \/ events' = events
      BY LuckySteps DEF Kills, Clears, Attacks, Refreshes, Shows, Resets, luckyVars
    <2> QED
      BY <2>1, EventsAssumption DEF NewEvent, ScreenOK
  <1>2. screen' \in {"loop", "god", "bonus", "victory"}
    <2> USE DEF ScreenOK, serverVars, latestVars, screenVars
    <2>1. CASE GameAttackReturns \/ GameHeartbeatCallback \/ Dismiss
      BY <2>1 DEF GameAttackReturns, GameHeartbeatCallback, Dismiss, ShowGod, ThenVictory
    <2>2. CASE screen' = screen
      BY <2>2
    <2>3. CASE ~(GameAttackReturns \/ GameHeartbeatCallback \/ Dismiss)
      <3>1. screen' = screen
        BY <2>3, GameSteps, Zenon
        DEF GameAttackAnswered, GameFirstHeartbeat, GameHeartbeatAnswered, OthersLuckyKill,
            OffAir, RaidWon, GameAttackTimesOut, GameQuit, GameRequestAttack, gameVars, allVars
      <3> QED
        BY <3>1
    <2> QED
      BY <2>1, <2>3
  <1> QED
    BY <1>1, <1>2 DEF ScreenOK

(* The types of the game, for any number of lucky kills.                   *)
THEOREM GameTypeCorrect == GameSpec => []GameTypeOK
  <1>1. GameInit => LuckyInv
    BY EventsAssumption
       DEF GameInit, LuckyInv, LuckyTypeOK, ShownIsPast, ShownIsMarked, Event
  <1>2. GameInit => FlagsOK
    BY Zenon DEF GameInit, FlagsOK
  <1>3. GameInit => ScreenOK
    BY EventsAssumption DEF GameInit, ScreenOK
  <1>4. ASSUME TypeOK, LuckyInv, FlagsOK, ScreenOK PROVE GameTypeOK
    <2>1. /\ on_air \in 0..events /\ latest_lucky \in 0..events /\ events \in 0..MaxEvents
          /\ shows \in [Event -> 0..2]
      BY <1>4 DEF LuckyInv, LuckyTypeOK, ScreenOK
    <2> QED
      BY <1>4, <2>1, Zenon DEF FlagsOK, ScreenOK, GameTypeOK
  <1> QED
    BY <1>1, <1>2, <1>3, <1>4, LuckyStep, FlagsStep, ScreenStep, GameIsClient, TypeCorrect, PTL
       DEF GameSpec

=============================================================================
