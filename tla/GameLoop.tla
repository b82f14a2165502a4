------------------------------ MODULE GameLoop ------------------------------
(***************************************************************************)
(* What the player of the interactive client gets to see: ui_game_loop     *)
(* (client_ui.c) on top of the two threads of ClientThreads, against a     *)
(* server that broadcasts lucky kills and ends the raid.                   *)
(*                                                                         *)
(* A lucky kill is an event with a number.  The server has at most one on  *)
(* the air; a game state carries it (is_lucky = 1) or 0 (is_lucky = 0).    *)
(* The god, bonus and victory screens keep the UI thread until the player  *)
(* dismisses them; ui stays "loop" below them.                             *)
(***************************************************************************)
EXTENDS ClientThreads

CONSTANT MaxEvents       \* bound on the lucky kills of the raid

ASSUME EventsAssumption == MaxEvents \in Nat

VARIABLES
    (* The server. *)
    on_air,              \* the event being broadcast, or 0
    won,                 \* the second boss is dead
    (* latest_state, as far as ClientThreads leaves it out. *)
    latest_lucky,        \* the event it carries, or 0
    latest_won,          \* it says that the raid is over
    (* The UI thread. *)
    screen,              \* what it shows
    has_shown_lucky_kill,
    g_won,               \* the state being shown says that the raid is over
    (* History. *)
    events,              \* lucky kills so far
    shows,               \* how often each was shown, counted up to two
    attacked             \* an attack was answered since the last god screen

serverVars == <<on_air, won, events>>
latestVars == <<latest_lucky, latest_won>>
screenVars == <<screen, has_shown_lucky_kill, g_won, shows>>
gameVars == <<serverVars, latestVars, screenVars, attacked>>
allVars == <<vars, gameVars>>

Event == 1..MaxEvents

GameInit ==
    /\ Init
    /\ on_air = 0 /\ won = FALSE /\ events = 0
    /\ latest_lucky = 0 /\ latest_won = FALSE
    /\ screen = "loop" /\ has_shown_lucky_kill = FALSE /\ g_won = FALSE
    /\ shows = [e \in Event |-> 0]
    /\ attacked = FALSE

-----------------------------------------------------------------------------
(* The server and the other players.                                       *)

(* A lucky kill goes on the air, in place of one that may be there.        *)
NewEvent ==
    /\ events < MaxEvents
    /\ events' = events + 1
    /\ on_air' = events + 1

OthersLuckyKill ==
    /\ NewEvent
    /\ UNCHANGED <<vars, won, latestVars, screenVars, attacked>>

OffAir ==
    /\ on_air # 0
    /\ on_air' = 0
    /\ UNCHANGED <<vars, won, events, latestVars, screenVars, attacked>>

RaidWon ==
    /\ ~won
    /\ won' = TRUE
    /\ UNCHANGED <<vars, on_air, events, latestVars, screenVars, attacked>>

-----------------------------------------------------------------------------
(* The network thread: what it copies into latest_state.                   *)

(* The answer to an attack carries this attack's own lucky kill, and not   *)
(* the one that is on the air.                                             *)
GameAttackAnswered ==
    /\ AttackAnswered
    /\ \/ NewEvent /\ latest_lucky' = events + 1
       \/ latest_lucky' = 0 /\ UNCHANGED <<on_air, events>>
    /\ latest_won' = won
    /\ attacked' = TRUE
    /\ UNCHANGED <<won, screenVars>>

(* The first heartbeat clears the attack's fields whatever is on the air,  *)
(* and may fail.                                                           *)
GameFirstHeartbeat ==
    /\ FirstHeartbeat
    /\ IF state_updated'
       THEN latest_lucky' = on_air /\ latest_won' = won
       ELSE UNCHANGED latestVars
    /\ UNCHANGED <<serverVars, screenVars, attacked>>

(* Mutants of GameHeartbeatAnswered: a heartbeat does not carry is_lucky,  *)
(* as in the heartbeat callback of run_interactive_mode; or it refreshes   *)
(* all but the stage.                                                      *)
HeartbeatWithoutLucky ==
    /\ HeartbeatAnswered
    /\ latest_state' = IF on_air # 0 THEN latest_state ELSE "none"
    /\ latest_lucky' = 0
    /\ latest_won' = won
    /\ UNCHANGED <<serverVars, screenVars, attacked>>

HeartbeatWithoutStage ==
    /\ HeartbeatAnswered
    /\ latest_state' = IF on_air # 0 THEN latest_state ELSE "none"
    /\ latest_lucky' = on_air
    /\ UNCHANGED <<serverVars, latest_won, screenVars, attacked>>

GameHeartbeatAnswered ==
    /\ HeartbeatAnswered
    /\ latest_state' = IF on_air # 0 THEN latest_state ELSE "none"
    /\ latest_lucky' = on_air
    /\ latest_won' = won
    /\ UNCHANGED <<serverVars, screenVars, attacked>>

GameNetStep ==
    \/ GameAttackAnswered \/ GameFirstHeartbeat \/ GameHeartbeatAnswered
    \/ /\ Start \/ TestExit \/ TakeRequest \/ AttackFailed \/ HeartbeatFailed \/ Wake
       /\ UNCHANGED gameVars

-----------------------------------------------------------------------------
(* The UI thread.                                                          *)

(* Mutant of ShowGod: the flag is tested and never set.                    *)
ShowGodUnmarked ==
    /\ screen' = "god"
    /\ has_shown_lucky_kill' = FALSE
    /\ shows' = [shows EXCEPT ![latest_lucky] = IF @ < 2 THEN @ + 1 ELSE @]
    /\ attacked' = FALSE

(* ui_show_god_screen; the flag, which nobody reads meanwhile, is set      *)
(* behind it.                                                              *)
ShowGod ==
    /\ screen' = "god"
    /\ has_shown_lucky_kill' = TRUE
    /\ shows' = [shows EXCEPT ![latest_lucky] = IF @ < 2 THEN @ + 1 ELSE @]
    /\ attacked' = FALSE

(* The state that a callback returned says that the raid is over: victory  *)
(* comes behind every other screen.                                        *)
ThenVictory == screen' = IF latest_won THEN "victory" ELSE "loop"

GodDue == latest_lucky # 0 /\ ~has_shown_lucky_kill

(* The attack branch: god before bonus before nothing.  Only a result of   *)
(* an attack has is_crit set.                                              *)
GameAttackReturns ==
    /\ AttackReturns
    /\ IF network_error # 0 \/ should_exit
       THEN UNCHANGED <<screenVars, attacked>>
       ELSE /\ g_won' = latest_won
            /\ IF GodDue THEN ShowGod
               ELSE /\ \/ latest_state # "none" /\ screen' = "bonus"
                       \/ ThenVictory
                    /\ UNCHANGED <<has_shown_lucky_kill, shows, attacked>>
    /\ UNCHANGED <<serverVars, latestVars>>

(* The heartbeat branch: god, or the flag is reset.                        *)
GameHeartbeatCallback ==
    /\ screen = "loop"
    /\ HeartbeatCallback
    /\ g_won' = latest_won
    /\ IF GodDue THEN ShowGod
       ELSE /\ has_shown_lucky_kill' = (has_shown_lucky_kill /\ latest_lucky # 0)
            /\ ThenVictory
            /\ UNCHANGED <<shows, attacked>>
    /\ UNCHANGED <<serverVars, latestVars>>

(* The player presses the space bar.                                       *)
Dismiss ==
    /\ screen \in {"god", "bonus"}
    /\ screen' = IF g_won THEN "victory" ELSE "loop"
    /\ UNCHANGED <<vars, serverVars, latestVars, has_shown_lucky_kill, g_won,
                   shows, attacked>>

(* A call that times out comes back to the loop at once: an error in the   *)
(* log line is all that is shown.                                          *)
GameAttackTimesOut ==
    /\ AttackTimesOut
    /\ UNCHANGED gameVars

(* 'q' in the loop, or behind the victory.                                 *)
GameQuit ==
    /\ screen \in {"loop", "victory"}
    /\ Quit
    /\ UNCHANGED gameVars

GameRequestAttack ==
    /\ screen = "loop"
    /\ RequestAttack
    /\ UNCHANGED gameVars

GameUIStep ==
    \/ GameAttackReturns \/ GameHeartbeatCallback \/ Dismiss
    \/ GameAttackTimesOut \/ GameQuit \/ GameRequestAttack
    \/ (WaitForAttack \/ SpuriousWakeup \/ Join) /\ UNCHANGED gameVars

GameNext == GameUIStep \/ GameNetStep \/ OthersLuckyKill \/ OffAir \/ RaidWon

GameSpec == GameInit /\ [][GameNext]_allVars

(* As in ClientThreads; besides, the loop calls the heartbeat callback     *)
(* every sixth time around (idle_ticks), whether or not the player attacks *)
(* each time: hence the strong fairness.  Nothing is assumed about the     *)
(* player, the server, or the other players.                               *)
GameFairness ==
    /\ WF_allVars(WaitForAttack /\ UNCHANGED gameVars)
    /\ WF_allVars(GameAttackReturns) /\ SF_allVars(GameAttackTimesOut)
    /\ SF_allVars(GameHeartbeatCallback)
    /\ WF_allVars(Join /\ UNCHANGED gameVars)
    /\ WF_allVars((Start \/ TestExit \/ TakeRequest \/ Wake) /\ UNCHANGED gameVars)

GameLiveSpec == GameSpec /\ GameFairness
-----------------------------------------------------------------------------
(* Properties.                                                             *)

(* Every variable keeps to its type.                                       *)
GameTypeOK ==
    /\ TypeOK
    /\ on_air \in 0..events /\ events \in 0..MaxEvents
    /\ won \in BOOLEAN /\ latest_won \in BOOLEAN /\ g_won \in BOOLEAN
    /\ latest_lucky \in 0..events
    /\ screen \in {"loop", "god", "bonus", "victory"}
    /\ has_shown_lucky_kill \in BOOLEAN
    /\ shows \in [Event -> 0..2]
    /\ attacked \in BOOLEAN

(* "So that it is not shown twice": a lucky kill is shown again only if an *)
(* attack of this player was answered since.  Its answer has is_lucky = 0, *)
(* which the heartbeat callback takes for the end of the broadcast.        *)
ShownAgainOnlyAfterAttack ==
    [][\A e \in Event : shows[e] = 1 /\ shows'[e] = 2 => attacked]_allVars

(* What the comment on has_shown_lucky_kill in client_ui.c promises: it is *)
(* there "to avoid showing it twice".                                      *)
ShownOnce == \A e \in Event : shows[e] <= 1

(* Everybody sees the god screen: a lucky kill that finds the flag reset,  *)
(* and no other lucky kill in latest_state, is shown if it stays on the    *)
(* air, unless the player quits or the connection fails.  (One that takes  *)
(* over from another may not be: the flag stays set.)  Exchanges must end, *)
(* the player must dismiss what is shown before, and he must leave off     *)
(* attacking: the heartbeat callback comes right behind the attack's and   *)
(* reads the same state again, in which is_lucky is the attack's own, so   *)
(* one who attacks all the time may see none of the others' lucky kills.   *)
Playing ==
    /\ ui \in {"loop", "waiting", "asleep"} /\ net # "done"
    /\ network_error = 0 /\ screen # "victory"
Attentive ==
    /\ []<>(net \notin {"init_hb", "attack", "hb"})
    /\ []<>(screen \notin {"god", "bonus"})
LeavesOffAttacking == <>[](ui \notin {"waiting", "asleep"})
BroadcastIsShown ==
    Attentive /\ LeavesOffAttacking =>
        \A e \in Event :
            on_air = e /\ latest_lucky \in {0, e} /\ ~has_shown_lucky_kill /\ Playing
                ~> shows[e] > 0 \/ on_air # e \/ ~Playing

(* Everybody sees the victory, whoever won it, unless the player quits or  *)
(* the connection fails first, and even if he goes on attacking.           *)
VictoryIsShown ==
    Attentive => (won /\ Playing ~> screen = "victory" \/ ~Playing)
=============================================================================
