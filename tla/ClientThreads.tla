--------------------------- MODULE ClientThreads ---------------------------
(***************************************************************************)
(* The interactive client (client.c, run_interactive_mode_threaded): the   *)
(* UI thread, which asks for attacks and reads the latest state, and the   *)
(* network thread, which owns the connection.  They share SharedGameState, *)
(* under one mutex except for the test of should_exit in the loop of the   *)
(* network thread.                                                         *)
(*                                                                         *)
(* One action is one critical section, or one step between two of them.    *)
(* An exchange with the server begins when the network thread sends and    *)
(* may end well, fail, or never end.  The player may attack for ever: of a *)
(* game state we keep whether it carries the result of the attack that was *)
(* asked for last, of an older one, or of none.                            *)
(***************************************************************************)
EXTENDS Naturals

VARIABLES
    ui,                  \* where the UI thread is
    net,                 \* where the network thread is
    latest_state,        \* whose attack's result latest_state carries
    state_updated,
    attack_requested,
    attack_completed,
    should_exit,
    network_error,
    (* History. *)
    serving,             \* whose attack is being exchanged with the server
    sent,                \* attacks sent since the last was asked for
    overlap,             \* one was being exchanged when the last was asked for
    late                 \* exchanges begun after the player quit

sharedVars == <<latest_state, state_updated, attack_requested,
                attack_completed, should_exit, network_error>>
historyVars == <<serving, sent, overlap, late>>
vars == <<ui, net, sharedVars, historyVars>>

UI == {"loop", "waiting", "asleep", "quit", "finished"}
Net == {"start", "init_hb", "test", "take", "attack", "hb", "sleep", "done"}

(* Whose attack: the one asked for last, an older one, nobody's.            *)
Whose == {"this", "older", "none"}
Aged(whose) == IF whose = "this" THEN "older" ELSE whose

Init ==
    /\ ui = "loop"
    /\ net = "start"
    /\ latest_state = "none"
    /\ state_updated = FALSE
    /\ attack_requested = FALSE
    /\ attack_completed = FALSE
    /\ should_exit = FALSE
    /\ network_error = 0
    /\ serving = "none" /\ sent = 0 /\ overlap = FALSE /\ late = 0

-----------------------------------------------------------------------------
(* The UI thread.                                                          *)

(* History: what has been asked for before is older now.                   *)
NewCall ==
    /\ latest_state' = Aged(latest_state)
    /\ serving' = Aged(serving)
    /\ sent' = 0
    /\ overlap' = (net = "attack")

(* Mutant of RequestAttack: the previous completion is left standing.      *)
RequestAttackAgain ==
    /\ ui = "loop"
    /\ attack_requested' = TRUE
    /\ ui' = "waiting"
    /\ NewCall
    /\ UNCHANGED <<net, state_updated, attack_completed, should_exit,
                   network_error, late>>

(* attack_cb_impl, its first critical section.                             *)
RequestAttack ==
    /\ ui = "loop"
    /\ attack_requested' = TRUE
    /\ attack_completed' = FALSE
    /\ ui' = "waiting"
    /\ NewCall
    /\ UNCHANGED <<net, state_updated, should_exit, network_error, late>>

(* Its second: the condition is tested with the mutex held, before the     *)
(* first wait and after each.                                              *)
WaitForAttack ==
    /\ ui = "waiting"
    /\ ~attack_completed /\ ~should_exit
    /\ ui' = "asleep"
    /\ UNCHANGED <<net, sharedVars, historyVars>>

AttackReturns ==
    /\ ui = "waiting"
    /\ attack_completed \/ should_exit
    /\ ui' = "loop"
    /\ IF network_error # 0 \/ should_exit
       THEN UNCHANGED state_updated
       ELSE state_updated' = FALSE
    /\ UNCHANGED <<net, latest_state, attack_requested, attack_completed,
                   should_exit, network_error, historyVars>>

(* Mutant of AttackTimesOut: it goes back to wait.                         *)
AttackWaitsOn ==
    /\ ui = "asleep"
    /\ ui' = "waiting"
    /\ UNCHANGED <<net, sharedVars, historyVars>>

(* Five seconds are over: attack_cb_impl fails, whatever becomes of the    *)
(* attack.                                                                 *)
AttackTimesOut ==
    /\ ui = "asleep"
    /\ ui' = "loop"
    /\ UNCHANGED <<net, sharedVars, historyVars>>

SpuriousWakeup ==
    /\ ui = "asleep"
    /\ ui' = "waiting"
    /\ UNCHANGED <<net, sharedVars, historyVars>>

(* heartbeat_cb_impl: both of its branches return latest_state.            *)
HeartbeatCallback ==
    /\ ui = "loop"
    /\ state_updated' = FALSE
    /\ UNCHANGED <<ui, net, latest_state, attack_requested, attack_completed,
                   should_exit, network_error, historyVars>>

(* ui_game_loop returns: the player quits or the raid is won.              *)
Quit ==
    /\ ui = "loop"
    /\ should_exit' = TRUE
    /\ ui' = "quit"
    /\ UNCHANGED <<net, latest_state, state_updated, attack_requested,
                   attack_completed, network_error, historyVars>>

(* pthread_join returns.                                                   *)
Join ==
    /\ ui = "quit" /\ net = "done"
    /\ ui' = "finished"
    /\ UNCHANGED <<net, sharedVars, historyVars>>

-----------------------------------------------------------------------------
(* The network thread.                                                     *)

(* pthread_cond_signal(&state_updated_cond): it wakes the UI thread if it  *)
(* waits, and is lost otherwise.                                           *)
SignalUI == ui' = IF ui = "asleep" THEN "waiting" ELSE ui

(* One more exchange begins; late counts them up to two.                   *)
Exchange == late' = IF ui = "quit" /\ late < 2 THEN late + 1 ELSE late

(* network_error is reset and the first heartbeat is sent.                 *)
Start ==
    /\ net = "start"
    /\ net' = "init_hb"
    /\ network_error' = 0
    /\ Exchange
    /\ UNCHANGED <<ui, latest_state, state_updated, attack_requested,
                   attack_completed, should_exit, serving, sent, overlap>>

(* Its answer initialises the state; its failure is ignored.               *)
FirstHeartbeat ==
    /\ net = "init_hb"
    /\ net' = "test"
    /\ \/ /\ latest_state' = "none"
          /\ state_updated' = TRUE
          /\ SignalUI
       \/ UNCHANGED <<ui, latest_state, state_updated>>
    /\ UNCHANGED <<attack_requested, attack_completed, should_exit,
                   network_error, historyVars>>

(* while (!shared->should_exit), read without the mutex.                   *)
TestExit ==
    /\ net = "test"
    /\ net' = IF should_exit THEN "done" ELSE "take"
    /\ UNCHANGED <<ui, sharedVars, historyVars>>

(* History: the attack that begins is that of the last call.               *)
Serve ==
    IF attack_requested
    THEN serving' = "this" /\ sent' = IF sent < 2 THEN sent + 1 ELSE sent
    ELSE UNCHANGED <<serving, sent>>

(* Mutant of TakeRequest: the request is not marked as taken.              *)
TakeRequestKept ==
    /\ net = "take"
    /\ net' = IF attack_requested THEN "attack" ELSE "hb"
    /\ Serve
    /\ Exchange
    /\ UNCHANGED <<ui, sharedVars, overlap>>

(* The request is taken, or there is none; the exchange begins.            *)
TakeRequest ==
    /\ net = "take"
    /\ net' = IF attack_requested THEN "attack" ELSE "hb"
    /\ attack_requested' = FALSE
    /\ Serve
    /\ Exchange
    /\ UNCHANGED <<ui, latest_state, state_updated, attack_completed,
                   should_exit, network_error, overlap>>

(* Mutant of AttackAnswered: further requests are taken before the loop    *)
(* tests should_exit again.                                                *)
AttackAnsweredAndOn ==
    /\ net = "attack"
    /\ net' = "take"
    /\ latest_state' = serving
    /\ state_updated' = TRUE
    /\ attack_completed' = TRUE
    /\ SignalUI
    /\ serving' = "none"
    /\ UNCHANGED <<attack_requested, should_exit, network_error, sent, overlap, late>>

AttackAnswered ==
    /\ net = "attack"
    /\ net' = "test"
    /\ latest_state' = serving
    /\ state_updated' = TRUE
    /\ attack_completed' = TRUE
    /\ SignalUI
    /\ serving' = "none"
    /\ UNCHANGED <<attack_requested, should_exit, network_error, sent, overlap, late>>

(* Mutants of AttackFailed: the UI thread is not signalled; network_error  *)
(* counts the failures.                                                    *)
AttackFailedSilently ==
    /\ net = "attack"
    /\ net' = "test"
    /\ network_error' = 1
    /\ attack_completed' = TRUE
    /\ serving' = "none"
    /\ UNCHANGED <<ui, latest_state, state_updated, attack_requested,
                   should_exit, sent, overlap, late>>

AttackFailedCounts ==
    /\ net = "attack"
    /\ net' = "test"
    /\ network_error' = network_error + 1
    /\ attack_completed' = TRUE
    /\ SignalUI
    /\ serving' = "none"
    /\ UNCHANGED <<latest_state, state_updated, attack_requested, should_exit,
                   sent, overlap, late>>

(* network_error stays set from here on (1 stands for the code's -1), but  *)
(* the loop goes on.                                                       *)
AttackFailed ==
    /\ net = "attack"
    /\ net' = "test"
    /\ network_error' = 1
    /\ attack_completed' = TRUE
    /\ SignalUI
    /\ serving' = "none"
    /\ UNCHANGED <<latest_state, state_updated, attack_requested, should_exit,
                   sent, overlap, late>>

(* A heartbeat's answer clears what the last attack left in latest_state,  *)
(* unless it announces a lucky kill.                                       *)
HeartbeatAnswered ==
    /\ net = "hb"
    /\ net' = "sleep"
    /\ \E is_lucky \in BOOLEAN :
         latest_state' = IF is_lucky THEN latest_state ELSE "none"
    /\ state_updated' = TRUE
    /\ SignalUI
    /\ UNCHANGED <<attack_requested, attack_completed, should_exit,
                   network_error, historyVars>>

HeartbeatFailed ==
    /\ net = "hb"
    /\ net' = "done"
    /\ network_error' = 1
    /\ should_exit' = TRUE
    /\ SignalUI
    /\ UNCHANGED <<latest_state, state_updated, attack_requested,
                   attack_completed, historyVars>>

(* Mutant of Wake: the heartbeats go on whatever should_exit says.         *)
WakeAndOn ==
    /\ net = "sleep"
    /\ net' = "take"
    /\ UNCHANGED <<ui, sharedVars, historyVars>>

(* usleep returns.                                                         *)
Wake ==
    /\ net = "sleep"
    /\ net' = "test"
    /\ UNCHANGED <<ui, sharedVars, historyVars>>

-----------------------------------------------------------------------------
UIStep ==
    \/ WaitForAttack \/ AttackReturns \/ AttackTimesOut \/ SpuriousWakeup
    \/ RequestAttack \/ HeartbeatCallback \/ Quit \/ Join

NetStep ==
    \/ Start \/ FirstHeartbeat \/ TestExit \/ TakeRequest
    \/ AttackAnswered \/ AttackFailed
    \/ HeartbeatAnswered \/ HeartbeatFailed \/ Wake

Next == UIStep \/ NetStep

Spec == Init /\ [][Next]_vars

(* Both threads are scheduled.  The deadline of the timed wait is fixed    *)
(* before the first wait, so wakeups cannot put it off for ever.  Nothing  *)
(* is assumed about the player, who may go on attacking for ever, nor      *)
(* about exchanges with the server, which may never end.                   *)
Fairness ==
    /\ WF_vars(WaitForAttack) /\ WF_vars(AttackReturns) /\ WF_vars(Join)
    /\ SF_vars(AttackTimesOut)
    /\ WF_vars(Start) /\ WF_vars(TestExit) /\ WF_vars(TakeRequest)
    /\ WF_vars(Wake)

LiveSpec == Spec /\ Fairness
-----------------------------------------------------------------------------
(* Properties.                                                             *)

(* Every variable keeps to its type.                                       *)
TypeOK ==
    /\ ui \in UI /\ net \in Net
    /\ state_updated \in BOOLEAN
    /\ attack_requested \in BOOLEAN /\ attack_completed \in BOOLEAN
    /\ should_exit \in BOOLEAN
    /\ network_error \in {0, 1}
    /\ latest_state \in Whose /\ serving \in Whose
    /\ sent \in 0..2 /\ late \in 0..2
    /\ overlap \in BOOLEAN

(* No wakeup is lost: attack_cb_impl does not sleep on state_updated_cond  *)
(* once what it waits for has happened, so its timeout is only ever needed *)
(* for a server that does not answer.                                      *)
SleepsOnlyWhileNeeded == ui = "asleep" => ~attack_completed /\ ~should_exit

(* The player's key presses are not multiplied: with retries by hand after *)
(* timeouts, and requests that come while another is being served, the     *)
(* network thread sends at most one attack for each that is asked for.     *)
NoMoreAttacksThanAsked == sent <= 1

(* What attack_cb_impl returns is not the result of an attack asked for    *)
(* before this call, not even of one that was given up: it is this         *)
(* attack's, or a heartbeat's that came behind it.  The exception is the   *)
(* call made while the exchange of an abandoned attack is still going on:  *)
(* its completion is taken for this call's.                                *)
ResultIsNotOlder ==
    [][AttackReturns /\ network_error = 0 /\ ~should_exit /\ ~overlap
        => latest_state # "older"]_vars

(* After the player quits the network thread begins at most one more       *)
(* exchange before pthread_join returns, although it tests should_exit     *)
(* without the mutex and a request may still be pending.                   *)
AtMostOneExchangeAfterQuit == late <= 1

(* The UI is not frozen by a server that does not answer.                  *)
AttackCallReturns == ui \in {"waiting", "asleep"} ~> ui = "loop"

(* If no exchange with the server hangs, the client that was told to quit  *)
(* quits.                                                                  *)
QuitEnds ==
    []<>(net \notin {"init_hb", "attack", "hb"}) =>
        (ui = "quit" ~> ui = "finished")
=============================================================================
