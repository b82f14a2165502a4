----------------------------- MODULE GameClient -----------------------------
(***************************************************************************)
(* When the three modes of client.c send, against the two clocks of the    *)
(* server's end of the connection: the rate limiter's seconds and the      *)
(* receive timeout.  The modes are the threaded interactive client (the    *)
(* default), the single-threaded one (--single-thread), in which the UI    *)
(* loop itself talks to the server, and a thread of the stress test.       *)
(*                                                                         *)
(* Time passes in ticks.  A thread sets a timer when it sleeps or polls;   *)
(* it goes on when the timer has run out, at most MaxLag ticks later.  The *)
(* same bound holds for a request and for an answer on its way.  Only a    *)
(* screen that waits for the player keeps a thread for longer.             *)
(***************************************************************************)
EXTENDS Integers

CONSTANTS
    TicksPerSecond,      \* 20: a tick is the 50 ms of usleep and timeout
    Poll, FastPoll,      \* getch: 2 ticks, and 1 after a screen was shown
    DiceTicks,           \* animate_dice_roll: 10
    HeartbeatTicks,      \* the network thread's usleep: 10
    StressTicks,         \* the stress thread's usleep: 5
    MaxRequests,         \* of the server's rate limiter: 5 in a second
    ReceiveTimeout,      \* of the server
    MaxLag               \* how late a thread or a packet may be

ASSUME ClientAssumption ==
    /\ \A n \in {TicksPerSecond, Poll, FastPoll, DiceTicks, HeartbeatTicks,
                 StressTicks, MaxRequests, ReceiveTimeout} : n \in Nat \ {0}
    /\ MaxLag \in Nat

(* What the intervals of client.c are to each other, and to the server's:  *)
(* how many of each fill a second, how many of them make up a silence that *)
(* is too long.  With nothing later than MaxLag this is all that the pace  *)
(* of the client rests on.                                                 *)
ASSUME PaceAssumption ==
    /\ TicksPerSecond <= 2 * HeartbeatTicks /\ TicksPerSecond <= 2 * DiceTicks
    /\ TicksPerSecond <= 4 * StressTicks /\ TicksPerSecond <= 24 * FastPoll
    /\ FastPoll <= Poll /\ FastPoll <= DiceTicks
    /\ MaxRequests >= 5
    /\ HeartbeatTicks + 4 * MaxLag < ReceiveTimeout
    /\ StressTicks + 4 * MaxLag < ReceiveTimeout
    /\ 6 * Poll + DiceTicks + 14 * MaxLag < ReceiveTimeout

VARIABLES
    mode,                \* which of the three runs
    ui, ui_timer,        \* the UI thread: where it is, and till when
    net, net_timer,      \* the network thread, or the stress thread
    poll,                \* the timeout that getch has at present
    idle_ticks,          \* rounds of the UI loop since it called heartbeat_cb
    attack_requested,    \* by the UI thread, of the network thread
    attack_completed,
    line, line_timer,    \* a packet of the current exchange is on its way
    phase,               \* the instant, within the server's second
    request_count, window_start, \* the server's rate limiter
    silence,             \* ticks since the server took its last packet
    closed,              \* why the server closed the connection
    (* History. *)
    hurried,             \* keys other than SPACE cut polls short
    screened             \* a screen was up at some time of this silence

uiVars == <<ui, ui_timer, poll, idle_ticks, hurried>>
netVars == <<net, net_timer>>
sharedVars == <<attack_requested, attack_completed>>
lineVars == <<line, line_timer>>
limiterVars == <<request_count, window_start>>
serverVars == <<phase, limiterVars, silence, closed, screened>>
vars == <<mode, uiVars, netVars, sharedVars, lineVars, serverVars>>

(* Seconds are relative to the present one, which is 0; those before it    *)
(* are -1.                                                                 *)
Limiter == INSTANCE RateLimiter WITH
    tick <- phase, granted <- << >>, closed <- closed = "refused",
    max_requests <- MaxRequests, window_seconds <- 1, MaxTicks <- 0

UI == {"loop", "dice", "waiting", "attack", "next", "heartbeat", "screen",
       "victory", "none"}
Net == {"first", "opening", "take", "attack", "heartbeat", "sleep", "shoot", "shot",
        "pause", "none"}

(* The player has joined: rate_limiter_init was some time before.          *)
Init ==
    /\ mode \in {"threaded", "single", "stress"}
    /\ ui = (IF mode = "stress" THEN "none" ELSE "loop")
    /\ net = (CASE mode = "threaded" -> "first"
                [] mode = "single"   -> "none"
                [] mode = "stress"   -> "shoot")
    /\ ui_timer = Poll /\ net_timer = 0
    /\ poll = Poll /\ idle_ticks = 0 /\ hurried = FALSE
    /\ attack_requested = FALSE /\ attack_completed = FALSE
    /\ line = "idle" /\ line_timer = 0
    /\ phase \in 0..(TicksPerSecond - 1)
    /\ request_count = 0 /\ window_start \in {-1, 0}
    /\ silence = 0 /\ closed = "no" /\ screened = FALSE

-----------------------------------------------------------------------------
(* One exchange: the request, the checks of handle_client, the answer.     *)

Open == closed = "no"

Send ==
    /\ line = "idle"
    /\ line' = "request" /\ line_timer' = 0

ServerTakes ==
    /\ Open /\ line = "request"
    /\ Limiter!CountRequest
    /\ silence' = 0 /\ screened' = FALSE
    /\ closed' = IF Limiter!Refused THEN "refused" ELSE closed
    /\ line' = "answer" /\ line_timer' = 0
    /\ UNCHANGED <<mode, uiVars, netVars, sharedVars, phase>>

Receive ==
    /\ Open /\ line = "answer"
    /\ line' = "idle" /\ line_timer' = 0

-----------------------------------------------------------------------------
(* ui_game_loop.                                                           *)

UIGoes(from, to, timer) ==
    /\ Open /\ ui = from /\ ui_timer <= 0
    /\ ui' = to /\ ui_timer' = timer

(* A screen that waits for its key, then the next round.                   *)
OrScreen(from, to, timer) ==
    \/ UIGoes(from, to, timer)
    \/ UIGoes(from, "screen", 0)
    \/ UIGoes(from, "victory", 0)

(* getch returns nothing, or at once a key that means nothing.             *)
PollEnds ==
    /\ UIGoes("loop", "next", 0)
    /\ UNCHANGED <<mode, poll, idle_ticks, hurried, netVars, sharedVars,
                   lineVars, serverVars>>

(* Mutant of OtherKey: a key press is no idle round, and starts the count  *)
(* over.                                                                   *)
OtherKeyNotIdle ==
    /\ Open /\ ui = "loop" /\ ui_timer > 0
    /\ ui' = "next" /\ ui_timer' = 0
    /\ idle_ticks' = 0
    /\ hurried' = (mode = "single")
    /\ UNCHANGED <<mode, poll, netVars, sharedVars, lineVars, serverVars>>

OtherKey ==
    /\ Open /\ ui = "loop" /\ ui_timer > 0
    /\ ui' = "next" /\ ui_timer' = 0
    /\ hurried' = (mode = "single")
    /\ UNCHANGED <<mode, poll, idle_ticks, netVars, sharedVars, lineVars, serverVars>>

(* SPACE: the dice are animated first.                                     *)
SpaceKey ==
    /\ Open /\ ui = "loop"
    /\ ui' = "dice" /\ ui_timer' = DiceTicks
    /\ UNCHANGED <<mode, poll, idle_ticks, hurried, netVars, sharedVars,
                   lineVars, serverVars>>

(* attack_cb of the threaded client: a request to the network thread.  It  *)
(* returns when an attack completes.  Its 5 seconds never run out here: no *)
(* answer takes a quarter of that while nothing is later than MaxLag.      *)
RequestAttack ==
    /\ mode = "threaded"
    /\ UIGoes("dice", "waiting", 0)
    /\ attack_requested' = TRUE /\ attack_completed' = FALSE
    /\ UNCHANGED <<mode, poll, idle_ticks, hurried, netVars, lineVars, serverVars>>

AttackReturns ==
    /\ attack_completed
    /\ OrScreen("waiting", "next", 0)
    /\ UNCHANGED <<mode, poll, idle_ticks, hurried, netVars, sharedVars,
                   lineVars, serverVars>>

(* attack_cb of the single-threaded client: the exchange itself.           *)
SendAttack ==
    /\ mode = "single"
    /\ UIGoes("dice", "attack", 0)
    /\ Send
    /\ UNCHANGED <<mode, poll, idle_ticks, hurried, netVars, sharedVars, serverVars>>

AttackAnswered ==
    /\ Receive
    /\ OrScreen("attack", "next", 0)
    /\ UNCHANGED <<mode, poll, idle_ticks, hurried, netVars, sharedVars, serverVars>>

(* The god and bonus screens leave getch with a timeout of 50 ms.  Victory *)
(* may come behind them.                                                   *)
LeaveScreen ==
    /\ Open /\ ui = "screen"
    /\ ui' \in {"next", "victory"} /\ ui_timer' = 0
    /\ poll' = FastPoll
    /\ UNCHANGED <<mode, idle_ticks, hurried, netVars, sharedVars, lineVars,
                   serverVars>>

(* The end of a round: every sixth calls heartbeat_cb.  In the threaded    *)
(* client that is no concern of the server's, and not counted.             *)
NextRound ==
    \/ /\ UIGoes("next", "loop", poll)
       /\ idle_ticks < 5
       /\ idle_ticks' = IF mode = "single" THEN idle_ticks + 1 ELSE 0
       /\ UNCHANGED <<mode, poll, hurried, netVars, sharedVars, lineVars, serverVars>>
    \/ /\ UIGoes("next", "heartbeat", 0)
       /\ idle_ticks = 5
       /\ idle_ticks' = 0
       /\ Send
       /\ UNCHANGED <<mode, poll, hurried, netVars, sharedVars, serverVars>>

(* Its heartbeats have no lucky kills: no screen but the victory.          *)
HeartbeatAnswered ==
    /\ Receive
    /\ \/ UIGoes("heartbeat", "loop", poll)
       \/ UIGoes("heartbeat", "victory", 0)
    /\ UNCHANGED <<mode, poll, idle_ticks, hurried, netVars, sharedVars, serverVars>>

UIStep ==
    \/ PollEnds \/ OtherKey \/ SpaceKey \/ RequestAttack \/ AttackReturns
    \/ SendAttack \/ AttackAnswered \/ LeaveScreen \/ NextRound
    \/ HeartbeatAnswered

-----------------------------------------------------------------------------
(* network_thread_func and stress_worker_thread.                           *)

NetGoes(from, to, timer) ==
    /\ Open /\ net = from /\ net_timer <= 0
    /\ net' = to /\ net_timer' = timer

(* The first heartbeat is followed by no sleep.                            *)
FirstHeartbeat ==
    /\ NetGoes("first", "opening", 0)
    /\ Send
    /\ UNCHANGED <<mode, uiVars, sharedVars, serverVars>>

FirstAnswered ==
    /\ Receive
    /\ NetGoes("opening", "take", 0)
    /\ UNCHANGED <<mode, uiVars, sharedVars, serverVars>>

(* The next: an attack if one is asked for, else a heartbeat.              *)
TakeRequest ==
    /\ NetGoes("take", IF attack_requested THEN "attack" ELSE "heartbeat", 0)
    /\ attack_requested' = FALSE
    /\ Send
    /\ UNCHANGED <<mode, uiVars, attack_completed, serverVars>>

NetAttackAnswered ==
    /\ Receive
    /\ NetGoes("attack", "take", 0)
    /\ attack_completed' = TRUE
    /\ UNCHANGED <<mode, uiVars, attack_requested, serverVars>>

(* Mutant of NetHeartbeatAnswered: half the pause.                         *)
NetHeartbeatHalfPause ==
    /\ Receive
    /\ NetGoes("heartbeat", "sleep", HeartbeatTicks \div 2)
    /\ UNCHANGED <<mode, uiVars, sharedVars, serverVars>>

NetHeartbeatAnswered ==
    /\ Receive
    /\ NetGoes("heartbeat", "sleep", HeartbeatTicks)
    /\ UNCHANGED <<mode, uiVars, sharedVars, serverVars>>

NetWakes ==
    /\ NetGoes("sleep", "take", 0)
    /\ UNCHANGED <<mode, uiVars, sharedVars, lineVars, serverVars>>

Shoot ==
    /\ NetGoes("shoot", "shot", 0)
    /\ Send
    /\ UNCHANGED <<mode, uiVars, sharedVars, serverVars>>

ShotAnswered ==
    /\ Receive
    /\ NetGoes("shot", "pause", StressTicks)
    /\ UNCHANGED <<mode, uiVars, sharedVars, serverVars>>

PauseEnds ==
    /\ NetGoes("pause", "shoot", 0)
    /\ UNCHANGED <<mode, uiVars, sharedVars, lineVars, serverVars>>

NetStep ==
    \/ FirstHeartbeat \/ FirstAnswered \/ TakeRequest \/ NetAttackAnswered
    \/ NetHeartbeatAnswered \/ NetWakes \/ Shoot \/ ShotAnswered \/ PauseEnds

-----------------------------------------------------------------------------
(* Time.                                                                   *)

(* Who waits for a timer: not a thread that waits for the other, for an    *)
(* answer, or for the player.                                              *)
UITimed ==
    \/ ui \in {"loop", "dice", "next"}
    \/ ui = "waiting" /\ attack_completed
Screen == ui \in {"screen", "victory"}
NetTimed == net \in {"first", "take", "sleep", "shoot", "pause"}

(* The server's select() gives up if a whole ReceiveTimeout was silent.    *)
Tick ==
    /\ Open
    /\ UITimed => ui_timer > -MaxLag
    /\ NetTimed => net_timer > -MaxLag
    /\ line # "idle" => line_timer > -MaxLag
    /\ ui_timer' = IF UITimed THEN ui_timer - 1 ELSE ui_timer
    /\ net_timer' = IF NetTimed THEN net_timer - 1 ELSE net_timer
    /\ line_timer' = IF line # "idle" THEN line_timer - 1 ELSE line_timer
    /\ phase' = (phase + 1) % TicksPerSecond
    /\ window_start' = IF phase' = 0 THEN -1 ELSE window_start
    /\ silence' = silence + 1
    /\ closed' = IF silence' >= ReceiveTimeout THEN "silent" ELSE closed
    /\ screened' = (screened \/ Screen)
    /\ UNCHANGED <<mode, ui, poll, idle_ticks, hurried, net, sharedVars, line,
                   request_count>>

Next == UIStep \/ NetStep \/ ServerTakes \/ Tick

Spec == Init /\ [][Next]_vars
-----------------------------------------------------------------------------
(* Properties.                                                             *)

(* The pace of every mode fits the limiter: nobody is refused for going    *)
(* about the game as the loop lets him, although an attack brings on a     *)
(* heartbeat at once and the first heartbeat has no pause behind it.  Only *)
(* the single-threaded client can be made to send too fast, by keys that   *)
(* cut short its polls and so bring on its heartbeats.                     *)
RefusedOnlyIfHurried == closed = "refused" => mode = "single" /\ hurried

(* Nobody is dropped for silence while he watches the fight: the heartbeat *)
(* comes in time, whatever the player does.  Only the single-threaded      *)
(* client is, behind a screen that waits for its player.                   *)
SilentOnlyBehindScreen ==
    closed = "silent" => mode = "single" /\ screened
=============================================================================
