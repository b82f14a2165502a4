# WorldBossRaid: TLA+ models and proofs

WorldBossRaid is a small multi-player game: a server that forks one worker
process per TLS connection, with the raid (two bosses, one after the other) in
shared memory, and a terminal client that is also a stress tester. These modules
model the parts of it where processes, threads, clocks and counters meet, check
them with TLC on small instances, and prove the main invariants with TLAPS for
all instances.

## 1. The system

| Component | State | Operations | Hard about it |
|---|---|---|---|
| Shared game state (`gamestate.c`) | boss stage, hit points, respawn flag, last killer, online count, streak table, lucky-kill flag; one process-shared mutex | join, leave, snapshot, apply damage, spawn next boss, update streak, mark / clear lucky kill | every call is atomic, sequences of calls are not; a call may come from a worker that has seen an older state |
| Attack resolution (`dice.c`) | locals of one attack | `game_process_attack`: snapshot, roll, streak, damage, spawn, snapshot | five separate critical sections; the killer alone owes the next boss |
| Master and workers (`server.c`) | open descriptors, pending signals, the mutex's owner | accept, fork, reap, `sigquit_handler`, ends of processes | handlers interrupt anything, the mutex may lose its owner or be destroyed, descriptors are inherited |
| Sessions (`client_handler.c`) | player id, last heartbeat, rate limiter, replay protection | `handle_client` loop, `cleanup_client` | two timeouts, eight ways out, each must give back the online count; SIGPIPE is not handled |
| Rate limiter | count and start of the present window | `rate_limiter_check` | whole seconds, window edges |
| Replay protection | last sequence number | `replay_protection_validate` | 32-bit roll-over |
| Threaded client (`client.c`, the default) | `SharedGameState`: latest state, request and completion flags, exit flag, error | UI thread callbacks, network thread loop | condition variable with timeout, one unlocked read, stale completions |
| Single-threaded client (`--single-thread`) | none of its own | the UI loop's callbacks are exchanges | the loop's own pace is the pace of the connection |
| Stress client (`--stress`) | the global `g_seq_num` | 100 threads, each numbering its packets | a counter without a lock |
| User interface (`client/ui`) | `has_shown_lucky_kill`, the timeout of `getch`, `idle_ticks` | `ui_game_loop`, screens that wait for a key | a flag it polls and forgets, rounds instead of time |
| TLS, logging | OpenSSL's, `localtime`'s lock | handshake, `log_write` | both can be interrupted, one of them by itself |

Workers interact only through the shared memory; clients interact with a worker
through request and reply; the two client threads through `SharedGameState`.

What makes each part correct:

- *Game state and attacks*: each boss falls once, to one credited player, and is
  replaced once, by its killer; the health bar is always that of the boss named;
  what players are shown never goes backwards; few hits land on a boss they were
  not rolled for; a lucky kill is broadcast for its window and not for ever; the
  online count is that of the players who are there, and of those whose worker was
  killed.
- *Processes*: one worker at a time in the shared memory, whatever ends or
  interrupts the others; no lost update; a connection closes when its worker
  ends; children are reaped; the shutdown comes to its end and frees the port.
- *Sessions*: a client that behaves is never turned away; a silent one is
  dropped; every end of a session undoes its join.
- *Limiter*: counts what it let through, bounds any interval, and the pace of
  the clients fits it.
- *Replay protection*: the next number always passes; one that has passed does not
  pass again until the numbers have moved on by half their range or have rolled
  over. (Just behind a rollover the last numbers before it do pass again: the code
  takes them for numbers that rolled over in their turn.)
- *Client*: no lost wakeup, no multiplied attack, no older attack's result, no
  frozen screen, a clean end; the victory is shown, and a broadcast once the player
  leaves off attacking; nothing is shown again without an attack in between.

## 2. Modules

| Module | Models | Built on |
|---|---|---|
| `BossRaid` | what the raid promises, without processes | |
| `GameState` | the `gamestate_*` operations, one operator per critical section | |
| `RaidServer` | workers running `handle_client` and `game_process_attack` over the shared memory; deaths; clock | `GameState`; implements `BossRaid` |
| `MCRaidServer` | dice faces and symmetry for TLC | `RaidServer` |
| `RaidServerProofs` | theorems about `RaidServer` | `RaidServer` |
| `ServerProcesses` | master, workers, signals, the mutex with owners that may die, descriptors, the shutdown | |
| `ServerProcessesProofs` | theorems about `ServerProcesses` | `ServerProcesses` |
| `RateLimiter` | the fixed-window limiter at sub-second resolution | |
| `RateLimiterProofs` | theorems about `RateLimiter` | `RateLimiter` |
| `ReplayProtection` | which number is accepted after which | |
| `ReplayProtectionProofs` | theorems about the rule, for any modulus | `ReplayProtection` |
| `ClientSession` | one connection through the checks and timeouts of `handle_client` | `ReplayProtection`, `RateLimiter` |
| `ClientSessionProofs` | theorems about `ClientSession` | `ClientSession`, `ReplayProtectionProofs` |
| `ClientThreads` | UI thread and network thread | |
| `GameLoop` | `ui_game_loop` on top of the threads: screens, `has_shown_lucky_kill`, victory | `ClientThreads`, which it implements |
| `GameLoopProofs` | theorems about `ClientThreads` and `GameLoop` | `GameLoop` |
| `GameClient` | when the three modes of the client send, against the server's clocks | `RateLimiter` |
| `GameClientProofs` | theorems about `GameClient` | `GameClient` |
| `StressClient` | threads sharing `g_seq_num`, replay protection at the far end | `ReplayProtection` |
| `StressClientProofs` | theorems about `StressClient` | `StressClient`, `ReplayProtectionProofs` |

Names follow the source: `GamestateApplyDamage` is `gamestate_apply_damage`, the
variables of `GameState` are the fields of `GameSharedData`, those of
`ClientThreads` the fields of `SharedGameState`. A variable commented *history*
is not in the program; properties need it to speak of what happened. Operators
commented *Mutant of ...* are not part of any specification: each is a plausible
slip in one definition, and shows that the property it is paired with in
`PROJECT.json` notices.

**RaidServer.** `pc[w]` is where worker `w` stands between two accesses to shared
memory. An attack goes `loop -> win -> apply -> spawn -> final -> reply -> loop`
(or `mark`, or `lose`), so that any other worker may run between any two calls;
a heartbeat copies the state (`Heartbeat`), decides about the lucky flag on the
copy (`DecideLucky`) and clears it in a further critical section
(`ClearLuckyKill`). Dice are free choices. A dice value sent by the client and
one rolled by the server lead to the same choice, so they are not told apart.
The streak table is a function on the names that have a slot. A worker leaves
through `Drop` and `Leave` (`cleanup_client`), or dies: `SigPipe` at a write to a
peer that is gone, `Killed` at any point between two calls. Of the history, `leaked`
counts the players of killed workers, `kills` those credited with a boss, and
`strays` the hits that land on a later boss than the one they were rolled for.

**ServerProcesses.** `RaidServer` takes critical sections to be atomic and whole;
this module is about what makes them so. `pc[w]` is where worker `w` stands:
forked, in the handshake, inside `log_write`, waiting for a packet, at
`pthread_mutex_lock`, inside a section, logging inside a section
(`gamestate_apply_damage` and `gamestate_spawn_next_boss` do), in the handler of
SIGQUIT. `todo[w]` says what it is heading for. Of the protected memory the
online count stands for all: `Lock` reads it, `Unlock` writes it. A worker may be
killed at any point; a mutex it held is then owned by `Lost`. `held[p]` are the
descriptors process `p` has open; `Fork` copies the master's. SIGCHLD is one bit,
`sigchld_handler` a loop on top of the master's own steps. SIGQUIT goes to the
master alone (`kill`) or to the whole group (the terminal), and its handler may
interrupt anything: where it interrupts `log_write` it may hang on `localtime`'s
lock, where it interrupts a section `pthread_mutex_destroy` finds the mutex
locked. What a destroyed mutex does is undefined in POSIX; the model takes
glibc's behaviour: destroying a locked mutex fails (EBUSY), locking a destroyed
one fails at once (EINVAL), and of the workers that were about to lock it when it
was destroyed all but one may sleep for ever (`LeftAsleep`).

**ClientSession.** The peer may send any packet (opcode, sequence number, one
fault) at any time, stop in the middle of one, or go away. The order of the
checks is the code's: length, replay, checksum, rate, opcode, size, switch. What
the client itself did is recorded (`proper`, `spoke`, `beat`), so that properties
can say what a client of `client.c` may expect; `passed` follows one sequence number,
`Watched`, through the replay protection. In one second a worker finishes
what it has begun. A death by SIGPIPE belongs to `RaidServer`.

**ClientThreads.** One action per critical section. An exchange with the server
starts in `TakeRequest` and ends in an answer, a failure, or never. The player may
attack for ever: a game state is reduced to whether it carries the result of the
attack asked for last, of an older one, or of none, and each new request makes all
that is there older (`NewCall`).

**GameLoop.** Adds to the same actions what `latest_state` says about the lucky
kill and the victory, and what the UI does with it. Lucky kills are numbered
events; the server has at most one on the air, and an attack's answer carries
only its own. `screen` is what the player looks at; god and bonus screens last
until he dismisses them, the victory until he quits. `shows` counts how often
each event was shown.

**GameClient.** One `mode` of three, in ticks of 50 ms, the unit of the code's
`usleep` and `timeout` calls. A thread sets a timer when it sleeps or polls
(`getch` with 100 ms, with 50 ms once a god or bonus screen has left that
setting behind, ten frames of dice, 500 ms behind a heartbeat, 250 ms behind a
stress attack), and goes on when it has run out or up to `MaxLag` ticks later;
packets take up to `MaxLag` ticks too. Any key may end a poll. The limiter is
`RateLimiter`, at a phase of its second that is free at the start.

**StressClient.** `g_seq_num++` is a load and a store. The race is undefined
behaviour in C; the model takes the outcomes a compiled load and store can have.

## 3. Runs

| Run | Shows | Bounds |
|---|---|---|
| `fight` | safety of the fight, and that it implements `BossRaid` | 2 workers, 2 names, hit points 12 and 25 (one or several wins, a double six, a combo, a lucky kill), faces 1 and 6 (tie, loss, double win), one streak slot (a full table), one death |
| `live` | bosses are replaced, lucky kills end, and the only way they end early | 2 workers, 1 name, 1 hit point, window of 1 s, clock to 2, no streak table, one death |
| `lucky_cleared_early` | *violation*: a new lucky kill cleared by a late heartbeat | |
| `damage_reported` | *violation*: reported damage the boss did not take | |
| `shown_twice` | *violation*: one lucky kill shown twice | 1 lucky kill |
| `processes` | mutual exclusion, no lost update, private connections, reaping, release of the mutex, the end of the shutdown | 2 workers at a time, 2 connections; kills and the shutdown anywhere |
| `rate` | what the limiter counts and bounds | 5 per second, ticks of 200 ms, two seconds, any phase of the first |
| `session` | one connection against any peer, when silence ends it, what is served twice | timeouts 2 s and 4 s, 2 per second, 8 sequence numbers, number 3 watched, clock to 8 |
| `pace` | who is refused by the limiter, who is dropped as silent | the code's own intervals; threads and packets at most 100 ms late |
| `client` | the two threads, and what the player sees | any number of attacks; 2 lucky kills, one possibly in place of the other |
| `stress` | when an honest thread can be refused | 3 threads, 3 packets each, 8 numbers, so that the counter also rolls over |
| `stress_refused` | *violation*: an honest thread is refused | 2 threads, 4 packets each |

Why the bounds are enough. Two workers give every pair of racing calls; a third
adds no new kind of interleaving to critical sections that only meet in the
shared memory, and the safety results are proved for any number. The numbers 12
and 25 let a boss survive several hits and be overkilled. In `session` the
receive timeout is shorter than the heartbeat timeout, as 5 is than 30, and the
clock leaves time for both in a row; eight numbers make the half-range rule
refuse some numbers and accept others, and 3 has as many of them on either side as
any other number (the theorem holds for each). In `processes` a third connection would
only reuse a worker's slot; two workers are enough for one to be inside while the
other waits, dies, or destroys the mutex. In `client` attacks are not bounded, and
a second lucky kill is enough to take over the first one's place. `pace` has no bound but `MaxLag`: with packets and threads
slower than 100 ms the exchanges only spread out, until they reach the timeouts
that the other modules treat as free choices. `PaceAssumption` says how slow that is:
TLC evaluates it for the code's intervals, the theorems rest on it. The clock bounds (`MaxTime`,
`MaxTicks`, `EndOfTime`), `MaxDeaths`, `MaxEvents` and `MaxClients` are
the only bounds in guards; properties that need time to be left say so in their
range.

`CHECK_DEADLOCK FALSE` is given where the system stops by itself: the bounded
clock of `rate`, the end of a session, of a client, of the stress test, of the
server after its shutdown, and in `pace` a connection that was closed. The
`fight` and `live` runs check for deadlock.

### Fairness

- `RaidServer`: weak fairness of the clock and of a worker's own steps, from its
  request to the reply (the kernel schedules processes, and the mutex is held only
  for straight-line code): `OwnSteps`. Nothing is assumed of players, not that they
  read what they are sent either: `SendReply`, a blocking `SSL_write`, and `Leave`,
  behind the shutdown of the TLS connection, have no fairness. `LuckyKillEnds` states its own premise: somebody
  keeps sending heartbeats. `BossIsReplaced` excepts a killer that was killed.
- `ClientSession`: the clock and the worker's own steps.
- `ClientThreads`: weak fairness of both threads' steps that need nobody else;
  strong fairness of the timeout, because the deadline of `pthread_cond_timedwait`
  is fixed before the first wait and wakeups do not move it. Exchanges may hang;
  `QuitEnds` has it as premise that none does, since `pthread_join` does wait for
  `SSL_read`.
- `GameLoop`: the same, and strong fairness of the heartbeat callback, which the
  loop calls every sixth round even if the player attacks in each (`idle_ticks`).
  Players, the server and the other players are free; `BroadcastIsShown` and
  `VictoryIsShown` have it as premise that exchanges end and that the player
  dismisses the screens in front, and `BroadcastIsShown` that he leaves off
  attacking (section 4).
- `ServerProcesses`: the kernel schedules every process, delivers every signal,
  and a critical section is left in the end. Nothing is assumed of peers, nor of
  the order in which the mutex is handed on: no worker is promised it.

## 4. What disagrees with the documents

Four runs end in a counterexample, each against a sentence of the repository
(quoted in `PROJECT.json` under `findings`):

1. A heartbeat that found an old lucky kill expired clears a newer one
   (`client_handler.c:187-190`; `gamestate.h:51` says after 5 seconds).
   `OnlyStaleCopyClearsEarly` shows that this race is the only way.
2. `dmg_dealt` is reported although `gamestate_apply_damage` refused it
   (`dice.c:75`, `dice.h:13`).
3. An attack's answer says that there is no lucky kill while one is on the air,
   so the player who attacks sees it again (`client_ui.c:285`, against the comment
   at `client_ui.c:31`). `ShownAgainOnlyAfterAttack` shows that this is the only
   way.
4. Stress threads may be refused as replays because of the unlocked
   `g_seq_num++` (`client.c:94`). `RefusedOnlyIfSetBack` shows that numbers used
   twice are harmless, only a late store is not.

Others are the exceptions that passing properties are worded with:

- `README.md` calls the limiter's window sliding. It is fixed
  (`rate_limiter.c:24`): what it bounds is `AtMostTwoWindows`, not one.
- `README.md` has idle connections closed after 30 s. The receive timeout ends
  them after 5 s (`client_handler.c:136`, `SilentClientIsDropped`), and the 30 s
  rule reaches only clients that keep sending (`HeartbeatRuleHitsBusyClients`).
- `client_ui.c:278` says of the heartbeat branch that all clients show the god
  screen together. In the round of an attack the heartbeat callback runs right
  behind the attack's (`client_ui.c:216`, `:268`) and reads the same state, in which
  `is_lucky` is the attack's own 0 (`client_handler.c:393`). A player who goes on
  attacking may never see what is on the air, which is why `BroadcastIsShown` has
  `LeavesOffAttacking` as premise: without it TLC finds the player whose every
  heartbeat callback comes behind an attack's answer. The victory, which any state
  carries, is shown to him as well (`VictoryIsShown`).
- `attack_cb_impl` may return a heartbeat's state instead of its attack's
  (`client.c:555`), or an abandoned attack's if the call is made while that one is
  still being exchanged: the exceptions of `ResultIsNotOlder`.
- A hit lands on whatever boss is up when it is applied (`dice.c:29`): `FewStrayHits`
  bounds how many land on another than they were rolled for.
- The last numbers before a rollover pass the replay protection again just behind
  it (`replay_protection.c:45`): the exception of `NotServedTwice`.
- The single-threaded client is refused if keys other than SPACE are pressed
  fast enough, since every key counts as a round of the loop
  (`RefusedOnlyIfHurried`), and dropped after 5 s behind a god or bonus screen
  (`SilentOnlyBehindScreen`). It also never sees other players' lucky kills: its
  heartbeat callback sets `is_lucky` to 0 (`client.c:712`).
- After a SIGQUIT sent to the master alone the workers play on with a mutex that
  refuses to lock: `MutualExclusion` and `NoUpdateLost` end there.
- A worker killed inside a critical section, or whose SIGQUIT handler hangs
  there, keeps the mutex for ever; both are the exceptions of `MutexIsReleased`.
  The server's own shutdown may hang in `localtime` (`ShutdownEnds`).

## 5. Proofs

Every safety property that a run checks is also a theorem (the types of
`StressClient` are one that only the proof states). All theorems hold for every
value of the constants allowed by the named assumptions in the modules (hit points
positive, `INSTANT_KILL_DAMAGE` at least as large as both, dice faces among 1..6,
finitely many workers and threads, an even number of at least four sequence
numbers, positive limits and windows, and `PaceAssumption` of `GameClient`).

`RaidServerProofs`:

- `TypeCorrect`. Types alone are not inductive: a worker that is not free has a
  real player's name, and one about to evaluate a roll has rolled a real face.
- `SpawnOwedOnce`. The boss is down exactly while one worker stands at `spawn`
  or one died there. `gamestate_spawn_next_boss` tests nothing, so all else rests
  on this.
- `BossHpAlwaysConsistent`, `KillsAlwaysMatchStage`: from the types and the spawn
  debt; a spawn happens only while the boss is down.
- `RaidImplemented`: the initial state maps to `BossRaid`'s, and each step to
  `Hit`, `Kill`, `NextBoss` or a stutter. That an accepted hit which does not
  kill leaves between 1 and `hp - 1` points needs damage to be positive at
  `apply`, part of the invariant there.
- `OnlineCountAlwaysExact`: by counting the set of workers that are not free.
- `RepliesMoveOn`: the shared state never goes back, and no worker holds a copy
  that is ahead of it.
- `InstantKillsFell`: an attack goes on only if its first copy showed a boss that
  was up; when its damage is applied that boss is felled by it or has been felled
  before, and kills are never taken back (`InstantInv`).
- `StrayHitsAreFew`: a hit strays only if its worker took its copy before the first
  boss fell and strikes after the second is up. Such workers (`Late`) are among
  those that were under way when the boss fell, their killer is not one of them, and
  each strikes once; `strays` and their number together stay below the number of
  workers.
- `OnlyStaleCopiesClearEarly`: a worker about to clear holds a copy that had
  expired when it was made (`CopyExpired`), and the clock does not run back.

`ServerProcessesProofs`:

- `MutualExclusionHolds` and `NoUpdateIsLost` from one invariant: who is inside a
  section owns the mutex as long as it exists (`MutexInv`), and has loaded the
  count that is still there. Workers killed while counted become `ghosts`, which
  is why the count is compared with `joined` and `ghosts` together.
- `ConnectionsStayPrivate`: the master holds at most the connection it has just
  accepted, which no worker holds before the fork (`ConnInv`).
- `ProcessTypeCorrect`: the types; the parts about places, counts and descriptors
  come from the three invariants above.
- `OwnerAlwaysAtWork` and `PortStaysWithMaster`: the sides of `MutexIsReleased` and
  `ShutdownEnds` that need no fairness. The mutex is with a worker inside a section,
  or interrupted there by the handler of SIGQUIT; the port is with the master and
  with workers that are on their way to `close(server_fd)` or to `exit`. Each is
  inductive with the types (`KeepersInv`), because what a destroyed mutex leaves
  asleep had neither.

`RateLimiterProofs`: `CounterIsExact` by counting the grants that are not older
than the window; `TwoWindowsAtMost` carries along the start of the window before
the present one and that each of the two holds at most `max_requests` grants
(`WindowOK`), so that a stretch as long as a window meets at most two of them.

`ClientSessionProofs`: types, and `SessionInv`, which ties the limiter's count to
the requests a proper client has sent in this second, the last accepted number to
its last one, and `last_heartbeat` to the beats it has sent.
`ProperClientsAreServed` uses `NextNumberPasses` at the rollover.
`SilentClientsDropInTime` bounds what `SilentClientIsDropped` only promises: every
wait begins in the second of a packet (`WaitInv`), so the receive timeout measures
the client's silence, not the loop's last round.

`NoReplayIsServed`: while a number that has passed is remembered, it is at most the
last one accepted (`PassedInv`); passing again takes half the range, and any other
way below the last one is a rollover.

`ReplayProtectionProofs`: `NextNumberPasses`, across the rollover, for any even
modulus.

`StressClientProofs`, `RefusalNeedsSetBack`: while
the counter has not been lowered it is above every number in use, and the number
a thread has loaded is above the last it used.

`GameLoopProofs`, of `ClientThreads`: `NoLostWakeup` is inductive by itself.
`AttacksAreNotMultiplied` counts a pending request with the attack sent.
`QuitIsNoticed` needs to know where the network thread can stand after its one late
exchange. `ResultNotOlder` needs that a call made while no attack is being exchanged
never leaves its request behind: it is pending, or under way, or answered, and
nothing else completes it (`CallInv`).

`GameLoopProofs`, of `GameLoop`: `GameIsClient` shows that every behaviour of
`GameLoop` is one of `ClientThreads`, so that the theorems above hold of it.
`ShownAgainAfterAttack` needs that without an answered attack an event which was
shown, and could be shown again, is in `latest_state` with the flag set (`LuckyInv`).

`GameClientProofs` proves the pace of the client from inequalities between its
intervals (`PaceAssumption`), not from their values: two pauses of the network
thread, two animations of the dice, four pauses of a stress thread or 24 short polls
fill a second; a heartbeat's pause and the lags around it are shorter than the
receive timeout, and so are six rounds of the loop with one more animation.

- `OneExchangeAtATime`: who is where in each mode (`Roles`). The two threads never
  exchange at once, which is what the pauses are counted on.
- `SilentBehindScreen`: the time since the server took a packet is at most what the
  thread that sends next has run through since (`SilenceInv`): its pause or the
  rounds of the loop, and a `MaxLag` for each wait that was late.
- `RefusedIfHurried`: the requests of the present second are `h` heartbeats (or
  stress attacks), `a` attacks and, in the threaded client, `f` first heartbeat
  (`Paced`). Attacks are `DiceTicks` apart, heartbeats `Gap`, and the last of each is
  as long ago as the dice thrown and the rounds made since (`SinceAttack`,
  `SinceBeat`); so the second has had room for them all one after the other, and at
  most four went before the one that is taken. Between requests all this only grows
  older (`AgeingKeepsPace`). In the single-threaded client attacks and heartbeats
  come from one loop, and a window with two attacks has longer
  rounds (`Longer`, a lower bound of the time they add): counted apart, the most
  attacks and the most heartbeats of a window would come to six requests, one
  more than the limiter lets through.

Only model-checked: the liveness properties (TLAPS has no reasoning about fairness
or `ENABLED` here): `BossIsReplaced`, `LuckyKillEnds`,
`ZombiesAreReaped`, `MutexIsReleased`, `ShutdownEnds`, `SilentClientIsDropped`,
`AttackCallReturns`, `QuitEnds`, `BroadcastIsShown`, `VictoryIsShown`.

## 6. Not modelled

- The set-up of the server: finding the certificate, `tls_create_server_context`,
  socket, bind and listen. Straight-line code that exits on failure before there
  is a second process.
- TLS itself: the handshake is a step that takes as long as the peer likes and may
  fail; packets arrive whole and in order, or the connection breaks.
- The login screen, which returns a line of input, and what any screen draws.
- The text of log messages.
- `rate_limiter_reset` and `input_validate_attack_payload`: never called.
- The random generator. All workers are forked from a master that seeded it once
  and never rolls, so they roll the same sequence; the models allow any rolls.

## 7. Plan

What is left: (1) what a combo promises, with ties, losses, lucky kills and shared
names in between, over the streak table that `RaidServer` already has; (2) a
composition of `ClientThreads` with `ClientSession`, so that the interactive client
is shown to be proper in the sense of `ProperClientIsServed` (its pace is shown by
`GameClient`).
