----------------------------- MODULE RaidServer -----------------------------
(***************************************************************************)
(* The raid server: worker processes, one per connection, running          *)
(* handle_client (client_handler.c) and game_process_attack (dice.c) over  *)
(* the shared memory of GameState.                                         *)
(*                                                                         *)
(* Every call of a gamestate_* function is its own critical section, so an *)
(* attack is a chain of steps that other workers run between:              *)
(*                                                                         *)
(*   loop -> mark ------------> apply -> [spawn ->] final -> reply -> loop *)
(*        -> win ------------->                                            *)
(*        -> lose ------------------------------->                         *)
(*        -> reply              (the snapshot says no boss is up)          *)
(*                                                                         *)
(* What decides whether a request is let through (rate limiter, replay     *)
(* protection, validation, timeouts) is in RateLimiter, ReplayProtection   *)
(* and ClientSession; here a worker may drop its connection at any time.   *)
(***************************************************************************)
EXTENDS GameState, Sequences

CONSTANTS
    Worker,                \* worker slots; a free one takes the next connection
    Dice,                  \* the faces that are rolled, some of 1..6
    INSTANT_KILL_DAMAGE,   \* damage of a lucky kill or a combo (999999)
    LUCKY_WINDOW,          \* seconds a lucky kill is broadcast (5)
    MaxTime,               \* bound on the clock
    MaxDeaths              \* bound on the workers killed by a signal

ASSUME DiceAssumption == Dice \subseteq 1..6 /\ Dice # {}

ASSUME InstantAssumption ==
    /\ INSTANT_KILL_DAMAGE \in Nat
    /\ INSTANT_KILL_DAMAGE >= BOSS_1_MAX_HP
    /\ INSTANT_KILL_DAMAGE >= BOSS_2_MAX_HP

ASSUME TimeAssumption == LUCKY_WINDOW \in Nat /\ MaxTime \in Nat

ASSUME DeathsAssumption == MaxDeaths \in Nat

ASSUME WorkerAssumption == IsFiniteSet(Worker)

VARIABLES
    pc,          \* what each worker does next
    username,    \* the name its player joined with
    die,         \* player_dice of the attack being processed
    damage,      \* result.dmg_dealt of the attack being processed
    snap,        \* the last snapshot the worker copied out
    is_lucky,    \* the is_lucky field of the reply being built
    now,         \* time(NULL)
    (* History: what happened, for the properties. *)
    kills,       \* the names credited with a kill, in order
    landed,      \* whether the damage of the current attack was accepted
    strays,      \* hits that landed on a later boss than they were rolled for
    leaked,      \* workers that died still counted as online
    orphaned     \* a worker died owing a spawn

workerVars == <<pc, username, die, damage, snap, is_lucky>>
historyVars == <<kills, landed, strays, leaked, orphaned>>
vars == <<shmVars, workerVars, now, historyVars>>

PC == {"free", "join_reply", "loop", "mark", "win", "lose", "apply", "spawn",
       "final", "reply", "hb_decide", "hb_clear", "leave"}

SnapshotSet ==
    [stage : BossStage, hp : Nat, respawning : BOOLEAN,
     lucky : BOOLEAN, marked : Nat]

Init ==
    /\ GameInit
    /\ pc = [w \in Worker |-> "free"]
    /\ username = [w \in Worker |-> NoName]
    /\ die = [w \in Worker |-> 0]
    /\ damage = [w \in Worker |-> 0]
    /\ snap = [w \in Worker |-> Snapshot]
    /\ is_lucky = [w \in Worker |-> FALSE]
    /\ now = 0
    /\ kills = << >>
    /\ landed = [w \in Worker |-> FALSE]
    /\ strays = 0
    /\ leaked = 0
    /\ orphaned = FALSE

Goto(w, from, to) ==
    /\ pc[w] = from
    /\ pc' = [pc EXCEPT ![w] = to]

-----------------------------------------------------------------------------
(* Joining and leaving.                                                    *)

(* handle_join up to its reply.  The worker is a fresh process: its locals *)
(* start over.                                                             *)
Join(w) ==
    /\ Goto(w, "free", "join_reply")
    /\ GamestatePlayerJoin
    /\ \E n \in PlayerName : username' = [username EXCEPT ![w] = n]
    /\ UNCHANGED <<die, damage, snap, is_lucky, now, historyVars>>

(* send_packet succeeds: back to the main loop, the attack's results gone. *)
SendReply(w) ==
    /\ pc[w] \in {"join_reply", "reply"}
    /\ pc' = [pc EXCEPT ![w] = "loop"]
    /\ damage' = [damage EXCEPT ![w] = 0]
    /\ is_lucky' = [is_lucky EXCEPT ![w] = FALSE]
    /\ landed' = [landed EXCEPT ![w] = FALSE]
    /\ UNCHANGED <<shmVars, username, die, snap, now, kills, strays, leaked,
                   orphaned>>

(* Mutant of Drop: exit(0) without cleanup_client.                         *)
DropWithoutCleanup(w) ==
    /\ pc[w] \in {"join_reply", "reply", "loop"}
    /\ pc' = [pc EXCEPT ![w] = "free"]
    /\ damage' = [damage EXCEPT ![w] = 0]
    /\ is_lucky' = [is_lucky EXCEPT ![w] = FALSE]
    /\ landed' = [landed EXCEPT ![w] = FALSE]
    /\ username' = [username EXCEPT ![w] = NoName]
    /\ UNCHANGED <<shmVars, die, snap, now, kills, strays, leaked,
                   orphaned>>

(* send_packet fails, or the main loop ends: OP_LEAVE, a receive error or  *)
(* timeout, a request turned away.  All of them go to cleanup_client.      *)
Drop(w) ==
    /\ pc[w] \in {"join_reply", "reply", "loop"}
    /\ pc' = [pc EXCEPT ![w] = "leave"]
    /\ damage' = [damage EXCEPT ![w] = 0]
    /\ is_lucky' = [is_lucky EXCEPT ![w] = FALSE]
    /\ landed' = [landed EXCEPT ![w] = FALSE]
    /\ UNCHANGED <<shmVars, username, die, snap, now, kills, strays, leaked,
                   orphaned>>

(* The end of cleanup_client, then exit(0).                                *)
Leave(w) ==
    /\ Goto(w, "leave", "free")
    /\ GamestatePlayerLeave
    /\ username' = [username EXCEPT ![w] = NoName]
    /\ UNCHANGED <<die, damage, snap, is_lucky, now, historyVars>>

-----------------------------------------------------------------------------
(* game_process_attack.                                                    *)

(* The first snapshot, then the rolls, which touch nothing shared.  A roll *)
(* the client sent and one the server makes are the same choice.           *)
AttackSnapshot(w) ==
    /\ pc[w] = "loop"
    /\ snap' = [snap EXCEPT ![w] = Snapshot]
    /\ \/ /\ Refuses(Snapshot)
          /\ pc' = [pc EXCEPT ![w] = "reply"]
          /\ UNCHANGED die
       \/ /\ ~Refuses(Snapshot)
          /\ \E player_dice, boss_dice \in Dice, is_lucky_kill \in BOOLEAN :
               /\ die' = [die EXCEPT ![w] = player_dice]
               /\ pc' = [pc EXCEPT ![w] =
                           IF is_lucky_kill THEN "mark"
                           ELSE IF player_dice > boss_dice THEN "win" ELSE "lose"]
    /\ UNCHANGED <<shmVars, username, damage, is_lucky, now, historyVars>>

(* Mutant of MarkLuckyKill: a lucky kill is announced, and nothing else.   *)
MarkWithoutStrike(w) ==
    /\ Goto(w, "mark", "final")
    /\ GamestateMarkLuckyKill(now)
    /\ damage' = [damage EXCEPT ![w] = INSTANT_KILL_DAMAGE]
    /\ is_lucky' = [is_lucky EXCEPT ![w] = TRUE]
    /\ die' = [die EXCEPT ![w] = 0]
    /\ UNCHANGED <<username, snap, now, historyVars>>

(* A lucky kill: broadcast first, strike afterwards.                       *)
MarkLuckyKill(w) ==
    /\ Goto(w, "mark", "apply")
    /\ GamestateMarkLuckyKill(now)
    /\ damage' = [damage EXCEPT ![w] = INSTANT_KILL_DAMAGE]
    /\ is_lucky' = [is_lucky EXCEPT ![w] = TRUE]
    /\ die' = [die EXCEPT ![w] = 0]
    /\ UNCHANGED <<username, snap, now, historyVars>>

(* Damage of a won roll: a six counts double, a third win in a row with    *)
(* the same number kills.                                                  *)
WinDamage(d, streak) ==
    IF streak >= 3 THEN INSTANT_KILL_DAMAGE
    ELSE IF d = 6 THEN 2 * d ELSE d

Win(w) ==
    /\ Goto(w, "win", "apply")
    /\ GamestateUpdateStreak(username[w], die[w], TRUE)
    /\ damage' = [damage EXCEPT ![w] =
                    WinDamage(die[w], Streak(username[w], die[w], TRUE))]
    /\ die' = [die EXCEPT ![w] = 0]
    /\ UNCHANGED <<username, snap, is_lucky, now, historyVars>>

Lose(w) ==
    /\ Goto(w, "lose", "final")
    /\ GamestateUpdateStreak(username[w], die[w], FALSE)
    /\ die' = [die EXCEPT ![w] = 0]
    /\ UNCHANGED <<username, damage, snap, is_lucky, now, historyVars>>

(* The boss that was rolled against has been replaced in the meantime.     *)
OnLaterBoss(w) == snap[w].stage # stage

(* Mutant of ApplyDamage: the killer does not spawn the next boss.         *)
ApplyWithoutSpawn(w) ==
    /\ Goto(w, "apply", "final")
    /\ GamestateApplyDamage(damage[w], username[w])
    /\ landed' = [landed EXCEPT ![w] = ~Refuses(Snapshot)]
    /\ kills' = IF JustKilled(damage[w]) THEN Append(kills, username[w]) ELSE kills
    /\ strays' = IF ~Refuses(Snapshot) /\ OnLaterBoss(w) THEN strays + 1 ELSE strays
    /\ UNCHANGED <<username, die, damage, snap, is_lucky, now, leaked, orphaned>>

ApplyDamage(w) ==
    /\ Goto(w, "apply", IF JustKilled(damage[w]) THEN "spawn" ELSE "final")
    /\ GamestateApplyDamage(damage[w], username[w])
    /\ landed' = [landed EXCEPT ![w] = ~Refuses(Snapshot)]
    /\ kills' = IF JustKilled(damage[w]) THEN Append(kills, username[w]) ELSE kills
    /\ strays' = IF ~Refuses(Snapshot) /\ OnLaterBoss(w) THEN strays + 1 ELSE strays
    /\ UNCHANGED <<username, die, damage, snap, is_lucky, now, leaked, orphaned>>

(* Mutant of SpawnNextBoss: what is left of the blow goes to the next boss.*)
SpawnThenStrike(w) ==
    /\ Goto(w, "spawn", "apply")
    /\ GamestateSpawnNextBoss
    /\ UNCHANGED <<username, die, damage, snap, is_lucky, now, historyVars>>

SpawnNextBoss(w) ==
    /\ Goto(w, "spawn", "final")
    /\ GamestateSpawnNextBoss
    /\ UNCHANGED <<username, die, damage, snap, is_lucky, now, historyVars>>

FinalSnapshot(w) ==
    /\ Goto(w, "final", "reply")
    /\ snap' = [snap EXCEPT ![w] = Snapshot]
    /\ UNCHANGED <<shmVars, username, die, damage, is_lucky, now, historyVars>>

-----------------------------------------------------------------------------
(* OP_HEARTBEAT.  The decision about the lucky flag is made on the copy,   *)
(* after the mutex is released.                                            *)

Heartbeat(w) ==
    /\ Goto(w, "loop", "hb_decide")
    /\ snap' = [snap EXCEPT ![w] = Snapshot]
    /\ UNCHANGED <<shmVars, username, die, damage, is_lucky, now, historyVars>>

(* Mutant of Expired: the last second of the window is cut off.            *)
ExpiredAtWindow(s) == s.lucky /\ now - s.marked >= LUCKY_WINDOW

Expired(s) == s.lucky /\ now - s.marked > LUCKY_WINDOW

DecideLucky(w) ==
    /\ Goto(w, "hb_decide", IF Expired(snap[w]) THEN "hb_clear" ELSE "reply")
    /\ is_lucky' = [is_lucky EXCEPT ![w] = snap[w].lucky /\ ~Expired(snap[w])]
    /\ UNCHANGED <<shmVars, username, die, damage, snap, now, historyVars>>

ClearLuckyKill(w) ==
    /\ Goto(w, "hb_clear", "reply")
    /\ GamestateClearLuckyKill
    /\ UNCHANGED <<username, die, damage, snap, is_lucky, now, historyVars>>

-----------------------------------------------------------------------------
(* The environment.                                                        *)

Tick ==
    /\ now < MaxTime
    /\ now' = now + 1
    /\ UNCHANGED <<shmVars, workerVars, historyVars>>

(* A worker process dies without running the rest of cleanup_client.       *)
Dies(w) ==
    /\ leaked < MaxDeaths
    /\ leaked' = leaked + 1
    /\ pc' = [pc EXCEPT ![w] = "free"]
    /\ username' = [username EXCEPT ![w] = NoName]
    /\ die' = [die EXCEPT ![w] = 0]
    /\ damage' = [damage EXCEPT ![w] = 0]
    /\ is_lucky' = [is_lucky EXCEPT ![w] = FALSE]
    /\ landed' = [landed EXCEPT ![w] = FALSE]
    /\ UNCHANGED <<shmVars, snap, now, kills, strays>>

(* The peer is gone and nothing handles SIGPIPE: the write of a reply, or  *)
(* of the shutdown in cleanup_client, ends the process.                    *)
SigPipe(w) ==
    /\ pc[w] \in {"join_reply", "reply", "leave"}
    /\ Dies(w)
    /\ UNCHANGED orphaned

(* Any other fatal signal, between two calls on the shared memory.         *)
Killed(w) ==
    /\ pc[w] # "free"
    /\ Dies(w)
    /\ orphaned' = (orphaned \/ pc[w] = "spawn")

-----------------------------------------------------------------------------
(* The steps a worker takes by itself once it holds a request.             *)
Attacking(w) ==
    \/ MarkLuckyKill(w) \/ Win(w) \/ Lose(w)
    \/ ApplyDamage(w) \/ SpawnNextBoss(w) \/ FinalSnapshot(w)

Process(w) ==
    \/ Attacking(w)
    \/ DecideLucky(w) \/ ClearLuckyKill(w)
    \/ SendReply(w)
    \/ Leave(w)

Next ==
    \/ \E w \in Worker :
         \/ Join(w) \/ AttackSnapshot(w) \/ Heartbeat(w)
         \/ Process(w)
         \/ Drop(w) \/ SigPipe(w) \/ Killed(w)
    \/ Tick

Spec == Init /\ [][Next]_vars

(* A worker that has its request runs on to its reply: the kernel          *)
(* schedules it, and the mutex is never held for long.  Nothing is assumed *)
(* of the peer: it need not send anything, nor read what it is sent, so    *)
(* SSL_write in SendReply and the TLS shutdown before Leave may never      *)
(* return.  Of the clock only that it runs.                                *)
OwnSteps(w) == Attacking(w) \/ DecideLucky(w) \/ ClearLuckyKill(w)
Fairness == WF_vars(Tick) /\ \A w \in Worker : WF_vars(OwnSteps(w))

LiveSpec == Spec /\ Fairness
-----------------------------------------------------------------------------
(* Properties.                                                             *)

(* Every variable keeps to its type.                                       *)
TypeOK ==
    /\ GameTypeOK
    /\ pc \in [Worker -> PC]
    /\ username \in [Worker -> PlayerName \cup {NoName}]
    /\ die \in [Worker -> Dice \cup {0}]
    /\ damage \in [Worker -> Nat]
    /\ snap \in [Worker -> SnapshotSet]
    /\ is_lucky \in [Worker -> BOOLEAN]
    /\ now \in Nat
    /\ kills \in Seq(PlayerName)
    /\ landed \in [Worker -> BOOLEAN]
    /\ strays \in Nat
    /\ leaked \in Nat
    /\ orphaned \in BOOLEAN

(* online_count is the number of joined workers, plus those a signal ended *)
(* before cleanup_client reached gamestate_player_leave: every other way   *)
(* out of handle_client gives back exactly the one it took.                *)
Joined == {w \in Worker : pc[w] # "free"}
OnlineCountExact == online_count = Cardinality(Joined) + leaked

(* gamestate_spawn_next_boss replaces the boss without asking whether it   *)
(* is dead.  That is right only because the boss is down exactly while one *)
(* worker, the killer, has still to call it (or died before it could).     *)
Spawning == {w \in Worker : pc[w] = "spawn"}
OneSpawnOwed ==
    /\ \A v, w \in Spawning : v = w
    /\ is_respawning <=> (orphaned \/ Spawning # {})
    /\ ~(orphaned /\ Spawning # {})

(* Whoever reads the state between any two critical sections sees a bar of *)
(* the right boss, empty exactly when no boss is up.                       *)
BossHpConsistent ==
    /\ max_hp = IF stage = BOSS_STAGE_1 THEN BOSS_1_MAX_HP ELSE BOSS_2_MAX_HP
    /\ current_hp \in 0..max_hp
    /\ current_hp = 0 <=> Refuses(Snapshot)
    /\ stage = BOSS_STAGE_DEAD => ~is_respawning

(* One credited kill per boss that fell, however many attacks were in      *)
(* flight when it did, and last_killer names the one to be shown.          *)
KillsMatchStage ==
    /\ Len(kills) = stage + (IF is_respawning THEN 1 ELSE 0)
    /\ last_killer = IF Refuses(Snapshot) THEN kills[Len(kills)] ELSE NoName

(* The state a player is sent never takes the fight back: not to an        *)
(* earlier boss and not to more hit points of the same one, although       *)
(* replies are built from copies that are stale by the time they are sent. *)
NotBefore(later, earlier) ==
    \/ later.stage > earlier.stage
    \/ later.stage = earlier.stage /\ later.hp <= earlier.hp
RepliesNeverGoBack ==
    [][\A w \in Worker : NotBefore(snap'[w], snap[w])]_vars

(* An instant kill, by luck or by a combo, is the end of the boss it was   *)
(* rolled against.  A lucky kill is announced before it strikes, and the   *)
(* damage may be refused, or fall on the next boss: but only because       *)
(* somebody else has felled that boss in between.                          *)
InstantKillFellsItsBoss ==
    \A w \in Worker :
        pc[w] \in {"spawn", "final"} /\ damage[w] >= INSTANT_KILL_DAMAGE
            => Len(kills) > snap[w].stage

(* A hit is rolled against one boss and may land on the next, when the     *)
(* other falls and is replaced in between: the code compares nothing.  Of  *)
(* those who were about to strike when a boss fell, the killer never does  *)
(* it, and the others do it once: in the whole raid there are fewer such   *)
(* hits than workers.                                                      *)
FewStrayHits == strays > 0 => strays < Cardinality(Worker)

(* The workers together are the raid of BossRaid.                          *)
Raid == INSTANCE BossRaid WITH
    Hp1 <- BOSS_1_MAX_HP, Hp2 <- BOSS_2_MAX_HP,
    Player <- PlayerName, Nobody <- NoName,
    fallen <- stage, down <- is_respawning, hp <- current_hp,
    shown <- last_killer, credited <- kills
ImplementsRaid == Raid!RaidSpec

(* A boss that died is replaced, unless its killer was killed between      *)
(* gamestate_apply_damage and gamestate_spawn_next_boss; a peer that hangs *)
(* up cannot cause that.                                                   *)
BossIsReplaced == is_respawning ~> (~is_respawning \/ orphaned)

(* As long as somebody keeps sending heartbeats, a lucky kill does not     *)
(* stay on the air for ever: the event of time t is cleared or replaced.   *)
LuckyKillEnds ==
    \A t \in 0..(MaxTime - LUCKY_WINDOW - 1) :
        LET OnAir == has_lucky_kill_event /\ lucky_kill_timestamp = t
        IN  (\E w \in Worker : []<>(pc[w] = "hb_decide")) => (OnAir ~> ~OnAir)

(* gamestate.h: clients see the flag and it is cleared after five seconds, *)
(* so never before that.  The code decides on a copy: a heartbeat that     *)
(* found an old event expired may clear a new one marked in between.       *)
ClearedEarly ==
    /\ has_lucky_kill_event /\ ~has_lucky_kill_event'
    /\ now - lucky_kill_timestamp <= LUCKY_WINDOW
ClearedOnlyWhenExpired == [][~ClearedEarly]_vars

(* That race is the only way it happens: when no worker about to clear     *)
(* looks at an older event than the present one, none is cleared early.    *)
OnlyStaleCopyClearsEarly ==
    [][(\A w \in Worker :
          pc[w] = "hb_clear" => snap[w].marked = lucky_kill_timestamp)
        => ~ClearedEarly]_vars

(* dice.h: dmg_dealt is the damage this attack did to the boss.  The code  *)
(* fills it in before it knows whether the damage is accepted.             *)
ReportedDamageLanded ==
    \A w \in Worker : pc[w] = "reply" /\ damage[w] > 0 => landed[w]
=============================================================================
