----------------------------- MODULE GameState -----------------------------
(***************************************************************************)
(* The shared memory of the raid (src/server/logic/gamestate.c).           *)
(*                                                                         *)
(* The server forks one worker process per connection; the workers share   *)
(* one GameSharedData in an anonymous mapping, protected by one            *)
(* process-shared mutex.  Every gamestate_* function takes the mutex on    *)
(* entry and releases it on each return, so a call is one atomic step of   *)
(* the system: each is one operator here, and RaidServer interleaves them. *)
(***************************************************************************)
EXTENDS Integers, FiniteSets

CONSTANTS
    BOSS_1_MAX_HP,         \* hit points of the first boss (1000)
    BOSS_2_MAX_HP,         \* hit points of the second boss (2000)
    MAX_TRACKED_PLAYERS,   \* slots of the streak table (100)
    PlayerName,            \* the names players may join with
    NoName                 \* the empty string of a cleared last_killer

ASSUME BossHpAssumption ==
    /\ BOSS_1_MAX_HP \in Nat \ {0}
    /\ BOSS_2_MAX_HP \in Nat \ {0}

ASSUME TableAssumption == MAX_TRACKED_PLAYERS \in Nat

ASSUME NameAssumption == NoName \notin PlayerName

BOSS_STAGE_1 == 0
BOSS_STAGE_2 == 1
BOSS_STAGE_DEAD == 2
BossStage == {BOSS_STAGE_1, BOSS_STAGE_2, BOSS_STAGE_DEAD}

VARIABLES
    stage,                 \* which boss is up
    max_hp,                \* size of its health bar
    current_hp,            \* what is left of it
    online_count,          \* players counted as online
    is_respawning,         \* a boss died and the next one is not up yet
    last_killer,           \* who killed it
    has_lucky_kill_event,  \* a lucky kill is being broadcast
    lucky_kill_timestamp,  \* when it was marked, 0 when none is
    players                \* the streak table, by the names in its used slots

bossVars == <<stage, max_hp, current_hp, is_respawning, last_killer>>
luckyVars == <<has_lucky_kill_event, lucky_kill_timestamp>>
shmVars == <<bossVars, online_count, luckyVars, players>>

(***************************************************************************)
(* PlayerHistory.  Slots are found by name and never freed, so the used    *)
(* part of the array is a function on the names it holds; the order of the *)
(* slots is of no consequence.                                             *)
(***************************************************************************)
PlayerHistory == [last_dice : 0..6, streak_count : Nat]

NewHistory == [last_dice |-> 0, streak_count |-> 0]

GameInit ==
    /\ stage = BOSS_STAGE_1
    /\ max_hp = BOSS_1_MAX_HP
    /\ current_hp = BOSS_1_MAX_HP
    /\ online_count = 0
    /\ is_respawning = FALSE
    /\ last_killer = NoName
    /\ has_lucky_kill_event = FALSE
    /\ lucky_kill_timestamp = 0
    /\ players = [n \in {} |-> NewHistory]

-----------------------------------------------------------------------------
(* Players coming and going.                                               *)

GamestatePlayerJoin ==
    /\ online_count' = online_count + 1
    /\ UNCHANGED <<bossVars, luckyVars, players>>

GamestatePlayerLeave ==
    /\ online_count' = IF online_count > 0 THEN online_count - 1 ELSE 0
    /\ UNCHANGED <<bossVars, luckyVars, players>>

-----------------------------------------------------------------------------
(* The snapshot a worker copies out: the fields its decisions depend on.   *)
(* The others only pass through to a reply.                                *)

Snapshot ==
    [stage |-> stage, hp |-> current_hp, respawning |-> is_respawning,
     lucky |-> has_lucky_kill_event, marked |-> lucky_kill_timestamp]

(* Mutant of Refuses: the end of the game is not checked.                  *)
RefusesOnlyRespawn(s) == s.respawning

(* No damage is accepted while a boss is being replaced or after the end.  *)
Refuses(s) == s.respawning \/ s.stage = BOSS_STAGE_DEAD

-----------------------------------------------------------------------------
(* Damage and respawn.                                                     *)

(* Mutants of JustKilled: the early return is dropped; a boss with exactly  *)
(* no hit points left still stands.                                        *)
JustKilledUnguarded(damage) == current_hp - damage <= 0

JustKilledBelowZero(damage) ==
    ~(is_respawning \/ stage = BOSS_STAGE_DEAD) /\ current_hp - damage < 0

(* The value gamestate_apply_damage returns: this very hit was the kill.   *)
JustKilled(damage) ==
    ~Refuses(Snapshot) /\ current_hp - damage <= 0

GamestateApplyDamage(damage, name) ==
    /\ IF Refuses(Snapshot)
       THEN UNCHANGED <<current_hp, is_respawning, last_killer>>
       ELSE /\ current_hp' = IF JustKilled(damage) THEN 0 ELSE current_hp - damage
            /\ is_respawning' = JustKilled(damage)
            /\ last_killer' = IF JustKilled(damage) THEN name ELSE last_killer
    /\ UNCHANGED <<stage, max_hp, online_count, luckyVars, players>>

(* Mutants of GamestateSpawnNextBoss: the killer of the last boss is wiped *)
(* too; the raid starts over after the last boss.                          *)
SpawnWipesKiller ==
    /\ stage' = stage + 1
    /\ max_hp' = BOSS_2_MAX_HP
    /\ current_hp' = IF stage = BOSS_STAGE_1 THEN BOSS_2_MAX_HP ELSE 0
    /\ is_respawning' = FALSE
    /\ last_killer' = NoName
    /\ UNCHANGED <<online_count, luckyVars, players>>

SpawnStartsOver ==
    /\ stage' = 1 - stage
    /\ max_hp' = IF stage = BOSS_STAGE_1 THEN BOSS_2_MAX_HP ELSE BOSS_1_MAX_HP
    /\ current_hp' = max_hp'
    /\ is_respawning' = FALSE
    /\ last_killer' = NoName
    /\ UNCHANGED <<online_count, luckyVars, players>>

(* The code does not check is_respawning here: it trusts its caller.       *)
GamestateSpawnNextBoss ==
    /\ IF stage = BOSS_STAGE_1
       THEN /\ stage' = BOSS_STAGE_2
            /\ max_hp' = BOSS_2_MAX_HP
            /\ current_hp' = BOSS_2_MAX_HP
       ELSE /\ stage' = BOSS_STAGE_DEAD
            /\ current_hp' = 0
            /\ UNCHANGED max_hp
    /\ is_respawning' = FALSE
    /\ last_killer' = IF stage' = BOSS_STAGE_2 THEN NoName ELSE last_killer
    /\ UNCHANGED <<online_count, luckyVars, players>>

-----------------------------------------------------------------------------
(* Streaks.                                                                *)

Tracked(name) == name \in DOMAIN players

(* Mutant of HasSlot: one more name than the table has slots.              *)
HasSlotAtLimit(name) == Tracked(name) \/ Cardinality(DOMAIN players) <= MAX_TRACKED_PLAYERS

HasSlot(name) == Tracked(name) \/ Cardinality(DOMAIN players) < MAX_TRACKED_PLAYERS

HistoryOf(name) == IF Tracked(name) THEN players[name] ELSE NewHistory

(* The streak_count left in the player's slot.                             *)
StreakCount(name, current_dice, is_win) ==
    IF ~is_win THEN 0
    ELSE IF HistoryOf(name).last_dice = current_dice
         THEN HistoryOf(name).streak_count + 1
         ELSE 1

(* The value gamestate_update_streak returns: 0 when the table is full.    *)
Streak(name, current_dice, is_win) ==
    IF HasSlot(name) THEN StreakCount(name, current_dice, is_win) ELSE 0

GamestateUpdateStreak(name, current_dice, is_win) ==
    /\ players' = IF HasSlot(name)
                  THEN [n \in DOMAIN players \cup {name} |->
                          IF n = name
                          THEN [last_dice |-> current_dice,
                                streak_count |-> StreakCount(name, current_dice, is_win)]
                          ELSE players[n]]
                  ELSE players
    /\ UNCHANGED <<bossVars, online_count, luckyVars>>

-----------------------------------------------------------------------------
(* The lucky-kill broadcast flag.                                          *)

GamestateMarkLuckyKill(time) ==
    /\ has_lucky_kill_event' = TRUE
    /\ lucky_kill_timestamp' = time
    /\ UNCHANGED <<bossVars, online_count, players>>

(* Mutant of GamestateClearLuckyKill: the flag itself stays up.            *)
ClearLuckyTimestamp ==
    /\ lucky_kill_timestamp' = 0
    /\ UNCHANGED <<bossVars, online_count, has_lucky_kill_event, players>>

GamestateClearLuckyKill ==
    /\ has_lucky_kill_event' = FALSE
    /\ lucky_kill_timestamp' = 0
    /\ UNCHANGED <<bossVars, online_count, players>>

-----------------------------------------------------------------------------
GameTypeOK ==
    /\ stage \in BossStage
    /\ max_hp \in {BOSS_1_MAX_HP, BOSS_2_MAX_HP}
    /\ current_hp \in 0..max_hp
    /\ online_count \in Nat
    /\ is_respawning \in BOOLEAN
    /\ last_killer \in PlayerName \cup {NoName}
    /\ has_lucky_kill_event \in BOOLEAN
    /\ lucky_kill_timestamp \in Nat
    /\ DOMAIN players \subseteq PlayerName
    /\ IsFiniteSet(DOMAIN players)
    /\ Cardinality(DOMAIN players) <= MAX_TRACKED_PLAYERS
    /\ players \in [DOMAIN players -> PlayerHistory]
=============================================================================
