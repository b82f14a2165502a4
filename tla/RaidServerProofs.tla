-------------------------- MODULE RaidServerProofs --------------------------
(***************************************************************************)
(* Theorems about RaidServer, for any number of workers, players, hit      *)
(* points and deaths.                                                      *)
(***************************************************************************)
EXTENDS RaidServer, FiniteSetTheorems, TLAPS

-----------------------------------------------------------------------------
(* Types.  A worker in a connection knows its player's name: that is what  *)
(* gives the streak table and the list of kills their types.               *)

Named == \A w \in Worker : pc[w] # "free" => username[w] \in PlayerName

Rolled == \A w \in Worker : pc[w] \in {"win", "lose"} => die[w] \in Dice

TypeInv == TypeOK /\ Named /\ Rolled

LEMMA SnapshotType == GameTypeOK => Snapshot \in SnapshotSet
  BY DEF GameTypeOK, Snapshot, SnapshotSet

LEMMA TypeInit == Init => TypeInv
  <1> SUFFICES ASSUME Init PROVE TypeInv
    OBVIOUS
  <1>1. GameTypeOK
    <2>1. DOMAIN players = {}
      BY DEF Init, GameInit
    <2>2. players \in [DOMAIN players -> PlayerHistory]
      BY <2>1 DEF Init, GameInit
    <2>3. /\ stage \in BossStage
          /\ max_hp \in {BOSS_1_MAX_HP, BOSS_2_MAX_HP}
          /\ current_hp \in 0..max_hp
      BY BossHpAssumption DEF Init, GameInit, BossStage
    <2>4. /\ IsFiniteSet(DOMAIN players)
          /\ Cardinality(DOMAIN players) <= MAX_TRACKED_PLAYERS
      BY <2>1, FS_EmptySet, TableAssumption
    <2> QED
      BY <2>1, <2>2, <2>3, <2>4 DEF Init, GameInit, GameTypeOK
  <1>2. Snapshot \in SnapshotSet
    BY <1>1, SnapshotType
  <1>3. kills \in Seq(PlayerName)
    BY DEF Init
  <1>4. Named /\ Rolled
    BY DEF Init, Named, Rolled
  <1> QED
    BY <1>1, <1>2, <1>3, <1>4 DEF Init, TypeInv, TypeOK, PC

(* The operations of the shared memory keep its types.                     *)
LEMMA UpdateStreakType ==
  ASSUME GameTypeOK, NEW name \in PlayerName, NEW d \in 1..6, NEW win \in BOOLEAN,
         GamestateUpdateStreak(name, d, win)
  PROVE  GameTypeOK' /\ Streak(name, d, win) \in Nat
  <1>1. HistoryOf(name) \in PlayerHistory
    BY DEF GameTypeOK, HistoryOf, Tracked, PlayerHistory, NewHistory
  <1>2. StreakCount(name, d, win) \in Nat
    BY <1>1 DEF StreakCount, PlayerHistory
  <1>3. Streak(name, d, win) \in Nat
    BY <1>2 DEF Streak
  <1>4. /\ DOMAIN players' \subseteq PlayerName
        /\ players' \in [DOMAIN players' -> PlayerHistory]
    <2>1. CASE HasSlot(name)
      BY <1>2, <2>1 DEF GamestateUpdateStreak, GameTypeOK, PlayerHistory
    <2>2. CASE ~HasSlot(name)
      BY <2>2 DEF GamestateUpdateStreak, GameTypeOK
    <2> QED
      BY <2>1, <2>2
  <1>5. /\ IsFiniteSet(DOMAIN players')
        /\ Cardinality(DOMAIN players') <= MAX_TRACKED_PLAYERS
    <2>1. CASE players' = players
      BY <2>1 DEF GameTypeOK
    <2>2. CASE players' # players
      <3>1. HasSlot(name) /\ DOMAIN players' = DOMAIN players \cup {name}
        BY <2>2 DEF GamestateUpdateStreak
      <3>2. CASE Tracked(name)
        <4>1. DOMAIN players' = DOMAIN players
          BY <3>1, <3>2 DEF Tracked
        <4> QED
          BY <4>1 DEF GameTypeOK
      <3>3. CASE ~Tracked(name)
        <4>1. /\ IsFiniteSet(DOMAIN players')
              /\ Cardinality(DOMAIN players') = Cardinality(DOMAIN players) + 1
          BY <3>1, <3>3, FS_AddElement DEF Tracked, GameTypeOK
        <4>2. Cardinality(DOMAIN players) < MAX_TRACKED_PLAYERS
          BY <3>1, <3>3 DEF HasSlot
        <4>3. Cardinality(DOMAIN players) \in Nat
          BY FS_CardinalityType DEF GameTypeOK
        <4> QED
          BY <4>1, <4>2, <4>3, TableAssumption
      <3> QED
        BY <3>2, <3>3
    <2> QED
      BY <2>1, <2>2
  <1> QED
    BY <1>3, <1>4, <1>5 DEF GamestateUpdateStreak, GameTypeOK, bossVars, luckyVars

LEMMA ApplyDamageType ==
  ASSUME GameTypeOK, NEW name \in PlayerName, NEW damage_ \in Nat,
         GamestateApplyDamage(damage_, name)
  PROVE  GameTypeOK'
  <1>1. CASE Refuses(Snapshot)
    BY <1>1 DEF GamestateApplyDamage, GameTypeOK, luckyVars
  <1>2. CASE ~Refuses(Snapshot)
    <2>1. current_hp' \in 0..max_hp'
      <3>1. max_hp' = max_hp /\ max_hp \in Nat /\ current_hp \in 0..max_hp
        BY BossHpAssumption DEF GamestateApplyDamage, GameTypeOK
      <3>2. CASE current_hp - damage_ <= 0
        BY <1>2, <3>1, <3>2 DEF GamestateApplyDamage, JustKilled
      <3>3. CASE ~(current_hp - damage_ <= 0)
        BY <1>2, <3>1, <3>3 DEF GamestateApplyDamage, JustKilled
      <3> QED
        BY <3>2, <3>3
    <2>2. is_respawning' \in BOOLEAN
      BY <1>2 DEF GamestateApplyDamage, JustKilled
    <2>3. last_killer' \in PlayerName \cup {NoName}
      BY <1>2 DEF GamestateApplyDamage, GameTypeOK
    <2> QED
      BY <2>1, <2>2, <2>3 DEF GamestateApplyDamage, GameTypeOK, luckyVars
  <1> QED
    BY <1>1, <1>2

LEMMA SpawnType ==
  ASSUME GameTypeOK, GamestateSpawnNextBoss
  PROVE  GameTypeOK'
  <1>1. /\ stage' \in BossStage
        /\ max_hp' \in {BOSS_1_MAX_HP, BOSS_2_MAX_HP}
        /\ current_hp' \in 0..max_hp'
    BY BossHpAssumption DEF GamestateSpawnNextBoss, GameTypeOK, BossStage
  <1>2. last_killer' \in PlayerName \cup {NoName}
    BY DEF GamestateSpawnNextBoss, GameTypeOK
  <1> QED
    BY <1>1, <1>2 DEF GamestateSpawnNextBoss, GameTypeOK, luckyVars

LEMMA WinDamageType ==
  ASSUME NEW d \in 1..6, NEW streak \in Nat
  PROVE  WinDamage(d, streak) \in Nat
  BY InstantAssumption DEF WinDamage

LEMMA TypeStep == TypeInv /\ [Next]_vars => TypeInv'
  <1> SUFFICES ASSUME TypeInv, [Next]_vars PROVE TypeInv'
    OBVIOUS
  <1> USE DEF TypeInv
  <1>1. ASSUME NEW w \in Worker, Join(w) PROVE TypeInv'
    BY <1>1 DEF Join, Goto, GamestatePlayerJoin, TypeOK, GameTypeOK, Named, Rolled, PC,
                bossVars, luckyVars, historyVars
  <1>2. ASSUME NEW w \in Worker, AttackSnapshot(w) PROVE TypeInv'
    <2>1. Snapshot \in SnapshotSet
      BY SnapshotType DEF TypeOK
    <2>2. PICK d \in Dice \cup {0}, to \in {"reply", "mark", "win", "lose"} :
             /\ pc[w] = "loop" /\ pc' = [pc EXCEPT ![w] = to]
             /\ to \in {"win", "lose"} => d \in Dice
             /\ die' = [die EXCEPT ![w] = d]
      <3>1. CASE Refuses(Snapshot)
        <4>1. die' = [die EXCEPT ![w] = die[w]] /\ die[w] \in Dice \cup {0}
          BY <1>2, <3>1 DEF AttackSnapshot, TypeOK
        <4> QED
          BY <1>2, <3>1, <4>1 DEF AttackSnapshot
      <3>2. CASE ~Refuses(Snapshot)
        BY <1>2, <3>2 DEF AttackSnapshot
      <3> QED
        BY <3>1, <3>2
    <2>3. TypeOK'
      BY <1>2, <2>1, <2>2 DEF AttackSnapshot, TypeOK, GameTypeOK, PC,
                shmVars, bossVars, luckyVars, historyVars
    <2> QED
      BY <1>2, <2>2, <2>3 DEF AttackSnapshot, TypeOK, Named, Rolled
  <1>3. ASSUME NEW w \in Worker, Heartbeat(w) PROVE TypeInv'
    <2>1. Snapshot \in SnapshotSet
      BY SnapshotType DEF TypeOK
    <2> QED
      BY <1>3, <2>1 DEF Heartbeat, Goto, TypeOK, GameTypeOK, Named, Rolled, PC,
                shmVars, bossVars, luckyVars, historyVars
  <1>4. ASSUME NEW w \in Worker, MarkLuckyKill(w) PROVE TypeInv'
    <2>1. GameTypeOK'
      BY <1>4 DEF MarkLuckyKill, GamestateMarkLuckyKill, TypeOK, GameTypeOK, bossVars
    <2> QED
      BY <1>4, <2>1, InstantAssumption
         DEF MarkLuckyKill, Goto, TypeOK, Named, Rolled, PC, historyVars
  <1>5. ASSUME NEW w \in Worker, Win(w) PROVE TypeInv'
    <2>1. username[w] \in PlayerName
      BY <1>5 DEF Win, Goto, Named, TypeOK
    <2>2. die[w] \in 1..6
      BY <1>5, DiceAssumption DEF Win, Goto, Rolled, TypeOK
    <2>3. GameTypeOK' /\ Streak(username[w], die[w], TRUE) \in Nat
      BY <1>5, <2>1, <2>2, UpdateStreakType DEF Win, TypeOK
    <2>4. WinDamage(die[w], Streak(username[w], die[w], TRUE)) \in Nat
      BY <2>2, <2>3, WinDamageType
    <2> QED
      BY <1>5, <2>3, <2>4 DEF Win, Goto, TypeOK, Named, Rolled, PC, historyVars
  <1>6. ASSUME NEW w \in Worker, Lose(w) PROVE TypeInv'
    <2>1. username[w] \in PlayerName
      BY <1>6 DEF Lose, Goto, Named, TypeOK
    <2>2. die[w] \in 1..6
      BY <1>6, DiceAssumption DEF Lose, Goto, Rolled, TypeOK
    <2>3. GameTypeOK'
      BY <1>6, <2>1, <2>2, UpdateStreakType DEF Lose, TypeOK
    <2> QED
      BY <1>6, <2>3 DEF Lose, Goto, TypeOK, Named, Rolled, PC, historyVars
  <1>7. ASSUME NEW w \in Worker, ApplyDamage(w) PROVE TypeInv'
    <2>1. username[w] \in PlayerName /\ damage[w] \in Nat
      BY <1>7 DEF ApplyDamage, Goto, Named, TypeOK
    <2>2. GameTypeOK'
      BY <1>7, <2>1, ApplyDamageType DEF ApplyDamage, TypeOK
    <2>3. kills' \in Seq(PlayerName)
      BY <1>7, <2>1 DEF ApplyDamage, TypeOK
    <2> QED
      BY <1>7, <2>2, <2>3 DEF ApplyDamage, Goto, TypeOK, Named, Rolled, PC
  <1>8. ASSUME NEW w \in Worker, SpawnNextBoss(w) PROVE TypeInv'
    <2>1. GameTypeOK'
      BY <1>8, SpawnType DEF SpawnNextBoss, TypeOK
    <2> QED
      BY <1>8, <2>1 DEF SpawnNextBoss, Goto, TypeOK, Named, Rolled, PC, historyVars
  <1>9. ASSUME NEW w \in Worker, FinalSnapshot(w) PROVE TypeInv'
    <2>1. Snapshot \in SnapshotSet
      BY SnapshotType DEF TypeOK
    <2> QED
      BY <1>9, <2>1 DEF FinalSnapshot, Goto, TypeOK, GameTypeOK, Named, Rolled, PC,
                shmVars, bossVars, luckyVars, historyVars
  <1>10. ASSUME NEW w \in Worker, DecideLucky(w) PROVE TypeInv'
    BY <1>10 DEF DecideLucky, Goto, Expired, TypeOK, GameTypeOK, Named, Rolled, PC,
                SnapshotSet, shmVars, bossVars, luckyVars, historyVars
  <1>11. ASSUME NEW w \in Worker, ClearLuckyKill(w) PROVE TypeInv'
    <2>1. GameTypeOK'
      BY <1>11 DEF ClearLuckyKill, GamestateClearLuckyKill, TypeOK, GameTypeOK, bossVars
    <2> QED
      BY <1>11, <2>1 DEF ClearLuckyKill, Goto, TypeOK, Named, Rolled, PC, historyVars
  <1>12. ASSUME NEW w \in Worker, SendReply(w) PROVE TypeInv'
    BY <1>12 DEF SendReply, TypeOK, GameTypeOK, Named, Rolled, PC,
                shmVars, bossVars, luckyVars
  <1>13. ASSUME NEW w \in Worker, Leave(w) PROVE TypeInv'
    <2>1. GameTypeOK'
      BY <1>13 DEF Leave, GamestatePlayerLeave, TypeOK, GameTypeOK, bossVars, luckyVars
    <2> QED
      BY <1>13, <2>1 DEF Leave, Goto, TypeOK, Named, Rolled, PC, historyVars
  <1>14. ASSUME NEW w \in Worker, Drop(w) PROVE TypeInv'
    BY <1>14 DEF Drop, TypeOK, GameTypeOK, Named, Rolled, PC,
                shmVars, bossVars, luckyVars
  <1>15. ASSUME NEW w \in Worker, SigPipe(w) PROVE TypeInv'
    BY <1>15 DEF SigPipe, Dies, TypeOK, GameTypeOK, Named, Rolled, PC,
                shmVars, bossVars, luckyVars
  <1>16. ASSUME NEW w \in Worker, Killed(w) PROVE TypeInv'
    BY <1>16 DEF Killed, Dies, TypeOK, GameTypeOK, Named, Rolled, PC,
                shmVars, bossVars, luckyVars
  <1>17. CASE Tick
    BY <1>17 DEF Tick, TypeOK, GameTypeOK, Named, Rolled,
                shmVars, bossVars, luckyVars, workerVars, historyVars
  <1>18. CASE UNCHANGED vars
    BY <1>18 DEF vars, TypeOK, GameTypeOK, Named, Rolled,
                shmVars, bossVars, luckyVars, workerVars, historyVars
  <1> QED
    BY <1>1, <1>2, <1>3, <1>4, <1>5, <1>6, <1>7, <1>8, <1>9, <1>10, <1>11,
       <1>12, <1>13, <1>14, <1>15, <1>16, <1>17, <1>18
       DEF Next, Process, Attacking

(* Every variable keeps to its type, in every state the server reaches.    *)
THEOREM TypeCorrect == Spec => []TypeOK
  <1>1. TypeInv => TypeOK
    BY DEF TypeInv
  <1> QED
    BY <1>1, TypeInit, TypeStep, PTL DEF Spec

-----------------------------------------------------------------------------
(* The boss.  The three invariants about it need each other: a kill is     *)
(* recorded once because nothing is accepted while the boss is down, the   *)
(* boss is down until its killer spawns the next, and nobody else spawns.  *)

BossInv == OneSpawnOwed /\ BossHpConsistent /\ KillsMatchStage

RaidInv == TypeInv /\ BossInv

(* Most steps leave the boss alone and owe it nothing.                     *)
Quiet ==
    /\ UNCHANGED <<bossVars, kills, orphaned>>
    /\ Spawning' = Spawning

LEMMA QuietKeepsBoss == BossInv /\ Quiet => BossInv'
  <1> SUFFICES ASSUME BossInv, Quiet PROVE BossInv'
    OBVIOUS
  <1>1. OneSpawnOwed'
    BY DEF BossInv, Quiet, OneSpawnOwed, bossVars
  <1>2. BossHpConsistent'
    BY DEF BossInv, Quiet, BossHpConsistent, bossVars, Refuses, Snapshot
  <1>3. KillsMatchStage'
    BY DEF BossInv, Quiet, KillsMatchStage, bossVars, Refuses, Snapshot
  <1> QED
    BY <1>1, <1>2, <1>3 DEF BossInv

(* The steps that touch the boss: a hit, the spawn that follows a kill,    *)
(* and the death of a killer.                                              *)
TouchesBoss(w) == ApplyDamage(w) \/ SpawnNextBoss(w) \/ Killed(w)

LEMMA OthersAreQuiet ==
  ASSUME TypeInv, [Next]_vars, ~(\E w \in Worker : TouchesBoss(w))
  PROVE  Quiet
  <1> USE DEF TypeInv, TypeOK
  <1>1. ASSUME NEW w \in Worker,
               \/ Join(w) \/ AttackSnapshot(w) \/ Heartbeat(w)
               \/ MarkLuckyKill(w) \/ Win(w) \/ Lose(w) \/ FinalSnapshot(w)
               \/ DecideLucky(w) \/ ClearLuckyKill(w) \/ SendReply(w)
               \/ Leave(w) \/ Drop(w) \/ SigPipe(w)
        PROVE  Quiet
    <2>1. UNCHANGED <<bossVars, kills, orphaned>>
      BY <1>1 DEF Join, AttackSnapshot, Heartbeat, MarkLuckyKill, Win, Lose,
                  FinalSnapshot, DecideLucky, ClearLuckyKill, SendReply, Leave,
                  Drop, SigPipe, Dies, GamestatePlayerJoin, GamestatePlayerLeave,
                  GamestateMarkLuckyKill, GamestateClearLuckyKill,
                  GamestateUpdateStreak, shmVars, historyVars
    <2>2. /\ pc[w] # "spawn"
          /\ \E to \in PC \ {"spawn"} : pc' = [pc EXCEPT ![w] = to]
      BY <1>1 DEF Join, AttackSnapshot, Heartbeat, MarkLuckyKill, Win, Lose,
                  FinalSnapshot, DecideLucky, ClearLuckyKill, SendReply, Leave,
                  Drop, SigPipe, Dies, Goto, PC
    <2>3. Spawning' = Spawning
      BY <2>2 DEF Spawning
    <2> QED
      BY <2>1, <2>3 DEF Quiet
  <1>2. CASE Tick
    BY <1>2 DEF Tick, Quiet, Spawning, shmVars, workerVars, historyVars
  <1>3. CASE UNCHANGED vars
    BY <1>3 DEF vars, Quiet, Spawning, shmVars, workerVars, historyVars
  <1> QED
    BY <1>1, <1>2, <1>3 DEF Next, Process, Attacking, TouchesBoss

LEMMA BossInit == Init => BossInv
  <1> SUFFICES ASSUME Init PROVE BossInv
    OBVIOUS
  <1>1. Spawning = {}
    BY DEF Init, Spawning
  <1>2. OneSpawnOwed
    BY <1>1 DEF Init, GameInit, OneSpawnOwed
  <1>3. BossHpConsistent
    BY BossHpAssumption DEF Init, GameInit, BossHpConsistent, Refuses, Snapshot,
       BOSS_STAGE_1, BOSS_STAGE_DEAD
  <1>4. KillsMatchStage
    BY DEF Init, GameInit, KillsMatchStage, Refuses, Snapshot,
       BOSS_STAGE_1, BOSS_STAGE_DEAD
  <1> QED
    BY <1>2, <1>3, <1>4 DEF BossInv

LEMMA ApplyKeepsBoss ==
  ASSUME RaidInv, NEW w \in Worker, ApplyDamage(w)
  PROVE  BossInv'
  <1> USE DEF RaidInv, BossInv, TypeInv, TypeOK
  <1>1. username[w] \in PlayerName /\ damage[w] \in Nat
    BY DEF ApplyDamage, Goto, Named
  <1>2. CASE ~JustKilled(damage[w])
    <2>1. Spawning' = Spawning
      BY <1>2 DEF ApplyDamage, Goto, Spawning
    <2>2. UNCHANGED <<stage, max_hp, is_respawning, last_killer, kills, orphaned>>
      <3>1. UNCHANGED <<stage, max_hp, last_killer, kills, orphaned>>
        BY <1>2 DEF ApplyDamage, GamestateApplyDamage
      <3>2. CASE Refuses(Snapshot)
        BY <3>1, <3>2 DEF ApplyDamage, GamestateApplyDamage
      <3>3. CASE ~Refuses(Snapshot)
        <4>1. ~is_respawning
          BY <3>3 DEF Refuses, Snapshot
        <4>2. ~is_respawning' /\ is_respawning' \in BOOLEAN
          BY <1>2, <3>3 DEF ApplyDamage, GamestateApplyDamage, JustKilled
        <4> QED
          BY <3>1, <4>1, <4>2 DEF GameTypeOK
      <3> QED
        BY <3>2, <3>3
    <2>3. /\ Refuses(Snapshot) => current_hp' = current_hp
          /\ ~Refuses(Snapshot) => current_hp' = current_hp - damage[w] /\ current_hp' > 0
      BY <1>1, <1>2 DEF ApplyDamage, GamestateApplyDamage, JustKilled, GameTypeOK
    <2>4. OneSpawnOwed'
      BY <2>1, <2>2 DEF OneSpawnOwed
    <2>5. BossHpConsistent'
      <3>1. max_hp \in Nat /\ current_hp \in 0..max_hp
        BY BossHpAssumption DEF GameTypeOK
      <3>2. current_hp' \in 0..max_hp
        BY <1>1, <2>3, <3>1
      <3>3. Refuses(Snapshot)' <=> Refuses(Snapshot)
        BY <2>2 DEF Refuses, Snapshot
      <3>4. current_hp' = 0 <=> Refuses(Snapshot)'
        BY <1>1, <2>3, <3>1, <3>3 DEF BossHpConsistent
      <3> QED
        BY <2>2, <3>2, <3>4 DEF BossHpConsistent
    <2>6. KillsMatchStage'
      BY <2>2 DEF KillsMatchStage, Refuses, Snapshot
    <2> QED
      BY <2>4, <2>5, <2>6
  <1>3. CASE JustKilled(damage[w])
    <2>1. /\ ~is_respawning /\ stage # BOSS_STAGE_DEAD
          /\ is_respawning' /\ current_hp' = 0 /\ last_killer' = username[w]
          /\ kills' = Append(kills, username[w])
          /\ UNCHANGED <<stage, max_hp, orphaned>>
      BY <1>3 DEF ApplyDamage, GamestateApplyDamage, JustKilled, Refuses, Snapshot
    <2>2. Spawning = {} /\ ~orphaned
      BY <2>1 DEF OneSpawnOwed
    <2>3. Spawning' = {w}
      BY <1>3, <2>2 DEF ApplyDamage, Goto, Spawning
    <2>4. OneSpawnOwed'
      BY <2>1, <2>2, <2>3 DEF OneSpawnOwed
    <2>5. BossHpConsistent'
      BY <2>1, BossHpAssumption DEF BossHpConsistent, Refuses, Snapshot, GameTypeOK
    <2>6. KillsMatchStage'
      <3>1. Len(kills) = stage
        BY <2>1 DEF KillsMatchStage, GameTypeOK, BossStage,
                    BOSS_STAGE_1, BOSS_STAGE_2, BOSS_STAGE_DEAD
      <3>2. Len(kills') = Len(kills) + 1 /\ kills'[Len(kills) + 1] = username[w]
        BY <1>1, <2>1
      <3>3. Refuses(Snapshot)'
        BY <2>1 DEF Refuses, Snapshot
      <3>4. last_killer' = kills'[Len(kills')]
        BY <2>1, <3>2
      <3>5. Len(kills') = stage' + (IF is_respawning' THEN 1 ELSE 0)
        BY <2>1, <3>1, <3>2
      <3> QED
        BY <3>3, <3>4, <3>5 DEF KillsMatchStage
    <2> QED
      BY <2>4, <2>5, <2>6
  <1> QED
    BY <1>2, <1>3

LEMMA SpawnKeepsBoss ==
  ASSUME RaidInv, NEW w \in Worker, SpawnNextBoss(w)
  PROVE  BossInv'
  <1> USE DEF RaidInv, BossInv, TypeInv, TypeOK
  <1>1. Spawning = {w}
    BY DEF SpawnNextBoss, Goto, Spawning, OneSpawnOwed
  <1>2. is_respawning /\ ~orphaned /\ stage # BOSS_STAGE_DEAD
    BY <1>1 DEF OneSpawnOwed, BossHpConsistent
  <1>3. Spawning' = {}
    BY <1>1 DEF SpawnNextBoss, Goto, Spawning
  <1>4. /\ ~is_respawning' /\ stage' = stage + 1
        /\ kills' = kills /\ orphaned' = orphaned
    BY <1>2 DEF SpawnNextBoss, GamestateSpawnNextBoss, historyVars, GameTypeOK,
                BossStage, BOSS_STAGE_1, BOSS_STAGE_2, BOSS_STAGE_DEAD
  <1>5. OneSpawnOwed'
    BY <1>2, <1>3, <1>4 DEF OneSpawnOwed
  <1>6. BossHpConsistent'
    BY <1>2, <1>4, BossHpAssumption
       DEF SpawnNextBoss, GamestateSpawnNextBoss, BossHpConsistent, Refuses,
           Snapshot, GameTypeOK, BossStage, BOSS_STAGE_1, BOSS_STAGE_2, BOSS_STAGE_DEAD
  <1>7. KillsMatchStage'
    BY <1>2, <1>4
       DEF SpawnNextBoss, GamestateSpawnNextBoss, KillsMatchStage, Refuses,
           Snapshot, GameTypeOK, BossStage, BOSS_STAGE_1, BOSS_STAGE_2, BOSS_STAGE_DEAD
  <1> QED
    BY <1>5, <1>6, <1>7

LEMMA KilledKeepsBoss ==
  ASSUME RaidInv, NEW w \in Worker, Killed(w)
  PROVE  BossInv'
  <1> USE DEF RaidInv, BossInv, TypeInv, TypeOK
  <1>1. UNCHANGED <<bossVars, kills>>
    BY DEF Killed, Dies, shmVars
  <1>2. Spawning' = Spawning \ {w}
    BY DEF Killed, Dies, Spawning
  <1>3. orphaned' <=> (orphaned \/ w \in Spawning)
    BY DEF Killed, Spawning
  <1>4. OneSpawnOwed'
    BY <1>1, <1>2, <1>3 DEF OneSpawnOwed, bossVars
  <1>5. BossHpConsistent' /\ KillsMatchStage'
    BY <1>1 DEF BossHpConsistent, KillsMatchStage, Refuses, Snapshot, bossVars
  <1> QED
    BY <1>4, <1>5

LEMMA RaidInit == Init => RaidInv
  BY TypeInit, BossInit DEF RaidInv

LEMMA RaidStep == RaidInv /\ [Next]_vars => RaidInv'
  <1> SUFFICES ASSUME RaidInv, [Next]_vars PROVE RaidInv'
    OBVIOUS
  <1>1. TypeInv'
    BY TypeStep DEF RaidInv
  <1>2. CASE ~(\E w \in Worker : TouchesBoss(w))
    BY <1>1, <1>2, OthersAreQuiet, QuietKeepsBoss DEF RaidInv
  <1>3. CASE \E w \in Worker : TouchesBoss(w)
    BY <1>1, <1>3, ApplyKeepsBoss, SpawnKeepsBoss, KilledKeepsBoss
       DEF RaidInv, TouchesBoss
  <1> QED
    BY <1>2, <1>3

LEMMA RaidAlways == Spec => []RaidInv
  BY RaidInit, RaidStep, PTL DEF Spec

(* gamestate_spawn_next_boss is called once per dead boss, by its killer.  *)
THEOREM SpawnOwedOnce == Spec => []OneSpawnOwed
  <1>1. RaidInv => OneSpawnOwed
    BY DEF RaidInv, BossInv
  <1> QED
    BY <1>1, RaidAlways, PTL

(* The health bar belongs to the boss that is up, and is empty exactly     *)
(* when none is.                                                           *)
THEOREM BossHpAlwaysConsistent == Spec => []BossHpConsistent
  <1>1. RaidInv => BossHpConsistent
    BY DEF RaidInv, BossInv
  <1> QED
    BY <1>1, RaidAlways, PTL

(* Every boss that fell was credited to one player, the one shown.         *)
THEOREM KillsAlwaysMatchStage == Spec => []KillsMatchStage
  <1>1. RaidInv => KillsMatchStage
    BY DEF RaidInv, BossInv
  <1> QED
    BY <1>1, RaidAlways, PTL

-----------------------------------------------------------------------------
(* RaidServer implements BossRaid: of all the steps of all the workers,    *)
(* only three are visible to the players, and each is a step of the raid.  *)

LEMMA QuietIsStutter == Quiet => UNCHANGED Raid!raidVars
  BY DEF Quiet, bossVars, Raid!raidVars

LEMMA ApplyImplements ==
  ASSUME RaidInv, NEW w \in Worker, ApplyDamage(w)
  PROVE  [Raid!RaidNext]_(Raid!raidVars)
  <1> USE DEF RaidInv, BossInv, TypeInv, TypeOK
  <1>1. username[w] \in PlayerName /\ damage[w] \in Nat
    BY DEF ApplyDamage, Goto, Named
  <1>2. UNCHANGED stage
    BY DEF ApplyDamage, GamestateApplyDamage
  <1>3. CASE Refuses(Snapshot)
    BY <1>3 DEF ApplyDamage, GamestateApplyDamage, JustKilled, Raid!raidVars
  <1>4. CASE ~Refuses(Snapshot)
    <2>1. Raid!BossUp
      BY <1>4 DEF Raid!BossUp, Refuses, Snapshot, GameTypeOK, BossStage,
                  BOSS_STAGE_1, BOSS_STAGE_2, BOSS_STAGE_DEAD
    <2>2. CASE JustKilled(damage[w])
      BY <1>1, <1>2, <1>4, <2>1, <2>2
         DEF ApplyDamage, GamestateApplyDamage, Raid!RaidNext, Raid!Kill
    <2>3. CASE ~JustKilled(damage[w])
      <3>1. UNCHANGED <<is_respawning, last_killer, kills>>
        <4>1. ~is_respawning
          BY <1>4 DEF Refuses, Snapshot
        <4>2. ~is_respawning' /\ is_respawning' \in BOOLEAN
          BY <1>4, <2>3 DEF ApplyDamage, GamestateApplyDamage, JustKilled
        <4> QED
          BY <1>4, <2>3, <4>1, <4>2
             DEF ApplyDamage, GamestateApplyDamage, GameTypeOK
      <3>2. current_hp' = current_hp - damage[w] /\ current_hp' > 0
        BY <1>1, <1>4, <2>3, BossHpAssumption
           DEF ApplyDamage, GamestateApplyDamage, JustKilled, GameTypeOK
      <3>3. current_hp \in Nat
        BY BossHpAssumption DEF GameTypeOK
      <3>4. CASE damage[w] = 0
        BY <1>2, <3>1, <3>2, <3>3, <3>4 DEF Raid!raidVars
      <3>5. CASE damage[w] # 0
        BY <1>1, <1>2, <2>1, <3>1, <3>2, <3>3, <3>5 DEF Raid!RaidNext, Raid!Hit
      <3> QED
        BY <3>4, <3>5
    <2> QED
      BY <2>2, <2>3
  <1> QED
    BY <1>3, <1>4

LEMMA SpawnImplements ==
  ASSUME RaidInv, NEW w \in Worker, SpawnNextBoss(w)
  PROVE  Raid!NextBoss
  <1>1. w \in Spawning
    BY DEF SpawnNextBoss, Goto, Spawning
  <1>2. is_respawning /\ stage \in {BOSS_STAGE_1, BOSS_STAGE_2}
    BY <1>1 DEF RaidInv, BossInv, TypeInv, TypeOK, OneSpawnOwed, BossHpConsistent,
                GameTypeOK, BossStage
  <1> QED
    BY <1>2 DEF SpawnNextBoss, GamestateSpawnNextBoss, Raid!NextBoss, historyVars,
                BOSS_STAGE_1, BOSS_STAGE_2, BOSS_STAGE_DEAD

LEMMA KilledIsStutter ==
  ASSUME NEW w \in Worker, Killed(w)
  PROVE  UNCHANGED Raid!raidVars
  BY DEF Killed, Dies, shmVars, bossVars, Raid!raidVars

(* The raid of the workers is the raid the players were promised.          *)
THEOREM RaidImplemented == Spec => ImplementsRaid
  <1>1. Init => Raid!RaidInit
    BY DEF Init, GameInit, Raid!RaidInit, BOSS_STAGE_1
  <1>2. RaidInv /\ [Next]_vars => [Raid!RaidNext]_(Raid!raidVars)
    <2> SUFFICES ASSUME RaidInv, [Next]_vars
                 PROVE  [Raid!RaidNext]_(Raid!raidVars)
      OBVIOUS
    <2>1. CASE ~(\E w \in Worker : TouchesBoss(w))
      BY <2>1, OthersAreQuiet, QuietIsStutter DEF RaidInv
    <2>2. ASSUME NEW w \in Worker, ApplyDamage(w)
          PROVE  [Raid!RaidNext]_(Raid!raidVars)
      BY <2>2, ApplyImplements
    <2>3. ASSUME NEW w \in Worker, SpawnNextBoss(w)
          PROVE  [Raid!RaidNext]_(Raid!raidVars)
      BY <2>3, SpawnImplements DEF Raid!RaidNext
    <2>4. ASSUME NEW w \in Worker, Killed(w)
          PROVE  [Raid!RaidNext]_(Raid!raidVars)
      BY <2>4, KilledIsStutter
    <2> QED
      BY <2>1, <2>2, <2>3, <2>4 DEF TouchesBoss
  <1> QED
    BY <1>1, <1>2, RaidAlways, PTL DEF Spec, ImplementsRaid, Raid!RaidSpec

-----------------------------------------------------------------------------
(* The online count.  Joined grows by a worker that was not in it and      *)
(* shrinks by one that was; everything else leaves it alone.               *)

CountInv == TypeInv /\ OnlineCountExact

LEMMA JoinedFinite == IsFiniteSet(Joined) /\ Cardinality(Joined) \in Nat
  BY WorkerAssumption, FS_Subset, FS_CardinalityType DEF Joined

LEMMA JoinCounts ==
  ASSUME CountInv, NEW w \in Worker, Join(w)
  PROVE  OnlineCountExact'
  <1>1. Joined' = Joined \cup {w} /\ w \notin Joined
    BY DEF CountInv, TypeInv, TypeOK, Join, Goto, Joined
  <1>2. Cardinality(Joined') = Cardinality(Joined) + 1
    BY <1>1, JoinedFinite, FS_AddElement
  <1> QED
    BY <1>2, JoinedFinite DEF CountInv, TypeInv, TypeOK, OnlineCountExact, Join,
                GamestatePlayerJoin, historyVars

LEMMA GoneUncounts ==
  ASSUME TypeInv, NEW w \in Worker, pc[w] # "free",
         pc' = [pc EXCEPT ![w] = "free"]
  PROVE  Cardinality(Joined') = Cardinality(Joined) - 1 /\ Cardinality(Joined) > 0
  <1>1. Joined' = Joined \ {w} /\ w \in Joined
    BY DEF TypeInv, TypeOK, Joined
  <1>2. Cardinality(Joined') = Cardinality(Joined) - 1
    BY <1>1, JoinedFinite, FS_RemoveElement
  <1>3. Cardinality(Joined) # 0
    BY <1>1, JoinedFinite, FS_EmptySet
  <1> QED
    BY <1>2, <1>3, JoinedFinite

LEMMA LeaveCounts ==
  ASSUME CountInv, NEW w \in Worker, Leave(w)
  PROVE  OnlineCountExact'
  <1>1. Cardinality(Joined') = Cardinality(Joined) - 1 /\ Cardinality(Joined) > 0
    BY GoneUncounts DEF CountInv, Leave, Goto
  <1>2. online_count > 0
    BY <1>1, JoinedFinite DEF CountInv, TypeInv, TypeOK, OnlineCountExact
  <1> QED
    BY <1>1, <1>2, JoinedFinite
       DEF CountInv, TypeInv, TypeOK, GameTypeOK, OnlineCountExact, Leave,
           GamestatePlayerLeave, historyVars

LEMMA DeathCounts ==
  ASSUME CountInv, NEW w \in Worker, SigPipe(w) \/ Killed(w)
  PROVE  OnlineCountExact'
  <1>1. Cardinality(Joined') = Cardinality(Joined) - 1
    BY GoneUncounts DEF CountInv, SigPipe, Killed, Dies
  <1> QED
    BY <1>1, JoinedFinite
       DEF CountInv, TypeInv, TypeOK, GameTypeOK, OnlineCountExact, SigPipe,
           Killed, Dies, shmVars

LEMMA OthersKeepCount ==
  ASSUME CountInv, NEW w \in Worker,
         \/ AttackSnapshot(w) \/ Heartbeat(w) \/ Attacking(w)
         \/ DecideLucky(w) \/ ClearLuckyKill(w) \/ SendReply(w) \/ Drop(w)
  PROVE  OnlineCountExact'
  <1>1. UNCHANGED <<online_count, leaked>>
    BY DEF AttackSnapshot, Heartbeat, Attacking, MarkLuckyKill, Win, Lose,
           ApplyDamage, SpawnNextBoss, FinalSnapshot, DecideLucky, ClearLuckyKill,
           SendReply, Drop, GamestateMarkLuckyKill, GamestateUpdateStreak,
           GamestateApplyDamage, GamestateSpawnNextBoss, GamestateClearLuckyKill,
           shmVars, historyVars
  <1>2. /\ pc[w] # "free"
        /\ \E to \in PC \ {"free"} : pc' = [pc EXCEPT ![w] = to]
    BY DEF AttackSnapshot, Heartbeat, Attacking, MarkLuckyKill, Win, Lose,
           ApplyDamage, SpawnNextBoss, FinalSnapshot, DecideLucky, ClearLuckyKill,
           SendReply, Drop, Goto, PC
  <1>3. Joined' = Joined
    BY <1>2 DEF Joined, CountInv, TypeInv, TypeOK
  <1> QED
    BY <1>1, <1>3 DEF CountInv, OnlineCountExact

LEMMA CountInit == Init => CountInv
  <1> SUFFICES ASSUME Init PROVE OnlineCountExact
    BY TypeInit DEF CountInv
  <1>1. Joined = {}
    BY DEF Init, Joined
  <1> QED
    BY <1>1, FS_EmptySet DEF Init, GameInit, OnlineCountExact

LEMMA CountStep == CountInv /\ [Next]_vars => CountInv'
  <1> SUFFICES ASSUME CountInv, [Next]_vars PROVE OnlineCountExact'
    BY TypeStep DEF CountInv
  <1>1. CASE \E w \in Worker : Join(w) \/ Leave(w) \/ SigPipe(w) \/ Killed(w)
    BY <1>1, JoinCounts, LeaveCounts, DeathCounts
  <1>2. CASE \E w \in Worker :
               \/ AttackSnapshot(w) \/ Heartbeat(w) \/ Attacking(w)
               \/ DecideLucky(w) \/ ClearLuckyKill(w) \/ SendReply(w) \/ Drop(w)
    BY <1>2, OthersKeepCount
  <1>3. CASE Tick \/ UNCHANGED vars
    <2>1. UNCHANGED <<online_count, leaked, pc>>
      BY <1>3 DEF Tick, vars, shmVars, workerVars, historyVars
    <2> QED
      BY <2>1 DEF CountInv, OnlineCountExact, Joined
  <1> QED
    BY <1>1, <1>2, <1>3 DEF Next, Process

(* No way out of handle_client but death by a signal leaves a player       *)
(* counted who is gone, or takes one off who is there.                     *)
THEOREM OnlineCountAlwaysExact == Spec => []OnlineCountExact
  <1>1. CountInv => OnlineCountExact
    BY DEF CountInv
  <1> QED
    BY <1>1, CountInit, CountStep, PTL DEF Spec

-----------------------------------------------------------------------------
(* Replies.  A worker's copy is never ahead of the shared memory, and the  *)
(* shared memory only moves on.                                            *)

CopiesBehind == \A w \in Worker : NotBefore(Snapshot, snap[w])

LEMMA NotBeforeTransitive ==
  ASSUME NEW a \in SnapshotSet, NEW b \in SnapshotSet, NEW c \in SnapshotSet,
         NotBefore(a, b), NotBefore(b, c)
  PROVE  NotBefore(a, c)
  BY DEF NotBefore, SnapshotSet, BossStage, BOSS_STAGE_1, BOSS_STAGE_2, BOSS_STAGE_DEAD

LEMMA NotBeforeReflexive ==
  ASSUME NEW a \in SnapshotSet
  PROVE  NotBefore(a, a)
  BY DEF NotBefore, SnapshotSet, BossStage, BOSS_STAGE_1, BOSS_STAGE_2, BOSS_STAGE_DEAD

LEMMA BossMovesOn ==
  ASSUME RaidInv, [Next]_vars
  PROVE  NotBefore(Snapshot', Snapshot)
  <1>1. Snapshot \in SnapshotSet
    BY SnapshotType, BossHpAssumption DEF RaidInv, TypeInv, TypeOK
  <1>2. ASSUME UNCHANGED <<stage, current_hp>>
        PROVE  NotBefore(Snapshot', Snapshot)
    BY <1>1, <1>2 DEF NotBefore, Snapshot, SnapshotSet
  <1>3. CASE ~(\E w \in Worker : TouchesBoss(w))
    BY <1>2, <1>3, OthersAreQuiet DEF RaidInv, Quiet, bossVars
  <1>4. ASSUME NEW w \in Worker, ApplyDamage(w)
        PROVE  NotBefore(Snapshot', Snapshot)
    <2>1. damage[w] \in Nat /\ current_hp \in Nat /\ stage' = stage
      BY <1>4, BossHpAssumption
         DEF RaidInv, TypeInv, TypeOK, GameTypeOK, ApplyDamage, GamestateApplyDamage
    <2>2. current_hp' <= current_hp
      BY <1>4, <2>1 DEF ApplyDamage, GamestateApplyDamage, JustKilled
    <2> QED
      BY <2>1, <2>2 DEF NotBefore, Snapshot
  <1>5. ASSUME NEW w \in Worker, SpawnNextBoss(w)
        PROVE  NotBefore(Snapshot', Snapshot)
    <2>1. stage' = stage + 1 /\ stage \in BossStage
      BY <1>5, SpawnImplements
         DEF Raid!NextBoss, RaidInv, TypeInv, TypeOK, GameTypeOK
    <2> QED
      BY <2>1 DEF NotBefore, Snapshot, BossStage, BOSS_STAGE_1, BOSS_STAGE_2,
                  BOSS_STAGE_DEAD
  <1>6. ASSUME NEW w \in Worker, Killed(w)
        PROVE  NotBefore(Snapshot', Snapshot)
    BY <1>2, <1>6 DEF Killed, Dies, shmVars, bossVars
  <1> QED
    BY <1>3, <1>4, <1>5, <1>6 DEF TouchesBoss

LEMMA CopyIsFresh ==
  ASSUME TypeInv, [Next]_vars, NEW w \in Worker
  PROVE  snap'[w] \in {snap[w], Snapshot}
  <1> USE DEF TypeInv, TypeOK
  <1>1. ASSUME NEW v \in Worker, AttackSnapshot(v) \/ Heartbeat(v) \/ FinalSnapshot(v)
        PROVE  snap'[w] \in {snap[w], Snapshot}
    BY <1>1 DEF AttackSnapshot, Heartbeat, FinalSnapshot
  <1>2. ASSUME NEW v \in Worker,
               \/ Join(v) \/ MarkLuckyKill(v) \/ Win(v) \/ Lose(v) \/ ApplyDamage(v)
               \/ SpawnNextBoss(v) \/ DecideLucky(v) \/ ClearLuckyKill(v)
               \/ SendReply(v) \/ Leave(v) \/ Drop(v) \/ SigPipe(v) \/ Killed(v)
        PROVE  snap'[w] \in {snap[w], Snapshot}
    BY <1>2 DEF Join, MarkLuckyKill, Win, Lose, ApplyDamage, SpawnNextBoss,
                DecideLucky, ClearLuckyKill, SendReply, Leave, Drop, SigPipe,
                Killed, Dies
  <1>3. CASE Tick \/ UNCHANGED vars
    BY <1>3 DEF Tick, vars, workerVars
  <1> QED
    BY <1>1, <1>2, <1>3 DEF Next, Process, Attacking

LEMMA CopiesStep ==
  RaidInv /\ CopiesBehind /\ [Next]_vars =>
    CopiesBehind' /\ \A w \in Worker : NotBefore(snap'[w], snap[w])
  <1> SUFFICES ASSUME RaidInv, CopiesBehind, [Next]_vars, NEW w \in Worker
               PROVE  NotBefore(Snapshot', snap'[w]) /\ NotBefore(snap'[w], snap[w])
    BY DEF CopiesBehind
  <1>1. RaidInv'
    BY RaidStep
  <1>2. /\ Snapshot \in SnapshotSet /\ Snapshot' \in SnapshotSet
        /\ snap[w] \in SnapshotSet
    BY <1>1, SnapshotType, BossHpAssumption
       DEF RaidInv, TypeInv, TypeOK, GameTypeOK, Snapshot, SnapshotSet
  <1>3. NotBefore(Snapshot', Snapshot)
    BY BossMovesOn
  <1>4. NotBefore(Snapshot, snap[w])
    BY DEF CopiesBehind
  <1>5. CASE snap'[w] = Snapshot
    BY <1>3, <1>4, <1>5
  <1>6. CASE snap'[w] = snap[w]
    BY <1>2, <1>3, <1>4, <1>6, NotBeforeTransitive, NotBeforeReflexive
  <1> QED
    BY <1>5, <1>6, CopyIsFresh DEF RaidInv

LEMMA CopiesInit == Init => CopiesBehind
  <1> SUFFICES ASSUME Init, NEW w \in Worker PROVE NotBefore(Snapshot, snap[w])
    BY DEF CopiesBehind
  <1>1. snap[w] = Snapshot /\ Snapshot \in SnapshotSet
    BY TypeInit, SnapshotType DEF Init, TypeInv, TypeOK
  <1> QED
    BY <1>1, NotBeforeReflexive

(* What a player is sent never takes the fight back.                       *)
THEOREM RepliesMoveOn == Spec => RepliesNeverGoBack
  BY CopiesInit, CopiesStep, RaidAlways, PTL DEF Spec, RepliesNeverGoBack

-----------------------------------------------------------------------------
(* Instant kills.  Damage is only carried by an attack that has been       *)
(* rolled, and by the time it is applied the boss of its first copy is     *)
(* either still up, and felled by it, or has been felled before.           *)

DamageCarried ==
    \A w \in Worker :
        pc[w] \notin {"apply", "spawn", "final", "reply"} => damage[w] = 0

BossWasUp ==
    \A w \in Worker :
        pc[w] \in {"mark", "win", "lose", "apply"} => snap[w].stage # BOSS_STAGE_DEAD

InstantInv == DamageCarried /\ BossWasUp /\ InstantKillFellsItsBoss

LEMMA KillsGrow ==
  ASSUME TypeInv, [Next]_vars
  PROVE  Len(kills) \in Nat /\ Len(kills') >= Len(kills)
  <1>1. kills \in Seq(PlayerName)
    BY DEF TypeInv, TypeOK
  <1>2. ASSUME NEW w \in Worker, ApplyDamage(w)
        PROVE  kills' \in {kills, Append(kills, username[w])}
    BY <1>2 DEF ApplyDamage
  <1>3. CASE \E w \in Worker : ApplyDamage(w)
    <2>1. PICK w \in Worker : ApplyDamage(w)
      BY <1>3
    <2>2. username[w] \in PlayerName
      BY <2>1 DEF ApplyDamage, Goto, TypeInv, TypeOK, Named
    <2> QED
      BY <1>1, <1>2, <2>1, <2>2
  <1>4. CASE ~(\E w \in Worker : ApplyDamage(w))
    <2>1. kills' = kills
      BY <1>4 DEF Next, Process, Attacking, Join, AttackSnapshot, Heartbeat,
                  MarkLuckyKill, Win, Lose, SpawnNextBoss, FinalSnapshot,
                  DecideLucky, ClearLuckyKill, SendReply, Leave, Drop, SigPipe,
                  Killed, Dies, Tick, historyVars, vars
    <2> QED
      BY <1>1, <2>1
  <1> QED
    BY <1>3, <1>4

(* What was struck at the moment the damage was applied.                   *)
LEMMA StrikeFells ==
  ASSUME RaidInv, CopiesBehind, BossWasUp, NEW w \in Worker, ApplyDamage(w),
         damage[w] >= INSTANT_KILL_DAMAGE
  PROVE  Len(kills') > snap[w].stage
  <1> USE DEF RaidInv, TypeInv, TypeOK, BossInv
  <1>1. snap[w].stage <= stage /\ snap[w].stage \in 0..2 /\ stage \in 0..2
    BY DEF CopiesBehind, NotBefore, Snapshot, SnapshotSet, GameTypeOK, BossStage,
           BOSS_STAGE_1, BOSS_STAGE_2, BOSS_STAGE_DEAD
  <1>2. username[w] \in PlayerName /\ damage[w] \in Nat
    BY DEF ApplyDamage, Goto, Named
  <1>3. CASE JustKilled(damage[w])
    <2>1. Len(kills') = Len(kills) + 1
      BY <1>2, <1>3 DEF ApplyDamage
    <2>2. ~is_respawning
      BY <1>3 DEF JustKilled, Refuses, Snapshot
    <2>3. Len(kills) = stage
      BY <1>1, <2>2 DEF KillsMatchStage
    <2> QED
      BY <1>1, <2>1, <2>3
  <1>4. CASE ~JustKilled(damage[w])
    <2>1. current_hp - damage[w] <= 0
      BY <1>2, InstantAssumption, BossHpAssumption DEF GameTypeOK
    <2>2. is_respawning \/ stage = BOSS_STAGE_DEAD
      BY <1>4, <2>1 DEF JustKilled, Refuses, Snapshot
    <2>3. kills' = kills
      BY <1>4 DEF ApplyDamage
    <2>4. CASE is_respawning
      BY <1>1, <2>3, <2>4 DEF KillsMatchStage
    <2>5. CASE ~is_respawning
      <3>1. stage = 2 /\ Len(kills) = 2
        BY <2>2, <2>5 DEF KillsMatchStage, BOSS_STAGE_DEAD
      <3>2. snap[w].stage # 2
        BY DEF BossWasUp, ApplyDamage, Goto, BOSS_STAGE_DEAD
      <3> QED
        BY <1>1, <2>3, <3>1, <3>2
    <2> QED
      BY <2>4, <2>5
  <1> QED
    BY <1>3, <1>4

(* The worker that takes a step, and the others, one by one.               *)
LEMMA InstantStep ==
  RaidInv /\ CopiesBehind /\ InstantInv /\ [Next]_vars => InstantInv'
  <1> SUFFICES ASSUME RaidInv, CopiesBehind, InstantInv, [Next]_vars,
                      NEW v \in Worker
               PROVE  /\ pc'[v] \notin {"apply", "spawn", "final", "reply"}
                           => damage'[v] = 0
                      /\ pc'[v] \in {"mark", "win", "lose", "apply"}
                           => snap'[v].stage # BOSS_STAGE_DEAD
                      /\ pc'[v] \in {"spawn", "final"} /\ damage'[v] >= INSTANT_KILL_DAMAGE
                           => Len(kills') > snap'[v].stage
    BY DEF InstantInv, DamageCarried, BossWasUp, InstantKillFellsItsBoss
  <1> DEFINE Goal ==
               /\ pc'[v] \notin {"apply", "spawn", "final", "reply"} => damage'[v] = 0
               /\ pc'[v] \in {"mark", "win", "lose", "apply"}
                    => snap'[v].stage # BOSS_STAGE_DEAD
               /\ pc'[v] \in {"spawn", "final"} /\ damage'[v] >= INSTANT_KILL_DAMAGE
                    => Len(kills') > snap'[v].stage
  <1> USE DEF RaidInv, TypeInv, TypeOK
  <1>1. Len(kills) \in Nat /\ Len(kills') \in Nat /\ Len(kills') >= Len(kills)
    <2>1. kills \in Seq(PlayerName) /\ kills' \in Seq(PlayerName)
      BY TypeStep
    <2> QED
      BY <2>1, KillsGrow
  <1>2. INSTANT_KILL_DAMAGE \in Nat /\ INSTANT_KILL_DAMAGE > 0
    BY InstantAssumption, BossHpAssumption
  <1>3. snap[v].stage \in 0..2
    BY DEF SnapshotSet, BossStage, BOSS_STAGE_1, BOSS_STAGE_2, BOSS_STAGE_DEAD
  <1>4. /\ pc[v] \notin {"apply", "spawn", "final", "reply"} => damage[v] = 0
        /\ pc[v] \in {"mark", "win", "lose", "apply"} => snap[v].stage # BOSS_STAGE_DEAD
        /\ pc[v] \in {"spawn", "final"} /\ damage[v] >= INSTANT_KILL_DAMAGE
             => Len(kills) > snap[v].stage
    BY DEF InstantInv, DamageCarried, BossWasUp, InstantKillFellsItsBoss
  <1>5. CASE UNCHANGED <<pc[v], damage[v], snap[v]>>
    BY <1>1, <1>3, <1>4, <1>5
  <1>6. ASSUME ApplyDamage(v) PROVE Goal
    <2>1. damage[v] >= INSTANT_KILL_DAMAGE => Len(kills') > snap[v].stage
      BY <1>6, StrikeFells DEF InstantInv
    <2>2. UNCHANGED <<damage, snap>> /\ pc'[v] \in {"spawn", "final"}
      BY <1>6 DEF ApplyDamage, Goto
    <2> QED
      BY <2>1, <2>2
  <1>7. ASSUME AttackSnapshot(v) PROVE Goal
    <2>1. pc[v] = "loop" /\ damage' = damage
      BY <1>7 DEF AttackSnapshot
    <2>2. snap'[v] = Snapshot
      BY <1>7 DEF AttackSnapshot
    <2>3. CASE Refuses(Snapshot)
      BY <1>4, <1>7, <2>1, <2>3 DEF AttackSnapshot
    <2>4. CASE ~Refuses(Snapshot)
      <3>1. Snapshot.stage # BOSS_STAGE_DEAD
        BY <2>4 DEF Refuses
      <3>2. pc'[v] \in {"mark", "win", "lose"}
        BY <1>7, <2>4 DEF AttackSnapshot
      <3> QED
        BY <1>4, <2>1, <2>2, <3>1, <3>2
    <2> QED
      BY <2>3, <2>4
  <1>8. ASSUME MarkLuckyKill(v) \/ Win(v) PROVE Goal
    <2>1. pc[v] \in {"mark", "win"} /\ pc'[v] = "apply" /\ snap' = snap
      BY <1>8 DEF MarkLuckyKill, Win, Goto
    <2> QED
      BY <1>4, <2>1
  <1>9. ASSUME \/ Lose(v) \/ SpawnNextBoss(v) \/ FinalSnapshot(v)
        PROVE  Goal
    <2>1. /\ damage' = damage /\ kills' = kills
          /\ \/ pc[v] \in {"lose", "spawn"} /\ pc'[v] = "final" /\ snap' = snap
             \/ pc'[v] = "reply"
      BY <1>9 DEF Lose, SpawnNextBoss, FinalSnapshot, Goto, historyVars
    <2> QED
      BY <1>2, <1>3, <1>4, <2>1
  <1>10. ASSUME \/ Join(v) \/ Heartbeat(v) \/ DecideLucky(v) \/ ClearLuckyKill(v)
                \/ SendReply(v) \/ Leave(v) \/ Drop(v) \/ SigPipe(v) \/ Killed(v)
         PROVE  Goal
    <2>1. /\ pc'[v] \notin {"mark", "win", "lose", "apply", "spawn", "final"}
          /\ pc'[v] # "reply" => damage'[v] = 0
      BY <1>4, <1>10 DEF Join, Heartbeat, DecideLucky, ClearLuckyKill, SendReply,
                  Leave, Drop, SigPipe, Killed, Dies, Goto
    <2> QED
      BY <2>1
  <1>11. ASSUME NEW w \in Worker, w # v,
                \/ Join(w) \/ AttackSnapshot(w) \/ Heartbeat(w) \/ Process(w)
                \/ Drop(w) \/ SigPipe(w) \/ Killed(w)
         PROVE  UNCHANGED <<pc[v], damage[v], snap[v]>>
    BY <1>11 DEF Process, Attacking, Join, AttackSnapshot, Heartbeat,
                  MarkLuckyKill, Win, Lose, ApplyDamage, SpawnNextBoss, FinalSnapshot,
                  DecideLucky, ClearLuckyKill, SendReply, Leave, Drop, SigPipe,
                  Killed, Dies, Goto
  <1>12. CASE Tick \/ UNCHANGED vars
    BY <1>5, <1>12 DEF Tick, vars, workerVars
  <1> QED
    BY <1>5, <1>6, <1>7, <1>8, <1>9, <1>10, <1>11, <1>12 DEF Next, Process, Attacking

(* An instant kill is the end of the boss it was rolled against.           *)
THEOREM InstantKillsFell == Spec => []InstantKillFellsItsBoss
  <1>1. Init => CopiesBehind /\ InstantInv
    BY CopiesInit, BossHpAssumption, InstantAssumption
       DEF Init, InstantInv, DamageCarried, BossWasUp, InstantKillFellsItsBoss
  <1>2. RaidInv /\ (CopiesBehind /\ InstantInv) /\ [Next]_vars
          => (CopiesBehind /\ InstantInv)'
    BY CopiesStep, InstantStep
  <1>3. InstantInv => InstantKillFellsItsBoss
    BY DEF InstantInv
  <1> QED
    BY <1>1, <1>2, <1>3, RaidAlways, PTL DEF Spec

-----------------------------------------------------------------------------
(* Hits that land on a later boss.  Late are the workers that may still    *)
(* make one.  Only a spawn adds to them, and it cannot add its own worker, *)
(* which is past its strike; a strike takes the worker out.  Nobody is     *)
(* late for the first boss, and the third is not there to be hit.          *)

Late == {w \in Worker : pc[w] \in {"mark", "win", "apply"} /\ OnLaterBoss(w)}

StraysBounded ==
    /\ stage = BOSS_STAGE_1 => strays = 0
    /\ stage = BOSS_STAGE_2 => strays + Cardinality(Late) < Cardinality(Worker)
    /\ FewStrayHits

LEMMA LateFinite ==
  /\ IsFiniteSet(Late) /\ Cardinality(Late) \in Nat
  /\ Cardinality(Worker) \in Nat
  BY WorkerAssumption, FS_Subset, FS_CardinalityType DEF Late

LEMMA OnlySpawnMakesLate ==
  ASSUME TypeInv, [Next]_vars, ~(\E w \in Worker : SpawnNextBoss(w))
  PROVE  UNCHANGED stage /\ Late' \subseteq Late
  <1> USE DEF TypeInv, TypeOK
  <1>1. UNCHANGED stage
    BY DEF Next, Process, Attacking, Join, AttackSnapshot, Heartbeat, MarkLuckyKill,
           Win, Lose, ApplyDamage, FinalSnapshot, DecideLucky, ClearLuckyKill,
           SendReply, Leave, Drop, SigPipe, Killed, Dies, Tick, GamestatePlayerJoin,
           GamestatePlayerLeave, GamestateMarkLuckyKill, GamestateUpdateStreak,
           GamestateApplyDamage, GamestateClearLuckyKill, shmVars, bossVars, vars
  <1>2. ASSUME NEW v \in Worker, v \in Late' PROVE v \in Late
    <2>1. pc'[v] \in {"mark", "win", "apply"} /\ snap'[v].stage # stage
      BY <1>1, <1>2 DEF Late, OnLaterBoss
    <2>2. CASE UNCHANGED <<pc[v], snap[v]>>
      BY <2>1, <2>2 DEF Late, OnLaterBoss
    <2>3. CASE AttackSnapshot(v)
      <3>1. snap'[v].stage = stage
        BY <2>3 DEF AttackSnapshot, Snapshot
      <3> QED
        BY <2>1, <3>1
    <2>4. CASE MarkLuckyKill(v) \/ Win(v)
      <3>1. pc[v] \in {"mark", "win"} /\ snap' = snap
        BY <2>4 DEF MarkLuckyKill, Win, Goto
      <3> QED
        BY <2>1, <3>1 DEF Late, OnLaterBoss
    <2>5. CASE \/ Join(v) \/ Heartbeat(v) \/ Lose(v) \/ ApplyDamage(v)
               \/ FinalSnapshot(v) \/ DecideLucky(v) \/ ClearLuckyKill(v)
               \/ SendReply(v) \/ Leave(v) \/ Drop(v) \/ SigPipe(v) \/ Killed(v)
      <3>1. pc'[v] \notin {"mark", "win", "apply"}
        BY <2>5 DEF Join, Heartbeat, Lose, ApplyDamage, FinalSnapshot, DecideLucky,
                    ClearLuckyKill, SendReply, Leave, Drop, SigPipe, Killed, Dies, Goto
      <3> QED
        BY <2>1, <3>1
    <2>6. ASSUME NEW w \in Worker, w # v,
                 \/ Join(w) \/ AttackSnapshot(w) \/ Heartbeat(w) \/ Process(w)
                 \/ Drop(w) \/ SigPipe(w) \/ Killed(w)
          PROVE  UNCHANGED <<pc[v], snap[v]>>
      BY <2>6 DEF Process, Attacking, Join, AttackSnapshot, Heartbeat,
                  MarkLuckyKill, Win, Lose, ApplyDamage, SpawnNextBoss, FinalSnapshot,
                  DecideLucky, ClearLuckyKill, SendReply, Leave, Drop, SigPipe,
                  Killed, Dies, Goto
    <2>7. CASE Tick \/ UNCHANGED vars
      BY <2>2, <2>7 DEF Tick, vars, workerVars
    <2> QED
      BY <2>2, <2>3, <2>4, <2>5, <2>6, <2>7 DEF Next, Process, Attacking
  <1> QED
    BY <1>1, <1>2 DEF Late

LEMMA OnlyStrikesStray ==
  ASSUME [Next]_vars, ~(\E w \in Worker : ApplyDamage(w))
  PROVE  UNCHANGED strays
  BY DEF Next, Process, Attacking, Join, AttackSnapshot, Heartbeat, MarkLuckyKill,
         Win, Lose, SpawnNextBoss, FinalSnapshot, DecideLucky, ClearLuckyKill,
         SendReply, Leave, Drop, SigPipe, Killed, Dies, Tick, historyVars, vars

LEMMA FewerLate ==
  ASSUME StraysBounded, strays \in Nat, UNCHANGED <<stage, strays>>, Late' \subseteq Late
  PROVE  StraysBounded'
  <1>1. Cardinality(Late') \in Nat /\ Cardinality(Late') <= Cardinality(Late)
    BY LateFinite, FS_Subset, FS_CardinalityType
  <1> QED
    BY <1>1, LateFinite DEF StraysBounded, FewStrayHits

LEMMA StrikeKeepsStrays ==
  ASSUME RaidInv, CopiesBehind, StraysBounded, NEW w \in Worker, ApplyDamage(w),
         [Next]_vars
  PROVE  StraysBounded'
  <1> USE DEF RaidInv, TypeInv, TypeOK
  <1>1. UNCHANGED stage /\ Late' \subseteq Late
    <2>1. ~(\E v \in Worker : SpawnNextBoss(v))
      <3>1. ASSUME NEW v \in Worker, SpawnNextBoss(v) PROVE FALSE
        <4>1. pc' = [pc EXCEPT ![v] = "final"] /\ pc[v] = "spawn" /\ pc[w] = "apply"
          BY <3>1 DEF SpawnNextBoss, ApplyDamage, Goto
        <4>2. pc'[w] # "apply"
          BY DEF ApplyDamage, Goto
        <4> QED
          BY <4>1, <4>2
      <3> QED
        BY <3>1
    <2> QED
      BY <2>1, OnlySpawnMakesLate
  <1>2. CASE strays' = strays
    BY <1>1, <1>2, FewerLate
  <1>3. CASE strays' # strays
    <2>1. ~Refuses(Snapshot) /\ OnLaterBoss(w) /\ strays' = strays + 1
      BY <1>3 DEF ApplyDamage
    <2>2. stage = BOSS_STAGE_2
      <3>1. snap[w].stage <= stage /\ snap[w].stage \in 0..2 /\ stage \in 0..2
        BY DEF CopiesBehind, NotBefore, Snapshot, SnapshotSet, GameTypeOK, BossStage,
               BOSS_STAGE_1, BOSS_STAGE_2, BOSS_STAGE_DEAD
      <3>2. snap[w].stage # stage /\ stage # BOSS_STAGE_DEAD
        BY <2>1 DEF OnLaterBoss, Refuses, Snapshot
      <3> QED
        BY <3>1, <3>2 DEF BOSS_STAGE_2, BOSS_STAGE_DEAD
    <2>3. w \in Late /\ w \notin Late'
      BY <2>1 DEF Late, ApplyDamage, Goto
    <2>4. Late' \subseteq Late \ {w}
      BY <1>1, <2>3
    <2>5. /\ IsFiniteSet(Late \ {w})
          /\ Cardinality(Late \ {w}) = Cardinality(Late) - 1
      BY <2>3, LateFinite, FS_RemoveElement
    <2>6. Cardinality(Late') \in Nat /\ Cardinality(Late') <= Cardinality(Late) - 1
      BY <2>4, <2>5, FS_Subset, FS_CardinalityType
    <2>7. strays' + Cardinality(Late') < Cardinality(Worker)
      BY <2>1, <2>2, <2>6, LateFinite DEF StraysBounded
    <2> QED
      BY <1>1, <2>1, <2>2, <2>6, <2>7, LateFinite
         DEF StraysBounded, FewStrayHits, BOSS_STAGE_1, BOSS_STAGE_2
  <1> QED
    BY <1>2, <1>3

LEMMA SpawnKeepsStrays ==
  ASSUME RaidInv, StraysBounded, NEW w \in Worker, SpawnNextBoss(w)
  PROVE  StraysBounded'
  <1>1. strays' = strays /\ strays \in Nat
    BY DEF SpawnNextBoss, historyVars, RaidInv, TypeInv, TypeOK
  <1>2. stage' = stage + 1 /\ stage \in {BOSS_STAGE_1, BOSS_STAGE_2}
    <2>1. stage' = stage + 1 /\ is_respawning
      BY SpawnImplements DEF Raid!NextBoss
    <2> QED
      BY <2>1 DEF RaidInv, BossInv, BossHpConsistent, TypeInv, TypeOK, GameTypeOK, BossStage
  <1>3. CASE stage = BOSS_STAGE_1
    <2>1. Late' \subseteq Worker \ {w}
      BY DEF Late, SpawnNextBoss, Goto, RaidInv, TypeInv, TypeOK
    <2>2. /\ IsFiniteSet(Worker \ {w})
          /\ Cardinality(Worker \ {w}) = Cardinality(Worker) - 1
      BY WorkerAssumption, FS_RemoveElement
    <2>3. Cardinality(Late') \in Nat /\ Cardinality(Late') <= Cardinality(Worker) - 1
      BY <2>1, <2>2, FS_Subset, FS_CardinalityType
    <2> QED
      BY <1>1, <1>2, <1>3, <2>3, LateFinite
         DEF StraysBounded, FewStrayHits, BOSS_STAGE_1, BOSS_STAGE_2
  <1>4. CASE stage = BOSS_STAGE_2
    BY <1>1, <1>2, <1>4 DEF StraysBounded, FewStrayHits, BOSS_STAGE_1, BOSS_STAGE_2
  <1> QED
    BY <1>2, <1>3, <1>4

LEMMA StraysStep ==
  RaidInv /\ CopiesBehind /\ StraysBounded /\ [Next]_vars => StraysBounded'
  <1> SUFFICES ASSUME RaidInv, CopiesBehind, StraysBounded, [Next]_vars
               PROVE  StraysBounded'
    OBVIOUS
  <1>1. CASE \E w \in Worker : ApplyDamage(w)
    BY <1>1, StrikeKeepsStrays
  <1>2. CASE \E w \in Worker : SpawnNextBoss(w)
    BY <1>2, SpawnKeepsStrays
  <1>3. CASE ~(\E w \in Worker : ApplyDamage(w) \/ SpawnNextBoss(w))
    BY <1>3, OnlySpawnMakesLate, OnlyStrikesStray, FewerLate
       DEF RaidInv, TypeInv, TypeOK
  <1> QED
    BY <1>1, <1>2, <1>3

(* A blow meant for one boss falls on the next at most once per worker     *)
(* other than the one that felled it.                                      *)
THEOREM StrayHitsAreFew == Spec => []FewStrayHits
  <1>1. Init => CopiesBehind /\ StraysBounded
    BY CopiesInit
       DEF Init, GameInit, StraysBounded, FewStrayHits, BOSS_STAGE_1, BOSS_STAGE_2
  <1>2. RaidInv /\ (CopiesBehind /\ StraysBounded) /\ [Next]_vars
          => (CopiesBehind /\ StraysBounded)'
    BY CopiesStep, StraysStep
  <1>3. StraysBounded => FewStrayHits
    BY DEF StraysBounded
  <1> QED
    BY <1>1, <1>2, <1>3, RaidAlways, PTL DEF Spec

-----------------------------------------------------------------------------
(* The lucky kill on the air.  A worker about to clear it has found the    *)
(* event of its copy expired, and the clock only runs on.                  *)

CopyExpired ==
    \A w \in Worker : pc[w] = "hb_clear" => now - snap[w].marked > LUCKY_WINDOW

LEMMA CopyExpiredStep == TypeInv /\ CopyExpired /\ [Next]_vars => CopyExpired'
  <1> SUFFICES ASSUME TypeInv, CopyExpired, [Next]_vars, NEW v \in Worker,
                      pc'[v] = "hb_clear"
               PROVE  now' - snap'[v].marked > LUCKY_WINDOW
    BY DEF CopyExpired
  <1> USE DEF TypeInv, TypeOK
  <1>1. /\ now \in Nat /\ LUCKY_WINDOW \in Nat /\ snap[v].marked \in Nat
        /\ pc[v] = "hb_clear" => now - snap[v].marked > LUCKY_WINDOW
    BY TimeAssumption DEF CopyExpired, SnapshotSet
  <1>2. ASSUME DecideLucky(v) PROVE now' - snap'[v].marked > LUCKY_WINDOW
    BY <1>1, <1>2 DEF DecideLucky, Goto, Expired
  <1>3. ASSUME UNCHANGED <<pc[v], snap[v]>>, now' >= now, now' \in Nat
        PROVE  now' - snap'[v].marked > LUCKY_WINDOW
    BY <1>1, <1>3
  <1>4. CASE Tick \/ UNCHANGED vars
    BY <1>1, <1>3, <1>4 DEF Tick, vars, workerVars
  <1>5. ASSUME NEW w \in Worker,
               \/ Join(w) \/ AttackSnapshot(w) \/ Heartbeat(w) \/ Process(w)
               \/ Drop(w) \/ SigPipe(w) \/ Killed(w),
               ~DecideLucky(v)
        PROVE  UNCHANGED <<pc[v], snap[v]>> /\ now' = now
    BY <1>5 DEF Process, Attacking, Join, AttackSnapshot, Heartbeat,
                MarkLuckyKill, Win, Lose, ApplyDamage, SpawnNextBoss, FinalSnapshot,
                DecideLucky, ClearLuckyKill, SendReply, Leave, Drop, SigPipe,
                Killed, Dies, Goto
  <1> QED
    BY <1>1, <1>2, <1>3, <1>4, <1>5 DEF Next

(* Only a heartbeat takes a lucky kill off the air.                        *)
LEMMA OnlyClearClears ==
  ASSUME [Next]_vars, has_lucky_kill_event, ~has_lucky_kill_event'
  PROVE  \E w \in Worker : ClearLuckyKill(w)
  BY DEF Next, Process, Attacking, Join, AttackSnapshot, Heartbeat, MarkLuckyKill,
         Win, Lose, ApplyDamage, SpawnNextBoss, FinalSnapshot, DecideLucky,
         SendReply, Leave, Drop, SigPipe, Killed, Dies, Tick, GamestatePlayerJoin,
         GamestatePlayerLeave, GamestateMarkLuckyKill, GamestateUpdateStreak,
         GamestateApplyDamage, GamestateSpawnNextBoss, shmVars, luckyVars, vars

(* A broadcast is cut short only by a worker that decided on the copy of   *)
(* an older one.                                                           *)
THEOREM OnlyStaleCopiesClearEarly == Spec => OnlyStaleCopyClearsEarly
  <1>1. Init => CopyExpired
    BY DEF Init, CopyExpired
  <1>2. TypeInv /\ CopyExpired /\ [Next]_vars =>
          ((\A w \in Worker :
              pc[w] = "hb_clear" => snap[w].marked = lucky_kill_timestamp)
           => ~ClearedEarly)
    <2> SUFFICES ASSUME TypeInv, CopyExpired, [Next]_vars, ClearedEarly,
                        \A w \in Worker :
                          pc[w] = "hb_clear" => snap[w].marked = lucky_kill_timestamp
                 PROVE  FALSE
      OBVIOUS
    <2>1. PICK w \in Worker : ClearLuckyKill(w)
      BY OnlyClearClears DEF ClearedEarly
    <2>2. pc[w] = "hb_clear"
      BY <2>1 DEF ClearLuckyKill, Goto
    <2>3. now \in Nat /\ lucky_kill_timestamp \in Nat /\ LUCKY_WINDOW \in Nat
      BY TimeAssumption DEF TypeInv, TypeOK, GameTypeOK
    <2> QED
      BY <2>2, <2>3 DEF CopyExpired, ClearedEarly
  <1>3. RaidInv => TypeInv
    BY DEF RaidInv
  <1> QED
    BY <1>1, <1>2, <1>3, CopyExpiredStep, RaidAlways, PTL
       DEF Spec, OnlyStaleCopyClearsEarly
=============================================================================
