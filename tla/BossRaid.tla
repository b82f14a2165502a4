------------------------------ MODULE BossRaid ------------------------------
(***************************************************************************)
(* What the raid promises its players, with no processes in it: two bosses *)
(* are fought one after the other; each is worn down, falls once, to one   *)
(* credited player, and is then replaced by the next; the name of the      *)
(* killer is shown from the kill until the next boss is up, and for good   *)
(* after the last one.  RaidServer implements this.                        *)
(***************************************************************************)
EXTENDS Integers, Sequences

CONSTANTS
    Hp1, Hp2,    \* hit points of the two bosses
    Player,      \* who may be credited
    Nobody       \* shown when there is no killer to show

VARIABLES
    fallen,      \* how many bosses have been replaced
    down,        \* the present boss is dead, the next not up yet
    hp,          \* hit points left
    shown,       \* the killer shown to the players
    credited     \* who killed each boss that fell

raidVars == <<fallen, down, hp, shown, credited>>

RaidInit ==
    /\ fallen = 0
    /\ down = FALSE
    /\ hp = Hp1
    /\ shown = Nobody
    /\ credited = << >>

BossUp == fallen < 2 /\ ~down

Hit ==
    /\ BossUp
    /\ hp' \in 1..(hp - 1)
    /\ UNCHANGED <<fallen, down, shown, credited>>

Kill ==
    /\ BossUp
    /\ hp' = 0
    /\ down' = TRUE
    /\ shown' \in Player
    /\ credited' = Append(credited, shown')
    /\ UNCHANGED fallen

NextBoss ==
    /\ down
    /\ down' = FALSE
    /\ fallen' = fallen + 1
    /\ hp' = IF fallen = 0 THEN Hp2 ELSE 0
    /\ shown' = IF fallen = 0 THEN Nobody ELSE shown
    /\ UNCHANGED credited

RaidNext == Hit \/ Kill \/ NextBoss

RaidSpec == RaidInit /\ [][RaidNext]_raidVars
=============================================================================
