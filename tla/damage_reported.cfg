\* The promise of dice.h, which the code breaks.
SPECIFICATION Spec
CONSTANTS
    BOSS_1_MAX_HP = 6
    BOSS_2_MAX_HP = 12
    MAX_TRACKED_PLAYERS = 1
    PlayerName = {ann}
    NoName = NoName
    Worker = {w1, w2}
    Dice <- OneAndSix
    INSTANT_KILL_DAMAGE = 99
    LUCKY_WINDOW = 5
    MaxTime = 0
    MaxDeaths = 0
INVARIANTS
    ReportedDamageLanded
