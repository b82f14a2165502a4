\* Dead bosses are replaced, lucky kills go off the air.
SPECIFICATION LiveSpec
CONSTANTS
    BOSS_1_MAX_HP = 1
    BOSS_2_MAX_HP = 1
    MAX_TRACKED_PLAYERS = 0
    PlayerName = {ann}
    NoName = NoName
    Worker = {w1, w2}
    Dice <- OneAndSix
    INSTANT_KILL_DAMAGE = 99
    LUCKY_WINDOW = 1
    MaxTime = 2
    MaxDeaths = 1
PROPERTIES
    BossIsReplaced
    LuckyKillEnds
    OnlyStaleCopyClearsEarly
