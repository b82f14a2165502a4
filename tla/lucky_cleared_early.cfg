\* The promise of gamestate.h, which the code breaks.
SPECIFICATION Spec
CONSTANTS
    BOSS_1_MAX_HP = 1
    BOSS_2_MAX_HP = 1
    MAX_TRACKED_PLAYERS = 1
    PlayerName = {ann}
    NoName = NoName
    Worker = {w1, w2}
    Dice = {1}
    INSTANT_KILL_DAMAGE = 99
    LUCKY_WINDOW = 1
    MaxTime = 3
    MaxDeaths = 0
PROPERTIES
    ClearedOnlyWhenExpired
