\* Two workers, two names, every interleaving of their critical sections.
SPECIFICATION Spec
CONSTANTS
    BOSS_1_MAX_HP = 12
    BOSS_2_MAX_HP = 25
    MAX_TRACKED_PLAYERS = 1
    PlayerName = {ann, bob}
    NoName = NoName
    Worker = {w1, w2}
    Dice <- OneAndSix
    INSTANT_KILL_DAMAGE = 99
    LUCKY_WINDOW = 5
    MaxTime = 0
    MaxDeaths = 1
SYMMETRY Symmetry
INVARIANTS
    TypeOK
    OnlineCountExact
    OneSpawnOwed
    BossHpConsistent
    KillsMatchStage
    InstantKillFellsItsBoss
    FewStrayHits
PROPERTIES
    RepliesNeverGoBack
    ImplementsRaid
