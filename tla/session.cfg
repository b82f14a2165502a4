\* A receive timeout of 2, a heartbeat timeout of 4, two requests a second.
SPECIFICATION SessionLiveSpec
CONSTANTS
    RECV_TIMEOUT = 2
    HEARTBEAT_TIMEOUT = 4
    RATE = 2
    SeqModulus = 8
    Watched = 3
    EndOfTime = 8
CHECK_DEADLOCK FALSE
INVARIANTS
    ProperClientIsServed
    HeartbeatRuleHitsBusyClients
    JoinIsUndone
    DroppedAfterTimeout
PROPERTIES
    NotServedTwice
    SilentClientIsDropped
