\* The code's own intervals, in ticks of 50 ms; nothing is more than 100 ms late.
SPECIFICATION Spec
CONSTANTS
    TicksPerSecond = 20
    Poll = 2
    FastPoll = 1
    DiceTicks = 10
    HeartbeatTicks = 10
    StressTicks = 5
    MaxRequests = 5
    ReceiveTimeout = 100
    MaxLag = 2
CHECK_DEADLOCK FALSE
INVARIANTS
    RefusedOnlyIfHurried
    SilentOnlyBehindScreen
