\* Two workers at a time, two connections.
SPECIFICATION LiveSpec
CONSTANTS
    Worker = {w1, w2}
    Master = Master
    NoOne = NoOne
    Lost = Lost
    listener = listener
    MaxClients = 2
CHECK_DEADLOCK FALSE
INVARIANTS
    ProcessesTypeOK
    MutualExclusion
    NoUpdateLost
    ConnectionsArePrivate
PROPERTIES
    ZombiesAreReaped
    MutexIsReleased
    ShutdownEnds
