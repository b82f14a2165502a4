\* One lucky kill of another player's is shown twice to this one.
SPECIFICATION GameSpec
CONSTANTS
    MaxEvents = 1
CHECK_DEADLOCK FALSE
INVARIANT
    ShownOnce
