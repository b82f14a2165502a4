\* The code's own numbers, in fifths of a second: 200 ms is the pace client.c calls the least.
SPECIFICATION RateSpec
CONSTANTS
    max_requests = 5
    window_seconds = 1
    TicksPerSecond = 5
    MaxTicks = 10
INVARIANTS
    CountsItsWindow
    AtMostTwoWindows
CHECK_DEADLOCK FALSE
