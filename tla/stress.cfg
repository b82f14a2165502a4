\* Three threads, three packets each; the counter may roll over.
SPECIFICATION Spec
CONSTANTS
    Thread = {t1, t2, t3}
    Packets = 3
    SeqModulus = 8
CHECK_DEADLOCK FALSE
INVARIANTS
    RefusedOnlyIfSetBack
