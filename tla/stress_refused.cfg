\* Threads that do nothing wrong are refused.
SPECIFICATION Spec
CONSTANTS
    Thread = {t1, t2}
    Packets = 4
    SeqModulus = 32
CHECK_DEADLOCK FALSE
INVARIANTS
    HonestThreadIsServed
