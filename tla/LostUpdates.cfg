SPECIFICATION CountersSpec
CONSTANTS
    t1 = t1
    t2 = t2
    t3 = t3
    Thread = {t1, t2}
    Tracker = {}
    Syscall = {"read"}
    MaxCalls = 2
INVARIANTS EveryCallCounted
SYMMETRY MCSymmetry
CHECK_DEADLOCK FALSE
