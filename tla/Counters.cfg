SPECIFICATION CountersSpec
CONSTANTS
    t1 = t1
    t2 = t2
    t3 = t3
    Thread = {t1, t2, t3}
    Tracker = {"r"}
    Syscall = {"openat", "read"}
    MaxCalls = 3
INVARIANTS CountNeverAhead ReportNeverAhead CountsExact
SYMMETRY MCSymmetry
CHECK_DEADLOCK FALSE
