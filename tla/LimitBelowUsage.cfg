SPECIFICATION SerialSpec
CONSTANTS
    s1 = s1
    s2 = s2
    n1 = n1
    n2 = n2
    a1 = a1
    a2 = a2
    p1 = p1
    NoRlimit = NoRlimit
    NoTask = NoTask
    NoNode = NoNode
    NoArg = NoArg
    Slot = {s1, s2}
    Boot <- MCBoot2
    Pid = {1, 2}
    UserLimit = {1}
    BootPages = 1
    Infinity = 9
    PageSize = 2
    MaxPages = 3
    LsmVerdict = {"OK"}
    Event = {"mmap"}
    PrCaller = {}
    Caller = {a1}
    Node = {n1, n2}
    ArgPid = {0, 1, 2}
    ArgLimit = {0, 3}
    RemoveLimit = 4
PROPERTIES LimitCoversUsage
SYMMETRY MCSymmetry
CHECK_DEADLOCK FALSE
