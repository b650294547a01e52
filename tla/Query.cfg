SPECIFICATION QueryFair
CONSTANTS
    s1 = s1
    s2 = s2
    n1 = n1
    n2 = n2
    a1 = a1
    r1 = r1
    r2 = r2
    NoRlimit = NoRlimit
    NoTask = NoTask
    NoNode = NoNode
    NoArg = NoArg
    ListHead = ListHead
    NoBuffer = NoBuffer
    Slot = {s1, s2}
    Boot <- MCBoot2
    Pid = {1, 2}
    UserLimit = {1}
    BootPages = 1
    Infinity = 9
    PageSize = 2
    MaxPages = 3
    LsmVerdict = {"OK"}
    Event = {}
    PrCaller = {}
    Caller = {a1}
    Node = {n1, n2}
    ArgPid = {1, 2}
    ArgLimit = {3}
    RemoveLimit = 4
    Reader = {r1}
    MaxEntries = {0, 1, 2, 5}
    Room = {1, 4}
    EntrySize = 2
    SizeMod = 8
INVARIANTS BufferNeverOverrun BufferReleased
PROPERTIES QueriesReturn SnapshotExact
CHECK_DEADLOCK FALSE
