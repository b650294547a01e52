SPECIFICATION LimitsSpec
CONSTANTS
    s1 = s1
    s2 = s2
    c1 = c1
    c2 = c2
    NoRlimit = NoRlimit
    NoTask = NoTask
    Slot <- MCSlot
    Boot <- MCBoot
    Pid <- MCPid
    UserLimit <- MCUserLimit
    BootPages = 1
    Infinity = 3
    PageSize = 1
    MaxPages = 1
    LsmVerdict = {"OK", "EACCES"}
    Event = {"fork", "thread", "exit", "setrlimit"}
    PrCaller = {c1, c2}
INVARIANTS LimitsTypeOK PinnedTaskStays RefsBalanced SoftBelowHard 
PROPERTIES PinnedTaskKeepsIdentity
SYMMETRY MCSymmetry
