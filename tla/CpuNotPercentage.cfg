SPECIFICATION CpuSpec
CONSTANTS
    r1 = r1
    r2 = r2
    Shower = {r1}
    MaxTime = 4
    Word = 65536
    IntWord = 256
INVARIANTS UsageIsPercentage
SYMMETRY MCSymmetry
