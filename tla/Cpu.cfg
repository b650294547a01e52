SPECIFICATION CpuSpec
CONSTANTS
    r1 = r1
    r2 = r2
    Shower = {r1, r2}
    MaxTime = 3
    Word = 65536
    IntWord = 256
INVARIANTS PrevIsSample
 
SYMMETRY MCSymmetry
