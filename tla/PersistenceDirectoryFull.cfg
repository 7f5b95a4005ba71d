SPECIFICATION Spec
CONSTANTS
    logA = logA
    logB = logB
    p1 = p1
    p2 = p2
    NoData = NoData
    Logs <- TwoLogs
    Procs <- TwoProcs
    NumSlots = 3
    DirCap = 1
    MaxSize = 2
    WriteErrors = {}
INVARIANTS AckedIsAlwaysServed
