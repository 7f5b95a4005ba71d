SPECIFICATION Spec
CONSTANTS
    logA = logA
    logB = logB
    p1 = p1
    p2 = p2
    NoData = NoData
    Logs <- TwoLogs
    Procs <- TwoProcs
    NumSlots = 3
    DirCap = 2
    MaxSize = 2
    WriteErrors = {"directory", "checkpoint"}
SYMMETRY LogsAndProcs
INVARIANTS AckedIsServed OneLogPerSlot SlotHoldsOwnLog DirectoryTokenInStep
PROPERTIES NoLostUpdate InitIdempotent ImplementsStore
