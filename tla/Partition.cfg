SPECIFICATION Spec
CONSTANTS
    u1 = u1
    u2 = u2
    Main = Main
    Users <- TwoUsers
    Start = 5
    Length = 9
    SlotBytes = 12
    BlockSizes = {2, 4}
    MaxTransferBytes = 8
    MaxEntry = 3
    MaxRev = 2
    UintLimit = 56
    Corruptible = TRUE
    WriteErrors = TRUE
CHECK_DEADLOCK FALSE
INVARIANTS LayoutSound ReaderExact TransfersExact
PROPERTIES ReadsSuccessful
