SPECIFICATION Spec
CONSTANTS
    small = small
    medium = medium
    other = other
    large = large
    huge = huge
    Data <- Payloads
    DataLen <- PayloadLen
    NoData = NoData
    Start = 2
    Length = 8
    BlockSize = 64
    HeaderSize = 48
    RevLimit = 100
    MaxRev = 4
    Faults = {"torn", "landed"}
SYMMETRY OtherSymmetry
INVARIANTS JournalInv 
PROPERTIES RecoversLatest ImplementsSlot
