SPECIFICATION Spec
CONSTANTS
    small = small
    medium = medium
    other = other
    large = large
    huge = huge
    Data <- Payloads
    DataLen <- PayloadLen
    NoData = NoData
    Start = 2
    Length = 4
    BlockSize = 64
    HeaderSize = 48
    RevLimit = 100
    MaxRev = 4
    Faults = {"torn"}
PROPERTIES RecoversLatest
