SPECIFICATION FairSpec
CONSTANTS
    small = small
    medium = medium
    other = other
    large = large
    huge = huge
    Data <- OnePerSize
    DataLen <- OnePerSizeLen
    NoData = NoData
    Start = 2
    Length = 5
    BlockSize = 64
    HeaderSize = 48
    RevLimit = 100
    MaxRev = 3
    Faults = {"torn", "landed", "read", "silent"}
INVARIANTS WriteSparesCurrent
PROPERTIES ScanTerminates RecoversIntact
