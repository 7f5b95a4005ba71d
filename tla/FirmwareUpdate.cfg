SPECIFICATION FairSpec
CONSTANTS
    h1 = h1
    Handlers <- OneHandler
    MaxCheckers = 2
    Capacity = 1
    MaxTriggers = 3
    Releases <- Log
    ChunkSize = 1
    SeqLimit = 4
CHECK_DEADLOCK FALSE
INVARIANTS SentAsVerified
PROPERTIES InstallsSigned SendEnds RequestAnswered TickerEnds
