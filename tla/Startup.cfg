SPECIFICATION Spec
CONSTANTS
    Sum16 <- Hash
    RingSize = 2
    QueueSize = 2
    MaxSenders = 3
    MaxFrames = 2
    MaxPackets = 3
    MaxBoots = 2
    MaxCounter = 1
CHECK_DEADLOCK FALSE
INVARIANTS NoPacketStranded PublishedIsSigner
PROPERTIES FramesRead
