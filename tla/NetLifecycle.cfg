SPECIFICATION NetFairSpec
CONSTANTS
    addr1 = addr1
    addr2 = addr2
    NoAddr = NoAddr
    Addrs <- TwoAddrs
    Offers <- OneOffer
    SecondsLimit = 16384
    defaultLeaseLength = 5
    Acquisition = 2
    Backoff = 1
    Horizon = 3
    MaxDelay = 2
    Jumps <- NoJumps
CHECK_DEADLOCK FALSE
INVARIANTS InterfaceFollowsLease RenewalFindsChild
PROPERTIES ImplementsSession AcquiredCompletes ExpiredCancelsChild WitnessServes
