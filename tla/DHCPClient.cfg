SPECIFICATION FairSpec
CONSTANTS
    addr1 = addr1
    addr2 = addr2
    NoAddr = NoAddr
    Addrs <- TwoAddrs
    Offers <- AllOffers
    SecondsLimit = 16384
    defaultLeaseLength = 8
    Acquisition = 3
    Backoff = 2
    Horizon = 9
    MaxDelay = 4
    Jumps <- BothJumps
CHECK_DEADLOCK FALSE
INVARIANTS HeldWithinLease NoPanic
PROPERTIES ExpiredIsReleased RunStops
