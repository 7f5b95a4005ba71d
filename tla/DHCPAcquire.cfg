SPECIFICATION Spec
CONSTANTS
    addr1 = addr1
    addr2 = addr2
    server1 = server1
    server2 = server2
    NoAddr = NoAddr
    NoServer = NoServer
    Addrs <- TwoAddrs
    Servers <- TwoServers
    MaskLength = 24
    MaxXid = 3
    MaxReplies = 4
SYMMETRY AddrsAndServers
CHECK_DEADLOCK FALSE
INVARIANTS HeldIsGranted SelectsAnOffer
PROPERTIES RenewalKeepsAddress
