SPECIFICATION Spec
CONSTANTS
    m1 = m1
    m2 = m2
    IP = {1, 2, 3}
    Client = {1, 2}
    MAC = {m1, m2}
    Announced <- MCAnnounced
    ArpTableSize = 3
    TosendSize = 1
    Wrap = 3
    ArpTimeout = 30
    QueryTimeout = 1
    TosendTimeout = 1
    NoMac = NoMac
    Free = Free
    NoFrame = NoFrame
INVARIANTS TypeOK AddressedToLatest StoredIsFound 
