SPECIFICATION FairSpec
CONSTANTS
    m1 = m1
    m2 = m2
    IP = {1}
    Client = {1}
    MAC = {m1}
    Announced = {}
    ArpTableSize = 2
    TosendSize = 1
    Wrap = 3
    ArpTimeout = 30
    QueryTimeout = 1
    TosendTimeout = 5
    NoMac = NoMac
    Free = Free
    NoFrame = NoFrame
PROPERTY WaitingEnds
