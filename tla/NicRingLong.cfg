SPECIFICATION Spec
CONSTANTS
    f1 = f1
    f2 = f2
    Frame = {f1, f2}
    Long = {f2}
    Flagged = {}
    TQSIZE = 3
    RQSIZE = 4
    TQ_FLUSH_COUNT = 2
    RQ_FLUSH_COUNT = 2
    N_TX_DESC = 2
    N_RX_DESC = 3
    Cards = {"i211"}
    None = None
PROPERTY ArrivedIsReceived
