SPECIFICATION Spec
CONSTANTS
    f1 = f1
    f2 = f2
    Frame = {f1, f2}
    Long = {}
    Flagged = {f2}
    TQSIZE = 3
    RQSIZE = 4
    TQ_FLUSH_COUNT = 2
    RQ_FLUSH_COUNT = 2
    N_TX_DESC = 2
    N_RX_DESC = 3
    Cards = {"e1000", "realtek"}
    None = None
INVARIANTS TypeOK CanReceive AsleepFlushed
PROPERTIES TxIsFifo RxIsFifo AcceptedIsSent ArrivedIsReceived
