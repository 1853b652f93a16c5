\* One request whose payload begins with a valid header, received in two reads.
CONSTANTS
    DUT_MSG_MAX_MESSAGE_LENGTH = 16
    DUT_SERVER_MSG_CNT = 5
    MsgHandler <- MC_MsgHandler
    NULL = NULL
    p1 = p1
    p2 = p2
    Peers <- MC_Peers
    NoAddress = NoAddress
    MaxConns = 1
    Messages <- MsgsHeaderPayload
    MaxWrites = 1
    ClientWaits = TRUE
    AbandonPartial = FALSE
    SignalsBlocked = TRUE
    EpollAddMayFail = FALSE
    Faults = {}
SPECIFICATION Spec
INVARIANT RequestsServedInOrder
CHECK_DEADLOCK FALSE
