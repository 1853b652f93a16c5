\* SIGTERM as the code leaves it: not blocked.
CONSTANTS
    DUT_MSG_MAX_MESSAGE_LENGTH = 10
    DUT_SERVER_MSG_CNT = 5
    MsgHandler <- MC_MsgHandler
    NULL = NULL
    p1 = p1
    p2 = p2
    Peers <- MC_Peers
    NoAddress = NoAddress
    MaxConns = 1
    Messages <- MsgsSession
    MaxWrites = 1
    ClientWaits = TRUE
    AbandonPartial = FALSE
    SignalsBlocked = FALSE
    EpollAddMayFail = FALSE
    Faults = {"signal"}
SPECIFICATION Spec
PROPERTY ShutdownRunsDestroy
CHECK_DEADLOCK FALSE
