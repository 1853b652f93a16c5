\* A request written just before the client half-closes its side.
CONSTANTS
    DUT_MSG_MAX_MESSAGE_LENGTH = 10
    DUT_SERVER_MSG_CNT = 5
    MsgHandler <- MC_MsgHandler
    NULL = NULL
    p1 = p1
    p2 = p2
    Peers <- MC_Peers
    NoAddress = NoAddress
    MaxConns = 1
    Messages <- MsgsSession
    MaxWrites = 1
    ClientWaits = TRUE
    AbandonPartial = FALSE
    SignalsBlocked = TRUE
    EpollAddMayFail = FALSE
    Faults = {"fin"}
SPECIFICATION Spec
PROPERTY HalfCloseRequestAnswered
CHECK_DEADLOCK FALSE
