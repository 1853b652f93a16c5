\* Two connections, one frame at a time: the framing contract and the refinement of FramingService.
CONSTANTS
    DUT_MSG_MAX_MESSAGE_LENGTH = 10
    DUT_SERVER_MSG_CNT = 5
    MsgHandler <- MC_MsgHandler
    NULL = NULL
    p1 = p1
    p2 = p2
    Peers <- MC_Peers
    NoAddress = NoAddress
    MaxConns = 2
    Messages <- MsgsClean
    MaxWrites = 2
    ClientWaits = TRUE
    AbandonPartial = FALSE
    SignalsBlocked = TRUE
    EpollAddMayFail = FALSE
    Faults = {"accept"}
SPECIFICATION Spec

PROPERTY FramingSpec
CHECK_DEADLOCK FALSE
