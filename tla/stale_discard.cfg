\* An abandoned partial frame followed by a new frame.
CONSTANTS
    DUT_MSG_MAX_MESSAGE_LENGTH = 10
    DUT_SERVER_MSG_CNT = 5
    MsgHandler <- MC_MsgHandler
    NULL = NULL
    p1 = p1
    p2 = p2
    Peers <- MC_Peers
    NoAddress = NoAddress
    MaxConns = 1
    Messages <- MsgsStale
    MaxWrites = 2
    ClientWaits = TRUE
    AbandonPartial = TRUE
    SignalsBlocked = TRUE
    EpollAddMayFail = FALSE
    Faults = {}
SPECIFICATION Spec
INVARIANT RequestFromConsecutiveBytes
CHECK_DEADLOCK FALSE
