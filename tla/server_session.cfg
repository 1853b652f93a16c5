\* Reconnections, rejections, resets, hang-ups and a kill: who holds the session and whose bytes are parsed.
CONSTANTS
    DUT_MSG_MAX_MESSAGE_LENGTH = 10
    DUT_SERVER_MSG_CNT = 5
    MsgHandler <- MC_MsgHandler
    NULL = NULL
    p1 = p1
    p2 = p2
    Peers <- MC_Peers
    NoAddress = NoAddress
    MaxConns = 2
    Messages <- MsgsSession
    MaxWrites = 2
    ClientWaits = TRUE
    AbandonPartial = FALSE
    SignalsBlocked = FALSE
    EpollAddMayFail = TRUE
    Faults = {"fin", "rst", "listen", "signal"}
SPECIFICATION Spec
INVARIANT NoCrossConnectionData ResponseAnswersRequest
CHECK_DEADLOCK FALSE
