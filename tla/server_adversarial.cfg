\* Pipelined, abandoned and oversized frames: the buffer stays within its bounds.
CONSTANTS
    DUT_MSG_MAX_MESSAGE_LENGTH = 10
    DUT_SERVER_MSG_CNT = 5
    MsgHandler <- MC_MsgHandler
    NULL = NULL
    p1 = p1
    p2 = p2
    Peers <- MC_Peers
    NoAddress = NoAddress
    MaxConns = 1
    Messages <- MsgsAdversarial
    MaxWrites = 2
    ClientWaits = FALSE
    AbandonPartial = TRUE
    SignalsBlocked = TRUE
    EpollAddMayFail = FALSE
    Faults = {"signal"}
SPECIFICATION Spec
INVARIANT TypeOK
INVARIANT BufferNeverFull
CHECK_DEADLOCK FALSE
