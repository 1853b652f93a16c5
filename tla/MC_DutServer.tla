---------------------------- MODULE MC_DutServer ----------------------------
(***************************************************************************)
(* Instances of DutServer for TLC.  The buffer holds 10 bytes: the 8-byte  *)
(* header and a payload of at most 2, enough for a frame that fills it, a *)
(* frame one byte too long, and reads that split a header or a payload.   *)
(* The message ids of mhi_dut.h are not in the repository: the table     *)
(* below registers one handler of each shape of response at small ids.    *)
(***************************************************************************)
EXTENDS DutServer, TLC

CONSTANTS p1, p2

MC_Peers == {p1, p2}

MC_MsgHandler == [i \in 1 .. 4 |-> CASE i = 1 -> "platform_general"
                                     [] i = 2 -> "forward_to_dut_core"
                                     [] i = 3 -> NULL
                                     [] i = 4 -> "upload_progmodel"]

Frame(sig, hw, id, declared, payload) ==
    [sig |-> sig, hw |-> hw, id |-> id, declared |-> declared, payload |-> payload]

MT == << 77, 84 >>

\* A full-size request to a handler that answers with nothing or an echo.
Full == Frame(MT, 1, 1, 2, << 77, 5 >>)

\* A request to a handler that rejects it, echoes it or zeroes it.
Echo == Frame(MT, 0, 2, 1, << 9 >>)

\* A request to an id with no handler.
Unknown == Frame(MT, 0, 3, 0, << >>)

\* A header with a wrong signature.
BadSig == Frame(<< 77, 0 >>, 0, 1, 0, << >>)

\* A header declaring more than DUT_MSG_MAX_PAYLOAD_LENGTH, with no body.
OversizeHeader == Frame(MT, 0, 1, 200, << >>)

\* A frame one byte longer than the buffer.
OversizeFrame == Frame(MT, 0, 1, 3, << 0, 0, 0 >>)

\* A request whose 8-byte payload itself begins with the signature (a
\* buffer of 16 bytes holds it).
HeaderPayload == Frame(MT, 0, 2, 8, << 77, 84, 1, 0, 0, 0, 0, 0 >>)

\* Two progmodel names, the second empty: the '\n' is the last byte of a
\* full buffer.
UploadTwo == Frame(MT, 0, 4, 2, << 65, 10 >>)

\* One name and no '\n': the newline scan runs past the payload into what
\* an earlier frame left in the buffer.
UploadOne == Frame(MT, 0, 4, 1, << 65 >>)

MsgsClean == {Full, Echo, Unknown, BadSig, OversizeHeader}

MsgsAdversarial == {Full, OversizeFrame}

MsgsSession == {UploadTwo, UploadOne}

MsgsStale == {Full}

MsgsHeaderPayload == {HeaderPayload}

=============================================================================
