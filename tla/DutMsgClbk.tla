------------------------------ MODULE DutMsgClbk ------------------------------
(***************************************************************************)
(* Dispatch table and message handlers of the DUT server:                  *)
(* src/tools/dutserver/linux/dut_msg_clbk.c.                               *)
(*                                                                         *)
(* The table is filled once by dut_msg_clbk_init and only read afterwards, *)
(* so it is a constant here.  The numeric message ids come from a header   *)
(* (mhi_dut.h) that is not part of the repository: MsgHandler gives the    *)
(* handler kind registered at each id 1 .. DUT_SERVER_MSG_CNT-1, or NULL.  *)
(*                                                                         *)
(* A handler is modelled by what the server can observe of it: whether it  *)
(* accepts the request, the payload bytes it leaves in place, and the      *)
(* response length.  What the driver API answers (is the HW connected,     *)
(* did the command succeed) is outside the repository, so every answer it *)
(* can give is a possible result.                                          *)
(***************************************************************************)
EXTENDS Integers, Sequences, SequencesExt

CONSTANTS
    DUT_SERVER_MSG_CNT,  \* size of _dut_hostif_funcs_array
    MsgHandler,          \* [1 .. DUT_SERVER_MSG_CNT-1 -> HandlerKinds \cup {NULL}]
    NULL

HandlerKinds ==
    { "reset_fw", "upload_progmodel", "forward_to_dut_core",
      "c100", "drv", "platform_general" }

ASSUME /\ DUT_SERVER_MSG_CNT \in Nat \ {0}
       /\ MsgHandler \in [1 .. DUT_SERVER_MSG_CNT - 1 -> HandlerKinds \cup {NULL}]
       /\ NULL \notin HandlerKinds

dut_msg_clbk_get_handler(msgID) ==
    IF msgID >= DUT_SERVER_MSG_CNT \/ msgID <= 0 THEN NULL
    ELSE MsgHandler[msgID]

(***************************************************************************)
(* Handler results.  Rejected: the handler returned FALSE and no response  *)
(* is sent.  Accepted(data, n): it returned TRUE, left data in place of    *)
(* the payload and set *out_length to n.                                   *)
(***************************************************************************)
Rejected == [ok |-> FALSE]

Accepted(data, outLength) == [ok |-> TRUE, data |-> data, out |-> outLength]

\* memset((void*)data, 0, length)
Zeroed(data) == [i \in DOMAIN data |-> 0]

\* sizeof(dutResetParamsV0_t): two packed uint32.
ResetParamsV0Size == 8

(***************************************************************************)
(* _dut_msg_clbk_reset_fw: the driver is stopped and restarted in any case *)
(* and the handler answers with an empty response; with at least a V0     *)
(* parameter block it rejects when the HW is not connected, and zeroes the *)
(* payload when preparing EEPROM data on flash fails.                      *)
(***************************************************************************)
ResetFwResults(data) ==
    IF Len(data) >= ResetParamsV0Size
    THEN { Rejected, Accepted(data, 0), Accepted(Zeroed(data), 0) }
    ELSE { Accepted(data, 0) }

(***************************************************************************)
(* _dut_msg_clbk_upload_progmodel.  strchr(str_data, '\n') reads the      *)
(* payload as a C string: mem is the memory from the payload on, the      *)
(* payload followed by whatever lies after it (see HandlerResultsAt).  It *)
(* gives the first '\n' before the first NUL, or 0 for NULL.  namesLen[0] *)
(* is the offset of the '\n'; namesLen[1] = length - namesLen[0] - 1 is   *)
(* computed in size_t and stored in an unsigned int, so a '\n' found past *)
(* the payload wraps it to a huge length, rejected like a name of 256      *)
(* bytes or more.  The two uploads may fail (no HW, no file, no memory):  *)
(* then no response.                                                       *)
(***************************************************************************)
DUT_MAX_PROGMODEL_NAME_LEN == 256

strchr(mem, ch) ==
    LET i == SelectInSeq(mem, LAMBDA b : b \in {ch, 0})
    IN IF i > 0 /\ mem[i] = ch THEN i ELSE 0

\* Mutation: namesLen[1] compared as a signed int, without the wrap.
NameFitsSigned(len) == len < DUT_MAX_PROGMODEL_NAME_LEN

\* len < DUT_MAX_PROGMODEL_NAME_LEN for an unsigned int: a negative len
\* stands for len + 2^32, which no name length reaches.
NameFits(len) == 0 <= len /\ len < DUT_MAX_PROGMODEL_NAME_LEN

UploadProgmodelResults(data, mem) ==
    LET nl     == strchr(mem, 10)
        names0 == nl - 1
        names1 == Len(data) - names0 - 1
    IN { Rejected } \cup
       IF /\ nl # 0
          /\ NameFits(names0)
          /\ NameFits(names1)
       THEN { Accepted(data, 0) }
       ELSE { }

(***************************************************************************)
(* _dut_msg_clbk_forward_to_dut_core (add/remove VAP, set BSS, WMM, stop   *)
(* traffic, driver/FW general, platform data fields): rejected when the HW *)
(* is not connected; otherwise answered with the whole payload, zeroed if  *)
(* the core command failed.  _dut_msg_clbk_c100 and _dut_msg_clbk_drv have *)
(* the same control flow around a different driver call.                   *)
(***************************************************************************)
ForwardToDutCoreResults(data) ==
    { Rejected, Accepted(data, Len(data)), Accepted(Zeroed(data), Len(data)) }

C100Results(data) == ForwardToDutCoreResults(data)

DrvResults(data) == ForwardToDutCoreResults(data)

\* _dut_msg_clbk_platform_general: always accepted, empty answer on failure.
PlatformGeneralResults(data) ==
    { Accepted(data, 0), Accepted(data, Len(data)) }

(***************************************************************************)
(* The results of the handler of a kind for a payload data followed in    *)
(* memory by the bytes after.  Only the newline scan of upload_progmodel  *)
(* reads past the payload.                                                 *)
(***************************************************************************)
HandlerResultsAt(kind, data, after) ==
    CASE kind = "reset_fw"            -> ResetFwResults(data)
      [] kind = "upload_progmodel"    -> UploadProgmodelResults(data, data \o after)
      [] kind = "forward_to_dut_core" -> ForwardToDutCoreResults(data)
      [] kind = "c100"                -> C100Results(data)
      [] kind = "drv"                 -> DrvResults(data)
      [] kind = "platform_general"    -> PlatformGeneralResults(data)

\* What the wire contract asks of a handler: its payload alone, as if a NUL
\* followed it (spec section 6: two newline-separated names in one payload).
HandlerResults(kind, data) == HandlerResultsAt(kind, data, << 0 >>)
=============================================================================
