------------------------------ MODULE DutHostIf ------------------------------
(***************************************************************************)
(* Frame codec of the DUT server: src/tools/dutserver/linux/dut_host_if.c  *)
(* and dut_host_if.h.                                                      *)
(*                                                                         *)
(* A "view" is the sequence of bytes a C pointer designates together with *)
(* the length passed beside it: view[1] is pointer[0].  Bytes are the      *)
(* integers 0..255, so the header fields are decoded exactly as the macros *)
(* of dut_host_if.c decode them (nibbles, little-endian 32-bit length).   *)
(* The maximum message length (1024 in the code) is a constant so that     *)
(* TLC can check the model with a buffer of a few bytes; the header is     *)
(* kept at its real 8 bytes.                                               *)
(***************************************************************************)
EXTENDS Integers, Sequences

CONSTANT DUT_MSG_MAX_MESSAGE_LENGTH   \* sizeof the server's buffer; 1024 in the code

ASSUME DUT_MSG_MAX_MESSAGE_LENGTH \in Nat /\ DUT_MSG_MAX_MESSAGE_LENGTH > 8

DUT_MSG_HEADER_LENGTH == 8

DUT_MSG_MAX_PAYLOAD_LENGTH == DUT_MSG_MAX_MESSAGE_LENGTH - DUT_MSG_HEADER_LENGTH

DUT_MSG_ID_RESPONSE_FLAG == 128

Byte == 0 .. 255

\* The signature characters 'M' and 'T'.
CharM == 77

CharT == 84

(***************************************************************************)
(* Header field accessors (the DUT_MSG_* macros).                          *)
(***************************************************************************)
DUT_MSG_VERIFY_SIGNATURE(hdr) == hdr[1] = CharM /\ hdr[2] = CharT

DUT_MSG_GET_ID(hdr) == hdr[4] % 16

DUT_MSG_GET_HW_IDX(hdr) == (hdr[4] \div 16) % 16

\* DUT_TO_HOST32 of the 4 bytes at offset 4: the length is little-endian.
DUT_MSG_GET_LENGTH(hdr) ==
    hdr[5] + 256 * hdr[6] + 65536 * hdr[7] + 16777216 * hdr[8]

\* The 4 little-endian bytes HOST_TO_DUT32 stores for a 32-bit value.
LE32(n) == << n % 256, (n \div 256) % 256,
              (n \div 65536) % 256, (n \div 16777216) % 256 >>

dut_hostif_request_contains_valid_header(buf) ==
    Len(buf) >= DUT_MSG_HEADER_LENGTH /\ DUT_MSG_VERIFY_SIGNATURE(buf)

(***************************************************************************)
(* The header checks of dut_hostif_handle_request, in the order of its     *)
(* early returns: wait for more bytes, drop the buffer, or a complete      *)
(* request whose payload is the dataLength bytes after the header (bytes   *)
(* beyond the frame are not looked at).                                    *)
(***************************************************************************)
Incomplete == [status |-> "incomplete"]

Invalid == [status |-> "invalid"]

\* Mutation: a declared length one past the maximum is let through.
PayloadTooLargeOffByOne(dataLength) == dataLength > DUT_MSG_MAX_PAYLOAD_LENGTH + 1

\* The check that the declared payload fits the buffer.
PayloadTooLarge(dataLength) == dataLength > DUT_MSG_MAX_PAYLOAD_LENGTH

\* Mutation: a request that is exactly complete is taken for incomplete.
PayloadMissingOffByOne(dataLength, bufferLength) ==
    dataLength + DUT_MSG_HEADER_LENGTH >= bufferLength

\* The check that the whole declared payload is present.
PayloadMissing(dataLength, bufferLength) ==
    dataLength + DUT_MSG_HEADER_LENGTH > bufferLength

\* The bytes of the payload of a complete request.
RequestData(buf, dataLength) ==
    SubSeq(buf, DUT_MSG_HEADER_LENGTH + 1, DUT_MSG_HEADER_LENGTH + dataLength)

ParseRequest(buf) ==
    IF Len(buf) < DUT_MSG_HEADER_LENGTH THEN Incomplete
    ELSE IF ~DUT_MSG_VERIFY_SIGNATURE(buf) THEN Invalid
    ELSE LET dataLength == DUT_MSG_GET_LENGTH(buf) IN
         IF PayloadTooLarge(dataLength) THEN Invalid
         ELSE IF PayloadMissing(dataLength, Len(buf)) THEN Incomplete
         ELSE [status |-> "complete",
               id     |-> DUT_MSG_GET_ID(buf),
               hw     |-> DUT_MSG_GET_HW_IDX(buf),
               data   |-> RequestData(buf, dataLength)]

\* The request header rewritten in place: DUT_MSG_SET_ID(header, msgID | 0x80)
\* and DUT_MSG_SET_LENGTH(header, responseLength).
ResponseHeader(hdr, msgID, responseLength) ==
    SubSeq(hdr, 1, 3) \o << msgID + DUT_MSG_ID_RESPONSE_FLAG >> \o LE32(responseLength)

(***************************************************************************)
(* The wire format a DUT client writes (the comment above                  *)
(* dut_hostif_handle_request): signature, version 1, hw index and id       *)
(* nibbles, declared payload length, payload.  Used by the models of the   *)
(* client; sig is the two signature bytes, so that corrupt frames can be   *)
(* written too.                                                            *)
(***************************************************************************)
EncodeFrame(sig, hw, id, declared, payload) ==
    sig \o << 1, hw * 16 + id >> \o LE32(declared) \o payload

=============================================================================
