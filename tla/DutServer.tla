------------------------------ MODULE DutServer ------------------------------
(***************************************************************************)
(* The DUT server process (src/tools/dutserver/linux/dutserver.c): its     *)
(* epoll event loop over the termination signalfd, the listening socket   *)
(* and at most one client socket; connection admission; the reassembly of *)
(* request frames from stream reads into ctx->buffer; dispatch of complete *)
(* requests (DutHostIf, DutMsgClbk) and the response written back.         *)
(*                                                                         *)
(* The environment is modelled beside it: DUT clients on Peers that open  *)
(* connections, write frames (whole, or a prefix they then abandon),      *)
(* half-close or reset; the kernel that delivers a stream read of any     *)
(* length; a termination signal; an error on the listening socket.        *)
(*                                                                         *)
(* epoll_wait and the handling of the event it returned are two steps, so *)
(* that the peer can act between them: the event mask the loop branches on *)
(* may be stale when the socket is read.                                   *)
(***************************************************************************)
EXTENDS Integers, Sequences, FiniteSets, SequencesExt

CONSTANTS
    DUT_MSG_MAX_MESSAGE_LENGTH, DUT_SERVER_MSG_CNT, MsgHandler, NULL,
    Peers,            \* addresses DUT clients connect from
    NoAddress,        \* the initial ctx.client_ip_address (0)
    MaxConns,         \* connections opened during a behaviour
    Messages,         \* frames a client may write, as records (see Encode)
    MaxWrites,        \* writes of all clients during a behaviour
    ClientWaits,      \* a client writes its next frame only once the last is done
    AbandonPartial,   \* a client may write a prefix of a frame and give it up
    SignalsBlocked,   \* SIGTERM/SIGINT blocked in the inherited signal mask
    EpollAddMayFail,  \* epoll_ctl(EPOLL_CTL_ADD) for an accepted socket may fail
    Faults            \* the disruptions a run lets happen: a subset of
                      \* {"fin", "rst", "listen", "signal", "accept"}

ASSUME /\ MaxConns \in Nat \ {0}
       /\ MaxWrites \in Nat
       /\ NoAddress \notin Peers
       /\ {ClientWaits, AbandonPartial, SignalsBlocked, EpollAddMayFail} \subseteq BOOLEAN
       /\ Faults \subseteq {"fin", "rst", "listen", "signal", "accept"}

HostIf == INSTANCE DutHostIf

Clbk == INSTANCE DutMsgClbk

Cap == DUT_MSG_MAX_MESSAGE_LENGTH

Conns == 1 .. MaxConns

\* Descriptors: INVALID_SOCKET, the signalfd and the listening socket are
\* distinct from the client connections 1 .. MaxConns.
INVALID_SOCKET == -1

SignalFd == -2

ServerFd == -3

(***************************************************************************)
(* A message a client writes: its signature bytes, hw index, id, declared *)
(* payload length and payload.  Meaning(m) is what the wire format says   *)
(* the server must make of it (the contract of spec section 4.1), written *)
(* independently of the parser in DutHostIf.                               *)
(***************************************************************************)
Encode(m) == HostIf!EncodeFrame(m.sig, m.hw, m.id, m.declared, m.payload)

Meaning(m) ==
    IF m.sig # << HostIf!CharM, HostIf!CharT >>
       \/ m.declared > HostIf!DUT_MSG_MAX_PAYLOAD_LENGTH
    THEN HostIf!Invalid
    ELSE [id |-> m.id, hw |-> m.hw, data |-> SubSeq(m.payload, 1, m.declared)]

VARIABLES
    \* the process: "init", "wait" (in epoll_wait), "event" (an event is
    \* being handled), "closing" (loop left), "exited" (main returned after
    \* dut_server_destroy) or "killed" (by a signal's default action)
    pstate,
    exitOk,         \* the value dut_server_run returns
    event,          \* [fd, mask] returned by the last wait_epoll
    clientFd,       \* ctx.client_fd
    clientIp,       \* ctx.client_ip_address
    buffer,         \* ctx.buffer, indexed 0 .. Cap-1
    bufferLength,   \* ctx.bufferLength
    \* environment
    connPeer,       \* peer address of each connection
    connSt,         \* server side: "unused", "pending" (in the backlog),
                    \* "accepted" (the server holds its fd), "closed"
    up,             \* bytes written by the peer and not yet read
    fin,            \* the peer has shut down its sending side
    rst,            \* the connection was reset by the peer
    listenErr,      \* an error is pending on the listening socket
    acceptFails,    \* accept() calls that failed so far
    sigRaised,      \* a termination signal was sent to the process
    sigPending,     \* the signalfd is readable
    \* history
    writes,         \* number of client writes so far
    sent,           \* per connection, the whole messages written
    served,         \* per connection, what the server made of its bytes
    rcvd,           \* per connection, the number of bytes the server read
    owner           \* each buffer byte as << connection, stream position >>

serverVars == << pstate, exitOk, event, clientFd, clientIp, buffer, bufferLength >>

envVars == << connPeer, connSt, up, fin, rst, listenErr, acceptFails, sigRaised, sigPending >>

histVars == << writes, sent, served, rcvd, owner >>

vars == << serverVars, envVars, histVars >>

-----------------------------------------------------------------------------
(***************************************************************************)
(* Helpers on the byte buffer: a pointer and a length give a view, a read *)
(* or a handler writes bytes at an offset.                                 *)
(***************************************************************************)
\* A position past the end of ctx->buffer reads as past (the read size keeps
\* every view of the code inside the buffer; this makes overruns observable).
View(buf, off, len, past) ==
    [i \in 1 .. len |-> IF off + i - 1 \in DOMAIN buf THEN buf[off + i - 1] ELSE past]

\* The memory from offset off of ctx->buffer on: the rest of the buffer,
\* then ctx->bufferLength, which dut_hostif_handle_request has just set to
\* 0, so a C string there ends in the buffer or at its first byte.  (The
\* padding before it could only add a '\n' past the payload, which stale
\* buffer bytes already do.)
After(buf, off) == View(buf, off, Cap - off, 0) \o << 0 >>

WriteAt(buf, off, bytes) ==
    [i \in DOMAIN buf |->
        IF off <= i /\ i < off + Len(bytes) THEN bytes[i - off + 1] ELSE buf[i]]

Registered == {SignalFd, ServerFd} \cup (IF clientFd = INVALID_SOCKET THEN {} ELSE {clientFd})

\* The events epoll reports for each descriptor, from the state of the
\* socket behind it (a reset socket is readable, hung up and in error).
Mask(fd) ==
    CASE fd = SignalFd -> IF sigPending THEN {"IN"} ELSE {}
      [] fd = ServerFd ->
            (IF \E c \in Conns : connSt[c] = "pending" THEN {"IN"} ELSE {})
            \cup (IF listenErr THEN {"ERR"} ELSE {})
      [] OTHER ->
            (IF up[fd] # << >> \/ fin[fd] \/ rst[fd] THEN {"IN"} ELSE {})
            \cup (IF fin[fd] \/ rst[fd] THEN {"RDHUP"} ELSE {})
            \cup (IF rst[fd] THEN {"HUP", "ERR"} ELSE {})

Running == pstate \in {"wait", "event"}

-----------------------------------------------------------------------------
(***************************************************************************)
(* main, dut_server_init and the set-up part of dut_server_run: any failing *)
(* step (driver API init, signalfd, socket, bind, listen, epoll) skips the *)
(* loop; dut_server_destroy runs and the process exits with failure.      *)
(***************************************************************************)
ServerStart ==
    /\ pstate = "init"
    /\ \/ pstate' = "wait"
       \/ pstate' = "exited"
    /\ exitOk' = FALSE
    /\ UNCHANGED << event, clientFd, clientIp, buffer, bufferLength, envVars, histVars >>

-----------------------------------------------------------------------------
(***************************************************************************)
(* wait_epoll: one ready descriptor and its whole event mask (epoll_wait  *)
(* with maxevents 1, level-triggered, no timeout).  EINTR is retried       *)
(* inside wait_epoll; its other failures need invalid arguments.           *)
(***************************************************************************)
WaitEpoll(fd) ==
    /\ pstate = "wait"
    /\ fd \in Registered
    /\ Mask(fd) # {}
    /\ event' = [fd |-> fd, mask |-> Mask(fd)]
    /\ pstate' = "event"
    /\ UNCHANGED << exitOk, clientFd, clientIp, buffer, bufferLength, envVars, histVars >>

\* The fields of the context that closing the client changes.
Ctx == [connSt |-> connSt, clientFd |-> clientFd, bufferLength |-> bufferLength]

SetCtx(s) ==
    /\ connSt' = s.connSt
    /\ clientFd' = s.clientFd
    /\ bufferLength' = s.bufferLength

\* Mutation: the buffered bytes are not dropped with the connection.
handle_client_disconnected_keeps_length(s) ==
    [s EXCEPT !.connSt = [@ EXCEPT ![s.clientFd] = "closed"],
              !.clientFd = INVALID_SOCKET]

(* handle_client_disconnected: remove from epoll, close, empty the buffer. *)
handle_client_disconnected(s) ==
    [s EXCEPT !.connSt = [@ EXCEPT ![s.clientFd] = "closed"],
              !.clientFd = INVALID_SOCKET,
              !.bufferLength = 0]

ErrEvent == "ERR" \in event.mask

HupEvent == event.mask \cap {"RDHUP", "HUP"} # {}

\* The events that reach the EPOLLIN branch of the loop.
InBranch ==
    /\ pstate = "event"
    /\ ~ErrEvent
    /\ ~(HupEvent /\ event.fd = clientFd)
    /\ "IN" \in event.mask

(***************************************************************************)
(* The branches of the loop body of dut_server_run, in its order.          *)
(***************************************************************************)
ServerSocketError ==
    /\ pstate = "event"
    /\ ErrEvent
    /\ event.fd = ServerFd
    /\ pstate' = "closing"
    /\ exitOk' = FALSE
    /\ UNCHANGED << event, clientFd, clientIp, buffer, bufferLength, envVars, histVars >>

ClientSocketError ==
    /\ pstate = "event"
    /\ ErrEvent
    /\ event.fd = clientFd
    /\ SetCtx(handle_client_disconnected(Ctx))
    /\ pstate' = "wait"
    /\ UNCHANGED << exitOk, event, clientIp, buffer, connPeer, up, fin, rst,
                    listenErr, acceptFails, sigRaised, sigPending, histVars >>

ClientHangup ==
    /\ pstate = "event"
    /\ ~ErrEvent
    /\ HupEvent
    /\ event.fd = clientFd
    /\ SetCtx(handle_client_disconnected(Ctx))
    /\ pstate' = "wait"
    /\ UNCHANGED << exitOk, event, clientIp, buffer, connPeer, up, fin, rst,
                    listenErr, acceptFails, sigRaised, sigPending, histVars >>

TerminationSignal ==
    /\ InBranch
    /\ event.fd = SignalFd
    /\ pstate' = "closing"
    /\ exitOk' = TRUE
    /\ UNCHANGED << event, clientFd, clientIp, buffer, bufferLength, envVars, histVars >>

RejectConnection(ip) == clientFd # INVALID_SOCKET /\ clientIp # ip

(* accept_connection: accept() fails (a transient error such as ENFILE, *)
(* ENOBUFS or ECONNABORTED); the connection stays in the backlog and the  *)
(* listening socket stays readable.  Failures are bounded per behaviour. *)
MaxAcceptFailures == 1

AcceptFails ==
    /\ "accept" \in Faults
    /\ acceptFails < MaxAcceptFailures
    /\ acceptFails' = acceptFails + 1

handle_connection_request ==
    \/ /\ AcceptFails
       /\ UNCHANGED << connSt, clientFd, clientIp, bufferLength >>
    \/ /\ \E c \in Conns : connSt[c] = "pending"
       /\ LET c  == CHOOSE c \in Conns :
                       /\ connSt[c] = "pending"
                       /\ \A d \in Conns : connSt[d] = "pending" => c <= d
              ip == connPeer[c]
              s  == IF clientFd # INVALID_SOCKET THEN handle_client_disconnected(Ctx) ELSE Ctx
          IN \/ /\ RejectConnection(ip)
                /\ connSt' = [connSt EXCEPT ![c] = "closed"]
                /\ UNCHANGED << clientFd, clientIp, bufferLength >>
             \/ /\ ~RejectConnection(ip)
                /\ connSt' = [s.connSt EXCEPT ![c] = "accepted"]
                /\ clientFd' = c
                /\ clientIp' = ip
                /\ bufferLength' = s.bufferLength
             \/ /\ ~RejectConnection(ip)
                /\ EpollAddMayFail
                /\ connSt' = [connSt EXCEPT ![c] = "accepted"]
                /\ UNCHANGED << clientFd, clientIp, bufferLength >>
       /\ UNCHANGED acceptFails

ConnectionRequest ==
    /\ InBranch
    /\ event.fd = ServerFd
    /\ handle_connection_request
    /\ pstate' = "wait"
    /\ UNCHANGED << exitOk, event, buffer, connPeer, up, fin, rst, listenErr,
                    sigRaised, sigPending, histVars >>

(***************************************************************************)
(* dut_hostif_handle_request on the bytes buf[off .. off+len-1], after a  *)
(* read has left buf, own and len: keep the bytes when the request is     *)
(* incomplete; otherwise set ctx->bufferLength to 0 (bytes after the frame *)
(* are dropped with it), and for a complete request call the handler the  *)
(* table gives, which rewrites the payload and the header in place; the   *)
(* response is written from there to the client socket (handle_response; *)
(* a failed write is only logged).  served records each outcome with the  *)
(* origin of the bytes it was made of.                                     *)
(***************************************************************************)
dut_hostif_handle_request(c, buf, own, off, len) ==
    LET r        == HostIf!ParseRequest(View(buf, off, len, 0))
        Src(k)   == View(own, off, k, << 0, 0 >>)
        Record(req, resp, k) ==
            served' = [served EXCEPT ![c] = Append(@, [req |-> req, resp |-> resp, src |-> Src(k)])]
    IN
    \/ /\ r.status = "incomplete"
       /\ buffer' = buf
       /\ bufferLength' = len
       /\ UNCHANGED served
    \/ /\ r.status = "invalid"
       /\ buffer' = buf
       /\ bufferLength' = 0
       /\ Record(HostIf!Invalid, << >>, len)
    \/ /\ r.status = "complete"
       /\ bufferLength' = 0
       /\ LET req     == [id |-> r.id, hw |-> r.hw, data |-> r.data]
              k       == HostIf!DUT_MSG_HEADER_LENGTH + Len(r.data)
              handler == Clbk!dut_msg_clbk_get_handler(r.id)
          IN \/ /\ handler = NULL
                /\ buffer' = buf
                /\ Record(req, << >>, k)
             \/ /\ handler # NULL
                /\ \E res \in Clbk!HandlerResultsAt(handler, r.data, After(buf, off + k)) :
                     IF ~res.ok
                     THEN /\ buffer' = buf
                          /\ Record(req, << >>, k)
                     ELSE LET hdr  == HostIf!ResponseHeader(View(buf, off, 8, 0), r.id, res.out)
                              buf2 == WriteAt(WriteAt(buf, off + 8, res.data), off, hdr)
                          IN /\ buffer' = buf2
                             /\ Record(req, View(buf2, off, 8 + res.out, 0), k)

\* Mutation: the read may fill the whole buffer whatever is already in it.
ReadSizeWholeBuffer(length) == Cap

\* The size receive_data is given: sizeof(ctx->buffer) - ctx->bufferLength.
ReadSize(length) == Cap - length

\* read() returning 0 (end of stream, or a size of 0) or -1 (reset).
ReadFails(c) ==
    \/ ReadSize(bufferLength) = 0
    \/ up[c] = << >> /\ (fin[c] \/ rst[c])

\* The byte counts a successful read may return.
ReadLengths(c) ==
    IF ReadSize(bufferLength) = 0 THEN {}
    ELSE { n \in 1 .. Len(up[c]) : n <= ReadSize(bufferLength) }

(***************************************************************************)
(* handle_incoming_data: read at &buffer[bufferLength].  If bytes were     *)
(* buffered and the new bytes alone start with a valid header, the old    *)
(* bytes are "discarded": the request pointer moves to the new bytes and  *)
(* bufferLength restarts from 0, but the bytes stay where they were read. *)
(* bufferLength += bytesReceived, then the request is handled.             *)
(***************************************************************************)
handle_incoming_data ==
    LET c == clientFd IN
    \/ /\ ReadFails(c)
       /\ SetCtx(handle_client_disconnected(Ctx))
       /\ UNCHANGED << buffer, up, served, rcvd, owner >>
    \/ \E n \in ReadLengths(c) :
         LET bytes == SubSeq(up[c], 1, n)
             buf   == WriteAt(buffer, bufferLength, bytes)
             own   == WriteAt(owner, bufferLength, [i \in 1 .. n |-> << c, rcvd[c] + i >>])
             stale == /\ bufferLength > 0
                      /\ HostIf!dut_hostif_request_contains_valid_header(bytes)
             off   == IF stale THEN bufferLength ELSE 0
             len   == IF stale THEN n ELSE bufferLength + n
         IN /\ up' = [up EXCEPT ![c] = SubSeq(@, n + 1, Len(@))]
            /\ rcvd' = [rcvd EXCEPT ![c] = @ + n]
            /\ owner' = own
            /\ dut_hostif_handle_request(c, buf, own, off, len)
            /\ UNCHANGED << connSt, clientFd >>

IncomingData ==
    /\ InBranch
    /\ event.fd = clientFd
    /\ handle_incoming_data
    /\ pstate' = "wait"
    /\ UNCHANGED << exitOk, event, clientIp, connPeer, fin, rst, listenErr, acceptFails,
                    sigRaised, sigPending, writes, sent >>

(***************************************************************************)
(* After the loop: close the descriptors, dut_server_destroy (driver stop, *)
(* API clean-up), return.  Connections still in the backlog are reset     *)
(* when the listening socket is closed; process exit closes the rest.     *)
(***************************************************************************)
ServerExit ==
    /\ pstate = "closing"
    /\ pstate' = "exited"
    /\ clientFd' = INVALID_SOCKET
    /\ connSt' = [c \in Conns |-> IF connSt[c] \in {"pending", "accepted"}
                                  THEN "closed" ELSE connSt[c]]
    /\ UNCHANGED << exitOk, event, clientIp, buffer, bufferLength, connPeer, up,
                    fin, rst, listenErr, acceptFails, sigRaised, sigPending, histVars >>

-----------------------------------------------------------------------------
(***************************************************************************)
(* The environment.                                                        *)
(***************************************************************************)
\* A client connects; the handshake completes in the kernel, so the
\* connection waits in the backlog and may already receive data.
Connect(c, p) ==
    /\ Running
    /\ connSt[c] = "unused"
    /\ \A d \in 1 .. c - 1 : connSt[d] # "unused"
    /\ connSt' = [connSt EXCEPT ![c] = "pending"]
    /\ connPeer' = [connPeer EXCEPT ![c] = p]
    /\ UNCHANGED << serverVars, up, fin, rst, listenErr, acceptFails, sigRaised, sigPending, histVars >>

CanWrite(c) ==
    /\ connSt[c] \in {"pending", "accepted"}
    /\ ~fin[c]
    /\ ~rst[c]
    /\ writes < MaxWrites
    /\ ClientWaits => Len(served[c]) >= Len(sent[c])

\* A client writes a whole frame.
ClientWrite(c, m) ==
    /\ CanWrite(c)
    /\ up' = [up EXCEPT ![c] = @ \o Encode(m)]
    /\ sent' = [sent EXCEPT ![c] = Append(@, m)]
    /\ writes' = writes + 1
    /\ UNCHANGED << serverVars, connPeer, connSt, fin, rst, listenErr, acceptFails, sigRaised,
                    sigPending, served, rcvd, owner >>

\* A client writes the first k bytes of a frame and never the rest.
ClientAbandon(c, m, k) ==
    /\ AbandonPartial
    /\ CanWrite(c)
    /\ k \in 1 .. Len(Encode(m)) - 1
    /\ up' = [up EXCEPT ![c] = @ \o SubSeq(Encode(m), 1, k)]
    /\ writes' = writes + 1
    /\ UNCHANGED << serverVars, connPeer, connSt, fin, rst, listenErr, acceptFails, sigRaised,
                    sigPending, sent, served, rcvd, owner >>

PeerClose(c) ==
    /\ "fin" \in Faults
    /\ connSt[c] \in {"pending", "accepted"}
    /\ ~fin[c]
    /\ ~rst[c]
    /\ fin' = [fin EXCEPT ![c] = TRUE]
    /\ UNCHANGED << serverVars, connPeer, connSt, up, rst, listenErr, acceptFails, sigRaised,
                    sigPending, histVars >>

PeerReset(c) ==
    /\ "rst" \in Faults
    /\ connSt[c] \in {"pending", "accepted"}
    /\ ~rst[c]
    /\ rst' = [rst EXCEPT ![c] = TRUE]
    /\ UNCHANGED << serverVars, connPeer, connSt, up, fin, listenErr, acceptFails, sigRaised,
                    sigPending, histVars >>

ListenSocketError ==
    /\ "listen" \in Faults
    /\ Running
    /\ ~listenErr
    /\ listenErr' = TRUE
    /\ UNCHANGED << serverVars, connPeer, connSt, up, fin, rst, acceptFails,
                    sigRaised, sigPending, histVars >>

(***************************************************************************)
(* SIGTERM or SIGINT, once dut_server_run is in its loop or closing (a    *)
(* signal before the set-up ends kills any version of the program).       *)
(* setup_termination_signals creates the signalfd without blocking the   *)
(* signals, and nothing under src/ blocks them: the signal then takes its *)
(* default action and kills the process at once.  The signalfd is        *)
(* readable only if they are blocked (SignalsBlocked): by a signal mask   *)
(* the process inherited across exec from whoever started it, or by a    *)
(* sigprocmask the code does not make.                                    *)
(***************************************************************************)
RaiseSignal ==
    /\ "signal" \in Faults
    /\ pstate \in {"wait", "event", "closing"}
    /\ ~sigRaised
    /\ sigRaised' = TRUE
    /\ \/ /\ SignalsBlocked
          /\ sigPending' = TRUE
          /\ UNCHANGED << pstate, connSt >>
       \/ /\ ~SignalsBlocked
          /\ pstate' = "killed"
          /\ connSt' = [c \in Conns |-> IF connSt[c] = "unused" THEN "unused" ELSE "closed"]
          /\ UNCHANGED sigPending
    /\ UNCHANGED << exitOk, event, clientFd, clientIp, buffer, bufferLength,
                    connPeer, up, fin, rst, listenErr, acceptFails, histVars >>

-----------------------------------------------------------------------------
Init ==
    /\ pstate = "init"
    /\ exitOk = FALSE
    /\ event = [fd |-> INVALID_SOCKET, mask |-> {}]
    /\ clientFd = INVALID_SOCKET
    /\ clientIp = NoAddress
    /\ buffer = [i \in 0 .. Cap - 1 |-> 0]
    /\ bufferLength = 0
    /\ connPeer = [c \in Conns |-> NoAddress]
    /\ connSt = [c \in Conns |-> "unused"]
    /\ up = [c \in Conns |-> << >>]
    /\ fin = [c \in Conns |-> FALSE]
    /\ rst = [c \in Conns |-> FALSE]
    /\ listenErr = FALSE
    /\ acceptFails = 0
    /\ sigRaised = FALSE
    /\ sigPending = FALSE
    /\ writes = 0
    /\ sent = [c \in Conns |-> << >>]
    /\ served = [c \in Conns |-> << >>]
    /\ rcvd = [c \in Conns |-> 0]
    /\ owner = [i \in 0 .. Cap - 1 |-> << 0, 0 >>]

HandleEvent ==
    \/ ServerSocketError
    \/ ClientSocketError
    \/ ClientHangup
    \/ TerminationSignal
    \/ ConnectionRequest
    \/ IncomingData

Server ==
    \/ ServerStart
    \/ \E fd \in {SignalFd, ServerFd} \cup Conns : WaitEpoll(fd)
    \/ HandleEvent
    \/ ServerExit

Environment ==
    \/ \E c \in Conns, p \in Peers : Connect(c, p)
    \/ \E c \in Conns, m \in Messages : ClientWrite(c, m)
    \/ \E c \in Conns, m \in Messages : \E k \in 1 .. Len(Encode(m)) - 1 : ClientAbandon(c, m, k)
    \/ \E c \in Conns : PeerClose(c) \/ PeerReset(c)
    \/ ListenSocketError
    \/ RaiseSignal

Next == Server \/ Environment

(***************************************************************************)
(* Fairness.  The loop never stops by itself: each started step finishes  *)
(* (weak fairness), and a descriptor that stays ready is eventually       *)
(* returned by epoll_wait although the loop is not always in it (strong   *)
(* fairness): a level-triggered ready descriptor that epoll_wait returns  *)
(* is put back at the tail of epoll's ready list.  Clients and signals    *)
(* get no fairness: they may stop at any time.                             *)
(***************************************************************************)
Fairness ==
    /\ WF_vars(ServerStart)
    /\ \A fd \in {SignalFd, ServerFd} \cup Conns : SF_vars(WaitEpoll(fd))
    /\ WF_vars(HandleEvent)
    /\ WF_vars(ServerExit)

Spec == Init /\ [][Next]_vars /\ Fairness
-----------------------------------------------------------------------------
(***************************************************************************)
(* Properties.                                                             *)
(***************************************************************************)
Request == [id : 0 .. 15, hw : 0 .. 15, data : Seq(HostIf!Byte)]

Origin == ({0} \cup Conns) \X Nat

\* A byte some connection's stream carried: its position counts from 1.
StreamByte == Conns \X (Nat \ {0})

TypeOK ==
    /\ pstate \in {"init", "wait", "event", "closing", "exited", "killed"}
    /\ exitOk \in BOOLEAN
    /\ event.fd \in {INVALID_SOCKET, SignalFd, ServerFd} \cup Conns
    /\ event.mask \subseteq {"IN", "RDHUP", "HUP", "ERR"}
    /\ clientFd \in {INVALID_SOCKET} \cup Conns
    /\ clientIp \in Peers \cup {NoAddress}
    /\ buffer \in [0 .. Cap - 1 -> HostIf!Byte]
    /\ bufferLength \in 0 .. Cap
    /\ connPeer \in [Conns -> Peers \cup {NoAddress}]
    /\ connSt \in [Conns -> {"unused", "pending", "accepted", "closed"}]
    /\ up \in [Conns -> Seq(HostIf!Byte)]
    /\ fin \in [Conns -> BOOLEAN]
    /\ rst \in [Conns -> BOOLEAN]
    /\ {listenErr, sigRaised, sigPending} \subseteq BOOLEAN
    /\ writes \in 0 .. MaxWrites
    /\ sent \in [Conns -> Seq(Messages)]
    /\ \A c \in Conns : \A e \in ToSet(served[c]) :
          /\ e.req \in Request \cup {HostIf!Invalid}
          /\ e.resp \in Seq(HostIf!Byte)
          /\ e.src \in Seq(StreamByte)
    /\ rcvd \in [Conns -> Nat]
    /\ owner \in [0 .. Cap - 1 -> Origin]

(***************************************************************************)
(* The framing contract (the comment above handle_incoming_data): on a     *)
(* connection whose client writes one frame at a time, the server makes of *)
(* the stream exactly the frames written, in order, whatever lengths the  *)
(* reads return: each valid frame is handled as its request, each invalid *)
(* one is dropped once.                                                    *)
(***************************************************************************)
RequestsServedInOrder ==
    \A c \in Conns :
        /\ Len(served[c]) <= Len(sent[c])
        /\ \A i \in 1 .. Len(served[c]) : served[c][i].req = Meaning(sent[c][i])

(***************************************************************************)
(* The response written by handle_response answers its request: it is the *)
(* request header with the response flag on the request's id and a length *)
(* field equal to what follows, and what follows is the first bytes of    *)
(* what the registered handler left in place of the payload.              *)
(***************************************************************************)
ResponseAnswersRequest ==
    \A c \in Conns : \A e \in ToSet(served[c]) :
        e.resp # << >> =>
            /\ e.req \in Request
            /\ SubSeq(e.resp, 1, 2) = << HostIf!CharM, HostIf!CharT >>
            /\ e.resp[4] = e.req.id + HostIf!DUT_MSG_ID_RESPONSE_FLAG
            /\ HostIf!DUT_MSG_GET_LENGTH(e.resp) = Len(e.resp) - HostIf!DUT_MSG_HEADER_LENGTH
            /\ \E res \in Clbk!HandlerResults(Clbk!dut_msg_clbk_get_handler(e.req.id), e.req.data) :
                  /\ res.ok
                  /\ SubSeq(e.resp, 9, Len(e.resp)) = SubSeq(res.data, 1, res.out)

(***************************************************************************)
(* Reassembly never mixes connections: every request or dropped frame the *)
(* server handles on a connection is made only of bytes read from it, also *)
(* across reconnections that replace the client (handle_connection_request *)
(* and handle_client_disconnected).                                        *)
(***************************************************************************)
NoCrossConnectionData ==
    \A c \in Conns : \A e \in ToSet(served[c]) :
        \A j \in DOMAIN e.src : e.src[j][1] = c

(***************************************************************************)
(* Reassembly never splices a stream: the bytes a request is parsed from  *)
(* are consecutive bytes of the connection's stream, also after           *)
(* handle_incoming_data discarded a stale partial message.                 *)
(***************************************************************************)
RequestFromConsecutiveBytes ==
    \A c \in Conns : \A e \in ToSet(served[c]) :
        \A j \in 2 .. Len(e.src) : e.src[j][2] = e.src[j - 1][2] + 1

(***************************************************************************)
(* While the loop waits, ctx->buffer is never full: a full buffer would   *)
(* make the next receive_data ask for 0 bytes, and its 0 would be taken   *)
(* for the peer's end of stream.  It rests on the check of the declared   *)
(* length against DUT_MSG_MAX_PAYLOAD_LENGTH in dut_hostif_handle_request. *)
(***************************************************************************)
BufferNeverFull == pstate = "wait" => bufferLength < Cap

(***************************************************************************)
(* Every accepted descriptor is the client's: the server holds at most one *)
(* connection and nothing else (handle_connection_request).                *)
(***************************************************************************)
NoOrphanedSocket == \A c \in Conns : connSt[c] = "accepted" => c = clientFd

(***************************************************************************)
(* A client that writes a whole request and then half-closes its side     *)
(* (shutdown(SHUT_WR), a FIN) still reads: the request already in the     *)
(* socket is answered unless the peer resets.  dut_server_run tests       *)
(* EPOLLRDHUP before EPOLLIN, so it is about the order of those branches. *)
(***************************************************************************)
HalfCloseRequestAnswered ==
    \A c \in Conns : \A i \in 1 .. MaxWrites :
        (Len(sent[c]) >= i /\ ~rst[c]) ~> (Len(served[c]) >= i \/ rst[c])

(***************************************************************************)
(* A termination signal makes the server leave the loop, run              *)
(* dut_server_destroy and exit: what the signalfd branch of               *)
(* dut_server_run is for.  It needs the signals blocked, which            *)
(* setup_termination_signals does not do.                                  *)
(***************************************************************************)
ShutdownRunsDestroy == sigRaised ~> pstate = "exited"

(***************************************************************************)
(* The server implements FramingService.  Answers(r) is the response the  *)
(* contract allows for a meaning r (spec section 4.1, written apart from  *)
(* handle_response): none for a dropped frame, an id with no handler or a *)
(* rejected request; otherwise the header "MT", version 1, the id with    *)
(* the response flag, the length of what follows, and the first bytes the *)
(* handler left in place of the payload.  A connection is closed when the *)
(* server has closed its socket.                                           *)
(***************************************************************************)
Answers(r) ==
    IF r \notin Request \/ Clbk!dut_msg_clbk_get_handler(r.id) = NULL
    THEN {<< >>}
    ELSE {IF res.ok
          THEN << HostIf!CharM, HostIf!CharT, 1, r.id + HostIf!DUT_MSG_ID_RESPONSE_FLAG >>
               \o HostIf!LE32(res.out) \o SubSeq(res.data, 1, res.out)
          ELSE << >> :
          res \in Clbk!HandlerResults(Clbk!dut_msg_clbk_get_handler(r.id), r.data)}

FS == INSTANCE FramingService WITH
        served <- [c \in Conns |-> [i \in DOMAIN served[c] |->
                     [req |-> served[c][i].req, resp |-> served[c][i].resp]]],
        closed <- [c \in Conns |-> connSt[c] = "closed"]

(***************************************************************************)
(* Every behaviour of the event loop, the reassembly in ctx->buffer and   *)
(* the dispatch is one of FramingService, its fairness included: the      *)
(* loop serves the messages of every connection it keeps open.            *)
(***************************************************************************)
FramingSpec == FS!Spec

=============================================================================
