# TLA+ models of iwlwav-tools

This directory holds TLA+ models of the programs in this repository, the TLC
configurations that check them, and `PROJECT.json`. That file records the map from
each definition to the source lines it models, the runs, the mutants, the
findings and the hazards.

## 1. The system

| Part | Source | What it is |
|---|---|---|
| DUT server | `src/tools/dutserver/linux/` | A single-threaded TCP server. It exposes a device under test to one remote client over a framed binary protocol. |
| Recovery monitor | `src/tools/rcvry_monitor/rcvry_monitor.c` | A daemon. It waits for the driver's UNRECOVERABLE_ERROR event and runs the recovery script. |
| RX measurement logger | `src/tools/rx_measure_handler/` | Logs nl80211 vendor events to a file until a number of captures or SIGINT. |
| Global definitions | `src/wireless/shared_mbss_mac/mhi_global_definitions.h` | Integer limit macros only. |

### The DUT server, its parts and how they interact

* **Event loop** (`dutserver.c`, `dut_server_run`). After start-up it loops
  on `wait_epoll`. The call is level-triggered, uses `maxevents` 1 and has no
  timeout, and it watches three descriptors:
  * the termination `signalfd`;
  * the listening socket;
  * at most one client socket.

  For the descriptor that was returned, it branches on the event mask in
  this order:
  1. `EPOLLERR`: on the listening socket this is fatal; on the client socket
     it disconnects the client.
  2. `EPOLLRDHUP|EPOLLHUP` on the client: disconnect.
  3. `EPOLLIN` on the signalfd: leave the loop gracefully.
  4. `EPOLLIN` on the listening socket: `handle_connection_request`.
  5. `EPOLLIN` on the client: `handle_incoming_data`.
  6. Any other event is fatal.

  After the loop, the descriptors are closed, `dut_server_destroy` runs, and
  `main` returns success only after the graceful path.
* **Connection admission** (`handle_connection_request`). It accepts one
  pending connection.
  * If a client from another address is connected, the new connection is closed.
  * Otherwise the new connection is registered with epoll. If there is a
    current client, it is closed (a reconnection), and the new connection
    becomes the client.
* **Reassembly** (`handle_incoming_data`). It reads at
  `&buffer[bufferLength]` at most `sizeof(buffer) - bufferLength` bytes.
  * A read of -1 or 0 disconnects the client.
  * If bytes were already buffered and the new bytes alone start with a valid
    header, the old bytes are taken as stale. The request pointer moves to
    the new bytes and the length restarts from the new byte count.
  * Then `dut_hostif_handle_request` runs.
* **Frame codec** (`dut_host_if.c`). The wire format is:
  * the signature `'M' 'T'`;
  * a version byte;
  * a byte packing the hw index (high nibble) and the message id (low nibble);
  * the payload length, little-endian;
  * the payload.

  The checks run in this order:
  1. Fewer than 8 bytes: wait for more.
  2. Bad signature: drop the buffer.
  3. Declared length above 1016: drop the buffer.
  4. Payload incomplete: wait for more.

  Otherwise `bufferLength` becomes 0, so bytes after the frame are dropped,
  and the handler for the id is called. If it accepts, the header is
  rewritten in place (`id | 0x80`, the response length) and sent with
  `send_data`.
* **Dispatch table and handlers** (`dut_msg_clbk.c`). The table is filled once
  by `dut_msg_clbk_init`, and `dut_msg_clbk_get_handler` reads it. There are
  six handler shapes:
  * reset;
  * program-model upload (two names separated by a newline);
  * forwarding to the DUT core, used by seven ids;
  * C100;
  * driver;
  * platform-general.

  Each handler calls a driver API that is not in this repository and returns:
  * whether to answer;
  * what it left in the payload (the payload unchanged, or zeroed on failure);
  * the response length.
* **Socket helpers** (`sockets.c`). These are thin wrappers around accept,
  read, write, epoll_ctl, epoll_wait (which retries on EINTR), signalfd and
  sigaction.

The hard behaviours are:
* a byte stream split into reads of any length;
* a client that abandons a partial frame;
* a peer that resets or half-closes between `epoll_wait` and the read of the
  event;
* a second host or a reconnecting host;
* termination signals;
* a buffer that stays bounded against pipelined or oversized input.

### The recovery monitor

`main` installs `_sig_handler` for SIGTERM and runs `_listener`. There are
two builds (`CONFIG_USE_DWPAL_DAEMON`):
* **Without dwpald** (the default). `_listener` loops: it `popen`s
  `dwpal_cli`, which exits once it has seen UNRECOVERABLE_ERROR, and blocks
  in `pclose` until then. Exit status 0 runs the recovery script the same
  way (`_call_complete_recovery`); a failed recovery ends the loop. After
  each round it tests `_is_terminated`.
* **With dwpald.** `_listener` clears `g_rm_config.terminate`, connects to
  dwpald, attaches the event handler (11 tries, a second apart) and blocks
  in `dwpald_start_blocked_listen`. That call runs
  `unrecoverable_error_event_handler` for each event and returns once
  `rcvry_monitor_dwpald_term_cond_get()` is true.

`pclose` is not ended by a signal: glibc and musl retry `waitpid` on EINTR.

### The RX measurement logger

`main` opens a generic netlink socket (`nl80211_init`), installs
`sigint_handler`, and calls `listen_events`. That joins the nl80211 "vendor"
multicast group and receives forever. For each RX_MEASURE report of
`wlan<band_id>`, `mxl_vendor_event_handler` writes one CSV row. It opens the
file and writes the header at the first report. On the report with
`captures_rem == 0` it closes the file, frees the socket and exits 0.
`sigint_handler` does the same releases and exits 1.

## 2. Modules

| Module | Models | State / actions |
|---|---|---|
| `DutHostIf` | `dut_host_if.c/.h` | Operators only. See the notes below the table. |
| `DutMsgClbk` | `dut_msg_clbk.c` | `dut_msg_clbk_get_handler` and one result-set operator per handler (`ResetFwResults`, `UploadProgmodelResults`, `ForwardToDutCoreResults`, ...), collected by `HandlerResultsAt`. |
| `DutServer` | `dutserver.c`, `sockets.c`, and the environment | See the notes below the table. |
| `FramingService` | the contract of spec section 4.1 | The abstract service `DutServer` refines. |
| `MC_DutServer` | – | Model values for the peers, the handler table, and the frames clients write. |
| `RcvryMonitor` | `rcvry_monitor.c`, both builds | See below. |
| `RecoveryService` | what the monitor promises | The abstract service both builds of `RcvryMonitor` refine. |
| `RxMeasureHandler` | `rx_measure_handler.c`, `drivers/driver_nl80211.c` | See below. |

**DutHostIf.** Header accessors (`DUT_MSG_GET_ID`, `DUT_MSG_GET_LENGTH`, ...)
work on byte values. `ParseRequest` follows the early returns of
`dut_hostif_handle_request` in order. `ResponseHeader` is the header
rewritten in place, and `EncodeFrame` is the wire format.

**DutServer.** Its variables fall into three groups:
* the fields of `DutContext_t` (`clientFd`, `clientIp`, `buffer`,
  `bufferLength`);
* the process state `pstate` and the last `event`;
* the environment: for each connection, its peer, its state, the unread
  bytes `up`, and the flags `fin` and `rst`; a pending listening-socket
  error; and the signal.

It also has history variables:
* `sent`: the whole frames written;
* `served`: what the server made of the bytes, each entry with the stream
  position of every byte it was parsed from;
* `rcvd`;
* `owner`.

Its actions:
* `ServerStart` (`dut_server_init` and the set-up chain);
* `WaitEpoll(fd)`;
* one action per branch of the loop body: `ServerSocketError`,
  `ClientSocketError`, `ClientHangup`, `TerminationSignal`,
  `ConnectionRequest` and `IncomingData`. The last two include all of
  `handle_connection_request`, and all of `handle_incoming_data` together
  with `dut_hostif_handle_request` and the handler;
* `ServerExit`;
* the environment actions: `Connect`, `ClientWrite`, `ClientAbandon`,
  `PeerClose`, `PeerReset`, `ListenSocketError` and `RaiseSignal`.

`RaiseSignal` delivers SIGTERM or SIGINT once `dut_server_run` is in its
loop or closing. The constant `SignalsBlocked` says what happens then. When
it is FALSE, as the code leaves the signals, the default action kills the
process. When it is TRUE, the signal is queued on the signalfd. That happens
only if the signals are blocked by a mask the process inherited across exec
from whoever started it: nothing under `src/` blocks them.

`handle_connection_request` also has the branch where `accept_connection`
fails (`AcceptFails`, fault "accept"). The connection stays in the backlog
and the listening socket stays readable. At most `MaxAcceptFailures` (1)
failures happen in a behaviour; `acceptFails` counts them.

Waiting and handling are two steps, so the environment can act between
them. The event mask the loop branches on can therefore be stale.

`DutServer` instantiates `DutHostIf` (as `HostIf`) and `DutMsgClbk` (as `Clbk`).

**DutMsgClbk and the memory after the payload.** The upload handler finds
the newline with `strchr`, which reads the payload as a C string and does
not stop at its end. So `HandlerResultsAt(kind, data, after)` takes the
bytes that follow the payload in memory. `DutServer` passes `After`: the rest
of `ctx->buffer`, with whatever earlier frames left there, and then a 0 for
`ctx->bufferLength`, which was just set to 0. A newline found past the
payload makes `namesLen[1]` negative. That wraps as an unsigned int, so the
request is rejected (`NameFits`). `HandlerResults(kind, data)` is the
contract: the same handler on the payload followed by a NUL. The response
properties compare what the server sent with the contract.

`Meaning(m)` in `DutServer` is an independent reference for the server's
reassembly. It says what a frame means from the wire format (spec section 4.1):
* an invalid frame if the signature is wrong or the declared length is above
  the maximum;
* otherwise the id, the hw index and the payload.

It does not use the parser. `RequestsServedInOrder` compares the reassembled
stream against it; the `payload_header` run checks it.

**FramingService and the refinement.** `FramingService` has no sockets,
reads or buffer. Per connection it has the messages written (`Send`), the
messages served, each as `[req, resp]` (`Serve`), and whether the
connection is closed (`Close`). `Serve` takes the oldest unserved message.
Its request is `Meaning` of the message, and its response is one that
`Answers` allows. `Answers(r)` is written from the contract, not from
`handle_response`:
* no response for a dropped frame, an id with no handler, or a rejected
  request;
* otherwise "MT", version 1, the id with the response flag, the length,
  and the bytes the handler left.

Its fairness is `WF(Serve(c))` for each connection. `DutServer` defines
`FS == INSTANCE FramingService WITH served <- ..., closed <- ...`:
* `served` is the `served` history without the byte origins;
* `closed` is `connSt[c] = "closed"`.

`FramingSpec == FS!Spec` is checked as a property.

**RcvryMonitor.** The variable `dwpald` is the build, chosen in `Init`
from the constant `Builds`. The other variables:
* `pc`: where `main` or `_listener` is;
* `child`: the state of the `popen`ed child;
* `terminate`: `_is_terminated` or `g_rm_config.terminate`;
* `handlerSet`: `_set_sigaction` has run;
* `attempts`: `num_attach_attempts`;
* counters of events raised, events delivered, and recovery runs.

Monitor actions:
* `Main`;
* without dwpald: `Spawn` (the `popen` of `dwpal_cli`) and
  `ListenerReturns` (its `pclose` returning, with the exit status test and
  the recovery `popen`);
* with dwpald: `ListenerStart`, `Attach`, `BlockedListenReturns`,
  `BlockedListenError` and `unrecoverable_error_event_handler`;
* `RecoveryReturns`: the script's `pclose`.

Environment actions:
* `ScriptExits`;
* `ListenerFails`;
* `DriverEvent`: seen only by a running `dwpal_cli`, or by dwpald while
  the monitor listens; lost otherwise;
* `SigTerm`: it kills the child too only when the process group is
  signalled (`SigToGroup`).

**RecoveryService and the second refinement.** `RecoveryService` has three
variables: the events given to the monitor, the recovery runs, and whether
it has ended. Its actions:
* `Deliver`: an event reaches the monitor, only once the last is answered;
* `Recover`: a run for the pending event; a script that cannot be started
  may end the monitor in the same step;
* `End`.

Its fairness is `WF(Recover)`. `RcvryMonitor` defines
`RS == INSTANCE RecoveryService WITH ended <- Ended`. `caught` and
`recoveries` map to themselves. `RecoveryServiceSpec == RS!Spec` is checked
for both builds in one run.

**RxMeasureHandler.** A report is `[iface, rem]` (`captures_rem`), from the
interface or another one. Variables:
* `pc`;
* `file`: NULL, open, or closed but not yet NULL;
* `sock`;
* `mcast`: the group the socket joined;
* `ret`, `grpId`: the locals of `nl_get_multicast_id`;
* `answer`, `nread`: the controller's answer and how much of it was read;
* `rows`: the reports written since the file was opened;
* the reports queued on the socket;
* flags for a second `fclose` or a second socket free.

Actions:
* `Start` with `nl80211_init`;
* `McidStart`: `nl_get_multicast_id` up to its receive loop (allocation or
  send failing, or the kernel's answer);
* `McidRecv`: one `nl_recvmsgs` turn of `while (ret > 0)`, into
  `family_handler`, `ack_handler` or `error_handler`;
* `Prepare`: the loop's result and `nl80211_prepare_listen_events` joining
  the group (or not);
* `Receive`: one `nl_recvmsgs` turn into `mxl_vendor_event_handler`;
* the release steps `CloseFile`, `ClearFile`, `nl80211_cleanup` and `Exit`,
  shared by the handler's exit path and the end of `main`;
* `sigint_handler`: it runs between any two of those steps;
* `DriverReport`.

The kernel's answer to the family request (`KernelAnswers`) is the family
reply and an ack. The reply lists "config" and then "vendor", in nl80211's
order. Under the "nomcast" fault there are two more answers: a kernel
without the vendor group, and an error reply. The failures `Faults` lists
are: init, the group lookup failing or finding nothing, join, `fopen`, and
SIGINT.

Data abstraction:
* The buffer has 10 bytes in the runs instead of 1024 (16 in
  `payload_header`)
  (`DUT_MSG_MAX_MESSAGE_LENGTH` is a constant), and the header keeps its
  real 8 bytes. So a payload has at most 2 bytes, and a frame can fill the
  buffer or exceed it by one.
* The message ids come from `mhi_dut.h`, which is not in the repository.
  `MC_MsgHandler` therefore registers one handler at id 1, one at id 2, and
  none at id 3. Ids 0 and 4..15 are out of range.
* The monitor's children, dwpald and the driver are only what the monitor
  observes of them: an exit status, an event, a return.
* The logger's measured values and CSV text are left out.

## 3. Runs

Every `.cfg` says `CHECK_DEADLOCK FALSE`:
* the real server blocks in `epoll_wait` indefinitely once the clients have
  stopped writing, which is the bounded environment's last state;
* the monitor blocks in `pclose` or in dwpald until an event that may not
  come, and the logger in `nl_recvmsgs`;
* ended processes are terminal.

| Run | Module | Expect | Properties | Bounds | What it shows |
|---|---|---|---|---|---|
| `server_refinement` | `MC_DutServer` | pass | `FramingSpec` | 2 connections, 2 peers, 2 writes, one frame at a time, one failing `accept`; frames: full-size, echo, unknown id, bad signature, oversize header. | The loop refines `FramingService`, including its fairness, whatever the split of the stream into reads: requests are served in order, each with a response of the right header and the body the handler left, and every message on a connection that stays open is served. This holds across a rejected second host and a replacing reconnection. |
| `server_session` | `MC_DutServer` | pass | `NoCrossConnectionData`, `ResponseAnswersRequest` | See below. | No request is parsed from bytes of two connections, across rejections of another host and reconnections. Program-model uploads whose newline scan runs into bytes left by an earlier frame, possibly of another connection, are answered as their payload alone says. |
| `server_adversarial` | `MC_DutServer` | pass | `TypeOK`, `BufferNeverFull` | 1 connection, 2 writes; clients that pipeline, abandon prefixes, and send a frame one byte larger than the buffer; a signal read from the signalfd. | Reads stay inside the buffer, and the buffer is never left full. A full buffer would make the next read size 0 and look like end of stream. The signal makes `TerminationSignal` and the exit path part of the explored behaviours. |
| `stale_discard` | `MC_DutServer` | violation | `RequestFromConsecutiveBytes` | 1 connection, 2 writes, abandon. | See finding 1. |
| `sigterm_default` | `MC_DutServer` | violation | `ShutdownRunsDestroy` | Signals as the code leaves them; SIGTERM arrives while the loop waits. | See finding 2. |
| `epoll_add_leak` | `MC_DutServer` | violation | `NoOrphanedSocket` | `epoll_ctl` may fail. | See finding 3. |
| `half_close` | `MC_DutServer` | violation | `HalfCloseRequestAnswered` | 1 connection, 1 write, fault fin. | See finding 4. |
| `payload_header` | `MC_DutServer` | violation | `RequestsServedInOrder` | 16-byte buffer, 1 connection, 1 write of a request whose 8-byte payload begins with `MT`. | See finding 7. |
| `monitor_recovery` | `RcvryMonitor` | pass | `TypeOK`, `RecoveryServiceSpec`, `SignalWhileWaitingHonoured` | Both builds, 2 driver events, SIGTERM to the process group. | Both builds refine `RecoveryService`. Events given to the monitor are answered one at a time by a recovery run, and no run happens without one. Nothing happens after the monitor ends, and a given event is answered unless it ends first. SIGTERM that arrives while the monitor waits for a child or for dwpald ends it. The attach counter ends at -1. |
| `monitor_sigterm` | `RcvryMonitor` | violation | `TerminationHonoured` | Without dwpald, SIGTERM to the pid alone. | See finding 5. |
| `rx_capture` | `RxMeasureHandler` | pass | `JoinsOfferedVendorGroup`, `ListeningEventually`, `CaptureEnds` | 2 interfaces with 3 reports each; all five faults. | In the receive loop, the socket is in the vendor group exactly when the controller listed it. The group lookup's loop always ends. Once the final report is queued, the logger ends, except when `fopen` fails on that very report (see below). |
| `rx_sigint` | `RxMeasureHandler` | violation | `NoDoubleRelease` | SIGINT only. | See finding 6. |

Bounds of `server_session`:
* 2 connections, 2 peers;
* faults fin, rst, listen and signal;
* signals unblocked, so the kill path is taken;
* `epoll_ctl` may fail;
* the messages are two program-model uploads (id 4): one whose newline is
  the last byte of a full buffer, and one with no newline, whose scan runs
  into that stale byte.

**Why the bounds are enough.**
* The reads are nondeterministic in length, so every split of a frame is
  explored. A 10-byte buffer gives:
  * headers split at every byte;
  * a frame that exactly fills the buffer;
  * a frame one byte too large;
  * a read that brings a whole header after a partial frame.
* Two connections and two peers cover both admission outcomes: rejecting
  another host, and a reconnection by the same host replacing the client.
* Two writes let a client send one frame after another on a connection.
* The monitor's loop goes round with each event. Two events make it go
  round twice: once to recover and once to wait again. The signal can come
  at every point of that.
* The logger sees two series of three reports, so rows of another interface
  can come between rows of its own, and a report can be lost before the
  first row and before the last.

Larger bounds of the server multiply the states without reaching new
branches of the code. With two connections, three writes and every fault
enabled at once, the state space already grows to millions of states. So
the questions are split across runs.

**Mutants.** Each property of a passing run is broken by a plausible bug,
listed in `PROJECT.json`:
* the completeness check is off by one;
* `handle_client_disconnected` keeps `bufferLength`;
* the read is given the whole buffer size;
* the size check is off by one;
* the monitor's exit status test is inverted;
* the loop goes round without testing `_is_terminated`;
* the attach retry test is `>= 0`;
* `family_handler` takes the first group whatever its name;
* `ack_handler` does not end the loop;
* `namesLen[1]` compared as a signed int;
* the `captures_rem == 0` test never starts the exit path.

## 4. Fairness

For the server, its actions get fairness and the environment gets none:
* `ServerStart`, `ServerExit` and the handling of a returned event are weakly
  fair. The loop is the process's only thread and never blocks, except in
  `epoll_wait`.
* `WaitEpoll(fd)` is strongly fair for each descriptor. A descriptor that
  stays ready, but is not returned every time the loop waits, is eventually
  returned. epoll moves a level-triggered descriptor it returns to the tail
  of its ready list, so one ready descriptor cannot starve another.
* Clients, the kernel and signals get no fairness: a client may stop at any
  point.

For the monitor:
* Each of its own steps is weakly fair: it is one thread.
* The recovery script is assumed to end (`ScriptExits`).
* `dwpald_start_blocked_listen` is assumed to return once the termination
  condition holds, as the condition callback is there for.
* Driver events, `dwpal_cli` or dwpald failing, and SIGTERM get no fairness.

For the logger, each of its own steps is weakly fair: it is one thread, and
its receive loops block in `nl_recvmsgs` until a message is queued. The
kernel's answer to the family request is given in full when the request is
sent: the kernel always answers a request that asks for an ack. The driver
and SIGINT get no fairness.

## 5. Findings

1. **Stale discard splices old bytes into a new frame** (`dutserver.c:121`,
   code bug).
   * The discard moves the request pointer but not the bytes.
   * If the new frame is still incomplete, the next read is stored at
     `buffer[bufferLength]` and parsed from `buffer[0]`.
   * TLC's trace:
     1. A client abandons a 1-byte prefix and then writes a whole frame.
     2. The server reads 9 bytes (stale discard, incomplete), then 1 byte.
     3. It parses `M M T …` and drops the frame as invalid.
   * Spec section 4.2 says parsing restarts at the new frame.
2. **SIGTERM/SIGINT kill the server instead of shutting it down**
   (`sockets.c:329`, spec/code divergence).
   * `signalfd` is created without blocking the signals.
   * So the default action terminates the process, and `dut_server_destroy`
     (driver stop) and the success exit code never happen.
   * TLC's trace: the server finishes its set-up and waits in `epoll_wait`;
     SIGTERM arrives and ends the process, and `ShutdownRunsDestroy`
     (termination leads to `dut_server_destroy` and exit) fails.
   * `RaiseSignal` is enabled only once the set-up has ended: a signal
     before that kills any version of the program, graceful path or not.
3. **Accepted socket leaked when `epoll_ctl` fails** (`dutserver.c:65`,
   code bug).
   * The descriptor is neither closed nor kept.
4. **A request followed by a half-close is dropped** (`dutserver.c:210`,
   spec gap).
   * The client writes a request and then `shutdown(SHUT_WR)`.
   * `epoll_wait` returns `EPOLLIN|EPOLLRDHUP`.
   * The hang-up branch is tested first and closes the connection with the
     request unread.
   * The spec does not say which should win.
5. **SIGTERM does not stop the monitor while `dwpal_cli` waits**
   (`rcvry_monitor.c:260`, code bug).
   * `pclose` retries `waitpid` on EINTR, so a SIGTERM sent to the
     monitor's pid only sets `_is_terminated`.
   * The monitor waits until the next driver error, which may never come.
   * Signalling the process group kills `dwpal_cli`, and the passing
     `monitor_recovery` run shows that this then ends the monitor.
   * Even then, two other orderings break `TerminationHonoured` (see the
     hazards):
     * a SIGTERM between the `_is_terminated` test and the next `popen`;
     * with dwpald, a SIGTERM before `_listener` clears the flag.
6. **SIGINT can make the logger release the file twice**
   (`rx_measure_handler.c:73`, code bug).
   * On the last report, the handler calls `fclose(file)` before
     `file = NULL`.
   * SIGINT in between runs `sigint_handler`, which calls `fclose` on the
     same FILE again.
   * A SIGINT after `nl80211_cleanup` frees the socket twice.
7. **A payload that begins with a valid header loses its request**
   (`dutserver.c:122`, code bug).
   * The stale-data test takes any read of at least 8 bytes that begins
     with `'M' 'T'` for a new frame.
   * TLC's trace: the header arrives in one read and the payload, which
     begins with `M T 1 0 …`, in the next.
   * The header is discarded, the payload is parsed as an invalid request,
     and the request written is never served.
   * The comment above `handle_incoming_data` says the buffer keeps data
     until the rest of the message arrives.

## 6. Not modelled

* **DUT server:**
  * `get_ip_address`, bind/listen and the socket options: configuration with
    no state that the loop reads.
  * A persistent `accept` failure (EMFILE), which makes the loop spin: with
    no bound every progress property fails trivially. The runs bound the
    failures instead.
  * Byte alignment of the in-place length store. After a stale discard,
    `DUT_MSG_SET_LENGTH` stores a `uint32` at any offset, which traps on
    CPUs without unaligned access. The model is byte-level.
  * A client that never reads its responses. `send_data` is a blocking
    `write`, so a full send buffer would stall the loop, including the
    signalfd. The model's writes always complete.
  * The text formatting of logs.
  * `set_tcp_nodelay_sockopt` passes `SOL_SOCKET` with `TCP_NODELAY`, which
    sets option 1 of the socket level (`SO_DEBUG`), not Nagle's algorithm.
    This is configuration with no state the loop reads.
* **Recovery monitor:** the help text and logging set-up are modelled only
  as `main` ending.
* **RX logger and nl80211 glue:**
  * Argument parsing and the `snprintf` of names.
  * libnl's attribute parsing: the group lookup's reply is a list of
    `[name, id]` records.
  * Socket buffer overflow.
  * A capture whose final report is dropped because `fopen` fails on it
    (the handler returns before its exit test) leaves the logger waiting
    for ever. The model has this behaviour. `CaptureEnds` names it as its
    one exception (`lostFinal`). No run is kept for the violation, which
    TLC finds as soon as the exception is dropped.
* **`mhi_global_definitions.h`:** integer limit macros, with no state or
  operation.
