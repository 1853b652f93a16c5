-------------------------- MODULE RxMeasureHandler --------------------------
(***************************************************************************)
(* The RX measurement logger (src/tools/rx_measure_handler): main opens a *)
(* generic netlink socket (nl80211_init), installs sigint_handler, joins  *)
(* the nl80211 "vendor" multicast group and receives forever              *)
(* (listen_events).  mxl_vendor_event_handler writes one CSV row per RX   *)
(* measurement report of its interface, opening the file at the first,    *)
(* and on the report with captures_rem = 0 closes the file, frees the     *)
(* socket and exits.  SIGINT runs sigint_handler, which does the same.    *)
(*                                                                         *)
(* The driver is the environment: it emits the reports of a capture       *)
(* series on the interface (captures_rem counting down to 0) and of       *)
(* another interface.  The kernel queues them on the socket in order, and *)
(* only once the socket is a member of the group.  A report is a record   *)
(* [iface, rem]; the measured values are left out.  A signal handler runs *)
(* between two statements of the code it interrupts, and runs to its end. *)
(***************************************************************************)
EXTENDS Integers, Sequences

CONSTANTS
    Own, Other,     \* wlan<band_id> (g_ifname) and another interface
    NumCaptures,    \* reports in each interface's capture series
    Faults          \* the failures a run lets happen: a subset of
                    \* {"init", "nomcast", "listen", "fopen", "sigint"}

ASSUME /\ NumCaptures \in Nat \ {0}
       /\ Faults \subseteq {"init", "nomcast", "listen", "fopen", "sigint"}

Ifaces == {Own, Other}

VARIABLES
    \* "init", "prepare" (listen_events), "recv" (nl_recvmsgs loop), then
    \* the release steps "close" (fclose), "clear" (file = NULL), "free"
    \* (nl80211_cleanup), "exit"; "ended" once the process is gone
    pc,
    file,           \* the FILE *file: "none" (NULL), "open" or "closed"
                    \* (fclose()d and not yet set to NULL)
    sock,           \* state.nl_sock: "none", "open" or "freed"
    handlerSet,     \* signal(SIGINT, sigint_handler) has run
    mcast,          \* the multicast group the socket joined (NotJoined)
    ret,            \* nl_get_multicast_id's ret
    grpId,          \* its grp.id
    answer,         \* the controller's answer to the family request
    nread,          \* the messages of answer read so far
    rows,           \* the reports written to the CSV since it was opened
    completing,     \* the handler took the captures_rem == 0 branch
    exitCode,       \* "running", "ok" (0), "fail" (1) or "killed"
    \* environment and history
    next,           \* per interface, captures_rem of its next report (-1: done)
    pending,        \* reports queued on the socket
    sigRaised,      \* SIGINT was sent
    doubleClose,    \* fclose() was called on a closed FILE
    doubleFree,     \* nl_socket_free() was called on a freed socket
    lostFinal       \* the report with captures_rem = 0 was read while
                    \* fopen failed

mcidVars == << ret, grpId, answer, nread >>

vars == << pc, file, sock, handlerSet, mcast, rows, completing, exitCode,
           next, pending, sigRaised, doubleClose, doubleFree, lostFinal, mcidVars >>

Report == [iface : Ifaces, rem : 0 .. NumCaptures - 1]

\* The last report of the capture series of wlan<band_id>.
FinalReport == [iface |-> Own, rem |-> 0]
-----------------------------------------------------------------------------
(***************************************************************************)
(* nl80211_init: allocating or connecting the socket, or resolving        *)
(* "nl80211", fails (the socket is freed inside), or the socket is open.  *)
(***************************************************************************)
nl80211_init(ok) ==
    \/ /\ "init" \in Faults
       /\ ~ok
       /\ UNCHANGED sock
    \/ /\ ok
       /\ sock' = "open"

(***************************************************************************)
(* main up to listen_events (band_id valid): nl80211_init failing makes   *)
(* it return 1; otherwise SIGINT is handled from now on.                  *)
(***************************************************************************)
Start ==
    /\ pc = "init"
    /\ \E ok \in BOOLEAN :
          /\ nl80211_init(ok)
          /\ pc' = IF ok THEN "prepare" ELSE "ended"
          /\ exitCode' = IF ok THEN exitCode ELSE "fail"
          /\ handlerSet' = ok
    /\ UNCHANGED << file, mcast, rows, completing, next, pending, sigRaised,
                    doubleClose, doubleFree, lostFinal,
                    mcidVars >>

(***************************************************************************)
(* The generic netlink controller's answer to CTRL_CMD_GETFAMILY          *)
(* "nl80211", read from the socket one message at a time: the family     *)
(* reply, listing the multicast groups in the order nl80211 registers     *)
(* them (each with its name and id), then the acknowledgement             *)
(* nl_send_auto_complete asked for; or an error.  A kernel without the    *)
(* "vendor" group, or an error, is one of the "nomcast" faults.           *)
(***************************************************************************)
ENOENT == 2

ENOMEM == 12

NotJoined == 0

Config == [name |-> "config", id |-> 1]

Vendor == [name |-> "vendor", id |-> 5]

Family(groups) == [kind |-> "family", groups |-> groups, err |-> 0]

Ack == [kind |-> "ack", groups |-> << >>, err |-> 0]

KernelAnswers ==
    { << Family(<< Config, Vendor >>), Ack >> }
    \cup (IF "nomcast" \in Faults
          THEN { << Family(<< Config >>), Ack >>,
                 << [kind |-> "error", groups |-> << >>, err |-> -ENOMEM] >> }
          ELSE {})

(***************************************************************************)
(* nl_get_multicast_id up to its receive loop: nlmsg_alloc, nl_cb_alloc  *)
(* or nl_send_auto_complete failing returns a negative ret; otherwise     *)
(* ret = 1, grp.id = -ENOENT, the callbacks are set and the kernel        *)
(* answers.  answer is the whole answer, nread how much of it was read.   *)
(***************************************************************************)
McidStart ==
    /\ pc = "prepare"
    /\ \/ /\ "nomcast" \in Faults
          /\ ret' = -ENOMEM
          /\ answer' = << >>
       \/ /\ ret' = 1
          /\ answer' \in KernelAnswers
    /\ grpId' = -ENOENT
    /\ nread' = 0
    /\ pc' = "mcid"
    /\ UNCHANGED << file, sock, handlerSet, mcast, rows, completing, exitCode,
                    next, pending, sigRaised, doubleClose, doubleFree, lostFinal >>

\* Mutation: the name comparison is dropped (the first group with an id).
family_handler_any_name(groups, id) == IF groups = << >> THEN id ELSE Head(groups).id

(* family_handler: the id of the first group named "vendor", if any.      *)
family_handler(groups, id) ==
    LET named == SelectSeq(groups, LAMBDA g : g.name = "vendor")
    IN  IF named = << >> THEN id ELSE Head(named).id

\* Mutation: the acknowledgement does not end the loop.
ack_handler_keeps_ret == ret' = ret

ack_handler == ret' = 0

error_handler(msg) == ret' = msg.err

(* One nl_recvmsgs turn of while (ret > 0): the next message goes to the *)
(* valid, ack or error callback.                                          *)
McidRecv ==
    /\ pc = "mcid"
    /\ ret > 0
    /\ nread < Len(answer)
    /\ nread' = nread + 1
    /\ LET msg == answer[nread + 1]
       IN \/ /\ msg.kind = "family"
             /\ grpId' = family_handler(msg.groups, grpId)
             /\ UNCHANGED ret
          \/ /\ msg.kind = "ack"
             /\ ack_handler
             /\ UNCHANGED grpId
          \/ /\ msg.kind = "error"
             /\ error_handler(msg)
             /\ UNCHANGED grpId
    /\ UNCHANGED << pc, answer, file, sock, handlerSet, mcast, rows, completing,
                    exitCode, next, pending, sigRaised, doubleClose, doubleFree, lostFinal >>

(***************************************************************************)
(* The loop has ended: nl_get_multicast_id returns grp.id after an ack,  *)
(* the error otherwise.  nl80211_prepare_listen_events joins the group   *)
(* for an id >= 0 and runs on without membership otherwise.  A failed    *)
(* join, or nl80211_do_listen_events failing to allocate its callbacks,  *)
(* returns to main, which releases everything and returns 0.             *)
(***************************************************************************)
Prepare ==
    /\ pc = "mcid"
    /\ ret <= 0
    /\ LET mcid == IF ret = 0 THEN grpId ELSE ret
       IN \/ /\ pc' = "recv"
             /\ mcast' = IF mcid >= 0 THEN mcid ELSE mcast
          \/ /\ "listen" \in Faults
             /\ pc' = "close"
             /\ UNCHANGED mcast
    /\ UNCHANGED << ret, grpId, answer, nread, file, sock, handlerSet, rows,
                    completing, exitCode, next, pending, sigRaised, doubleClose,
                    doubleFree, lostFinal >>

\* Mutation: the captures_rem == 0 test never starts the exit path.
mxl_vendor_event_handler_no_exit(e) ==
    IF e.iface # Own
    THEN UNCHANGED << pc, file, rows, completing >>
    ELSE \/ /\ file = "none"
            /\ "fopen" \in Faults
            /\ UNCHANGED << pc, file, rows, completing >>
         \/ /\ file' = "open"
            /\ rows' = (IF file = "none" THEN << >> ELSE rows) \o << e >>
            /\ completing' = FALSE
            /\ pc' = "recv"

(***************************************************************************)
(* mxl_vendor_event_handler for one RX_MEASURE report: a report of        *)
(* another interface is ignored.  The first report opens the file ("w"    *)
(* truncates it) and writes the header; if fopen fails the handler        *)
(* returns and the report is lost.  Then the row is written, and          *)
(* captures_rem == 0 starts the release and exit.                         *)
(***************************************************************************)
mxl_vendor_event_handler(e) ==
    IF e.iface # Own
    THEN UNCHANGED << pc, file, rows, completing >>
    ELSE \/ /\ file = "none"
            /\ "fopen" \in Faults
            /\ UNCHANGED << pc, file, rows, completing >>
         \/ /\ file' = "open"
            /\ rows' = (IF file = "none" THEN << >> ELSE rows) \o << e >>
            /\ completing' = (e.rem = 0)
            /\ pc' = IF e.rem = 0 THEN "close" ELSE "recv"

(***************************************************************************)
(* One turn of the while (1) nl_recvmsgs loop: the next queued message    *)
(* goes through event_handler and parse_vendor_event (an nl80211 vendor   *)
(* command with the Lantiq OUI) to the handler.                           *)
(***************************************************************************)
Receive ==
    /\ pc = "recv"
    /\ pending # << >>
    /\ pending' = Tail(pending)
    /\ mxl_vendor_event_handler(Head(pending))
    /\ lostFinal' = (lostFinal \/ (Head(pending) = FinalReport /\ file' = "none"))
    /\ UNCHANGED << sock, handlerSet, mcast, exitCode, next, sigRaised,
                    doubleClose, doubleFree, mcidVars >>
-----------------------------------------------------------------------------
(***************************************************************************)
(* The release steps, taken in this order by the handler's exit path and *)
(* by the end of main: if (file) { fclose(file); file = NULL; } then      *)
(* nl80211_cleanup, then exit(0) or return 0.                             *)
(***************************************************************************)
CloseFile ==
    /\ pc = "close"
    /\ file' = IF file = "none" THEN "none" ELSE "closed"
    /\ pc' = "clear"
    /\ UNCHANGED << sock, handlerSet, mcast, rows, completing, exitCode, next,
                    pending, sigRaised, doubleClose, doubleFree, lostFinal,
                    mcidVars >>

ClearFile ==
    /\ pc = "clear"
    /\ file' = "none"
    /\ pc' = "free"
    /\ UNCHANGED << sock, handlerSet, mcast, rows, completing, exitCode, next,
                    pending, sigRaised, doubleClose, doubleFree, lostFinal,
                    mcidVars >>

nl80211_cleanup ==
    /\ pc = "free"
    /\ sock' = "freed"
    /\ pc' = "exit"
    /\ UNCHANGED << file, handlerSet, mcast, rows, completing, exitCode, next,
                    pending, sigRaised, doubleClose, doubleFree, lostFinal,
                    mcidVars >>

Exit ==
    /\ pc = "exit"
    /\ pc' = "ended"
    /\ exitCode' = "ok"
    /\ UNCHANGED << file, sock, handlerSet, mcast, rows, completing, next,
                    pending, sigRaised, doubleClose, doubleFree, lostFinal, mcidVars >>
-----------------------------------------------------------------------------
(***************************************************************************)
(* SIGINT.  Before signal() it kills the process.  Then sigint_handler    *)
(* interrupts main wherever it is: it fclose()s a non-NULL file, frees    *)
(* the socket (nl80211_cleanup) and exits with 1.                         *)
(***************************************************************************)
sigint_handler ==
    /\ "sigint" \in Faults
    /\ ~sigRaised
    /\ pc # "ended"
    /\ sigRaised' = TRUE
    /\ pc' = "ended"
    /\ IF handlerSet
       THEN /\ exitCode' = "fail"
            /\ file' = "none"
            /\ doubleClose' = (doubleClose \/ file = "closed")
            /\ sock' = "freed"
            /\ doubleFree' = (doubleFree \/ sock = "freed")
       ELSE /\ exitCode' = "killed"
            /\ UNCHANGED << file, sock, doubleClose, doubleFree >>
    /\ UNCHANGED << handlerSet, mcast, rows, completing, next, pending,
                    lostFinal, mcidVars >>

(***************************************************************************)
(* The driver emits the next report of an interface's series; the kernel *)
(* queues it on the socket only if the socket has joined the group.       *)
(***************************************************************************)
DriverReport(i) ==
    /\ next[i] >= 0
    /\ next' = [next EXCEPT ![i] = @ - 1]
    /\ pending' = IF mcast = Vendor.id /\ pc # "ended"
                  THEN Append(pending, [iface |-> i, rem |-> next[i]])
                  ELSE pending
    /\ UNCHANGED << pc, file, sock, handlerSet, mcast, rows, completing,
                    exitCode, sigRaised, doubleClose, doubleFree, lostFinal, mcidVars >>
-----------------------------------------------------------------------------
Init ==
    /\ pc = "init"
    /\ file = "none"
    /\ sock = "none"
    /\ handlerSet = FALSE
    /\ mcast = NotJoined
    /\ ret = 0
    /\ grpId = 0
    /\ answer = << >>
    /\ nread = 0
    /\ rows = << >>
    /\ completing = FALSE
    /\ exitCode = "running"
    /\ next = [i \in Ifaces |-> NumCaptures - 1]
    /\ pending = << >>
    /\ sigRaised = FALSE
    /\ doubleClose = FALSE
    /\ doubleFree = FALSE
    /\ lostFinal = FALSE

Next ==
    \/ Start \/ McidStart \/ McidRecv \/ Prepare \/ Receive
    \/ CloseFile \/ ClearFile \/ nl80211_cleanup \/ Exit
    \/ sigint_handler
    \/ \E i \in Ifaces : DriverReport(i)

(***************************************************************************)
(* The logger is one thread: each of its steps, once enabled, is taken,   *)
(* and a message queued on the socket is read by the blocking receive     *)
(* loop.  The driver and SIGINT get no fairness.                          *)
(***************************************************************************)
Fairness ==
    /\ WF_vars(Start) /\ WF_vars(McidStart) /\ WF_vars(McidRecv) /\ WF_vars(Prepare)
    /\ WF_vars(Receive)
    /\ WF_vars(CloseFile) /\ WF_vars(ClearFile) /\ WF_vars(nl80211_cleanup) /\ WF_vars(Exit)

Spec == Init /\ [][Next]_vars /\ Fairness
-----------------------------------------------------------------------------
TypeOK ==
    /\ pc \in {"init", "prepare", "recv", "close", "clear", "free", "exit", "ended"}
    /\ file \in {"none", "open", "closed"}
    /\ sock \in {"none", "open", "freed"}
    /\ rows \in Seq(Report)
    /\ pending \in Seq(Report)
    /\ next \in [Ifaces -> -1 .. NumCaptures - 1]
    /\ exitCode \in {"running", "ok", "fail", "killed"}
    /\ mcast \in {NotJoined, Config.id, Vendor.id}
    /\ nread \in 0 .. Len(answer)
    /\ {handlerSet, completing, sigRaised, doubleClose, doubleFree, lostFinal} \subseteq BOOLEAN

(***************************************************************************)
(* Neither the FILE nor the netlink socket is released twice: the code    *)
(* that fclose()s file and frees state.nl_sock in the handler's exit path *)
(* and at the end of main is not interrupted by sigint_handler doing the  *)
(* same.                                                                   *)
(***************************************************************************)
NoDoubleRelease == ~doubleClose /\ ~doubleFree

\* The controller listed the vendor group in its answer.
VendorOffered ==
    \E k \in DOMAIN answer :
        answer[k].kind = "family" /\ \E j \in DOMAIN answer[k].groups : answer[k].groups[j] = Vendor

(***************************************************************************)
(* Once in the receive loop, the socket is a member of the vendor group  *)
(* exactly when the controller's answer listed it: nl_get_multicast_id's *)
(* receive loop, family_handler's name match and the ack and error       *)
(* callbacks together pick the group nl80211_prepare_listen_events joins. *)
(***************************************************************************)
JoinsOfferedVendorGroup ==
    pc = "recv" => (mcast = Vendor.id <=> VendorOffered)

(***************************************************************************)
(* The multicast id lookup ends: once nl80211_init has succeeded, the     *)
(* logger reaches its receive loop or exits.  nl_get_multicast_id loops   *)
(* while ret > 0, and only the ack and error callbacks lower ret.         *)
(***************************************************************************)
ListeningEventually == pc = "prepare" ~> pc \in {"recv", "ended"}

(***************************************************************************)
(* A capture that the socket receives in full ends the logger: once the   *)
(* report with captures_rem = 0 of wlan<band_id> is queued, the receive   *)
(* loop reaches it past the reports of other interfaces, and              *)
(* mxl_vendor_event_handler's exit path (or SIGINT) ends the process.     *)
(* The one exception is fopen failing on that very report: the handler    *)
(* returns without a row and the tool then waits for ever.                *)
(***************************************************************************)
CaptureEnds ==
    (\E k \in DOMAIN pending : pending[k] = FinalReport) ~> (pc = "ended" \/ lostFinal)
=============================================================================
