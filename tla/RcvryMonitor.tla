---------------------------- MODULE RcvryMonitor ----------------------------
(***************************************************************************)
(* The recovery monitor (src/tools/rcvry_monitor/rcvry_monitor.c): it     *)
(* waits for the driver's UNRECOVERABLE_ERROR event and runs the complete *)
(* recovery script for it, until SIGTERM.  Both builds are modelled, and *)
(* a behaviour runs one of them (the variable dwpald):                     *)
(*                                                                         *)
(*  - without the dwpal daemon, _listener loops: it                       *)
(*    popen()s dwpal_cli, which exits once it has seen the event, blocks  *)
(*    in pclose() until then, runs the script the same way, and tests     *)
(*    _is_terminated after each round;                                     *)
(*  - with it, _listener connects to dwpald, attaches the event handler   *)
(*    (retrying), and blocks in dwpald_start_blocked_listen, which calls  *)
(*    unrecoverable_error_event_handler for each event and returns once   *)
(*    rcvry_monitor_dwpald_term_cond_get() is TRUE.                       *)
(*                                                                         *)
(* A blocking pclose() is not ended by a signal: glibc and musl retry     *)
(* waitpid() on EINTR, so the monitor leaves pclose() only when the child *)
(* exits.  The child gets SIGTERM too only when it is sent to the process *)
(* group (SigToGroup); then dwpal_cli and the script die of it.           *)
(***************************************************************************)
EXTENDS Integers

CONSTANTS
    Builds,         \* values of CONFIG_USE_DWPAL_DAEMON checked, as booleans
    SigToGroup,     \* SIGTERM is sent to the process group, not the pid
    MaxEvents       \* driver events raised during a behaviour

ASSUME /\ Builds \subseteq BOOLEAN /\ SigToGroup \in BOOLEAN
       /\ MaxEvents \in Nat

\* The initial num_attach_attempts of the dwpald _listener.
NumAttachAttempts == 10

VARIABLES
    dwpald,         \* the build: CONFIG_USE_DWPAL_DAEMON
    \* where the monitor is: "main" (before _set_sigaction), "listener"
    \* (dwpald _listener entered), "attach" (dwpald_nl_drv_attach), "blocked"
    \* (in dwpald_start_blocked_listen), "handling" (the event handler runs),
    \* "spawn" (top of the loop), "listening" (in pclose of dwpal_cli),
    \* "recovering" (in pclose of the recovery script), "done" (main
    \* returned) or "killed" (SIGTERM's default action)
    pc,
    child,          \* the popen()ed child: "none", "running", "exit0",
                    \* "exitErr" (a nonzero exit status) or "killed"
    terminate,      \* _is_terminated, or g_rm_config.terminate
    handlerSet,     \* _set_sigaction has installed _sig_handler
    attempts,       \* num_attach_attempts
    evValid,        \* the delivered event has the expected data length
    \* environment and history
    events,         \* driver error events raised
    caught,         \* events delivered to the monitor with valid data
    recoveries,     \* runs of _call_complete_recovery
    sigRaised,      \* SIGTERM was sent
    sigWhileWaiting \* SIGTERM arrived while the monitor waited for a child
                    \* or for dwpald

vars == << dwpald, pc, child, terminate, handlerSet, attempts, evValid,
           events, caught, recoveries, sigRaised, sigWhileWaiting >>

Ended == pc \in {"done", "killed"}

Waiting == pc \in {"listening", "recovering", "blocked"}

Finished(st) == st \in {"exit0", "exitErr", "killed"}
-----------------------------------------------------------------------------
(***************************************************************************)
(* main: help, _mtlk_osdep_log_init or _set_sigaction failing ends it;    *)
(* otherwise SIGTERM is handled from now on and _listener runs.            *)
(***************************************************************************)
Main ==
    /\ pc = "main"
    /\ \/ /\ pc' = "done"
          /\ UNCHANGED handlerSet
       \/ /\ handlerSet' = TRUE
          /\ pc' = IF dwpald THEN "listener" ELSE "spawn"
    /\ UNCHANGED << dwpald, child, terminate, attempts, evValid, events, caught,
                    recoveries, sigRaised, sigWhileWaiting >>

(***************************************************************************)
(* _call_complete_recovery, its popen(): it fails (MTLK_ERR_FILEOP), or   *)
(* the script runs and the monitor blocks in pclose.                      *)
(***************************************************************************)
call_complete_recovery(failed) ==
    /\ recoveries' = recoveries + 1
    /\ \/ /\ pc' = failed
          /\ child' = "none"
       \/ /\ pc' = "recovering"
          /\ child' = "running"
-----------------------------------------------------------------------------
(* The build without dwpald.                                               *)

\* The loop body's popen() of dwpal_cli; a NULL pipe ends _listener.
Spawn ==
    /\ pc = "spawn"
    /\ \/ /\ pc' = "done"
          /\ UNCHANGED child
       \/ /\ pc' = "listening"
          /\ child' = "running"
    /\ UNCHANGED << dwpald, terminate, handlerSet, attempts, evValid, events, caught,
                    recoveries, sigRaised, sigWhileWaiting >>

\* Loop end: "Exit on received signal".
LoopEnd == IF terminate THEN "done" ELSE "spawn"

\* Mutation: the exit status test inverted.
ListenerReturnsInverted ==
    /\ pc = "listening"
    /\ Finished(child)
    /\ IF child = "exitErr"
       THEN call_complete_recovery("done")
       ELSE /\ pc' = LoopEnd
            /\ child' = "none"
            /\ UNCHANGED recoveries
    /\ UNCHANGED << dwpald, terminate, handlerSet, attempts, evValid, events, caught,
                    sigRaised, sigWhileWaiting >>

\* Mutation: the loop goes round without testing _is_terminated.
ListenerReturnsNoTermCheck ==
    /\ pc = "listening"
    /\ Finished(child)
    /\ IF child = "exit0"
       THEN call_complete_recovery("done")
       ELSE /\ pc' = "spawn"
            /\ child' = "none"
            /\ UNCHANGED recoveries
    /\ UNCHANGED << dwpald, terminate, handlerSet, attempts, evValid, events, caught,
                    sigRaised, sigWhileWaiting >>

(***************************************************************************)
(* pclose of dwpal_cli returns.  Exit status 0: the event was seen, so    *)
(* the recovery script runs; a nonzero status is MTLK_ERR_NOT_HANDLED and *)
(* death by a signal leaves res alone; both go round the loop unless      *)
(* _is_terminated.                                                         *)
(***************************************************************************)
ListenerReturns ==
    /\ pc = "listening"
    /\ Finished(child)
    /\ IF child = "exit0"
       THEN call_complete_recovery("done")
       ELSE /\ pc' = LoopEnd
            /\ child' = "none"
            /\ UNCHANGED recoveries
    /\ UNCHANGED << dwpald, terminate, handlerSet, attempts, evValid, events, caught,
                    sigRaised, sigWhileWaiting >>
-----------------------------------------------------------------------------
(* The build with dwpald.                                                  *)

\* _listener clears the termination flag, then dwpald_connect.
ListenerStart ==
    /\ pc = "listener"
    /\ terminate' = FALSE
    /\ pc' \in {"done", "attach"}
    /\ attempts' = NumAttachAttempts
    /\ UNCHANGED << dwpald, child, handlerSet, evValid, events, caught, recoveries,
                    sigRaised, sigWhileWaiting >>

\* Mutation: the retry test as num_attach_attempts-- >= 0.
AttachOffByOne ==
    /\ pc = "attach"
    /\ \/ pc' = "blocked" /\ UNCHANGED attempts
       \/ /\ attempts' = attempts - 1
          /\ pc' = IF attempts >= 0 THEN "attach" ELSE "done"
    /\ UNCHANGED << dwpald, child, terminate, handlerSet, evValid, events, caught,
                    recoveries, sigRaised, sigWhileWaiting >>

(***************************************************************************)
(* dwpald_nl_drv_attach succeeds, or fails: while num_attach_attempts-- > *)
(* 0 it sleeps and tries again, then disconnects and returns.              *)
(***************************************************************************)
Attach ==
    /\ pc = "attach"
    /\ \/ pc' = "blocked" /\ UNCHANGED attempts
       \/ /\ attempts' = attempts - 1
          /\ pc' = IF attempts > 0 THEN "attach" ELSE "done"
    /\ UNCHANGED << dwpald, child, terminate, handlerSet, evValid, events, caught,
                    recoveries, sigRaised, sigWhileWaiting >>

\* dwpald_start_blocked_listen returns once the termination condition holds.
BlockedListenReturns ==
    /\ pc = "blocked"
    /\ terminate
    /\ pc' = "done"
    /\ UNCHANGED << dwpald, child, terminate, handlerSet, attempts, evValid, events,
                    caught, recoveries, sigRaised, sigWhileWaiting >>

\* dwpald_start_blocked_listen fails (DWPALD_ERROR); _listener disconnects.
BlockedListenError ==
    /\ pc = "blocked"
    /\ pc' = "done"
    /\ UNCHANGED << dwpald, child, terminate, handlerSet, attempts, evValid, events,
                    caught, recoveries, sigRaised, sigWhileWaiting >>

(***************************************************************************)
(* The event handler: an event whose data is not one                      *)
(* intel_vendor_unrecoverable_error_info is refused (MTLK_ERR_VALUE);     *)
(* otherwise the recovery script runs.  Either way the listen goes on.    *)
(* dwpald delivers only the event id the handler was attached for, so the *)
(* id test never fails.                                                    *)
(***************************************************************************)
unrecoverable_error_event_handler ==
    /\ pc = "handling"
    /\ IF evValid
       THEN call_complete_recovery("blocked")
       ELSE pc' = "blocked" /\ UNCHANGED << child, recoveries >>
    /\ UNCHANGED << dwpald, terminate, handlerSet, attempts, evValid, events, caught,
                    sigRaised, sigWhileWaiting >>
-----------------------------------------------------------------------------
(***************************************************************************)
(* pclose of the recovery script returns.  Exit status 0 is MTLK_ERR_OK;  *)
(* anything else fails _call_complete_recovery.  The loop without dwpald  *)
(* then ends (goto end) or tests _is_terminated; with dwpald the handler  *)
(* returns into the listen.                                                *)
(***************************************************************************)
RecoveryReturns ==
    /\ pc = "recovering"
    /\ Finished(child)
    /\ child' = "none"
    /\ pc' = CASE dwpald        -> "blocked"
               [] child = "exit0"  -> LoopEnd
               [] OTHER            -> "done"
    /\ UNCHANGED << dwpald, terminate, handlerSet, attempts, evValid, events, caught,
                    recoveries, sigRaised, sigWhileWaiting >>
-----------------------------------------------------------------------------
(* The environment.                                                        *)

\* The recovery script ends by itself.
ScriptExits ==
    /\ pc = "recovering"
    /\ child = "running"
    /\ child' \in {"exit0", "exitErr"}
    /\ UNCHANGED << dwpald, pc, terminate, handlerSet, attempts, evValid, events,
                    caught, recoveries, sigRaised, sigWhileWaiting >>

\* dwpal_cli fails (for instance, it cannot reach the driver).
ListenerFails ==
    /\ pc = "listening"
    /\ child = "running"
    /\ child' = "exitErr"
    /\ UNCHANGED << dwpald, pc, terminate, handlerSet, attempts, evValid, events,
                    caught, recoveries, sigRaised, sigWhileWaiting >>

(***************************************************************************)
(* The driver raises UNRECOVERABLE_ERROR.  A running dwpal_cli sees it    *)
(* and exits 0; dwpald calls the handler if the monitor is listening.     *)
(* At any other moment no one listens and the event is lost.              *)
(***************************************************************************)
DriverEvent(valid) ==
    /\ events < MaxEvents
    /\ events' = events + 1
    /\ \/ /\ ~dwpald /\ pc = "listening" /\ child = "running"
          /\ child' = "exit0"
          /\ caught' = caught + 1
          /\ UNCHANGED << pc, evValid >>
       \/ /\ dwpald /\ pc = "blocked"
          /\ pc' = "handling"
          /\ evValid' = valid
          /\ caught' = caught + (IF valid THEN 1 ELSE 0)
          /\ UNCHANGED child
       \/ /\ ~(~dwpald /\ pc = "listening" /\ child = "running")
          /\ ~(dwpald /\ pc = "blocked")
          /\ UNCHANGED << pc, child, evValid, caught >>
    /\ UNCHANGED << dwpald, terminate, handlerSet, attempts, recoveries, sigRaised,
                    sigWhileWaiting >>

(***************************************************************************)
(* SIGTERM.  Before _set_sigaction its default action kills the monitor;  *)
(* after it _sig_handler sets the termination flag.  A child running     *)
(* dwpal_cli or the script dies of it only when the group is signalled.   *)
(***************************************************************************)
SigTerm ==
    /\ ~sigRaised
    /\ ~Ended
    /\ sigRaised' = TRUE
    /\ sigWhileWaiting' = Waiting
    /\ IF handlerSet
       THEN /\ terminate' = TRUE
            /\ child' = IF SigToGroup /\ child = "running" THEN "killed" ELSE child
            /\ UNCHANGED pc
       ELSE /\ pc' = "killed"
            /\ UNCHANGED << terminate, child >>
    /\ UNCHANGED << dwpald, handlerSet, attempts, evValid, events, caught, recoveries >>
-----------------------------------------------------------------------------
Init ==
    /\ dwpald \in Builds
    /\ pc = "main"
    /\ child = "none"
    /\ terminate = FALSE
    /\ handlerSet = FALSE
    /\ attempts = NumAttachAttempts
    /\ evValid = TRUE
    /\ events = 0
    /\ caught = 0
    /\ recoveries = 0
    /\ sigRaised = FALSE
    /\ sigWhileWaiting = FALSE

Monitor ==
    \/ Main \/ Spawn \/ ListenerReturns \/ ListenerStart \/ Attach
    \/ BlockedListenReturns \/ BlockedListenError
    \/ unrecoverable_error_event_handler \/ RecoveryReturns

Environment ==
    \/ ScriptExits \/ ListenerFails \/ SigTerm
    \/ \E valid \in BOOLEAN : DriverEvent(valid)

Next == Monitor \/ Environment

(***************************************************************************)
(* The monitor is one thread and takes its steps; the script ends; dwpald *)
(* returns from the blocked listen once the condition holds.  Nothing     *)
(* forces the driver to raise an event, dwpal_cli or dwpald to fail, or   *)
(* SIGTERM to come.                                                        *)
(***************************************************************************)
Fairness ==
    /\ WF_vars(Main) /\ WF_vars(Spawn) /\ WF_vars(ListenerReturns)
    /\ WF_vars(ListenerStart) /\ WF_vars(Attach) /\ WF_vars(BlockedListenReturns)
    /\ WF_vars(unrecoverable_error_event_handler) /\ WF_vars(RecoveryReturns)
    /\ WF_vars(ScriptExits)

Spec == Init /\ [][Next]_vars /\ Fairness
-----------------------------------------------------------------------------
TypeOK ==
    /\ dwpald \in BOOLEAN
    /\ pc \in {"main", "listener", "attach", "blocked", "handling", "spawn",
               "listening", "recovering", "done", "killed"}
    /\ child \in {"none", "running", "exit0", "exitErr", "killed"}
    /\ {terminate, handlerSet, evValid, sigRaised, sigWhileWaiting} \subseteq BOOLEAN
    /\ attempts \in -1 .. NumAttachAttempts
    /\ {events, caught, recoveries} \subseteq 0 .. MaxEvents

(***************************************************************************)
(* Both builds implement RecoveryService: the events the monitor is given *)
(* (dwpal_cli exiting 0 for one, or dwpald calling the handler with valid *)
(* data) are answered one at a time by a run of _call_complete_recovery,  *)
(* no run happens without one, nothing happens after the monitor ended,  *)
(* and a given event is answered unless the monitor ends first.           *)
(***************************************************************************)
RS == INSTANCE RecoveryService WITH ended <- Ended

RecoveryServiceSpec == RS!Spec

(***************************************************************************)
(* SIGTERM sent while the monitor waits for dwpal_cli, the recovery       *)
(* script or dwpald ends it (_sig_handler, the _is_terminated test at the *)
(* end of the loop, rcvry_monitor_dwpald_term_cond_get).                  *)
(***************************************************************************)
SignalWhileWaitingHonoured == sigWhileWaiting ~> Ended

(***************************************************************************)
(* SIGTERM, whenever it comes, ends the monitor.                          *)
(***************************************************************************)
TerminationHonoured == sigRaised ~> Ended
=============================================================================
