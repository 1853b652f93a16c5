--------------------------- MODULE RecoveryService ---------------------------
(***************************************************************************)
(* What the recovery monitor promises, whatever the build: the driver's    *)
(* unrecoverable-error events it is given are answered one at a time by a *)
(* run of the complete recovery script; no run happens without an event;  *)
(* once the monitor has ended nothing more happens.  Events raised while  *)
(* no one listens are not given to it and do not appear here.             *)
(***************************************************************************)
EXTENDS Naturals

CONSTANT MaxEvents    \* events given to the monitor during a behaviour

VARIABLES
    caught,           \* events given to the monitor
    recoveries,       \* runs of the recovery script started
    ended             \* the monitor has exited

vars == << caught, recoveries, ended >>

Init ==
    /\ caught = 0
    /\ recoveries = 0
    /\ ended = FALSE

\* An event reaches the monitor; it listens only once the last is answered.
Deliver ==
    /\ ~ended
    /\ recoveries = caught
    /\ caught < MaxEvents
    /\ caught' = caught + 1
    /\ UNCHANGED << recoveries, ended >>

\* The recovery is run for the pending event; a script that cannot be
\* started may end the monitor at once.
Recover ==
    /\ ~ended
    /\ recoveries < caught
    /\ recoveries' = recoveries + 1
    /\ ended' \in BOOLEAN
    /\ UNCHANGED caught

\* The monitor exits (SIGTERM, a failure, or its loop ending).
End ==
    /\ ~ended
    /\ ended' = TRUE
    /\ UNCHANGED << caught, recoveries >>

Next == Deliver \/ Recover \/ End

\* A pending event is answered unless the monitor ends first.
Spec == Init /\ [][Next]_vars /\ WF_vars(Recover)

=============================================================================
