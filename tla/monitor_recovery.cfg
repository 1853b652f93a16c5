\* Both builds, SIGTERM sent to the process group.
CONSTANTS
    Builds = {FALSE, TRUE}
    SigToGroup = TRUE
    MaxEvents = 2
SPECIFICATION Spec
INVARIANT TypeOK
PROPERTY RecoveryServiceSpec SignalWhileWaitingHonoured
CHECK_DEADLOCK FALSE
