\* SIGINT against the release steps of the exit path.
CONSTANTS
    Own = Own
    Other = Other
    NumCaptures = 3
    Faults = {"sigint"}
SPECIFICATION Spec
INVARIANT NoDoubleRelease
CHECK_DEADLOCK FALSE
