\* Two interfaces reporting, with init, membership, listen, fopen failures and SIGINT.
CONSTANTS
    Own = Own
    Other = Other
    NumCaptures = 3
    Faults = {"init", "nomcast", "listen", "fopen", "sigint"}
SPECIFICATION Spec
INVARIANT JoinsOfferedVendorGroup
PROPERTY ListeningEventually CaptureEnds
CHECK_DEADLOCK FALSE
