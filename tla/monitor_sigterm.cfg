\* Without dwpald, SIGTERM sent to the monitor pid alone.
CONSTANTS
    Builds = {FALSE}
    SigToGroup = FALSE
    MaxEvents = 2
SPECIFICATION Spec
PROPERTY TerminationHonoured
CHECK_DEADLOCK FALSE
