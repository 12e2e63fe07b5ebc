\* clean() does not disarm the blockHeaderTimeout timer nor detach the handlers.
CONSTANTS
    InitHeight = 1
    MaxHeight = 3
    Thresholds = {2}
    MaxPollers = 2
    MaxInFlight = 1
SPECIFICATION Spec
INVARIANT NothingLiveAfterClean
CHECK_DEADLOCK FALSE
