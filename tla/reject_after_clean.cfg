\* A late getBlockNumber answer or header after clean() rejects the promise.
CONSTANTS
    InitHeight = 1
    MaxHeight = 3
    Thresholds = {2}
    MaxPollers = 2
    MaxInFlight = 1
SPECIFICATION Spec
PROPERTY NoRejectAfterClean
CHECK_DEADLOCK FALSE
