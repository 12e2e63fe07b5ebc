\* A feed that goes silent after its first header, without an 'error' event.
CONSTANTS
    InitHeight = 1
    MaxHeight = 4
    Thresholds = {2}
    MaxPollers = 2
    MaxInFlight = 1
SPECIFICATION FairSpec
PROPERTY EventuallyTimesOut
CHECK_DEADLOCK FALSE
