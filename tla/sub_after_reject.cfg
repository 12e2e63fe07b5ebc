\* A rejection by the 'data' handler leaves the subscription open.
CONSTANTS
    InitHeight = 1
    MaxHeight = 3
    Thresholds = {2}
    MaxPollers = 2
    MaxInFlight = 1
SPECIFICATION Spec
INVARIANT ReleasedOnReject
CHECK_DEADLOCK FALSE
