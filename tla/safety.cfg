\* Safety of one session over both provider kinds, with config changes,
\* a stalling feed, repeated errors and two requests in flight per poller.
CONSTANTS
    InitHeight = 1
    MaxHeight = 4
    Thresholds = {2, 3}
    MaxPollers = 3
    MaxInFlight = 2
SPECIFICATION Spec
INVARIANT TypeOK
 
PROPERTY NoEarlyTimeout
\* A session whose resources are released, or whose chain reached
\* MaxHeight, legitimately goes idle.
CHECK_DEADLOCK FALSE
