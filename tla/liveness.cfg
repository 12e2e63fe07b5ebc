\* Eventual timeout under a healthy header feed and a fair event loop.
\* MaxHeight = InitHeight + threshold: the last block mined is exactly the
\* one that must trigger the error.
CONSTANTS
    InitHeight = 1
    MaxHeight = 4
    Thresholds = {2}
    MaxPollers = 2
    MaxInFlight = 2
SPECIFICATION ReliableFairSpec
PROPERTY EventuallyTimesOut
CHECK_DEADLOCK FALSE
