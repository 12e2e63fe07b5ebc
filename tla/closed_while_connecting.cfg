\* Is the socket disconnected only once it is established (comment at line 118)?
SPECIFICATION Spec
INVARIANT ClosedOnlyWhenEstablished
CHECK_DEADLOCK FALSE
