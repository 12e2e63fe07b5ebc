\* Every provider URL kind, a provider that changes status at will, fair timers.
SPECIFICATION FairSpec
INVARIANT TypeOK
PROPERTY EventuallySettles
\* The helper returns and the test process stops.
CHECK_DEADLOCK FALSE
