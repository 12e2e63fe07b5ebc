\* One worker (the properties are per worker; workers share only nonces,
\* see nonce_clash), a list shorter and a list longer than walletsOnWorker, and
\* enough calls per test file to wrap around.
CONSTANTS
    Workers = {w1}
    ListLens = {2, 4}
    WalletsOnWorker = 3
    MaxHeld = 4
    MaxNonce = 2
    MaxKept = 2
SPECIFICATION Spec
INVARIANT TypeOK
INVARIANT RoundRobin
