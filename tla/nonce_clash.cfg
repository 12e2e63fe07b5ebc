\* Two test files in parallel workers, each signing from the first entry with signTxAndSend.
CONSTANTS
    Workers = {w1, w2}
    ListLens = {2}
    WalletsOnWorker = 3
    MaxHeld = 1
    MaxNonce = 2
    MaxKept = 0
SPECIFICATION Spec
INVARIANT NoNonceClash
