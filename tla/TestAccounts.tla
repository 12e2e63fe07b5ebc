----------------------------- MODULE TestAccounts -----------------------------
(***************************************************************************)
(* The account helpers of the system tests (scripts/system_tests_utils.ts):*)
(* createTempAccount hands out pre-funded accounts of accounts.json in     *)
(* turn, createNewAccount creates, imports, unlocks and refills fresh      *)
(* ones, getSystemTestAccountsWithKeys chains three createTempAccount      *)
(* calls, createLocalAccount refills a local wallet account from a temp    *)
(* account, and signTxAndSendEIP1559/EIP2930 sign a transaction from an    *)
(* account and send it.  An account of createAccountProvider signs with   *)
(* the nonce the node reports and the test sends the result when it likes. *)
(*                                                                         *)
(* Every Jest test file gets a fresh instance of the module (currentIndex  *)
(* = 0, mainAcc unset).  Test files run one after another inside a worker  *)
(* and in parallel across workers; all workers read the same accounts.json *)
(* and send to the same node.  Every RPC call may fail, which rejects the  *)
(* whole helper call.  An account's nonce lives on the node: a signed      *)
(* transaction carries the nonce read when it was signed, while the node   *)
(* assigns the nonce of a sendTransaction from an unlocked account itself. *)
(***************************************************************************)
EXTENDS Naturals, Sequences, FiniteSets
LOCAL Fun == INSTANCE Functions

CONSTANTS
    Workers,          \* Jest worker processes
    ListLens,         \* possible lengths of accounts.json
    WalletsOnWorker,  \* walletsOnWorker (20 in the code, scaled down)
    MaxHeld,          \* createTempAccount calls per test file
    MaxNonce,         \* transactions per account
    MaxKept           \* transactions a test signs and keeps unsent

ASSUME WalletsOnWorker \in Nat \ {0} /\ MaxHeld \in Nat \ {0}
ASSUME ListLens \subseteq Nat \ {0} /\ MaxNonce \in Nat /\ MaxKept \in Nat

VARIABLES
    listLen,       \* tempAccountList.length (fixed by accounts.json)
    currentIndex,  \* per worker: the module-level index
    mainAcc,       \* per worker: mainAcc has been fetched
    pc,            \* per worker: the step its running helper awaits
    pending,       \* per worker: the list entry of the running call, or 0
    config,        \* per worker: the config of the running createNewAccount
    todo,          \* per worker: calls getSystemTestAccountsWithKeys still makes
    local,         \* per worker: the running call is from createLocalAccount
    held,          \* per worker: list entries handed to the running test file
    signed,        \* per worker: the signed transaction awaiting its send
    kept,          \* per worker: transactions the test signed and keeps
    nonce,         \* per list entry: the node's next nonce for the account
    nonceClash     \* the node refused a signed transaction for its nonce

vars == <<listLen, currentIndex, mainAcc, pc, pending, config, todo, local,
          held, signed, kept, nonce, nonceClash>>

Entries == 1..(CHOOSE m \in ListLens : \A l \in ListLens : l <= m)

\* Explicit configs of createTempAccount: unlock and refill default to true;
\* a private key or a password also leads to createNewAccount.
Configs == {c \in [unlock : BOOLEAN, refill : BOOLEAN, keyOrPassword : BOOLEAN] :
              ~c.unlock \/ ~c.refill \/ c.keyOrPassword}

\* The config createTempAccount passes for a list entry.
TempConfig == [unlock |-> TRUE, refill |-> FALSE, keyOrPassword |-> TRUE]

Steps == {"idle", "import", "unlock", "getAccounts", "refill", "again",
          "localRefill", "send"}

NoTx == [acct |-> 0, nonce |-> 0]

Init ==
    /\ listLen \in ListLens
    /\ currentIndex = [w \in Workers |-> 0]
    /\ mainAcc = [w \in Workers |-> FALSE]
    /\ pc = [w \in Workers |-> "idle"]
    /\ pending = [w \in Workers |-> 0]
    /\ config = [w \in Workers |-> TempConfig]
    /\ todo = [w \in Workers |-> 0]
    /\ local = [w \in Workers |-> FALSE]
    /\ held = [w \in Workers |-> << >>]
    /\ signed = [w \in Workers |-> NoTx]
    /\ kept = [w \in Workers |-> {}]
    /\ nonce = [a \in Entries |-> 0]
    /\ nonceClash = FALSE

\* The refill first fetches mainAcc unless this module instance has it.
RefillStep(w) == IF mainAcc[w] THEN "refill" ELSE "getAccounts"

\* The first step of createNewAccount(cfg) after creating the account: the
\* import (unless doNotImport), the unlock, the refill, or the return.
FirstStep(w, c, doNotImport) ==
    CASE c.unlock /\ ~doNotImport -> "import"
      [] c.unlock                 -> "unlock"
      [] c.refill                 -> RefillStep(w)
      [] OTHER                    -> "idle"

\* The step after a successful unlock: refill if asked, else return.
AfterUnlock(w) == IF config[w].refill THEN RefillStep(w) ELSE "idle"

(***************************************************************************)
(* createTempAccount and its callers.                                      *)
(***************************************************************************)

TakeEntryWrapLate(w) ==
    LET i == IF currentIndex[w] > WalletsOnWorker \/ currentIndex[w] >= listLen
             THEN 0 ELSE currentIndex[w]
    IN /\ currentIndex' = [currentIndex EXCEPT ![w] = i]
       /\ pending' = [pending EXCEPT ![w] = i + 1]
       /\ config' = [config EXCEPT ![w] = TempConfig]
       /\ pc' = [pc EXCEPT ![w] = FirstStep(w, TempConfig, TRUE)]

\* createTempAccount() up to its await: wrap the index past walletsOnWorker
\* or past the end of the list, take that entry, and unlock it without
\* importing it.
TakeEntry(w) ==
    LET i == IF currentIndex[w] >= WalletsOnWorker \/ currentIndex[w] >= listLen
             THEN 0 ELSE currentIndex[w]
    IN /\ currentIndex' = [currentIndex EXCEPT ![w] = i]
       /\ pending' = [pending EXCEPT ![w] = i + 1]
       /\ config' = [config EXCEPT ![w] = TempConfig]
       /\ pc' = [pc EXCEPT ![w] = FirstStep(w, TempConfig, TRUE)]

\* A test calls createTempAccount().
Call(w) ==
    /\ pc[w] = "idle" /\ Len(held[w]) < MaxHeld
    /\ TakeEntry(w)
    /\ UNCHANGED <<listLen, kept, mainAcc, todo, local, held, signed, nonce,
                   nonceClash>>

\* getSystemTestAccountsWithKeys: the first of three chained calls.
CallWithKeys(w) ==
    /\ pc[w] = "idle" /\ Len(held[w]) + 3 <= MaxHeld
    /\ TakeEntry(w)
    /\ todo' = [todo EXCEPT ![w] = 2]
    /\ UNCHANGED <<listLen, kept, mainAcc, local, held, signed, nonce, nonceClash>>

\* getSystemTestAccountsWithKeys resumes and makes its next call.
CallAgain(w) ==
    /\ pc[w] = "again"
    /\ TakeEntry(w)
    /\ todo' = [todo EXCEPT ![w] = @ - 1]
    /\ UNCHANGED <<listLen, kept, mainAcc, local, held, signed, nonce, nonceClash>>

\* createLocalAccount: a temp account will fund the new local account.
CreateLocalAccount(w) ==
    /\ pc[w] = "idle" /\ Len(held[w]) < MaxHeld
    /\ TakeEntry(w)
    /\ local' = [local EXCEPT ![w] = TRUE]
    /\ UNCHANGED <<listLen, kept, mainAcc, todo, held, signed, nonce, nonceClash>>

\* With an explicit config the call is createNewAccount with a fresh
\* account.
CallWithConfig(w, c) ==
    /\ pc[w] = "idle"
    /\ config' = [config EXCEPT ![w] = c]
    /\ pc' = [pc EXCEPT ![w] = FirstStep(w, c, FALSE)]
    /\ UNCHANGED <<listLen, kept, currentIndex, mainAcc, pending, todo, local, held,
                   signed, nonce, nonceClash>>

(***************************************************************************)
(* The awaited RPC calls.                                                  *)
(***************************************************************************)

\* Any awaited call rejects: the error propagates out of every helper on
\* the stack before currentIndex is incremented.
RpcFail(w) ==
    /\ pc[w] \notin {"idle", "again"}
    /\ pc' = [pc EXCEPT ![w] = "idle"]
    /\ pending' = [pending EXCEPT ![w] = 0]
    /\ todo' = [todo EXCEPT ![w] = 0]
    /\ local' = [local EXCEPT ![w] = FALSE]
    /\ signed' = [signed EXCEPT ![w] = NoTx]
    /\ UNCHANGED <<listLen, kept, currentIndex, mainAcc, config, held, nonce, nonceClash>>

\* importRawKey resolves.
ImportOk(w) ==
    /\ pc[w] = "import"
    /\ pc' = [pc EXCEPT ![w] = "unlock"]
    /\ UNCHANGED <<listLen, kept, currentIndex, mainAcc, pending, config, todo,
                   local, held, signed, nonce, nonceClash>>

\* The step after createNewAccount returns to createTempAccount.
Continue(w) ==
    CASE todo[w] > 0 -> "again"
      [] local[w]    -> "localRefill"
      [] OTHER       -> "idle"

ReturnNoIncrement(w) ==
    /\ IF pending[w] # 0
         THEN /\ held' = [held EXCEPT ![w] = Append(@, pending[w])]
              /\ pc' = [pc EXCEPT ![w] = Continue(w)]
              /\ UNCHANGED currentIndex
         ELSE /\ pc' = [pc EXCEPT ![w] = "idle"]
              /\ UNCHANGED <<currentIndex, held>>
    /\ pending' = [pending EXCEPT ![w] = 0]

\* createNewAccount returns: for a list entry createTempAccount increments
\* currentIndex and hands the entry to its caller, which goes on.
Return(w) ==
    /\ IF pending[w] # 0
         THEN /\ currentIndex' = [currentIndex EXCEPT ![w] = @ + 1]
              /\ held' = [held EXCEPT ![w] = Append(@, pending[w])]
              /\ pc' = [pc EXCEPT ![w] = Continue(w)]
         ELSE /\ pc' = [pc EXCEPT ![w] = "idle"]
              /\ UNCHANGED <<currentIndex, held>>
    /\ pending' = [pending EXCEPT ![w] = 0]

\* unlockAccount resolves.
UnlockOk(w) ==
    /\ pc[w] = "unlock"
    /\ IF AfterUnlock(w) = "idle"
         THEN Return(w)
         ELSE /\ pc' = [pc EXCEPT ![w] = AfterUnlock(w)]
              /\ UNCHANGED <<currentIndex, held, pending>>
    /\ UNCHANGED <<listLen, kept, mainAcc, config, todo, local, signed, nonce, nonceClash>>

\* getAccounts resolves: mainAcc is its first account.
GetAccountsOk(w) ==
    /\ pc[w] = "getAccounts"
    /\ mainAcc' = [mainAcc EXCEPT ![w] = TRUE]
    /\ pc' = [pc EXCEPT ![w] = "refill"]
    /\ UNCHANGED <<listLen, kept, currentIndex, pending, config, todo, local, held,
                   signed, nonce, nonceClash>>

\* refillAccount from mainAcc resolves (mainAcc is no list entry).
RefillOk(w) ==
    /\ pc[w] = "refill"
    /\ Return(w)
    /\ UNCHANGED <<listLen, kept, mainAcc, config, todo, local, signed, nonce, nonceClash>>

\* createLocalAccount: refillAccount from the temp account just handed out
\* resolves; the node assigned the nonce of this sendTransaction.
LocalRefillOk(w) ==
    /\ pc[w] = "localRefill"
    /\ LET a == held[w][Len(held[w])]
       IN /\ nonce[a] < MaxNonce
          /\ nonce' = [nonce EXCEPT ![a] = @ + 1]
    /\ pc' = [pc EXCEPT ![w] = "idle"]
    /\ local' = [local EXCEPT ![w] = FALSE]
    /\ UNCHANGED <<listLen, kept, currentIndex, mainAcc, pending, config, todo, held,
                   signed, nonceClash>>

\* signTxAndSendEIP1559/EIP2930 from an account the test holds: signing
\* fills in the nonce the node reports now.
SignTx(w, a) ==
    /\ pc[w] = "idle"
    /\ a \in Fun!Range(held[w]) /\ nonce[a] < MaxNonce
    /\ signed' = [signed EXCEPT ![w] = [acct |-> a, nonce |-> nonce[a]]]
    /\ pc' = [pc EXCEPT ![w] = "send"]
    /\ UNCHANGED <<listLen, kept, currentIndex, mainAcc, pending, config, todo,
                   local, held, nonce, nonceClash>>

\* sendSignedTransaction: the node takes the transaction if its nonce is
\* the account's next one, and refuses it otherwise.
SendSigned(w) ==
    /\ pc[w] = "send"
    /\ LET a == signed[w].acct
       IN IF signed[w].nonce = nonce[a]
            THEN nonce' = [nonce EXCEPT ![a] = @ + 1] /\ UNCHANGED nonceClash
            ELSE nonceClash' = TRUE /\ UNCHANGED nonce
    /\ signed' = [signed EXCEPT ![w] = NoTx]
    /\ pc' = [pc EXCEPT ![w] = "idle"]
    /\ UNCHANGED <<listLen, kept, currentIndex, mainAcc, pending, config, todo,
                   local, held>>

\* createAccountProvider(context): privateKeyToAccount and decrypt give the
\* account of a key the test holds, whose signTransaction awaits
\* prepareTransactionForSigning, which fills in the nonce the node reports
\* now; the test keeps the signed transaction.
ProviderSign(w, a) ==
    /\ pc[w] = "idle"
    /\ a \in Fun!Range(held[w]) /\ nonce[a] < MaxNonce
    /\ Cardinality(kept[w]) < MaxKept
    /\ kept' = [kept EXCEPT ![w] = @ \cup {[acct |-> a, nonce |-> nonce[a]]}]
    /\ UNCHANGED <<listLen, currentIndex, mainAcc, pc, pending, config, todo,
                   local, held, signed, nonce, nonceClash>>

\* The test sends a kept transaction with sendSignedTransaction.
ProviderSend(w, t) ==
    /\ pc[w] = "idle" /\ t \in kept[w]
    /\ IF t.nonce = nonce[t.acct]
         THEN nonce' = [nonce EXCEPT ![t.acct] = @ + 1] /\ UNCHANGED nonceClash
         ELSE nonceClash' = TRUE /\ UNCHANGED nonce
    /\ kept' = [kept EXCEPT ![w] = @ \ {t}]
    /\ UNCHANGED <<listLen, currentIndex, mainAcc, pc, pending, config, todo,
                   local, held, signed>>

\* The worker's test file ends and the next one loads a fresh module.
NextTestFile(w) ==
    /\ pc[w] = "idle"
    /\ currentIndex' = [currentIndex EXCEPT ![w] = 0]
    /\ mainAcc' = [mainAcc EXCEPT ![w] = FALSE]
    /\ held' = [held EXCEPT ![w] = << >>]
    /\ kept' = [kept EXCEPT ![w] = {}]
    /\ UNCHANGED <<listLen, pc, pending, config, todo, local, signed, nonce, nonceClash>>

Next ==
    \E w \in Workers :
        \/ Call(w) \/ CallWithKeys(w) \/ CallAgain(w) \/ CreateLocalAccount(w)
        \/ \E c \in Configs : CallWithConfig(w, c)
        \/ ImportOk(w) \/ UnlockOk(w) \/ GetAccountsOk(w) \/ RefillOk(w)
        \/ LocalRefillOk(w)
        \/ \E a \in Entries : SignTx(w, a)
        \/ SendSigned(w)
        \/ \E a \in Entries : ProviderSign(w, a)
        \/ \E t \in kept[w] : ProviderSend(w, t)
        \/ RpcFail(w)
        \/ NextTestFile(w)

Spec == Init /\ [][Next]_vars

-----------------------------------------------------------------------------
(* Properties.                                                             *)

TypeOK ==
    /\ listLen \in ListLens
    /\ currentIndex \in [Workers -> 0..WalletsOnWorker]
    /\ mainAcc \in [Workers -> BOOLEAN]
    /\ pc \in [Workers -> Steps]
    /\ pending \in [Workers -> 0..listLen]
    /\ config \in [Workers -> Configs \cup {TempConfig}]
    /\ todo \in [Workers -> 0..2] /\ local \in [Workers -> BOOLEAN]
    /\ \A w \in Workers : held[w] \in Seq(1..listLen) /\ Len(held[w]) <= MaxHeld
    /\ signed \in [Workers -> {NoTx} \cup [acct : Entries, nonce : 0..MaxNonce]]
    /\ \A w \in Workers : kept[w] \subseteq [acct : Entries, nonce : 0..MaxNonce]
                          /\ Cardinality(kept[w]) <= MaxKept
    /\ nonce \in [Entries -> 0..MaxNonce]
    /\ nonceClash \in BOOLEAN

\* Within one test file the list entries are handed out round-robin: the
\* first is entry 1, and each next one follows the previous, wrapping after
\* min(listLen, walletsOnWorker) entries; a call that fails half-way and is
\* retried skips no entry and repeats none.
Period == IF listLen < WalletsOnWorker THEN listLen ELSE WalletsOnWorker

RoundRobin ==
    \A w \in Workers :
        /\ Len(held[w]) > 0 => held[w][1] = 1
        /\ \A j \in 2..Len(held[w]) : held[w][j] = (held[w][j - 1] % Period) + 1

\* The node never refuses a transaction a test signed from a temp account
\* because another transaction from the same account took its nonce
\* between signing and sending.
NoNonceClash == ~nonceClash

=============================================================================
