---------------------------- MODULE BlockTimeout ----------------------------
(***************************************************************************)
(* The block-timeout watcher of web3-eth                                   *)
(* (packages/web3-eth/src/utils/reject_if_block_timeout.ts): one           *)
(* monitoring session started by rejectIfBlockTimeout, which captures the  *)
(* starter block number and then watches either by polling                *)
(* (resolveByPolling) or by a newHeads subscription (resolveBySubscription)*)
(* that reverts to polling on a subscription error or when no header came  *)
(* within blockHeaderTimeout.  The session's failure promise and the       *)
(* ResourceCleaner handed to the caller are modelled explicitly, together  *)
(* with the environment: the chain height, the header feed of the node,    *)
(* in-flight getBlockNumber requests and the live web3Context config.      *)
(***************************************************************************)
EXTENDS Integers, Sequences, FiniteSets

LOCAL SeqExt == INSTANCE SequencesExt

CONSTANTS
    InitHeight,   \* chain height when the session is requested
    MaxHeight,    \* bound on chain growth
    Thresholds,   \* values web3Context.transactionBlockTimeout may take
    MaxPollers,   \* bound on polling watchers started in one session
    MaxInFlight   \* bound on concurrent getBlockNumber calls of one poller

ASSUME InitHeight \in Nat \ {0} /\ MaxHeight \in Nat /\ InitHeight <= MaxHeight
ASSUME Thresholds \subseteq Nat \ {0} /\ Thresholds # {}
ASSUME MaxPollers \in Nat \ {0} /\ MaxInFlight \in Nat \ {0}

VARIABLES
    height,                  \* current block number of the node
    transactionBlockTimeout, \* web3Context.transactionBlockTimeout (live)
    supportsSubscriptions,   \* provider.supportsSubscriptions()
    phase,                   \* progress of rejectIfBlockTimeout
    starterBlockNumber,
    sub,                     \* the newHeads subscription
    stalled,                 \* the node silently stopped pushing headers
    feed,                    \* headers pushed by the node, not yet handled
    needToWatchLater,
    setupTimer,              \* the blockHeaderTimeout setTimeout
    pollers,                 \* polling watchers: interval and requests
    cleaner,                 \* what resourceCleaner.clean releases: 0 is
                             \* the subscription, k > 0 is pollers[k]
    promise,                 \* the failure promise handed to the caller
    cleaned,                 \* history: the caller has called clean()
    returnedAt               \* history: the height when the handle was returned

vars == <<height, transactionBlockTimeout, supportsSubscriptions, phase,
          starterBlockNumber, sub, stalled, feed, needToWatchLater,
          setupTimer, pollers, cleaner, promise, cleaned,
          returnedAt>>

Heights == InitHeight..MaxHeight
SubStates == {"none", "active", "removing", "removed"}
Pending == [state |-> "pending", numberOfBlocks |-> 0]

TypeOK ==
    /\ height \in Heights
    /\ transactionBlockTimeout \in Thresholds
    /\ supportsSubscriptions \in BOOLEAN
    /\ phase \in {"init", "subscribing", "returned", "failed"}
    /\ starterBlockNumber \in {0} \cup Heights
    /\ sub \in SubStates /\ stalled \in BOOLEAN
    /\ feed \subseteq Heights
    /\ needToWatchLater \in BOOLEAN
    /\ setupTimer \in {"none", "pending", "fired"}
    /\ Len(pollers) <= MaxPollers
    /\ \A k \in DOMAIN pollers : pollers[k].running \in BOOLEAN
                                /\ Len(pollers[k].inflight) <= MaxInFlight
    /\ cleaner \in {0} \cup DOMAIN pollers
    /\ promise \in [state : {"pending", "rejected"}, numberOfBlocks : Int]
    /\ cleaned \in BOOLEAN
    /\ returnedAt \in {0} \cup Heights

-----------------------------------------------------------------------------
(* Helpers.                                                                *)

\* The node pushes new headers to a subscription it still serves.
Subscribed == sub \in {"active", "removing"} /\ ~stalled

\* A fresh polling watcher: setInterval armed, no request in flight.
NewPoller == [running |-> TRUE, inflight |-> << >>]

\* reject(...) of the failure promise; later calls have no effect.
Reject(nob) ==
    promise' = IF promise.state = "pending"
               THEN [state |-> "rejected", numberOfBlocks |-> nob]
               ELSE promise

\* Mutations of the threshold test, used to validate the properties:
\* an off-by-one that fires a block early, and a strict comparison.
TimedOutEarly(nob) == nob + 1 >= transactionBlockTimeout
TimedOutStrict(nob) == nob > transactionBlockTimeout

\* The timeout condition shared by the polling callback and 'data' handler.
TimedOut(nob) == nob >= transactionBlockTimeout

\* removeSubscription(subscription): starts the asynchronous removal.
ReleaseSub(s) == IF s = "active" THEN "removing" ELSE s

\* The effect of resourceCleaner.clean() on the subscription and pollers.
CleanSub == IF cleaner = 0 THEN ReleaseSub(sub) ELSE sub
CleanPollers ==
    IF cleaner = 0 THEN pollers
    ELSE [pollers EXCEPT ![cleaner].running = FALSE]

RevertToPollingOffByOne ==
    /\ Len(pollers) < MaxPollers
    /\ sub' = CleanSub
    /\ needToWatchLater' = FALSE
    /\ pollers' = Append(CleanPollers, NewPoller)
    /\ cleaner' = Len(pollers) + 2

\* revertToPolling: clean what the cleaner holds, start a new polling
\* watcher, and point the cleaner at it.
RevertToPolling ==
    /\ Len(pollers) < MaxPollers
    /\ sub' = CleanSub
    /\ needToWatchLater' = FALSE
    /\ pollers' = Append(CleanPollers, NewPoller)
    /\ cleaner' = Len(pollers) + 1

\* The locals of resolveBySubscription: needToWatchLater starts true, no
\* subscription yet, and resourceCleaner stands for the subscription.
SubscriptionLocals ==
    /\ sub = "none" /\ needToWatchLater = TRUE /\ cleaner = 0

\* The pair [promiseToError, resourceCleaner] is returned to the caller.
ReturnHandle == phase' = "returned" /\ returnedAt' = height

-----------------------------------------------------------------------------
(* rejectIfBlockTimeout: the starter block number is fetched, then the     *)
(* provider decides between subscription and polling.                      *)

Init ==
    /\ height = InitHeight
    /\ transactionBlockTimeout \in Thresholds
    /\ supportsSubscriptions \in BOOLEAN
    /\ phase = "init"
    /\ starterBlockNumber = 0
    /\ SubscriptionLocals
    /\ stalled = FALSE /\ feed = {}
    /\ setupTimer = "none"
    /\ pollers = << >>
    /\ promise = Pending
    /\ cleaned = FALSE
    /\ returnedAt = 0

\* getBlockNumber succeeds; without subscriptions, resolveByPolling.
FetchStarterOk ==
    /\ phase = "init"
    /\ starterBlockNumber' = height
    /\ IF supportsSubscriptions
         THEN /\ phase' = "subscribing"
              /\ UNCHANGED <<pollers, cleaner, returnedAt>>
         ELSE /\ ReturnHandle
              /\ pollers' = <<NewPoller>>
              /\ cleaner' = 1
    /\ UNCHANGED <<height, transactionBlockTimeout, supportsSubscriptions,
                   sub, stalled, feed, needToWatchLater, setupTimer, promise,
                   cleaned>>

\* getBlockNumber throws: the error propagates, no session starts.
FetchStarterFail ==
    /\ phase = "init"
    /\ phase' = "failed"
    /\ UNCHANGED <<height, transactionBlockTimeout, supportsSubscriptions,
                   starterBlockNumber, sub, stalled, feed, needToWatchLater,
                   setupTimer, pollers, cleaner, promise, cleaned,
                   returnedAt>>

(* resolveBySubscription, the three outcomes of the awaited subscribe.     *)

\* subscribe resolves: 'data' and 'error' handlers are registered and the
\* blockHeaderTimeout timer is armed in the promise executor.
SubscribeOk ==
    /\ phase = "subscribing"
    /\ ReturnHandle
    /\ sub' = "active"
    /\ setupTimer' = "pending"
    /\ cleaner' = 0
    /\ UNCHANGED <<height, transactionBlockTimeout, supportsSubscriptions,
                   starterBlockNumber, stalled, feed, needToWatchLater,
                   pollers, promise, cleaned>>

\* No subscriptionManager: the awaited subscription is undefined, the
\* cleaner is a no-op, subscription.on throws and the executor's catch
\* reverts to polling; the timer is armed all the same.
SubscribeNoManager ==
    /\ phase = "subscribing"
    /\ ReturnHandle
    /\ cleaner = 0
    /\ RevertToPolling
    /\ setupTimer' = "pending"
    /\ UNCHANGED <<height, transactionBlockTimeout, supportsSubscriptions,
                   starterBlockNumber, stalled, feed, promise, cleaned>>

\* subscribe throws: the session is a plain resolveByPolling.
SubscribeFail ==
    /\ phase = "subscribing"
    /\ ReturnHandle
    /\ pollers' = <<NewPoller>>
    /\ cleaner' = 1
    /\ UNCHANGED <<height, transactionBlockTimeout, supportsSubscriptions,
                   starterBlockNumber, sub, stalled, feed, needToWatchLater,
                   setupTimer, promise, cleaned>>

\* The 'data' handler for a header carrying block number h.
DeliverHeader(h) ==
    /\ Subscribed /\ h \in feed
    /\ feed' = feed \ {h}
    /\ needToWatchLater' = FALSE
    /\ IF TimedOut(h - starterBlockNumber)
         THEN Reject(h - starterBlockNumber)
         ELSE UNCHANGED promise
    /\ UNCHANGED <<height, transactionBlockTimeout, supportsSubscriptions,
                   phase, starterBlockNumber, sub, stalled, setupTimer,
                   pollers, cleaner, cleaned,
                   returnedAt>>

\* The 'data' handler for a header without a number: early return.
DeliverNumberless ==
    /\ Subscribed /\ needToWatchLater
    /\ needToWatchLater' = FALSE
    /\ UNCHANGED <<height, transactionBlockTimeout, supportsSubscriptions,
                   phase, starterBlockNumber, sub, stalled, feed, setupTimer,
                   pollers, cleaner, promise, cleaned,
                   returnedAt>>

\* The 'error' handler: revertToPolling.
SubscriptionError ==
    /\ Subscribed
    /\ RevertToPolling
    /\ UNCHANGED <<height, transactionBlockTimeout, supportsSubscriptions,
                   phase, starterBlockNumber, stalled, feed, setupTimer,
                   promise, cleaned,
                   returnedAt>>

\* The blockHeaderTimeout timer fires; it reverts only if nothing arrived.
SetupTimeout ==
    /\ setupTimer = "pending"
    /\ setupTimer' = "fired"
    /\ IF needToWatchLater
         THEN RevertToPolling
         ELSE UNCHANGED <<sub, needToWatchLater, pollers, cleaner>>
    /\ UNCHANGED <<height, transactionBlockTimeout, supportsSubscriptions,
                   phase, starterBlockNumber, stalled, feed, promise, cleaned,
                   returnedAt>>

\* removeSubscription settles (resolved or rejected, both swallowed).
RemoveDone ==
    /\ sub = "removing"
    /\ sub' = "removed"
    /\ feed' = {}
    /\ UNCHANGED <<height, transactionBlockTimeout, supportsSubscriptions,
                   phase, starterBlockNumber, stalled, needToWatchLater,
                   setupTimer, pollers, cleaner, promise, cleaned,
                   returnedAt>>

(* resolveByPolling over rejectIfConditionAtInterval: each interval tick   *)
(* calls getBlockNumber; a call may still be in flight at the next tick.   *)

\* The interval of poller k fires and the callback awaits getBlockNumber.
Tick(k) ==
    /\ k \in DOMAIN pollers
    /\ pollers[k].running
    /\ Len(pollers[k].inflight) < MaxInFlight
    /\ pollers' = [pollers EXCEPT ![k].inflight = Append(@, height)]
    /\ UNCHANGED <<height, transactionBlockTimeout, supportsSubscriptions,
                   phase, starterBlockNumber, sub, stalled, feed,
                   needToWatchLater, setupTimer, cleaner, promise, cleaned,
                   returnedAt>>

\* getBlockNumber throws: the callback returns undefined, nothing happens.
TickFail(k, i) ==
    /\ k \in DOMAIN pollers
    /\ i \in DOMAIN pollers[k].inflight
    /\ pollers' = [pollers EXCEPT ![k].inflight = SeqExt!RemoveAt(@, i)]
    /\ UNCHANGED <<height, transactionBlockTimeout, supportsSubscriptions,
                   phase, starterBlockNumber, sub, stalled, feed,
                   needToWatchLater, setupTimer, cleaner, promise, cleaned,
                   returnedAt>>

\* getBlockNumber answers v, a height no older than the request; at the
\* threshold the interval is cleared and the poller's promise rejects,
\* which the reverted session forwards to its own reject.
TickOk(k, i, v) ==
    /\ k \in DOMAIN pollers
    /\ i \in DOMAIN pollers[k].inflight
    /\ v \in pollers[k].inflight[i]..height
    /\ LET rest == [pollers EXCEPT ![k].inflight = SeqExt!RemoveAt(@, i)]
       IN IF TimedOut(v - starterBlockNumber)
            THEN /\ pollers' = [rest EXCEPT ![k].running = FALSE]
                 /\ Reject(v - starterBlockNumber)
            ELSE /\ pollers' = rest
                 /\ UNCHANGED promise
    /\ UNCHANGED <<height, transactionBlockTimeout, supportsSubscriptions,
                   phase, starterBlockNumber, sub, stalled, feed,
                   needToWatchLater, setupTimer, cleaner, cleaned,
                   returnedAt>>

\* The caller calls resourceCleaner.clean() on the returned handle.
Clean ==
    /\ phase = "returned"
    /\ sub' = CleanSub
    /\ pollers' = CleanPollers
    /\ cleaned' = TRUE
    /\ UNCHANGED <<height, transactionBlockTimeout, supportsSubscriptions,
                   phase, starterBlockNumber, stalled, feed, needToWatchLater,
                   setupTimer, cleaner, promise,
                   returnedAt>>

-----------------------------------------------------------------------------
(* Environment.                                                            *)

\* A block is mined; a subscription the node serves gets its header.
Mine ==
    /\ height < MaxHeight
    /\ height' = height + 1
    /\ feed' = IF Subscribed THEN feed \cup {height + 1} ELSE feed
    /\ UNCHANGED <<transactionBlockTimeout, supportsSubscriptions, phase,
                   starterBlockNumber, sub, stalled, needToWatchLater,
                   setupTimer, pollers, cleaner, promise, cleaned,
                   returnedAt>>

\* The connection silently stops delivering headers (no 'error' event).
Stall ==
    /\ Subscribed
    /\ stalled' = TRUE
    /\ feed' = {}
    /\ UNCHANGED <<height, transactionBlockTimeout, supportsSubscriptions,
                   phase, starterBlockNumber, sub, needToWatchLater,
                   setupTimer, pollers, cleaner, promise, cleaned,
                   returnedAt>>

\* The application sets web3Context.transactionBlockTimeout.
SetBlockTimeout(t) ==
    /\ t # transactionBlockTimeout
    /\ transactionBlockTimeout' = t
    /\ UNCHANGED <<height, supportsSubscriptions, phase, starterBlockNumber,
                   sub, stalled, feed, needToWatchLater, setupTimer, pollers,
                   cleaner, promise, cleaned,
                   returnedAt>>

-----------------------------------------------------------------------------
PollerIds == 1..MaxPollers

\* Every step of the watcher, the caller and a node whose feed is healthy.
ReliableNext ==
    \/ FetchStarterOk \/ FetchStarterFail
    \/ SubscribeOk \/ SubscribeNoManager \/ SubscribeFail
    \/ \E h \in Heights : DeliverHeader(h)
    \/ DeliverNumberless \/ SubscriptionError \/ SetupTimeout \/ RemoveDone
    \/ \E k \in PollerIds : Tick(k)
    \/ \E k \in PollerIds, i \in 1..MaxInFlight : TickFail(k, i)
    \/ \E k \in PollerIds, i \in 1..MaxInFlight, v \in Heights : TickOk(k, i, v)
    \/ Clean \/ Mine
    \/ \E t \in Thresholds : SetBlockTimeout(t)

Next == ReliableNext \/ Stall

\* The event loop runs every armed timer and settles every request; the
\* node eventually answers getBlockNumber and pushes every header it owes.
Fairness ==
    /\ WF_vars(Mine)
    /\ WF_vars(FetchStarterOk \/ FetchStarterFail)
    /\ WF_vars(SubscribeOk \/ SubscribeNoManager \/ SubscribeFail)
    /\ WF_vars(\E h \in Heights : DeliverHeader(h))
    /\ WF_vars(SetupTimeout) /\ WF_vars(RemoveDone)
    /\ \A k \in PollerIds :
         /\ WF_vars(Tick(k))
         /\ SF_vars(\E i \in 1..MaxInFlight, v \in Heights : TickOk(k, i, v))

Spec == Init /\ [][Next]_vars
FairSpec == Spec /\ Fairness
ReliableFairSpec == Init /\ [][ReliableNext]_vars /\ Fairness

-----------------------------------------------------------------------------
(* Properties.                                                             *)

NoEarlyTimeout ==
    [][promise.state = "pending" /\ promise'.state = "rejected" =>
         /\ promise'.numberOfBlocks >= transactionBlockTimeout
         /\ starterBlockNumber + promise'.numberOfBlocks <= height
         /\ height - starterBlockNumber >= transactionBlockTimeout]_vars

\* Once the chain is transactionBlockTimeout blocks past the starter block
\* and the caller has not cleaned up, the failure promise eventually
\* rejects: by the 'data' handler, or by polling after a fallback.  The
\* model's chain stops at MaxHeight while a real one goes on, so a block
\* mined after the handle was returned stands for the blocks that follow.
EventuallyTimesOut ==
    (phase = "returned" /\ ~cleaned /\ height > returnedAt
       /\ height - starterBlockNumber >= transactionBlockTimeout)
      ~> (promise.state = "rejected" \/ cleaned)

\* After the caller's clean() no polling interval is armed and no
\* subscription is served (spec: no timer firing after cleanup).
NothingLiveAfterClean ==
    cleaned => /\ \A k \in DOMAIN pollers : ~pollers[k].running
               /\ sub # "active"

\* Spec 4.1/4.2a: a watcher that rejects releases its own resource (the
\* poller clears its interval, the 'data' handler unsubscribes).
ReleasedOnReject ==
    promise.state = "rejected" =>
        /\ sub # "active"
        /\ \A k \in DOMAIN pollers : ~pollers[k].running

\* Spec 3 and 8.4: after the caller's clean() no timer callback or header
\* event may have an observable effect, so a promise still pending at
\* clean() stays pending.  clearInterval does not cancel a getBlockNumber
\* already awaited, and removeSubscription settles asynchronously.
NoRejectAfterClean ==
    [][cleaned /\ promise.state = "pending" => promise'.state = "pending"]_vars

=============================================================================
