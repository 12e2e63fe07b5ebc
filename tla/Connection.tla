------------------------------ MODULE Connection ------------------------------
(***************************************************************************)
(* closeOpenConnection and waitForOpenConnection (scripts/                 *)
(* system_tests_utils.ts): the helper every system test calls at the end   *)
(* to close its provider's socket, racing the provider's own status        *)
(* changes.  The provider URL comes from WEB3_SYSTEM_TEST_PROVIDER; the    *)
(* provider behind it changes status by itself (it connects, fails, drops *)
(* and reconnects).  Timers are untimed: the 5 s interval and the 500 ms   *)
(* sleep fire at any later point.                                          *)
(***************************************************************************)
EXTENDS Naturals

VARIABLES
    url,          \* the system test provider URL, abstracted
    status,       \* provider.getStatus()
    closedByUs,   \* disconnect(1000, '') was called
    closedFrom,   \* the status the provider had when disconnect was called
    pc,           \* closeOpenConnection: start, waiting, sleeping, done, failed
    armed,        \* the setInterval of waitForOpenConnection
    currentAttempt,
    handler       \* the 'error' listener is registered

vars == <<url, status, closedByUs, closedFrom, pc, armed, currentAttempt,
          handler>>

\* maxNumberOfAttempts.
MaxNumberOfAttempts == 10

\* A URL is its scheme ("http", "ws", or a socket path) and whether the
\* text "ipc" occurs in it; an http URL containing "ipc" is left out (its
\* provider has no socket status).
URLs == {[scheme |-> "http", ipc |-> FALSE],
         [scheme |-> "ws", ipc |-> FALSE], [scheme |-> "ws", ipc |-> TRUE],
         [scheme |-> "path", ipc |-> TRUE], [scheme |-> "path", ipc |-> FALSE]}

\* isWs, isIpc: startsWith('ws') and includes('ipc') of the provider URL.
IsWs(u) == u.scheme = "ws"
IsIpc(u) == u.ipc

\* The provider created for the URL: only socket providers have a status
\* that changes and a disconnect method.
IsSocket(u) == u.scheme # "http"

Statuses == {"connecting", "connected", "disconnected"}

Init ==
    /\ url \in URLs
    /\ status = IF IsSocket(url) THEN "connecting" ELSE "connected"
    /\ closedByUs = FALSE /\ closedFrom = "none"
    /\ pc = "start"
    /\ armed = FALSE /\ currentAttempt = 1
    /\ handler = FALSE

\* After the wait: register the 'error' listener and sleep 500 ms.
ListenAndSleep ==
    /\ handler' = TRUE
    /\ pc' = "sleeping"

\* closeOpenConnection up to its first await: return unless ws or ipc;
\* wait for a connecting provider, where waitForOpenConnection resolves at
\* once unless the URL is ws and otherwise arms its interval.
Start ==
    /\ pc = "start"
    /\ CASE ~IsWs(url) /\ ~IsIpc(url) ->
              pc' = "done" /\ UNCHANGED <<armed, handler>>
         [] status = "connecting" /\ IsWs(url) ->
              pc' = "waiting" /\ armed' = TRUE /\ UNCHANGED handler
         [] OTHER -> ListenAndSleep /\ UNCHANGED armed
    /\ UNCHANGED <<url, status, closedByUs, closedFrom, currentAttempt>>

TickNoReject ==
    /\ pc = "waiting" /\ armed
    /\ IF currentAttempt > MaxNumberOfAttempts - 1
         THEN /\ armed' = FALSE
              /\ UNCHANGED <<pc, handler>>
         ELSE /\ IF status = "connected"
                   THEN armed' = FALSE /\ ListenAndSleep
                   ELSE UNCHANGED <<armed, pc, handler>>
    /\ currentAttempt' = currentAttempt + 1
    /\ UNCHANGED <<url, status, closedByUs, closedFrom>>

TickLate ==
    /\ pc = "waiting" /\ armed
    /\ IF currentAttempt > MaxNumberOfAttempts
         THEN /\ armed' = FALSE /\ pc' = "failed"
              /\ UNCHANGED handler
         ELSE /\ IF status = "connected"
                   THEN armed' = FALSE /\ ListenAndSleep
                   ELSE UNCHANGED <<armed, pc, handler>>
    /\ currentAttempt' = currentAttempt + 1
    /\ UNCHANGED <<url, status, closedByUs, closedFrom>>

\* The interval callback: give up after the attempts, or resolve once the
\* provider is connected; the attempt counter grows on every tick.  A
\* rejection makes the awaiting closeOpenConnection reject.
Tick ==
    /\ pc = "waiting" /\ armed
    /\ IF currentAttempt > MaxNumberOfAttempts - 1
         THEN /\ armed' = FALSE /\ pc' = "failed"
              /\ UNCHANGED handler
         ELSE /\ IF status = "connected"
                   THEN armed' = FALSE /\ ListenAndSleep
                   ELSE UNCHANGED <<armed, pc, handler>>
    /\ currentAttempt' = currentAttempt + 1
    /\ UNCHANGED <<url, status, closedByUs, closedFrom>>

\* The 500 ms sleep ends: a provider with disconnect is closed.
Wake ==
    /\ pc = "sleeping"
    /\ pc' = "done"
    /\ IF IsSocket(url)
         THEN /\ status' = "disconnected" /\ closedByUs' = TRUE
              /\ closedFrom' = status
         ELSE UNCHANGED <<status, closedByUs, closedFrom>>
    /\ UNCHANGED <<url, armed, currentAttempt, handler>>

-----------------------------------------------------------------------------
(* The provider, outside the repository: a socket connects or fails,       *)
(* drops, and reconnects unless it was closed on purpose.                  *)

ProviderStep ==
    /\ IsSocket(url)
    /\ \/ status = "connecting" /\ status' \in {"connected", "disconnected"}
       \/ status = "connected" /\ status' = "disconnected"
       \/ status = "disconnected" /\ ~closedByUs /\ status' = "connecting"
    /\ UNCHANGED <<url, closedByUs, closedFrom, pc, armed, currentAttempt,
                   handler>>

Next == Start \/ Tick \/ Wake \/ ProviderStep

Spec == Init /\ [][Next]_vars

\* The test runner calls the helper; the event loop runs armed timers.
FairSpec == Spec /\ WF_vars(Start) /\ WF_vars(Tick) /\ WF_vars(Wake)

-----------------------------------------------------------------------------
(* Properties.                                                             *)

TypeOK ==
    /\ url \in URLs /\ status \in Statuses
    /\ closedByUs \in BOOLEAN
    /\ closedFrom \in Statuses \cup {"none"}
    /\ pc \in {"start", "waiting", "sleeping", "done", "failed"}
    /\ armed \in BOOLEAN /\ handler \in BOOLEAN
    /\ currentAttempt \in 1..MaxNumberOfAttempts + 1

\* closeOpenConnection always settles, whatever the provider does: the
\* interval gives up after its attempts, so an after-all hook never hangs.
EventuallySettles == <>(pc \in {"done", "failed"})

\* Comment at line 118: the connection is closed only after it is
\* established, so disconnect never hits a socket still connecting.
ClosedOnlyWhenEstablished == closedFrom \in {"none", "connected"}

=============================================================================
