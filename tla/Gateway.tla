------------------------------- MODULE Gateway -------------------------------
(***************************************************************************)
(* The core of the broker, ServiceGateway: the connection table and its    *)
(* reader threads, the services registered through IDENTIFY, the table of  *)
(* pending requests, and the three kinds of thread that put requests into  *)
(* it: an HTTP handler that then blocks in waitForResponse, the event bus  *)
(* worker (fire and forget), and the reader thread of a service that sends *)
(* INVOKE.  One action is one critical section, or one call between two.   *)
(*                                                                         *)
(* The mutexes are not re-entrant and three paths of the code nest them    *)
(* (connections > registry in closeConnection, requests > registry in      *)
(* handleResponseMessage, registry > registry in registerService and       *)
(* removeUnhealthyServices).  Critical sections are atomic here; `stuck'   *)
(* is the set of mutexes whose holder can never release them.              *)
(***************************************************************************)
EXTENDS Integers

CONSTANTS
    Services,     \* service ids, one ServiceClient process each
    Fds,          \* socket descriptors the gateway process can be given
    HttpReqs,     \* requests of HTTP handler threads
    BridgeReqs,   \* requests of the event bus worker (persistence bridges)
    InvokeReqs,   \* requests services send with ServiceClient::invoke()
    NoService,    \* "no service", an empty serviceId
    MaxClosing,   \* bound: closed connections of one service whose reader
                  \* has not run its fail loop yet
    PromptEof     \* TRUE: a dropped connection is noticed before the client's
                  \* reconnect backoff and the 60 s health limit are over

ASSUME ConstantsAssumption ==
    /\ Fds \subseteq Nat
    /\ NoService \notin Services
    /\ MaxClosing \in Nat \ {0}
    /\ PromptEof \in BOOLEAN
    /\ HttpReqs \cap BridgeReqs = {}
    /\ HttpReqs \cap InvokeReqs = {}
    /\ BridgeReqs \cap InvokeReqs = {}

NoFd == -1
Reqs == HttpReqs \cup BridgeReqs \cup InvokeReqs

VARIABLES
    active,       \* keys of activeConnections; the descriptor is open
    peer,         \* peer[fd]: the process that opened connection fd
    up,           \* connections whose other end is still open
    ident,        \* ident[fd]: serviceId of the entry, once identified
    reader,       \* reader[fd]: where the connection's reader thread is
    registered,   \* keys of the registry's identities
    stuck,        \* mutexes that will never be released
    closing,      \* closing[s]: readers of closed connections of s that have
                  \* yet to fail its pending requests
    state,        \* pendingRequests: state of the entry, "absent" if none
    code,         \* pendingRequests: statusCode of the entry
    waiters,      \* keys of responseWaiters_
    notified,     \* waiters whose condition variable was notified
    pc,           \* where the thread that issues the request is
    target,       \* targetServiceId the thread selected
    tfd,          \* targetFd found by sendDirectRequest
    origin,       \* originatorFd of an INVOKE
    calling,      \* INVOKEs whose originating connection is still the same
    result,       \* HTTP status returned, or status in INVOKE_RESPONSE; 0: none
    work,         \* work[s]: requests process s has received, not answered
    via,          \* history: connection the REQUEST was delivered on, NoFd once
                  \* that connection is closed
    answer        \* history: the RESPONSE that was correlated with the request

connVars == <<active, peer, up, ident, reader>>
regVars  == <<registered, stuck>>
reqVars  == <<state, code, waiters, notified>>
sendVars == <<pc, target, tfd>>
callVars == <<origin, calling, result>>
histVars == <<via, answer>>
vars == <<connVars, regVars, closing, reqVars, sendVars, callVars, work, histVars>>

Mutexes      == {"registry", "connections", "requests"}
ReaderStates == {"recv", "register", "busy", "blocked"}
RequestState == {"absent", "queued", "in_flight", "completed", "failed", "timed_out"}
Terminal     == {"completed", "failed", "timed_out"}
LiveStates   == {"queued", "in_flight"}
StatusCodes  == {200, 202, 404, 500, 503, 504}
Steps == {"idle", "insert", "lookup", "send", "erase", "mark", "returned",
          "waiting", "done"}

Live(r) == state[r] \in LiveStates
Free(m) == m \notin stuck

TypeOK ==
    /\ active \subseteq Fds /\ up \subseteq active
    /\ \A fd \in active : /\ peer[fd] \in Services
                          /\ reader[fd] = "register" => ident[fd] \in Services
    /\ peer \in [Fds -> Services \cup {NoService}]
    /\ ident \in [Fds -> Services \cup {NoService}]
    /\ reader \in [Fds -> ReaderStates]
    /\ registered \subseteq Services
    /\ stuck \subseteq Mutexes
    /\ closing \in [Services -> 0..MaxClosing]
    /\ state \in [Reqs -> RequestState]
    /\ code \in [Reqs -> StatusCodes]
    /\ waiters \subseteq HttpReqs /\ notified \subseteq waiters
    /\ pc \in [Reqs -> Steps]
    /\ \A r \in Reqs : pc[r] \in {"returned", "waiting"} => r \in HttpReqs
    /\ target \in [Reqs -> Services \cup {NoService}]
    /\ tfd \in [Reqs -> Fds \cup {NoFd}]
    /\ origin \in [InvokeReqs -> Fds \cup {NoFd}]
    /\ calling \subseteq InvokeReqs
    /\ result \in [Reqs -> StatusCodes \cup {0}]
    /\ work \in [Services -> SUBSET Reqs]
    /\ via \in [Reqs -> Fds \cup {NoFd}]
    /\ answer \in [Reqs -> {"none", "ok", "error"}]

Init ==
    /\ active = {} /\ up = {} /\ registered = {} /\ stuck = {}
    /\ peer = [fd \in Fds |-> NoService]
    /\ ident = [fd \in Fds |-> NoService]
    /\ reader = [fd \in Fds |-> "recv"]
    /\ closing = [s \in Services |-> 0]
    /\ state = [r \in Reqs |-> "absent"]
    /\ code = [r \in Reqs |-> 202]
    /\ waiters = {} /\ notified = {}
    /\ pc = [r \in Reqs |-> "idle"]
    /\ target = [r \in Reqs |-> NoService]
    /\ tfd = [r \in Reqs |-> NoFd]
    /\ origin = [r \in InvokeReqs |-> NoFd]
    /\ calling = {}
    /\ result = [r \in Reqs |-> 0]
    /\ work = [s \in Services |-> {}]
    /\ via = [r \in Reqs |-> NoFd]
    /\ answer = [r \in Reqs |-> "none"]

-----------------------------------------------------------------------------
(* Connections: the service processes and the reader thread of each socket. *)

\* A service that has no open connection connects and is accepted on a free
\* descriptor (descriptors are reused as soon as they are closed).
handleNewConnection(s, fd) ==
    /\ Free("connections")
    /\ \A f \in up : peer[f] # s
    /\ PromptEof => \A f \in active : peer[f] # s
    /\ fd \notin active
    /\ active' = active \cup {fd}
    /\ up' = up \cup {fd}
    /\ peer' = [peer EXCEPT ![fd] = s]
    /\ ident' = [ident EXCEPT ![fd] = NoService]
    /\ reader' = [reader EXCEPT ![fd] = "recv"]
    /\ UNCHANGED <<regVars, closing, reqVars, sendVars, callVars, work, histVars>>

\* The service's end goes away: a disconnect keeps the process and the
\* requests its worker threads are answering, a crash loses them.
PeerDrops(fd) ==
    /\ fd \in up
    /\ up' = up \ {fd}
    /\ work' \in {work, [work EXCEPT ![peer[fd]] = {}]}
    /\ UNCHANGED <<active, peer, ident, reader, regVars, closing, reqVars,
                   sendVars, callVars, histVars>>

\* handleIdentifyMessage, first critical section: bind the connection.
IdentifyBind(fd) ==
    /\ fd \in active /\ reader[fd] = "recv" /\ ident[fd] = NoService
    /\ Free("connections")
    /\ ident' = [ident EXCEPT ![fd] = peer[fd]]
    /\ reader' = [reader EXCEPT ![fd] = "register"]
    /\ UNCHANGED <<active, peer, up, regVars, closing, reqVars, sendVars,
                   callVars, work, histVars>>

\* Mutant of IdentifyRegister: registering a known id updates it (the nested
\* lock of updateService removed and nothing else).
IdentifyRegister_Updates(fd) ==
    /\ fd \in active /\ reader[fd] = "register"
    /\ Free("registry")
    /\ registered' = registered \cup {ident[fd]}
    /\ reader' = [reader EXCEPT ![fd] = "recv"]
    /\ UNCHANGED <<active, peer, up, ident, stuck, closing, reqVars, sendVars,
                   callVars, work, histVars>>

\* handleIdentifyMessage, second part: registerService.  For an id that is
\* still registered it calls updateService, which locks registryMutex again.
IdentifyRegister(fd) ==
    /\ fd \in active /\ reader[fd] = "register"
    /\ Free("registry")
    /\ \/ /\ ident[fd] \notin registered
          /\ registered' = registered \cup {ident[fd]}
          /\ reader' = [reader EXCEPT ![fd] = "recv"]
          /\ UNCHANGED stuck
       \/ /\ ident[fd] \in registered
          /\ stuck' = stuck \cup {"registry"}
          /\ reader' = [reader EXCEPT ![fd] = "blocked"]
          /\ UNCHANGED registered
    /\ UNCHANGED <<active, peer, up, ident, closing, reqVars, sendVars,
                   callVars, work, histVars>>

\* handlePingMessage only touches load and lastPing, but it takes registryMutex.
PingBlocks(fd) ==
    /\ fd \in up /\ reader[fd] = "recv" /\ ident[fd] # NoService
    /\ ~Free("registry")
    /\ reader' = [reader EXCEPT ![fd] = "blocked"]
    /\ UNCHANGED <<active, peer, up, ident, regVars, closing, reqVars, sendVars,
                   callVars, work, histVars>>

\* Mutant of closeConnection: the registry is not told.
closeConnection_KeepsRegistered(fd) ==
    LET s == ident[fd] IN
    /\ fd \in active /\ fd \notin up /\ reader[fd] = "recv"
    /\ Free("connections")
    /\ s # NoService => closing[s] < MaxClosing
    /\ active' = active \ {fd}
    /\ ident' = [ident EXCEPT ![fd] = NoService]
    /\ peer' = [peer EXCEPT ![fd] = NoService]
    /\ closing' = [x \in Services |-> IF x = s THEN closing[x] + 1 ELSE closing[x]]
    /\ via' = [r \in Reqs |-> IF via[r] = fd THEN NoFd ELSE via[r]]
    /\ calling' = {r \in calling : origin[r] # fd}
    /\ UNCHANGED <<up, reader, regVars, reqVars, sendVars, origin, result, work,
                   answer>>

\* closeConnection up to ::close(): forget the connection and unregister its
\* service while holding connectionsMutex.
closeConnection(fd) ==
    LET s == ident[fd] IN
    /\ fd \in active /\ fd \notin up /\ reader[fd] = "recv"
    /\ Free("connections")
    /\ s # NoService => Free("registry") /\ closing[s] < MaxClosing
    /\ active' = active \ {fd}
    /\ ident' = [ident EXCEPT ![fd] = NoService]
    /\ peer' = [peer EXCEPT ![fd] = NoService]
    /\ registered' = registered \ {s}
    /\ closing' = [x \in Services |-> IF x = s THEN closing[x] + 1 ELSE closing[x]]
    /\ via' = [r \in Reqs |-> IF via[r] = fd THEN NoFd ELSE via[r]]
    /\ calling' = {r \in calling : origin[r] # fd}
    /\ UNCHANGED <<up, reader, stuck, reqVars, sendVars, origin, result, work,
                   answer>>

\* The same call when registryMutex is stuck: it blocks holding connectionsMutex.
closeConnectionBlocks(fd) ==
    /\ fd \in active /\ fd \notin up /\ reader[fd] = "recv"
    /\ Free("connections") /\ ~Free("registry") /\ ident[fd] # NoService
    /\ stuck' = stuck \cup {"connections"}
    /\ reader' = [reader EXCEPT ![fd] = "blocked"]
    /\ UNCHANGED <<active, peer, up, ident, registered, closing, reqVars,
                   sendVars, callVars, work, histVars>>

\* closeConnection, last section: fail the entries in `lost', notifying waiters.
FailEntries(s, lost) ==
    /\ closing[s] > 0
    /\ Free("requests")
    /\ closing' = [closing EXCEPT ![s] = @ - 1]
    /\ state' = [r \in Reqs |-> IF r \in lost THEN "failed" ELSE state[r]]
    /\ code' = [r \in Reqs |-> IF r \in lost THEN 503 ELSE code[r]]
    /\ notified' = notified \cup (lost \cap waiters)
    /\ UNCHANGED <<connVars, regVars, waiters, sendVars, callVars, work, histVars>>

\* Mutants of FailInFlight: requests still queued are overlooked; entries that
\* already have their answer are failed too.
FailInFlight_NotQueued(s) ==
    FailEntries(s, {r \in Reqs : state[r] = "in_flight" /\ target[r] = s})
FailInFlight_AnyState(s) ==
    FailEntries(s, {r \in Reqs : state[r] # "absent" /\ target[r] = s})

\* The entries routed to the service that are queued or in flight.
FailInFlight(s) == FailEntries(s, {r \in Reqs : Live(r) /\ target[r] = s})

-----------------------------------------------------------------------------
(* Sending a request: sendRequest (HTTP, bridge) and handleInvokeMessage.   *)

\* selectBestService: some registered service, or none (no service has the
\* capability, is healthy and has capacity).  The strategies and the indexes
\* are the subject of module ServiceRegistry.
Select(r) ==
    /\ pc[r] = "idle"
    /\ Free("registry")
    /\ \/ \E s \in registered :
            /\ target' = [target EXCEPT ![r] = s]
            /\ pc' = [pc EXCEPT ![r] = "insert"]
            /\ UNCHANGED result
       \/ /\ pc' = [pc EXCEPT ![r] = "done"]
          /\ result' = [result EXCEPT ![r] = 503]
          /\ UNCHANGED target
    /\ UNCHANGED tfd

\* An HTTP handler thread calls sendRequest.
HttpSelect(r) ==
    /\ r \in HttpReqs
    /\ Select(r)
    /\ UNCHANGED <<connVars, regVars, closing, reqVars, origin, calling, work, histVars>>

\* The event bus has one worker thread: one bridge call at a time.
BridgeSelect(r) ==
    /\ r \in BridgeReqs
    /\ \A b \in BridgeReqs : pc[b] \in {"idle", "done"}
    /\ Select(r)
    /\ UNCHANGED <<connVars, regVars, closing, reqVars, origin, calling, work, histVars>>

\* The reader thread of a registered service handles its INVOKE; without a
\* target it answers 503 and reads on.
InvokeSelect(r, fd) ==
    /\ r \in InvokeReqs
    /\ fd \in up /\ reader[fd] = "recv" /\ ident[fd] # NoService
    /\ Select(r)
    /\ origin' = [origin EXCEPT ![r] = fd]
    /\ calling' = calling \cup {r}
    /\ reader' = [reader EXCEPT ![fd] = IF pc'[r] = "insert" THEN "busy" ELSE "recv"]
    /\ UNCHANGED <<active, peer, up, ident, regVars, closing, reqVars, work, histVars>>

\* The entry is created (an existing one with this id would be overwritten).
InsertPending(r) ==
    /\ pc[r] = "insert"
    /\ Free("requests")
    /\ state' = [state EXCEPT ![r] = "queued"]
    /\ code' = [code EXCEPT ![r] = 202]
    /\ pc' = [pc EXCEPT ![r] = "lookup"]
    /\ UNCHANGED <<connVars, regVars, closing, waiters, notified, target, tfd,
                   callVars, work, histVars>>

\* sendDirectRequest, under connectionsMutex: the lowest identified descriptor.
LookupFd(r) ==
    LET matching == {fd \in active : ident[fd] = target[r]} IN
    /\ pc[r] = "lookup"
    /\ Free("connections")
    /\ \/ \E fd \in matching :
            /\ \A f \in matching : fd <= f
            /\ tfd' = [tfd EXCEPT ![r] = fd]
            /\ pc' = [pc EXCEPT ![r] = "send"]
       \/ /\ matching = {}
          /\ pc' = [pc EXCEPT ![r] = "erase"]
          /\ UNCHANGED tfd
    /\ UNCHANGED <<connVars, regVars, closing, reqVars, target, callVars, work,
                   histVars>>

\* sendMessage runs without a lock: the descriptor may meanwhile be closed, or
\* belong to another connection.  On a dead connection send() may go either way.
SendDelivers(r) ==
    LET fd == tfd[r] IN
    /\ pc[r] = "send" /\ fd \in up
    /\ work' = [work EXCEPT ![peer[fd]] = @ \cup {r}]
    /\ via' = [via EXCEPT ![r] = fd]
    /\ pc' = [pc EXCEPT ![r] = "mark"]
    /\ tfd' = [tfd EXCEPT ![r] = NoFd]
    /\ UNCHANGED <<connVars, regVars, closing, reqVars, target, callVars, answer>>

SendLost(r) ==
    /\ pc[r] = "send" /\ tfd[r] \notin up
    /\ \/ /\ tfd[r] \in active
          /\ pc' = [pc EXCEPT ![r] = "mark"]
       \/ pc' = [pc EXCEPT ![r] = "erase"]
    /\ tfd' = [tfd EXCEPT ![r] = NoFd]
    /\ UNCHANGED <<connVars, regVars, closing, reqVars, target, callVars, work,
                   histVars>>

\* The reader thread of an INVOKE reads on once the handler returns.
HandlerReturns(r) ==
    reader' = [fd \in Fds |-> IF r \in InvokeReqs /\ fd = origin[r]
                                THEN "recv" ELSE reader[fd]]

\* The send failed: the entry is erased.  sendRequest returns "" (HTTP 503);
\* handleInvokeMessage returns without answering the originator.
EraseUnsent(r) ==
    /\ pc[r] = "erase"
    /\ Free("requests")
    /\ state' = [state EXCEPT ![r] = "absent"]
    /\ pc' = [pc EXCEPT ![r] = "done"]
    /\ result' = IF r \in HttpReqs THEN [result EXCEPT ![r] = 503] ELSE result
    /\ HandlerReturns(r)
    /\ UNCHANGED <<active, peer, up, ident, regVars, closing, code, waiters,
                   notified, target, tfd, origin, calling, work, histVars>>

\* Mutant of MarkInFlight: the entry's state is not looked at again.
MarkInFlight_Unchecked(r) ==
    /\ pc[r] = "mark"
    /\ Free("requests")
    /\ state' = [state EXCEPT ![r] = "in_flight"]
    /\ pc' = [pc EXCEPT ![r] = IF r \in HttpReqs THEN "returned" ELSE "done"]
    /\ HandlerReturns(r)
    /\ UNCHANGED <<active, peer, up, ident, regVars, closing, code, waiters,
                   notified, target, tfd, callVars, work, histVars>>

\* queued -> in_flight, unless something else happened to the entry meanwhile.
MarkInFlight(r) ==
    /\ pc[r] = "mark"
    /\ Free("requests")
    /\ state' = IF state[r] = "queued" THEN [state EXCEPT ![r] = "in_flight"] ELSE state
    /\ pc' = [pc EXCEPT ![r] = IF r \in HttpReqs THEN "returned" ELSE "done"]
    /\ HandlerReturns(r)
    /\ UNCHANGED <<active, peer, up, ident, regVars, closing, code, waiters,
                   notified, target, tfd, callVars, work, histVars>>

-----------------------------------------------------------------------------
(* waitForResponse, on the HTTP handler's thread.                           *)

\* The HTTP status of an outcome: 404 if the entry is gone, 504 if it is open.
StatusOf(r) == IF state[r] = "absent" THEN 404 ELSE IF Live(r) THEN 504 ELSE code[r]

\* Mutants of ReturnResult: a timed-out call leaves its entry behind; the
\* waiter is erased but counted as notified.
ReturnResult_KeepsOpenEntry(r) ==
    /\ result' = [result EXCEPT ![r] = StatusOf(r)]
    /\ state' = IF Live(r) THEN state ELSE [state EXCEPT ![r] = "absent"]
    /\ waiters' = waiters \ {r}
    /\ notified' = notified \ {r}
    /\ pc' = [pc EXCEPT ![r] = "done"]
    /\ UNCHANGED <<connVars, regVars, closing, code, target, tfd, origin, calling,
                   work, histVars>>
ReturnResult_KeepsNotified(r) ==
    /\ result' = [result EXCEPT ![r] = StatusOf(r)]
    /\ state' = [state EXCEPT ![r] = "absent"]
    /\ waiters' = waiters \ {r}
    /\ pc' = [pc EXCEPT ![r] = "done"]
    /\ UNCHANGED <<connVars, regVars, closing, code, notified, target, tfd, origin,
                   calling, work, histVars>>

\* The end of waitForResponse and of the handler: the waiter and the entry go,
\* the entry's outcome is the HTTP status.
ReturnResult(r) ==
    /\ result' = [result EXCEPT ![r] = StatusOf(r)]
    /\ state' = [state EXCEPT ![r] = "absent"]
    /\ waiters' = waiters \ {r}
    /\ notified' = notified \ {r}
    /\ pc' = [pc EXCEPT ![r] = "done"]
    /\ UNCHANGED <<connVars, regVars, closing, code, target, tfd, origin, calling,
                   work, histVars>>

\* Mutant of WaitStart: the predicate is not tested before the first wait.
WaitStart_Blindly(r) ==
    /\ pc[r] = "returned"
    /\ Free("requests")
    /\ waiters' = waiters \cup {r}
    /\ pc' = [pc EXCEPT ![r] = "waiting"]
    /\ UNCHANGED <<connVars, regVars, closing, state, code, notified, target, tfd,
                   callVars, work, histVars>>

\* Entering waitForResponse: register the waiter and test the predicate once.
WaitStart(r) ==
    /\ pc[r] = "returned"
    /\ Free("requests")
    /\ \/ ~Live(r) /\ ReturnResult(r)
       \/ /\ Live(r)
          /\ waiters' = waiters \cup {r}
          /\ pc' = [pc EXCEPT ![r] = "waiting"]
          /\ UNCHANGED <<connVars, regVars, closing, state, code, notified, target,
                         tfd, callVars, work, histVars>>

\* The condition variable wakes the thread (spuriously too) and the predicate
\* holds.
Wake(r) ==
    /\ pc[r] = "waiting"
    /\ Free("requests")
    /\ ~Live(r)
    /\ ReturnResult(r)

\* Mutant of WaitTimeout: wait() instead of wait_for(), only a notification
\* wakes the thread.
WaitTimeout_Never(r) == r \in notified /\ Wake(r)

\* The configured timeout of the capability is over.
WaitTimeout(r) ==
    /\ pc[r] = "waiting"
    /\ Free("requests")
    /\ ReturnResult(r)

-----------------------------------------------------------------------------
(* Answers, INVOKE time-outs, and the health checker thread.                *)

\* A service answers a request it has received on the connection it has now.
\* handleResponseMessage correlates by requestId alone, whatever the entry's
\* state is; an INVOKE's answer is forwarded and its entry erased, an HTTP
\* waiter is notified, and any other entry is erased at once.
handleResponseMessage(fd, r, a) ==
    LET s == peer[fd]
        status == IF a = "ok" THEN 200 ELSE 500 IN
    /\ fd \in up /\ reader[fd] = "recv"
    /\ r \in work[s]
    /\ Free("requests")
    /\ work' = [work EXCEPT ![s] = @ \ {r}]
    /\ \/ /\ state[r] = "absent"
          /\ UNCHANGED <<reqVars, result, answer>>
       \/ /\ state[r] # "absent"
          /\ Free("registry")
          /\ answer' = [answer EXCEPT ![r] = a]
          /\ code' = [code EXCEPT ![r] = status]
          /\ state' = [state EXCEPT ![r] =
                         IF r \notin waiters THEN "absent"
                         ELSE IF a = "ok" THEN "completed" ELSE "failed"]
          /\ notified' = notified \cup (waiters \cap {r})
          /\ result' = IF r \in calling /\ result[r] = 0
                         THEN [result EXCEPT ![r] = status] ELSE result
          /\ UNCHANGED waiters
    /\ UNCHANGED <<connVars, regVars, closing, sendVars, origin, calling, via>>

\* recordResponseTime never returns: requestsMutex is held from then on.
handleResponseBlocks(fd, r) ==
    /\ fd \in up /\ reader[fd] = "recv"
    /\ r \in work[peer[fd]]
    /\ Free("requests") /\ ~Free("registry") /\ state[r] # "absent"
    /\ work' = [work EXCEPT ![peer[fd]] = @ \ {r}]
    /\ stuck' = stuck \cup {"requests"}
    /\ reader' = [reader EXCEPT ![fd] = "blocked"]
    /\ UNCHANGED <<active, peer, up, ident, registered, closing, reqVars, sendVars,
                   callVars, histVars>>

\* ServiceClient::invoke() gives up (5 s) if no INVOKE_RESPONSE has come.
InvokeGivesUp(r) ==
    /\ r \in InvokeReqs /\ pc[r] # "idle" /\ result[r] = 0
    /\ result' = [result EXCEPT ![r] = 504]
    /\ UNCHANGED <<connVars, regVars, closing, reqVars, sendVars, origin, calling,
                   work, histVars>>

\* Entries the retention (5 min without an update) may remove: a thread that
\* was notified, or has yet to wait, does not take that long.
Retained(r) == pc[r] = "done" \/ (pc[r] = "waiting" /\ r \notin notified)

\* Mutant of cleanupExpiredRequests: old entries are not made terminal.
cleanupExpiredRequests_NoTimeout(old, stale) ==
    /\ Free("requests")
    /\ \A r \in old : Live(r)
    /\ \A r \in stale : state[r] \in Terminal /\ Retained(r)
    /\ state' = [r \in Reqs |-> IF r \in stale THEN "absent" ELSE state[r]]
    /\ UNCHANGED <<connVars, regVars, closing, code, waiters, notified, sendVars,
                   callVars, work, histVars>>

\* cleanupExpiredRequests: entries older than their timeout become timed_out
\* (no waiter is notified), entries terminal for too long are erased.
cleanupExpiredRequests(old, stale) ==
    /\ Free("requests")
    /\ \A r \in old : Live(r)
    /\ \A r \in stale : state[r] \in Terminal /\ Retained(r)
    /\ state' = [r \in Reqs |-> IF r \in old THEN "timed_out"
                             ELSE IF r \in stale THEN "absent" ELSE state[r]]
    /\ code' = [r \in Reqs |-> IF r \in old THEN 504 ELSE code[r]]
    /\ UNCHANGED <<connVars, regVars, closing, waiters, notified, sendVars,
                   callVars, work, histVars>>

\* performHealthCheck finds a service that has not pinged for 60 s: its other
\* end is gone and nobody noticed.  removeUnhealthyServices calls
\* unregisterService with registryMutex already held.
performHealthCheck ==
    /\ ~PromptEof
    /\ Free("registry")
    /\ \E s \in registered : \A fd \in up : ident[fd] # s
    /\ stuck' = stuck \cup {"registry"}
    /\ UNCHANGED <<connVars, registered, closing, reqVars, sendVars, callVars,
                   work, histVars>>

-----------------------------------------------------------------------------
SendStep(r) == \/ InsertPending(r) \/ LookupFd(r) \/ SendDelivers(r) \/ SendLost(r)
               \/ EraseUnsent(r) \/ MarkInFlight(r)

Connection(fd) ==
    \/ \E s \in Services : handleNewConnection(s, fd)
    \/ PeerDrops(fd) \/ IdentifyBind(fd) \/ IdentifyRegister(fd) \/ PingBlocks(fd)
    \/ closeConnection(fd) \/ closeConnectionBlocks(fd)
    \/ \E r \in Reqs : \/ \E a \in {"ok", "error"} : handleResponseMessage(fd, r, a)
                       \/ handleResponseBlocks(fd, r)
                       \/ InvokeSelect(r, fd)

Request(r) ==
    \/ HttpSelect(r) \/ BridgeSelect(r) \/ SendStep(r)
    \/ WaitStart(r) \/ Wake(r) \/ WaitTimeout(r) \/ InvokeGivesUp(r)

Next ==
    \/ \E fd \in Fds : Connection(fd)
    \/ \E s \in Services : FailInFlight(s)
    \/ \E r \in Reqs : Request(r)
    \/ \E old, stale \in SUBSET Reqs : cleanupExpiredRequests(old, stale)
    \/ performHealthCheck

Spec == Init /\ [][Next]_vars

\* Threads keep running: every step of a request's thread, the fail loop, the
\* timer of a waiting thread and the 30 s cleaner are weakly fair.  Connections
\* owe nothing: a service may never connect, answer or notice anything.
Cleaned(r) == \E old, stale \in SUBSET Reqs :
                 r \in old \cup stale /\ cleanupExpiredRequests(old, stale)
ThreadFairness ==
    /\ \A r \in Reqs : WF_vars(SendStep(r)) /\ WF_vars(WaitStart(r))
    /\ \A s \in Services : WF_vars(FailInFlight(s))
FairSpec ==
    /\ Spec /\ ThreadFairness
    /\ \A r \in Reqs : WF_vars(WaitTimeout(r)) /\ WF_vars(Cleaned(r))

\* The same without the timer: only a notification makes a waiter run.
NotifiedWake(r) == r \in notified /\ Wake(r)
NotifyFairSpec == Spec /\ ThreadFairness /\ \A r \in Reqs : WF_vars(NotifiedWake(r))

-----------------------------------------------------------------------------
(* Properties                                                               *)

\* A request that has found a connection of its target and is still open is
\* not orphaned: its target has an identified connection, or a reader that
\* closed one has yet to run the fail loop (closeConnection takes the three
\* locks one after the other, sendRequest interleaves with all of them).
NoOrphanRequest ==
    \A r \in Reqs :
        Live(r) /\ pc[r] \in {"send", "mark", "returned", "waiting", "done"} =>
            \/ \E fd \in active : ident[fd] = target[r]
            \/ target[r] \in Services /\ closing[target[r]] > 0

\* The registry never offers selectBestService a service without an identified
\* connection, however IDENTIFY, disconnects and reconnects interleave.
RegisteredIsConnected ==
    \A s \in registered : \E fd \in active : ident[fd] = s

\* As long as the registry answers, a connection whose IDENTIFY was handled is
\* registered, and no second connection of its service is: closing an old
\* connection never unregisters the service of a newer one.
HandledConnections(s) == {fd \in active : ident[fd] = s /\ reader[fd] # "register"}
IdentifiedIsRegistered ==
    Free("registry") =>
        \A s \in Services : \A fd \in HandledConnections(s) :
            s \in registered /\ HandledConnections(s) = {fd}

\* A synchronous call never reports what did not happen: 200 only if the
\* service's answer was a success, 500 only if it was an error, and never a
\* disconnect or a timeout once an answer was correlated (404 is the exception
\* that AnsweredCallSucceeds is about).
HonestStatus == [ok |-> {200, 404}, error |-> {500, 404}, none |-> {503, 504, 404}]
AnswerReported ==
    \A r \in HttpReqs : pc[r] = "done" => result[r] \in HonestStatus[answer[r]]

\* Nothing is left behind by a finished HTTP call: its entry and its waiter are
\* gone, so a late answer, a disconnect or the cleaner can revive neither.
FinishedCallLeavesNothing ==
    \A r \in HttpReqs : pc[r] = "done" => state[r] = "absent" /\ r \notin waiters

\* The slot of a request nobody waits for (INVOKE, bridge) is reclaimed by its
\* answer and never comes back, although the sender's last critical section
\* (queued -> in_flight) may run after the answer.
AnsweredSlotReclaimed ==
    \A r \in BridgeReqs \cup InvokeReqs : answer[r] # "none" => state[r] = "absent"

\* A call whose service answered with success returns 200 (the gateway
\* integration test of a reconnected service asserts COMPLETED and 200).
AnsweredCallSucceeds ==
    \A r \in HttpReqs : pc[r] = "done" /\ answer[r] = "ok" => result[r] = 200

\* Every HTTP call behaves as RequestCall says: opened once, answered at most
\* once and only while open, returning once with a status its answer allows.
Call == INSTANCE RequestCall WITH
    Calls   <- HttpReqs,
    phase   <- [r \in HttpReqs |-> IF pc[r] \in {"idle", "done"} THEN pc[r] ELSE "open"],
    served  <- [r \in HttpReqs |-> answer[r]],
    outcome <- [r \in HttpReqs |-> result[r]]
ImplementsCalls == Call!CallSpec

\* A synchronous call returns, at the latest when its timeout is over.
EveryHttpCallReturns ==
    \A r \in HttpReqs : pc[r] = "waiting" ~> pc[r] = "done"

\* No entry stays in pendingRequests for ever, whoever created it.
TableDrains == \A r \in Reqs : state[r] # "absent" ~> state[r] = "absent"

\* An answer or a disconnect wakes the waiting HTTP thread: it does not have
\* to sit out its timeout.
OutcomeWakesWaiter ==
    \A r \in HttpReqs :
        (pc[r] = "waiting" /\ state[r] \in {"completed", "failed"}) ~> pc[r] = "done"
=============================================================================
