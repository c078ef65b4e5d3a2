--------------------------- MODULE GatewayProofs ---------------------------
(***************************************************************************)
(* Safety of Gateway for every set of services, descriptors and requests,  *)
(* with or without PromptEof: what TLC checks on small instances.          *)
(***************************************************************************)
EXTENDS Gateway, TLAPS

USE DEF connVars, regVars, reqVars, sendVars, callVars, histVars

\* Types at the start.
LEMMA TypeInit == Init => TypeOK
  BY ConstantsAssumption DEF Init, TypeOK, ReaderStates, RequestState, StatusCodes,
     Steps, Mutexes, Reqs, NoFd

\* Types, in what happens on a connection.
LEMMA TypeConnection ==
  ASSUME TypeOK, NEW fd \in Fds, Connection(fd)
  PROVE  TypeOK'
  <1> USE ConstantsAssumption DEF ReaderStates, RequestState, StatusCodes, Steps,
          Mutexes, Reqs, Free, NoFd
  <1>1. ASSUME NEW s \in Services, handleNewConnection(s, fd) PROVE TypeOK'
    BY <1>1 DEF handleNewConnection, TypeOK
  <1>2. CASE PeerDrops(fd)
    BY <1>2 DEF PeerDrops, TypeOK
  <1>3. CASE IdentifyBind(fd)
    BY <1>3 DEF IdentifyBind, TypeOK
  <1>4. CASE IdentifyRegister(fd)
    <2>0. /\ fd \in active /\ reader[fd] = "register"
          /\ registered' \in {registered, registered \cup {ident[fd]}}
          /\ stuck' \in {stuck, stuck \cup {"registry"}}
      BY <1>4 DEF IdentifyRegister
    <2>1. ident[fd] \in Services
      BY <2>0 DEF TypeOK
    <2>2. registered' \subseteq Services /\ stuck' \subseteq Mutexes
      BY <2>0, <2>1 DEF TypeOK
    <2>3. reader' \in [Fds -> ReaderStates]
      BY <1>4 DEF IdentifyRegister, TypeOK
    <2>4. \A f \in active' : reader'[f] = "register" => reader[f] = "register"
      BY <1>4 DEF IdentifyRegister, TypeOK
    <2>5. QED
      BY <1>4, <2>2, <2>3, <2>4 DEF IdentifyRegister, TypeOK
  <1>5. CASE PingBlocks(fd)
    BY <1>5 DEF PingBlocks, TypeOK
  <1>6. CASE closeConnection(fd)
    BY <1>6 DEF closeConnection, TypeOK
  <1>7. CASE closeConnectionBlocks(fd)
    BY <1>7 DEF closeConnectionBlocks, TypeOK
  <1>8. ASSUME NEW r \in Reqs, NEW a \in {"ok", "error"}, handleResponseMessage(fd, r, a)
        PROVE  TypeOK'
    <2>1. work' \in [Services -> SUBSET Reqs]
      BY <1>8 DEF handleResponseMessage, TypeOK
    <2>2. notified' \subseteq waiters' /\ waiters' = waiters
      BY <1>8 DEF handleResponseMessage, TypeOK
    <2>3. state' \in [Reqs -> RequestState] /\ code' \in [Reqs -> StatusCodes]
      BY <1>8 DEF handleResponseMessage, TypeOK
    <2>4. result' \in [Reqs -> StatusCodes \cup {0}]
      BY <1>8 DEF handleResponseMessage, TypeOK
    <2>5. answer' \in [Reqs -> {"none", "ok", "error"}]
      BY <1>8 DEF handleResponseMessage, TypeOK
    <2>6. QED
      BY <1>8, <2>1, <2>2, <2>3, <2>4, <2>5 DEF handleResponseMessage, TypeOK
  <1>9. ASSUME NEW r \in Reqs, handleResponseBlocks(fd, r) PROVE TypeOK'
    <2>1. work' \in [Services -> SUBSET Reqs]
      BY <1>9 DEF handleResponseBlocks, TypeOK
    <2>2. stuck' \subseteq Mutexes
      BY <1>9 DEF handleResponseBlocks, TypeOK
    <2>3. /\ reader' \in [Fds -> ReaderStates]
          /\ \A f \in active' : reader'[f] = "register" => reader[f] = "register"
      BY <1>9 DEF handleResponseBlocks, TypeOK
    <2>4. QED
      BY <1>9, <2>1, <2>2, <2>3 DEF handleResponseBlocks, TypeOK
  <1>10. ASSUME NEW r \in Reqs, InvokeSelect(r, fd) PROVE TypeOK'
    BY <1>10 DEF InvokeSelect, Select, TypeOK
  <1>11. QED
    BY <1>1, <1>2, <1>3, <1>4, <1>5, <1>6, <1>7, <1>8, <1>9, <1>10, Zenon DEF Connection

\* Types, in the steps of a thread that issues a request.
LEMMA TypeRequest ==
  ASSUME TypeOK, NEW r \in Reqs, Request(r)
  PROVE  TypeOK'
  <1> USE ConstantsAssumption DEF ReaderStates, RequestState, StatusCodes, Steps,
          Mutexes, Reqs, Free, NoFd, Live, LiveStates
  <1>1. CASE HttpSelect(r)
    BY <1>1 DEF HttpSelect, Select, TypeOK
  <1>2. CASE BridgeSelect(r)
    BY <1>2 DEF BridgeSelect, Select, TypeOK
  <1>3. CASE InsertPending(r)
    BY <1>3 DEF InsertPending, TypeOK
  <1>4. CASE LookupFd(r)
    BY <1>4 DEF LookupFd, TypeOK
  <1>5. CASE SendDelivers(r)
    <2>s. /\ tfd[r] \in up
          /\ work' = [work EXCEPT ![peer[tfd[r]]] = @ \cup {r}]
          /\ via' = [via EXCEPT ![r] = tfd[r]]
          /\ tfd' = [tfd EXCEPT ![r] = NoFd]
      BY <1>5 DEF SendDelivers
    <2>t. /\ active \subseteq Fds /\ up \subseteq active
          /\ \A fd \in active : peer[fd] \in Services
          /\ work \in [Services -> SUBSET Reqs]
          /\ via \in [Reqs -> Fds \cup {NoFd}] /\ tfd \in [Reqs -> Fds \cup {NoFd}]
      BY DEF TypeOK
    <2>0. tfd[r] \in active /\ tfd[r] \in Fds
      BY <2>s, <2>t
    <2>1. peer[tfd[r]] \in Services
      BY <2>0, <2>t
    <2>2. work' \in [Services -> SUBSET Reqs]
      BY <2>s, <2>t, <2>1
    <2>3. via' \in [Reqs -> Fds \cup {NoFd}] /\ tfd' \in [Reqs -> Fds \cup {NoFd}]
      BY <2>s, <2>t, <2>0
    <2>4. QED
      BY <1>5, <2>2, <2>3 DEF SendDelivers, TypeOK
  <1>6. CASE SendLost(r)
    BY <1>6 DEF SendLost, TypeOK
  <1>7. CASE EraseUnsent(r)
    BY <1>7 DEF EraseUnsent, HandlerReturns, TypeOK
  <1>8. CASE MarkInFlight(r)
    BY <1>8 DEF MarkInFlight, HandlerReturns, TypeOK
  <1>9. ASSUME ReturnResult(r) PROVE TypeOK'
    BY <1>9 DEF ReturnResult, StatusOf, TypeOK
  <1>10. CASE WaitStart(r)
    <2>1. ASSUME pc[r] = "returned", Live(r), waiters' = waiters \cup {r},
                 pc' = [pc EXCEPT ![r] = "waiting"],
                 UNCHANGED <<connVars, regVars, closing, state, code, notified,
                             target, tfd, callVars, work, histVars>>
          PROVE  TypeOK'
      BY <2>1 DEF TypeOK
    <2>2. QED
      BY <1>9, <1>10, <2>1 DEF WaitStart
  <1>11. CASE Wake(r)
    BY <1>9, <1>11 DEF Wake
  <1>12. CASE WaitTimeout(r)
    BY <1>9, <1>12 DEF WaitTimeout
  <1>13. CASE InvokeGivesUp(r)
    BY <1>13 DEF InvokeGivesUp, TypeOK
  <1>14. QED
    BY <1>1, <1>2, <1>3, <1>4, <1>5, <1>6, <1>7, <1>8, <1>10, <1>11, <1>12, <1>13,
       Zenon DEF Request, SendStep

\* Types, in any step.
LEMMA TypeStep == TypeOK /\ [Next]_vars => TypeOK'
  <1> SUFFICES ASSUME TypeOK, [Next]_vars PROVE TypeOK'
    OBVIOUS
  <1>1. ASSUME NEW s \in Services, FailInFlight(s) PROVE TypeOK'
    BY <1>1, ConstantsAssumption
       DEF FailInFlight, FailEntries, TypeOK, RequestState, StatusCodes, Reqs
  <1>2. ASSUME NEW old \in SUBSET Reqs, NEW stale \in SUBSET Reqs,
               cleanupExpiredRequests(old, stale)
        PROVE  TypeOK'
    BY <1>2 DEF cleanupExpiredRequests, TypeOK, RequestState, StatusCodes, Reqs
  <1>3. CASE performHealthCheck
    BY <1>3 DEF performHealthCheck, TypeOK, Mutexes
  <1>4. CASE UNCHANGED vars
    BY <1>4 DEF vars, TypeOK
  <1>5. QED
    BY <1>1, <1>2, <1>3, <1>4, TypeConnection, TypeRequest DEF Next

\* Every variable keeps its type, the other end of a connection is only open
\* while the connection is in activeConnections, and only threads that are in
\* responseWaiters_ are ever notified.
THEOREM TypeCorrect == Spec => []TypeOK
  <1>1. QED
    BY TypeInit, TypeStep, PTL DEF Spec

-----------------------------------------------------------------------------
(* No request is orphaned.                                                  *)

\* An entry exists only after the thread inserted it, with a real target.
EntryInv ==
    \A r \in Reqs :
        /\ pc[r] \in {"idle", "insert"} => state[r] = "absent"
        /\ pc[r] = "insert" \/ state[r] # "absent" => target[r] \in Services

PastLookup == {"send", "mark", "returned", "waiting", "done"}

\* What keeps an open request of target s from being an orphan.
Cared(s) == \/ \E fd \in active : ident[fd] = s
            \/ s \in Services /\ closing[s] > 0

\* An entry is in the table only after its thread has inserted it.
LEMMA EntryStep == TypeOK /\ EntryInv /\ [Next]_vars => EntryInv'
  <1> SUFFICES ASSUME TypeOK, EntryInv, [Next]_vars PROVE EntryInv'
    OBVIOUS
  <1> USE DEF EntryInv
  <1>1. ASSUME NEW fd \in Fds, Connection(fd) PROVE EntryInv'
    <2>1. ASSUME NEW r \in Reqs, NEW a \in {"ok", "error"},
                 handleResponseMessage(fd, r, a)
          PROVE  EntryInv'
      BY <2>1 DEF handleResponseMessage, TypeOK
    <2>2. ASSUME NEW r \in Reqs, InvokeSelect(r, fd) PROVE EntryInv'
      BY <2>2 DEF InvokeSelect, Select, TypeOK
    <2>3. CASE UNCHANGED <<pc, state, target>>
      BY <2>3
    <2>4. QED
      BY <1>1, <2>1, <2>2, <2>3 DEF Connection, handleNewConnection, PeerDrops,
         IdentifyBind, IdentifyRegister, PingBlocks, closeConnection,
         closeConnectionBlocks, handleResponseBlocks
  <1>2. ASSUME NEW r \in Reqs, Request(r) PROVE EntryInv'
    <2>1. CASE HttpSelect(r) \/ BridgeSelect(r)
      BY <2>1 DEF HttpSelect, BridgeSelect, Select, TypeOK
    <2>2. CASE InsertPending(r)
      BY <2>2 DEF InsertPending, TypeOK
    <2>3. CASE LookupFd(r) \/ SendDelivers(r) \/ SendLost(r)
      BY <2>3 DEF LookupFd, SendDelivers, SendLost, TypeOK
    <2>4. CASE EraseUnsent(r) \/ MarkInFlight(r)
      BY <2>4 DEF EraseUnsent, MarkInFlight, TypeOK
    <2>5. CASE WaitStart(r) \/ Wake(r) \/ WaitTimeout(r)
      BY <2>5 DEF WaitStart, Wake, WaitTimeout, ReturnResult, TypeOK
    <2>6. CASE InvokeGivesUp(r)
      BY <2>6 DEF InvokeGivesUp
    <2>7. QED
      BY <1>2, <2>1, <2>2, <2>3, <2>4, <2>5, <2>6 DEF Request, SendStep
  <1>3. ASSUME NEW s \in Services, FailInFlight(s) PROVE EntryInv'
    BY <1>3 DEF FailInFlight, FailEntries, Live, LiveStates
  <1>4. ASSUME NEW old \in SUBSET Reqs, NEW stale \in SUBSET Reqs,
               cleanupExpiredRequests(old, stale)
        PROVE  EntryInv'
    BY <1>4 DEF cleanupExpiredRequests, Live, LiveStates
  <1>5. CASE performHealthCheck \/ UNCHANGED vars
    BY <1>5 DEF performHealthCheck, vars
  <1>6. QED
    BY <1>1, <1>2, <1>3, <1>4, <1>5 DEF Next

\* A step that opens no entry, moves no open request past the lookup and leaves
\* the targets alone keeps every request from becoming an orphan, if no open
\* request's target loses the care it has.
LEMMA CareKept ==
  ASSUME NoOrphanRequest,
         \A r \in Reqs : Live(r)' => /\ Live(r)
                                     /\ pc'[r] \in PastLookup => pc[r] \in PastLookup
                                     /\ target'[r] = target[r]
                                     /\ Cared(target[r]) => Cared(target[r])'
  PROVE  NoOrphanRequest'
  BY DEF NoOrphanRequest, Cared, PastLookup

\* A connection is closed by a reader that then owes its service a fail loop.
LEMMA OrphanConnection ==
  ASSUME TypeOK, EntryInv, NoOrphanRequest, NEW fd \in Fds, Connection(fd)
  PROVE  NoOrphanRequest'
  <1> USE DEF Live, LiveStates
  <1>0. \A r \in Reqs : Live(r) => target[r] \in Services
    BY DEF EntryInv
  <1>1. ASSUME NEW s \in Services, handleNewConnection(s, fd) PROVE NoOrphanRequest'
    <2>1. \A f \in active : f \in active' /\ ident'[f] = ident[f]
      BY <1>1 DEF handleNewConnection, TypeOK
    <2>2. QED
      BY <1>1, <2>1, CareKept DEF handleNewConnection, Cared
  <1>2. CASE PeerDrops(fd)
    BY <1>2, CareKept DEF PeerDrops, Cared
  <1>3. CASE IdentifyBind(fd)
    <2>1. \A s \in Services : Cared(s) => Cared(s)'
      BY <1>3, ConstantsAssumption DEF IdentifyBind, TypeOK, Cared
    <2>2. UNCHANGED <<state, pc, target>>
      BY <1>3 DEF IdentifyBind
    <2>3. QED
      BY <1>0, <2>1, <2>2, CareKept
  <1>4. CASE IdentifyRegister(fd)
    BY <1>4, CareKept DEF IdentifyRegister, Cared
  <1>5. CASE PingBlocks(fd)
    BY <1>5, CareKept DEF PingBlocks, Cared
  <1>6. CASE closeConnection(fd)
    <2>1. \A s \in Services : Cared(s) => Cared(s)'
      <3> TAKE s \in Services
      <3>1. CASE ident[fd] = s
        BY <1>6, <3>1 DEF closeConnection, TypeOK, Cared
      <3>2. CASE ident[fd] # s
        <4>1. closing'[s] = closing[s]
          BY <1>6, <3>2 DEF closeConnection, TypeOK
        <4>2. \A f \in active : f # fd => f \in active' /\ ident'[f] = ident[f]
          BY <1>6 DEF closeConnection, TypeOK
        <4>3. QED
          BY <3>2, <4>1, <4>2 DEF Cared
      <3>3. QED
        BY <3>1, <3>2
    <2>2. UNCHANGED <<state, pc, target>>
      BY <1>6 DEF closeConnection
    <2>3. QED
      BY <1>0, <2>1, <2>2, CareKept
  <1>7. CASE closeConnectionBlocks(fd)
    BY <1>7, CareKept DEF closeConnectionBlocks, Cared
  <1>8. ASSUME NEW r \in Reqs, NEW a \in {"ok", "error"}, handleResponseMessage(fd, r, a)
        PROVE  NoOrphanRequest'
    <2>1. \A q \in Reqs : Live(q)' => Live(q)
      BY <1>8 DEF handleResponseMessage, TypeOK
    <2>2. QED
      BY <1>8, <2>1, CareKept DEF handleResponseMessage, Cared
  <1>9. ASSUME NEW r \in Reqs, handleResponseBlocks(fd, r) PROVE NoOrphanRequest'
    BY <1>9, CareKept DEF handleResponseBlocks, Cared
  <1>10. ASSUME NEW r \in Reqs, InvokeSelect(r, fd) PROVE NoOrphanRequest'
    <2>1. UNCHANGED <<active, ident, closing, state>> /\ ~Live(r)
      BY <1>10 DEF InvokeSelect, Select, EntryInv
    <2>2. \A q \in Reqs : q # r => pc'[q] = pc[q] /\ target'[q] = target[q]
      BY <1>10 DEF InvokeSelect, Select, TypeOK
    <2>3. QED
      BY <2>1, <2>2, CareKept DEF Cared
  <1>11. QED
    BY <1>1, <1>2, <1>3, <1>4, <1>5, <1>6, <1>7, <1>8, <1>9, <1>10, Zenon DEF Connection

\* A request is marked in flight only if its target had a connection to be found.
LEMMA OrphanRequest ==
  ASSUME TypeOK, EntryInv, NoOrphanRequest, NEW r \in Reqs, Request(r)
  PROVE  NoOrphanRequest'
  <1> USE DEF Live, LiveStates
  <1>1. CASE HttpSelect(r) \/ BridgeSelect(r)
    <2>1. UNCHANGED <<active, ident, closing, state>> /\ ~Live(r)
      BY <1>1 DEF HttpSelect, BridgeSelect, Select, EntryInv
    <2>2. \A q \in Reqs : q # r => pc'[q] = pc[q] /\ target'[q] = target[q]
      BY <1>1 DEF HttpSelect, BridgeSelect, Select, TypeOK
    <2>3. QED
      BY <2>1, <2>2, CareKept DEF Cared
  <1>2. CASE InsertPending(r)
    BY <1>2 DEF InsertPending, TypeOK, NoOrphanRequest
  <1>3. CASE LookupFd(r)
    BY <1>3 DEF LookupFd, TypeOK, NoOrphanRequest
  <1>4. CASE SendDelivers(r) \/ SendLost(r)
    BY <1>4, CareKept DEF SendDelivers, SendLost, TypeOK, Cared, PastLookup
  <1>5. CASE EraseUnsent(r)
    BY <1>5, CareKept DEF EraseUnsent, TypeOK, Cared, PastLookup
  <1>6. CASE MarkInFlight(r)
    BY <1>6, CareKept DEF MarkInFlight, TypeOK, Cared, PastLookup
  <1>7. CASE WaitStart(r) \/ Wake(r) \/ WaitTimeout(r)
    BY <1>7, CareKept DEF WaitStart, Wake, WaitTimeout, ReturnResult, TypeOK, Cared,
       PastLookup
  <1>8. CASE InvokeGivesUp(r)
    BY <1>8, CareKept DEF InvokeGivesUp, Cared
  <1>9. QED
    BY <1>1, <1>2, <1>3, <1>4, <1>5, <1>6, <1>7, <1>8, Zenon DEF Request, SendStep

\* Any step: the fail loop pays what was owed before it is forgotten.
LEMMA OrphanStep ==
  TypeOK /\ EntryInv /\ NoOrphanRequest /\ [Next]_vars => NoOrphanRequest'
  <1> SUFFICES ASSUME TypeOK, EntryInv, NoOrphanRequest, [Next]_vars
               PROVE  NoOrphanRequest'
    OBVIOUS
  <1> USE DEF Live, LiveStates
  <1>1. ASSUME NEW s \in Services, FailInFlight(s) PROVE NoOrphanRequest'
    <2>1. \A r \in Reqs : Live(r)' => Live(r) /\ target[r] # s
      BY <1>1 DEF FailInFlight, FailEntries
    <2>2. \A x \in Services : x # s => closing'[x] = closing[x]
      BY <1>1 DEF FailInFlight, FailEntries, TypeOK
    <2>3. QED
      BY <1>1, <2>1, <2>2, CareKept DEF FailInFlight, FailEntries, Cared
  <1>2. ASSUME NEW old \in SUBSET Reqs, NEW stale \in SUBSET Reqs,
               cleanupExpiredRequests(old, stale)
        PROVE  NoOrphanRequest'
    BY <1>2, CareKept DEF cleanupExpiredRequests, Cared
  <1>3. CASE performHealthCheck
    BY <1>3, CareKept DEF performHealthCheck, Cared
  <1>4. CASE UNCHANGED vars
    BY <1>4, CareKept DEF vars, Cared
  <1>5. QED
    BY <1>1, <1>2, <1>3, <1>4, OrphanConnection, OrphanRequest DEF Next

\* A request that found a connection of its target and is still open has an
\* identified connection of its target, or a reader about to fail it: whatever
\* the number of services, descriptors and threads, no interleaving of
\* sendRequest with closeConnection loses a request silently.
THEOREM NoRequestIsOrphaned == Spec => []NoOrphanRequest
  <1>1. Init => EntryInv /\ NoOrphanRequest
    BY DEF Init, EntryInv, NoOrphanRequest, Live, LiveStates
  <1>2. QED
    BY <1>1, TypeCorrect, EntryStep, OrphanStep, PTL DEF Spec

-----------------------------------------------------------------------------
(* The registry and the connections agree.                                  *)

\* The reader thread that handles an INVOKE does nothing else until the
\* handler returns, and its connection stays.
Sending == {"insert", "lookup", "send", "erase", "mark"}
ReaderInv ==
    /\ \A r \in InvokeReqs : pc[r] \in Sending =>
          origin[r] \in active /\ reader[origin[r]] = "busy"
    /\ \A q, r \in InvokeReqs :
          pc[q] \in Sending /\ pc[r] \in Sending /\ origin[q] = origin[r] => q = r

\* The reader an INVOKE came from is busy until its handler returns.
LEMMA ReaderStep == TypeOK /\ ReaderInv /\ [Next]_vars => ReaderInv'
  <1> SUFFICES ASSUME TypeOK, ReaderInv, [Next]_vars PROVE ReaderInv'
    OBVIOUS
  <1> USE ConstantsAssumption DEF ReaderInv, Sending
  <1>1. ASSUME NEW fd \in Fds, Connection(fd) PROVE ReaderInv'
    <2>1. CASE /\ UNCHANGED <<pc, origin>>
               /\ \A f \in active : reader[f] = "busy" =>
                     f \in active' /\ reader'[f] = "busy"
      BY <2>1
    <2>2. ASSUME NEW s \in Services, handleNewConnection(s, fd) PROVE ReaderInv'
      BY <2>1, <2>2 DEF handleNewConnection, TypeOK
    <2>3. CASE PeerDrops(fd)
      BY <2>1, <2>3 DEF PeerDrops
    <2>4. CASE IdentifyBind(fd)
      BY <2>1, <2>4 DEF IdentifyBind, TypeOK
    <2>5. CASE IdentifyRegister(fd)
      BY <2>1, <2>5 DEF IdentifyRegister, TypeOK
    <2>6. CASE PingBlocks(fd)
      BY <2>1, <2>6 DEF PingBlocks, TypeOK
    <2>7. CASE closeConnection(fd)
      BY <2>1, <2>7 DEF closeConnection, TypeOK
    <2>8. CASE closeConnectionBlocks(fd)
      BY <2>1, <2>8 DEF closeConnectionBlocks, TypeOK
    <2>9. ASSUME NEW r \in Reqs, NEW a \in {"ok", "error"},
                 handleResponseMessage(fd, r, a)
          PROVE  ReaderInv'
      BY <2>1, <2>9 DEF handleResponseMessage
    <2>10. ASSUME NEW r \in Reqs, handleResponseBlocks(fd, r) PROVE ReaderInv'
      BY <2>1, <2>10 DEF handleResponseBlocks, TypeOK
    <2>11. ASSUME NEW r \in Reqs, InvokeSelect(r, fd) PROVE ReaderInv'
      <3>1. /\ r \in InvokeReqs /\ fd \in active /\ reader[fd] = "recv"
            /\ active' = active
            /\ pc' \in {[pc EXCEPT ![r] = "insert"], [pc EXCEPT ![r] = "done"]}
            /\ origin' = [origin EXCEPT ![r] = fd]
            /\ reader' = [reader EXCEPT ![fd] = IF pc'[r] = "insert"
                                                  THEN "busy" ELSE "recv"]
        BY <2>11 DEF InvokeSelect, Select, TypeOK
      <3>2. \A q \in InvokeReqs : q # r => pc'[q] = pc[q] /\ origin'[q] = origin[q]
        BY <3>1 DEF TypeOK, Reqs
      <3>4. \A f \in Fds : f # fd => reader'[f] = reader[f]
        BY <3>1 DEF TypeOK
      <3>5. \A q \in InvokeReqs : q # r /\ pc'[q] \in Sending => origin'[q] # fd
        BY <3>1, <3>2
      <3>6. reader'[fd] = (IF pc'[r] = "insert" THEN "busy" ELSE "recv") /\ origin'[r] = fd
        BY <3>1 DEF TypeOK
      <3>7. ASSUME NEW q \in InvokeReqs, pc'[q] \in Sending
            PROVE  origin'[q] \in active' /\ reader'[origin'[q]] = "busy"
        <4>1. CASE q = r
          BY <3>1, <3>6, <3>7, <4>1 DEF TypeOK, Reqs
        <4>2. CASE q # r
          <5>1. origin[q] \in active /\ reader[origin[q]] = "busy"
            BY <3>2, <3>7, <4>2
          <5>2. origin'[q] = origin[q] /\ origin[q] # fd /\ origin[q] \in Fds
            BY <3>2, <3>5, <3>7, <4>2, <5>1 DEF TypeOK
          <5>3. QED
            BY <3>1, <3>4, <5>1, <5>2
        <4>3. QED
          BY <4>1, <4>2
      <3>8. ASSUME NEW q \in InvokeReqs, NEW p \in InvokeReqs,
                   pc'[q] \in Sending, pc'[p] \in Sending, origin'[q] = origin'[p]
            PROVE  q = p
        BY <3>2, <3>5, <3>6, <3>8
      <3>3. QED
        BY <3>7, <3>8
    <2>12. QED
      BY <1>1, <2>2, <2>3, <2>4, <2>5, <2>6, <2>7, <2>8, <2>9, <2>10, <2>11, ZenonT(30)
         DEF Connection
  <1>2. ASSUME NEW r \in Reqs, Request(r) PROVE ReaderInv'
    <2>1. CASE /\ UNCHANGED <<active, reader, origin>>
               /\ \A q \in InvokeReqs : pc'[q] \in Sending => pc[q] \in Sending
      BY <2>1
    <2>2. CASE HttpSelect(r) \/ BridgeSelect(r)
      BY <2>1, <2>2 DEF HttpSelect, BridgeSelect, Select, TypeOK, Reqs
    <2>3. CASE InsertPending(r) \/ LookupFd(r) \/ SendDelivers(r) \/ SendLost(r)
      BY <2>1, <2>3 DEF InsertPending, LookupFd, SendDelivers, SendLost, TypeOK, Reqs
    <2>4. CASE EraseUnsent(r) \/ MarkInFlight(r)
      <3>1. /\ pc[r] \in Sending /\ pc'[r] \notin Sending
            /\ UNCHANGED <<active, origin>>
            /\ HandlerReturns(r)
        BY <2>4 DEF EraseUnsent, MarkInFlight, TypeOK
      <3>2. \A q \in Reqs : q # r => pc'[q] = pc[q]
        BY <2>4 DEF EraseUnsent, MarkInFlight, TypeOK
      <3>3. QED
        BY <3>1, <3>2 DEF HandlerReturns, TypeOK, Reqs
    <2>5. CASE WaitStart(r) \/ Wake(r) \/ WaitTimeout(r)
      BY <2>1, <2>5 DEF WaitStart, Wake, WaitTimeout, ReturnResult, TypeOK, Reqs
    <2>6. CASE InvokeGivesUp(r)
      BY <2>1, <2>6 DEF InvokeGivesUp
    <2>7. QED
      BY <1>2, <2>2, <2>3, <2>4, <2>5, <2>6, Zenon DEF Request, SendStep
  <1>3. ASSUME NEW s \in Services, FailInFlight(s) PROVE ReaderInv'
    BY <1>3 DEF FailInFlight, FailEntries
  <1>4. ASSUME NEW old \in SUBSET Reqs, NEW stale \in SUBSET Reqs,
               cleanupExpiredRequests(old, stale)
        PROVE  ReaderInv'
    BY <1>4 DEF cleanupExpiredRequests
  <1>5. CASE performHealthCheck \/ UNCHANGED vars
    BY <1>5 DEF performHealthCheck, vars
  <1>6. QED
    BY <1>1, <1>2, <1>3, <1>4, <1>5 DEF Next

\* What the registry theorem is about changes only with a connection, or when
\* an INVOKE handler returns.
LEMMA RegistryFrame ==
  ASSUME TypeOK, ReaderInv, NEW r \in Reqs, Request(r)
  PROVE  /\ UNCHANGED <<active, ident, registered, stuck>>
         /\ \A fd \in Fds : reader'[fd] = "register" <=> reader[fd] = "register"
  <1>1. CASE EraseUnsent(r) \/ MarkInFlight(r)
    BY <1>1 DEF EraseUnsent, MarkInFlight, HandlerReturns, ReaderInv, Sending, TypeOK
  <1>2. CASE UNCHANGED <<connVars, regVars>>
    BY <1>2
  <1>3. QED
    BY <1>1, <1>2 DEF Request, SendStep, HttpSelect, BridgeSelect, InsertPending,
       LookupFd, SendDelivers, SendLost, WaitStart, Wake, WaitTimeout, ReturnResult,
       InvokeGivesUp

RegistryInv == RegisteredIsConnected /\ IdentifiedIsRegistered

\* Connections and registry change together, or the reader between them is busy.
LEMMA RegistryConnection ==
  ASSUME TypeOK, RegistryInv, NEW fd \in Fds, Connection(fd)
  PROVE  RegistryInv'
  <1> USE ConstantsAssumption DEF RegistryInv, RegisteredIsConnected,
          IdentifiedIsRegistered, HandledConnections, Free
  <1>1. CASE /\ UNCHANGED <<active, ident, registered>>
             /\ stuck \subseteq stuck'
             /\ \A f \in Fds : reader'[f] = "register" <=> reader[f] = "register"
    <2>0. \A f \in active : (reader'[f] # "register") = (reader[f] # "register")
      BY <1>1 DEF TypeOK
    <2>1. ASSUME NEW s \in Services
          PROVE  HandledConnections(s)' = HandledConnections(s)
      <3>1. \A f : f \in HandledConnections(s)' <=> f \in HandledConnections(s)
        BY <1>1, <2>0
      <3>2. QED
        BY <3>1
    <2>2. Free("registry")' => Free("registry")
      BY <1>1
    <2>3. RegisteredIsConnected'
      BY <1>1
    <2>4. IdentifiedIsRegistered'
      <3> HIDE DEF HandledConnections
      <3> QED BY <1>1, <2>1, <2>2
    <2>5. QED
      BY <2>3, <2>4
  <1>2. ASSUME NEW s \in Services, handleNewConnection(s, fd) PROVE RegistryInv'
    <2>1. \A f \in active : f # fd /\ f \in active' /\ ident'[f] = ident[f]
                            /\ reader'[f] = reader[f]
      BY <1>2 DEF handleNewConnection, TypeOK
    <2>2. \A f \in active' : f = fd \/ f \in active
      BY <1>2 DEF handleNewConnection
    <2>3. ident'[fd] = NoService /\ UNCHANGED <<registered, stuck>>
      BY <1>2 DEF handleNewConnection, TypeOK
    <2>4. \A x \in Services : HandledConnections(x)' = HandledConnections(x)
      BY <2>1, <2>2, <2>3
    <2>5. RegisteredIsConnected'
      BY <2>1, <2>3
    <2>6. IdentifiedIsRegistered'
      <3> HIDE DEF HandledConnections
      <3> QED BY <2>3, <2>4
    <2>7. QED
      BY <2>5, <2>6
  <1>3. CASE PeerDrops(fd)
    BY <1>1, <1>3 DEF PeerDrops
  <1>4. CASE IdentifyBind(fd)
    <2>1. /\ fd \in active /\ ident[fd] = NoService
          /\ UNCHANGED <<active, registered, stuck>>
          /\ reader'[fd] = "register"
      BY <1>4 DEF IdentifyBind, TypeOK
    <2>2. \A f \in active : f # fd => ident'[f] = ident[f] /\ reader'[f] = reader[f]
      BY <1>4 DEF IdentifyBind, TypeOK
    <2>3. \A x \in Services : HandledConnections(x)' = HandledConnections(x)
      BY <2>1, <2>2
    <2>4. RegisteredIsConnected'
      BY <2>1, <2>2 DEF TypeOK
    <2>5. IdentifiedIsRegistered'
      <3> HIDE DEF HandledConnections
      <3> QED BY <2>1, <2>3
    <2>6. QED
      BY <2>4, <2>5
  <1>5. CASE IdentifyRegister(fd)
    <2>1. fd \in active /\ ident[fd] \in Services /\ reader[fd] = "register"
      BY <1>5 DEF IdentifyRegister, TypeOK
    <2>2. CASE ident[fd] \notin registered
      <3>1. /\ registered' = registered \cup {ident[fd]}
            /\ reader' = [reader EXCEPT ![fd] = "recv"]
            /\ UNCHANGED <<active, ident, stuck>> /\ Free("registry")
        BY <1>5, <2>2 DEF IdentifyRegister
      <3>2. \A s \in Services : s # ident[fd] =>
                HandledConnections(s)' = HandledConnections(s)
        BY <2>1, <3>1 DEF TypeOK
      <3>3. HandledConnections(ident[fd])' = {fd}
        <4>1. HandledConnections(ident[fd]) = {}
          BY <2>1, <2>2, <3>1
        <4>2. reader'[fd] = "recv" /\ \A f \in active : f # fd => reader'[f] = reader[f]
          BY <2>1, <3>1 DEF TypeOK
        <4>3. QED
          BY <2>1, <3>1, <4>1, <4>2
      <3>4. RegisteredIsConnected'
        BY <2>1, <3>1
      <3>5. IdentifiedIsRegistered'
        <4> HIDE DEF HandledConnections
        <4> QED BY <2>1, <3>1, <3>2, <3>3
      <3>6. QED
        BY <3>4, <3>5
    <2>3. CASE ident[fd] \in registered
      BY <1>5, <2>3 DEF IdentifyRegister
    <2>4. QED
      BY <2>2, <2>3
  <1>6. CASE PingBlocks(fd)
    BY <1>1, <1>6 DEF PingBlocks, TypeOK
  <1>7. CASE closeConnection(fd)
    <2>1. /\ fd \in active /\ reader[fd] = "recv"
          /\ active' = active \ {fd}
          /\ registered' = registered \ {ident[fd]}
          /\ UNCHANGED <<reader, stuck>>
          /\ ident[fd] # NoService => Free("registry")
      BY <1>7 DEF closeConnection
    <2>2. \A f \in active : f # fd => ident'[f] = ident[f]
      BY <1>7 DEF closeConnection, TypeOK
    <2>3. RegisteredIsConnected'
      BY <2>1, <2>2
    <2>4. IdentifiedIsRegistered'
      <3> SUFFICES ASSUME Free("registry"), NEW s \in Services,
                          NEW f \in HandledConnections(s)'
                   PROVE  s \in registered' /\ HandledConnections(s)' = {f}
        BY <2>1
      <3>1. f \in HandledConnections(s) /\ f # fd
        BY <2>1, <2>2
      <3>2. s \in registered /\ HandledConnections(s) = {f}
        BY <3>1
      <3>3. ident[fd] # s
        BY <2>1, <3>1, <3>2
      <3>4. HandledConnections(s)' = HandledConnections(s)
        BY <2>1, <2>2, <3>3
      <3>5. QED
        BY <2>1, <3>2, <3>3, <3>4
    <2>5. QED
      BY <2>3, <2>4
  <1>8. CASE closeConnectionBlocks(fd)
    BY <1>1, <1>8 DEF closeConnectionBlocks, TypeOK
  <1>9. ASSUME NEW r \in Reqs, NEW a \in {"ok", "error"}, handleResponseMessage(fd, r, a)
        PROVE  RegistryInv'
    BY <1>1, <1>9 DEF handleResponseMessage
  <1>10. ASSUME NEW r \in Reqs, handleResponseBlocks(fd, r) PROVE RegistryInv'
    BY <1>1, <1>10 DEF handleResponseBlocks, TypeOK
  <1>11. ASSUME NEW r \in Reqs, InvokeSelect(r, fd) PROVE RegistryInv'
    BY <1>1, <1>11 DEF InvokeSelect, TypeOK
  <1>12. QED
    BY <1>2, <1>3, <1>4, <1>5, <1>6, <1>7, <1>8, <1>9, <1>10, <1>11, Zenon DEF Connection

\* Any step keeps registry and connections in agreement.
LEMMA RegistryStep ==
  TypeOK /\ ReaderInv /\ RegistryInv /\ [Next]_vars => RegistryInv'
  <1> SUFFICES ASSUME TypeOK, ReaderInv, RegistryInv, [Next]_vars PROVE RegistryInv'
    OBVIOUS
  <1> USE DEF RegistryInv, RegisteredIsConnected, IdentifiedIsRegistered,
          HandledConnections, Free
  <1>1. ASSUME NEW r \in Reqs, Request(r) PROVE RegistryInv'
    BY <1>1, RegistryFrame DEF TypeOK
  <1>2. ASSUME NEW s \in Services, FailInFlight(s) PROVE RegistryInv'
    BY <1>2 DEF FailInFlight, FailEntries
  <1>3. ASSUME NEW old \in SUBSET Reqs, NEW stale \in SUBSET Reqs,
               cleanupExpiredRequests(old, stale)
        PROVE  RegistryInv'
    BY <1>3 DEF cleanupExpiredRequests
  <1>4. CASE performHealthCheck \/ UNCHANGED vars
    BY <1>4 DEF performHealthCheck, vars
  <1>5. QED
    BY <1>1, <1>2, <1>3, <1>4, RegistryConnection DEF Next

\* The registry offers only services with an identified connection, and while
\* it answers at all, a handled connection is the one its service is registered
\* through: no close of an old connection unregisters a newer one.
THEOREM RegistryAgrees == Spec => [](RegisteredIsConnected /\ IdentifiedIsRegistered)
  <1>1. Init => ReaderInv /\ RegistryInv
    BY DEF Init, ReaderInv, Sending, RegistryInv, RegisteredIsConnected,
       IdentifiedIsRegistered, HandledConnections, Reqs
  <1>2. QED
    BY <1>1, TypeCorrect, ReaderStep, RegistryStep, PTL DEF Spec, RegistryInv

\* In particular selectBestService is never offered a service that has no
\* identified connection.
THEOREM RegistryOffersConnected == Spec => []RegisteredIsConnected
  <1>1. QED
    BY RegistryAgrees, PTL
=============================================================================
