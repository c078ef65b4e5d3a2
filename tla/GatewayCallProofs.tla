------------------------- MODULE GatewayCallProofs -------------------------
(***************************************************************************)
(* What the client of a synchronous call is told, for every set of         *)
(* services, descriptors and requests: the entry of pendingRequests, the   *)
(* answer that was correlated with it and the status returned agree, and   *)
(* every call behaves as RequestCall says.                                 *)
(***************************************************************************)
EXTENDS GatewayProofs

USE DEF connVars, regVars, reqVars, sendVars, callVars, histVars

\* The threads whose REQUEST message was not sent (yet).
Unsent == {"idle", "insert", "lookup", "send", "erase"}

\* A request is with at most one process, only after it was sent, and only
\* until it is answered: no answer comes twice.
DeliveryInv == \A r \in Reqs :
    /\ pc[r] \in Unsent => answer[r] = "none" /\ \A s \in Services : r \notin work[s]
    /\ \A s \in Services : r \in work[s] => answer[r] = "none"
    /\ \A s, t \in Services : r \in work[s] /\ r \in work[t] => s = t

\* What the answer says of the entry: its state and its statusCode.
EntryAgrees(r) ==
    /\ answer[r] = "none" => /\ state[r] # "completed"
                             /\ state[r] = "failed" => code[r] = 503
                             /\ state[r] = "timed_out" => code[r] = 504
    /\ answer[r] = "ok" => state[r] = "absent" \/ (state[r] = "completed" /\ code[r] = 200)
    /\ answer[r] = "error" => state[r] = "absent" \/ (state[r] = "failed" /\ code[r] = 500)
    /\ answer[r] # "none" /\ r \notin HttpReqs => state[r] = "absent"

\* A returned call: nothing left, and a status its answer allows.
CallClosed(r) == pc[r] = "done" => state[r] = "absent" /\ result[r] \in HonestStatus[answer[r]]

OutcomeInv ==
    /\ \A r \in Reqs : EntryAgrees(r) /\ (r \in waiters <=> pc[r] = "waiting")
    /\ \A r \in HttpReqs : CallClosed(r)

\* No step gives a request to two processes, or has it answered twice.
LEMMA DeliveryStep == TypeOK /\ DeliveryInv /\ [Next]_vars => DeliveryInv'
  <1> SUFFICES ASSUME TypeOK, DeliveryInv, [Next]_vars PROVE DeliveryInv'
    OBVIOUS
  <1>0. CASE UNCHANGED <<pc, work, answer>>
    BY <1>0 DEF DeliveryInv
  <1>1. ASSUME NEW fd \in Fds, Connection(fd) PROVE DeliveryInv'
    <2>1. CASE PeerDrops(fd)
      BY <2>1 DEF PeerDrops, DeliveryInv, TypeOK
    <2>2. ASSUME NEW r \in Reqs, NEW a \in {"ok", "error"}, handleResponseMessage(fd, r, a)
          PROVE  DeliveryInv'
      <3> DEFINE s == peer[fd]
      <3>1. /\ s \in Services /\ r \in work[s] /\ pc' = pc
            /\ \A q \in Reqs \ {r} : answer'[q] = answer[q]
        BY <2>2 DEF handleResponseMessage, TypeOK
      <3>2. /\ work'[s] = work[s] \ {r}
            /\ \A t \in Services \ {s} : work'[t] = work[t]
        BY <2>2, <3>1 DEF handleResponseMessage, TypeOK
      <3>3. \A t \in Services : r \notin work'[t]
        BY <3>1, <3>2 DEF DeliveryInv
      <3> HIDE DEF s
      <3>4. QED
        BY <3>1, <3>2, <3>3 DEF DeliveryInv
    <2>3. ASSUME NEW r \in Reqs, handleResponseBlocks(fd, r) PROVE DeliveryInv'
      BY <2>3 DEF handleResponseBlocks, DeliveryInv, TypeOK
    <2>4. ASSUME NEW r \in Reqs, InvokeSelect(r, fd) PROVE DeliveryInv'
      BY <2>4 DEF InvokeSelect, Select, DeliveryInv, TypeOK, Unsent
    <2>5. ASSUME NEW s \in Services, handleNewConnection(s, fd) PROVE DeliveryInv'
      BY <1>0, <2>5 DEF handleNewConnection
    <2>6. CASE IdentifyBind(fd) \/ IdentifyRegister(fd) \/ PingBlocks(fd)
      BY <1>0, <2>6 DEF IdentifyBind, IdentifyRegister, PingBlocks
    <2>7. CASE closeConnection(fd) \/ closeConnectionBlocks(fd)
      BY <1>0, <2>7 DEF closeConnection, closeConnectionBlocks
    <2>8. QED
      BY <1>1, <2>1, <2>2, <2>3, <2>4, <2>5, <2>6, <2>7, Zenon DEF Connection
  <1>2. ASSUME NEW r \in Reqs, Request(r) PROVE DeliveryInv'
    <2>1. ASSUME /\ UNCHANGED <<work, answer>>
                 /\ \A q \in Reqs : pc'[q] \in Unsent => pc[q] \in Unsent
          PROVE  DeliveryInv'
      BY <2>1 DEF DeliveryInv
    <2>2. CASE HttpSelect(r) \/ BridgeSelect(r)
      BY <2>1, <2>2 DEF HttpSelect, BridgeSelect, Select, Unsent, TypeOK
    <2>3. CASE InsertPending(r) \/ LookupFd(r) \/ SendLost(r)
      BY <2>1, <2>3 DEF InsertPending, LookupFd, SendLost, Unsent, TypeOK
    <2>4. CASE SendDelivers(r)
      <3> DEFINE s == peer[tfd[r]]
      <3>1. /\ s \in Services /\ answer' = answer /\ pc[r] \in Unsent
            /\ pc'[r] \notin Unsent
            /\ \A q \in Reqs \ {r} : pc'[q] = pc[q]
        BY <2>4 DEF SendDelivers, TypeOK, Unsent
      <3>2. /\ work'[s] = work[s] \cup {r}
            /\ \A t \in Services \ {s} : work'[t] = work[t]
        BY <2>4, <3>1 DEF SendDelivers, TypeOK
      <3> HIDE DEF s
      <3>3. QED
        BY <3>1, <3>2 DEF DeliveryInv
    <2>5. CASE EraseUnsent(r) \/ MarkInFlight(r)
      BY <2>1, <2>5 DEF EraseUnsent, MarkInFlight, Unsent, TypeOK
    <2>6. CASE WaitStart(r) \/ Wake(r) \/ WaitTimeout(r)
      BY <2>1, <2>6 DEF WaitStart, Wake, WaitTimeout, ReturnResult, Unsent, TypeOK
    <2>7. CASE InvokeGivesUp(r)
      BY <1>0, <2>7 DEF InvokeGivesUp
    <2>8. QED
      BY <1>2, <2>2, <2>3, <2>4, <2>5, <2>6, <2>7, Zenon DEF Request, SendStep
  <1>3. ASSUME NEW s \in Services, FailInFlight(s) PROVE DeliveryInv'
    BY <1>0, <1>3 DEF FailInFlight, FailEntries
  <1>4. ASSUME NEW old \in SUBSET Reqs, NEW stale \in SUBSET Reqs,
               cleanupExpiredRequests(old, stale)
        PROVE  DeliveryInv'
    BY <1>0, <1>4 DEF cleanupExpiredRequests
  <1>5. CASE performHealthCheck \/ UNCHANGED vars
    BY <1>0, <1>5 DEF performHealthCheck, vars
  <1>6. QED
    BY <1>1, <1>2, <1>3, <1>4, <1>5 DEF Next

\* Nothing the outcome depends on changes for request q.
SameOutcome(q) ==
    /\ state'[q] = state[q] /\ code'[q] = code[q] /\ answer'[q] = answer[q]
    /\ pc'[q] = pc[q] /\ result'[q] = result[q]
    /\ q \in waiters' <=> q \in waiters

\* A step that disturbs the outcome of one request at most keeps OutcomeInv if
\* it keeps it for that request.
LEMMA OutcomeFrame ==
  ASSUME OutcomeInv, NEW r \in Reqs, \A q \in Reqs \ {r} : SameOutcome(q),
         EntryAgrees(r)', r \in waiters' <=> pc'[r] = "waiting",
         r \in HttpReqs => CallClosed(r)'
  PROVE  OutcomeInv'
  <1>1. ASSUME NEW q \in Reqs PROVE EntryAgrees(q)' /\ (q \in waiters' <=> pc'[q] = "waiting")
    BY DEF OutcomeInv, SameOutcome, EntryAgrees
  <1>2. ASSUME NEW q \in HttpReqs PROVE CallClosed(q)'
    BY DEF OutcomeInv, SameOutcome, CallClosed, Reqs
  <1>3. QED
    BY <1>1, <1>2 DEF OutcomeInv

\* The answer of a service reaches an entry that is still there only while the
\* call is open and has none.
LEMMA AnswerOnce ==
  ASSUME TypeOK, DeliveryInv, NEW fd \in Fds, NEW r \in Reqs, NEW a \in {"ok", "error"},
         handleResponseMessage(fd, r, a)
  PROVE  answer[r] = "none" /\ pc[r] \notin Unsent
  BY DEF handleResponseMessage, DeliveryInv, TypeOK

\* An answer is written to an open entry, and its waiter is told.
LEMMA OutcomeAnswer ==
  ASSUME TypeOK, DeliveryInv, OutcomeInv, NEW fd \in Fds, NEW r \in Reqs,
         NEW a \in {"ok", "error"}, handleResponseMessage(fd, r, a)
  PROVE  OutcomeInv'
  <1>a. pc' = pc /\ waiters' = waiters
    BY Zenon DEF handleResponseMessage
  <1>0. answer[r] = "none" /\ pc' = pc /\ waiters' = waiters
    BY <1>a, AnswerOnce
  <1>p. state' = state \/ \E x : state' = [state EXCEPT ![r] = x]
    BY ZenonT(30) DEF handleResponseMessage
  <1>q. code' = code \/ \E x : code' = [code EXCEPT ![r] = x]
    BY ZenonT(30) DEF handleResponseMessage
  <1>v. answer' = answer \/ answer' = [answer EXCEPT ![r] = a]
    BY Zenon DEF handleResponseMessage
  <1>w. result' = result \/ \E x : result' = [result EXCEPT ![r] = x]
    BY ZenonT(30) DEF handleResponseMessage
  <1>1. ASSUME NEW q \in Reqs \ {r} PROVE SameOutcome(q)
    <2>1. state'[q] = state[q] /\ code'[q] = code[q]
      BY <1>p, <1>q DEF TypeOK
    <2>2. answer'[q] = answer[q] /\ result'[q] = result[q]
      BY <1>v, <1>w DEF TypeOK
    <2>3. QED
      BY <1>0, <2>1, <2>2 DEF SameOutcome
  <1>2. EntryAgrees(r)'
    BY <1>0 DEF handleResponseMessage, EntryAgrees, TypeOK, OutcomeInv
  <1>3. ASSUME r \in HttpReqs PROVE CallClosed(r)'
    <2>1. result' = result
      BY <1>3, ConstantsAssumption DEF handleResponseMessage, TypeOK
    <2>2. pc[r] = "done" => state[r] = "absent" /\ state'[r] = "absent"
                            /\ answer'[r] = answer[r]
      BY <1>3 DEF handleResponseMessage, OutcomeInv, CallClosed, TypeOK
    <2>3. QED
      BY <1>0, <1>3, <2>1, <2>2 DEF OutcomeInv, CallClosed
  <1>4. QED
    BY <1>0, <1>1, <1>2, <1>3, OutcomeFrame DEF OutcomeInv

\* A thread that issues a request moves, and touches its own entry only.
LEMMA OutcomeRequest ==
  ASSUME TypeOK, EntryInv, DeliveryInv, OutcomeInv, NEW r \in Reqs, Request(r)
  PROVE  OutcomeInv'
  <1>0. EntryAgrees(r) /\ (r \in waiters <=> pc[r] = "waiting")
        /\ (r \in HttpReqs => CallClosed(r))
    BY DEF OutcomeInv
  <1> USE DEF SameOutcome, TypeOK
  <1>1. CASE HttpSelect(r) \/ BridgeSelect(r)
    <2>1. Select(r) /\ UNCHANGED <<reqVars, answer>>
      BY <1>1 DEF HttpSelect, BridgeSelect
    <2>2. \A q \in Reqs \ {r} : SameOutcome(q)
      BY <2>1 DEF Select
    <2>3. EntryAgrees(r)'
      BY <1>0, <2>1 DEF EntryAgrees
    <2>4. r \in waiters' <=> pc'[r] = "waiting"
      BY <1>0, <2>1 DEF Select
    <2>5. r \in HttpReqs => CallClosed(r)'
      BY <2>1 DEF Select, CallClosed, EntryInv, DeliveryInv, Unsent, HonestStatus
    <2>6. QED
      BY <2>2, <2>3, <2>4, <2>5, OutcomeFrame
  <1>2. CASE InsertPending(r)
    <2>1. \A q \in Reqs \ {r} : SameOutcome(q)
      BY <1>2 DEF InsertPending
    <2>2. EntryAgrees(r)'
      BY <1>2 DEF InsertPending, EntryAgrees, DeliveryInv, Unsent
    <2>3. (r \in waiters' <=> pc'[r] = "waiting") /\ (r \in HttpReqs => CallClosed(r)')
      BY <1>0, <1>2 DEF InsertPending, CallClosed
    <2>4. QED
      BY <2>1, <2>2, <2>3, OutcomeFrame
  <1>3. CASE LookupFd(r) \/ SendDelivers(r) \/ SendLost(r)
    <2>1. \A q \in Reqs \ {r} : SameOutcome(q)
      BY <1>3 DEF LookupFd, SendDelivers, SendLost
    <2>2. EntryAgrees(r)'
      BY <1>0, <1>3 DEF LookupFd, SendDelivers, SendLost, EntryAgrees
    <2>3. (r \in waiters' <=> pc'[r] = "waiting") /\ (r \in HttpReqs => CallClosed(r)')
      BY <1>0, <1>3 DEF LookupFd, SendDelivers, SendLost, CallClosed
    <2>4. QED
      BY <2>1, <2>2, <2>3, OutcomeFrame
  <1>4. CASE EraseUnsent(r)
    <2>1. \A q \in Reqs \ {r} : SameOutcome(q)
      BY <1>4 DEF EraseUnsent
    <2>2. EntryAgrees(r)'
      BY <1>4 DEF EraseUnsent, EntryAgrees
    <2>3. r \in waiters' <=> pc'[r] = "waiting"
      BY <1>0, <1>4 DEF EraseUnsent
    <2>4. r \in HttpReqs => CallClosed(r)'
      BY <1>4 DEF EraseUnsent, CallClosed, DeliveryInv, Unsent, HonestStatus
    <2>5. QED
      BY <2>1, <2>2, <2>3, <2>4, OutcomeFrame
  <1>5. CASE MarkInFlight(r)
    <2>1. \A q \in Reqs \ {r} : SameOutcome(q)
      BY <1>5 DEF MarkInFlight
    <2>2. EntryAgrees(r)'
      BY <1>0, <1>5 DEF MarkInFlight, EntryAgrees
    <2>3. (r \in waiters' <=> pc'[r] = "waiting") /\ (r \in HttpReqs => CallClosed(r)')
      BY <1>0, <1>5 DEF MarkInFlight, CallClosed
    <2>4. QED
      BY <2>1, <2>2, <2>3, OutcomeFrame
  <1>6. ASSUME ReturnResult(r) PROVE OutcomeInv'
    <2>1. \A q \in Reqs \ {r} : SameOutcome(q)
      BY <1>6 DEF ReturnResult
    <2>2. EntryAgrees(r)'
      BY <1>6 DEF ReturnResult, EntryAgrees
    <2>3. r \in waiters' <=> pc'[r] = "waiting"
      BY <1>6 DEF ReturnResult
    <2>4. StatusOf(r) \in HonestStatus[answer[r]]
      BY <1>0 DEF StatusOf, EntryAgrees, HonestStatus, Live, LiveStates, RequestState
    <2>5. CallClosed(r)'
      BY <1>6, <2>4 DEF ReturnResult, CallClosed
    <2>6. QED
      BY <2>1, <2>2, <2>3, <2>5, OutcomeFrame
  <1>7. CASE WaitStart(r)
    <2>1. ASSUME pc[r] = "returned", waiters' = waiters \cup {r},
                 pc' = [pc EXCEPT ![r] = "waiting"],
                 UNCHANGED <<state, code, result, answer>>
          PROVE  OutcomeInv'
      <3>1. \A q \in Reqs \ {r} : SameOutcome(q)
        BY <2>1
      <3>2. EntryAgrees(r)'
        BY <1>0, <2>1 DEF EntryAgrees
      <3>3. (r \in waiters' <=> pc'[r] = "waiting") /\ (r \in HttpReqs => CallClosed(r)')
        BY <2>1 DEF CallClosed
      <3>4. QED
        BY <3>1, <3>2, <3>3, OutcomeFrame
    <2>2. QED
      BY <1>6, <1>7, <2>1 DEF WaitStart
  <1>8. CASE Wake(r) \/ WaitTimeout(r)
    BY <1>6, <1>8 DEF Wake, WaitTimeout
  <1>9. CASE InvokeGivesUp(r)
    <2>1. \A q \in Reqs \ {r} : SameOutcome(q)
      BY <1>9 DEF InvokeGivesUp
    <2>2. EntryAgrees(r)' /\ (r \in waiters' <=> pc'[r] = "waiting")
      BY <1>0, <1>9 DEF InvokeGivesUp, EntryAgrees
    <2>3. r \notin HttpReqs
      BY <1>9, ConstantsAssumption DEF InvokeGivesUp
    <2>4. QED
      BY <2>1, <2>2, <2>3, OutcomeFrame
  <1>10. QED
    BY <1>1, <1>2, <1>3, <1>4, <1>5, <1>7, <1>8, <1>9, Zenon DEF Request, SendStep

\* A connection comes, goes, identifies itself or carries a message.
LEMMA OutcomeConnection ==
  ASSUME TypeOK, EntryInv, DeliveryInv, OutcomeInv, NEW fd \in Fds, Connection(fd)
  PROVE  OutcomeInv'
  <1>1. CASE UNCHANGED <<state, code, answer, pc, result, waiters>>
    BY <1>1 DEF OutcomeInv, EntryAgrees, CallClosed
  <1>2. ASSUME NEW s \in Services, handleNewConnection(s, fd) PROVE OutcomeInv'
    BY <1>1, <1>2 DEF handleNewConnection
  <1>3. CASE PeerDrops(fd) \/ IdentifyBind(fd) \/ IdentifyRegister(fd) \/ PingBlocks(fd)
    BY <1>1, <1>3 DEF PeerDrops, IdentifyBind, IdentifyRegister, PingBlocks
  <1>4. CASE closeConnection(fd) \/ closeConnectionBlocks(fd)
    BY <1>1, <1>4 DEF closeConnection, closeConnectionBlocks
  <1>5. ASSUME NEW r \in Reqs, NEW a \in {"ok", "error"}, handleResponseMessage(fd, r, a)
        PROVE  OutcomeInv'
    BY <1>5, OutcomeAnswer
  <1>6. ASSUME NEW r \in Reqs, handleResponseBlocks(fd, r) PROVE OutcomeInv'
    BY <1>1, <1>6 DEF handleResponseBlocks
  <1>7. ASSUME NEW r \in Reqs, InvokeSelect(r, fd) PROVE OutcomeInv'
    <2>1. r \in InvokeReqs /\ r \notin HttpReqs /\ Select(r) /\ UNCHANGED <<reqVars, answer>>
      BY <1>7, ConstantsAssumption DEF InvokeSelect
    <2>2. \A q \in Reqs \ {r} : SameOutcome(q)
      BY <2>1 DEF Select, SameOutcome, TypeOK
    <2>3. EntryAgrees(r)'
      BY <2>1 DEF EntryAgrees, OutcomeInv
    <2>4. r \in waiters' <=> pc'[r] = "waiting"
      BY <2>1 DEF Select, TypeOK, OutcomeInv
    <2>5. QED
      BY <2>1, <2>2, <2>3, <2>4, OutcomeFrame
  <1>8. QED
    BY <1>2, <1>3, <1>4, <1>5, <1>6, <1>7, Zenon DEF Connection

\* Any step: the fail loop and the cleaner end open entries, and only these.
LEMMA OutcomeStep ==
  TypeOK /\ EntryInv /\ DeliveryInv /\ OutcomeInv /\ [Next]_vars => OutcomeInv'
  <1> SUFFICES ASSUME TypeOK, EntryInv, DeliveryInv, OutcomeInv, [Next]_vars
               PROVE  OutcomeInv'
    OBVIOUS
  <1>1. ASSUME NEW s \in Services, FailInFlight(s) PROVE OutcomeInv'
    BY <1>1 DEF FailInFlight, FailEntries, OutcomeInv, EntryAgrees, CallClosed, Live,
       LiveStates, TypeOK, Reqs
  <1>2. ASSUME NEW old \in SUBSET Reqs, NEW stale \in SUBSET Reqs,
               cleanupExpiredRequests(old, stale)
        PROVE  OutcomeInv'
    BY <1>2 DEF cleanupExpiredRequests, OutcomeInv, EntryAgrees, CallClosed, Live,
       LiveStates, TypeOK, Reqs
  <1>3. CASE performHealthCheck \/ UNCHANGED vars
    BY <1>3 DEF performHealthCheck, vars, OutcomeInv, EntryAgrees, CallClosed
  <1>4. QED
    BY <1>1, <1>2, <1>3, OutcomeConnection, OutcomeRequest DEF Next

CallInv == TypeOK /\ EntryInv /\ DeliveryInv /\ OutcomeInv

\* The invariant of the calls holds in every state.
LEMMA CallInvariant == Spec => []CallInv
  <1>1. Init => EntryInv /\ DeliveryInv /\ OutcomeInv
    BY DEF Init, EntryInv, DeliveryInv, OutcomeInv, EntryAgrees, CallClosed, Reqs, Unsent
  <1>2. QED
    BY <1>1, TypeCorrect, EntryStep, DeliveryStep, OutcomeStep, PTL DEF Spec, CallInv

\* A synchronous call never reports what did not happen: whatever order the
\* answer, the disconnect, the cleaner and the timer come in, 200 follows a
\* success, 500 an error, and 503 or 504 only the lack of an answer.
THEOREM CallsAreHonest == Spec => []AnswerReported
  <1>1. CallInv => AnswerReported
    BY DEF CallInv, OutcomeInv, CallClosed, AnswerReported
  <1>2. QED
    BY <1>1, CallInvariant, PTL

\* A finished call has neither an entry nor a waiter, for ever: no late answer,
\* disconnect or cleaner brings one back.
THEOREM FinishedCallsAreGone == Spec => []FinishedCallLeavesNothing
  <1>1. CallInv => FinishedCallLeavesNothing
    BY DEF CallInv, OutcomeInv, CallClosed, FinishedCallLeavesNothing, Reqs
  <1>2. QED
    BY <1>1, CallInvariant, PTL

\* The answer to a request nobody waits for reclaims its entry for good, also
\* when the sender marks the entry in flight after the answer.
THEOREM SlotsAreReclaimed == Spec => []AnsweredSlotReclaimed
  <1>1. CallInv => AnsweredSlotReclaimed
    BY ConstantsAssumption DEF CallInv, OutcomeInv, EntryAgrees, AnsweredSlotReclaimed, Reqs
  <1>2. QED
    BY <1>1, CallInvariant, PTL

-----------------------------------------------------------------------------
(* Every HTTP call behaves as RequestCall says.                             *)

\* The abstract phase of a call.
Phase(p) == IF p \in {"idle", "done"} THEN p ELSE "open"

\* What RequestCall sees of call q does not change.
SameCall(q) == /\ Phase(pc'[q]) = Phase(pc[q])
               /\ answer'[q] = answer[q] /\ result'[q] = result[q]

\* A step that leaves every HTTP call alone is none of RequestCall.
LEMMA CallStutter ==
  ASSUME \A q \in HttpReqs : SameCall(q)
  PROVE  UNCHANGED Call!callvars
  BY DEF SameCall, Phase, Call!callvars

\* Only one call's outcome changes.
LEMMA OneOutcome ==
  ASSUME NEW r \in HttpReqs, \A q \in HttpReqs \ {r} : SameCall(q)
  PROVE  [q \in HttpReqs |-> result[q]]'
            = [[q \in HttpReqs |-> result[q]] EXCEPT ![r] = result'[r]]
  BY DEF SameCall

\* Only one call ends.
LEMMA CallEnds ==
  ASSUME NEW r \in HttpReqs, \A q \in HttpReqs \ {r} : Phase(pc'[q]) = Phase(pc[q]),
         Phase(pc'[r]) = "done"
  PROVE  [q \in HttpReqs |-> IF pc[q] \in {"idle", "done"} THEN pc[q] ELSE "open"]'
            = [[q \in HttpReqs |-> IF pc[q] \in {"idle", "done"} THEN pc[q] ELSE "open"]
                 EXCEPT ![r] = "done"]
  BY DEF Phase

\* One call moves, the others do not: the four steps of RequestCall.
LEMMA CallMove ==
  ASSUME NEW r \in HttpReqs, \A q \in HttpReqs \ {r} : SameCall(q),
         \/ /\ Phase(pc[r]) = "idle" /\ Phase(pc'[r]) = "open"
            /\ answer'[r] = answer[r] /\ result'[r] = result[r]
         \/ /\ Phase(pc[r]) = "idle" /\ Phase(pc'[r]) = "done"
            /\ answer'[r] = answer[r] /\ result'[r] = 503
         \/ /\ Phase(pc[r]) = "open" /\ Phase(pc'[r]) = "open" /\ answer[r] = "none"
            /\ answer'[r] \in {"ok", "error"} /\ result'[r] = result[r]
         \/ /\ Phase(pc[r]) = "open" /\ Phase(pc'[r]) = "done"
            /\ answer'[r] = answer[r] /\ result'[r] \in HonestStatus[answer[r]]
  PROVE  Call!CallNext
  <1> DEFINE phase   == [q \in HttpReqs |-> IF pc[q] \in {"idle", "done"} THEN pc[q] ELSE "open"]
             served  == [q \in HttpReqs |-> answer[q]]
             outcome == [q \in HttpReqs |-> result[q]]
  <1>0. outcome' = [outcome EXCEPT ![r] = result'[r]]
    BY OneOutcome
  <1> USE DEF SameCall, Phase
  <1>1. CASE /\ Phase(pc[r]) = "idle" /\ Phase(pc'[r]) = "open"
             /\ answer'[r] = answer[r] /\ result'[r] = result[r]
    <2>1. Call!Open(r)
      BY <1>1 DEF Call!Open
    <2>2. QED
      BY <2>1 DEF Call!CallNext
  <1>2. CASE /\ Phase(pc[r]) = "idle" /\ Phase(pc'[r]) = "done"
             /\ answer'[r] = answer[r] /\ result'[r] = 503
    <2>1. phase' = [phase EXCEPT ![r] = "done"] /\ phase[r] = "idle"
      <3>1. Phase(pc[r]) = "idle" /\ Phase(pc'[r]) = "done"
        BY <1>2, Zenon
      <3>2. phase[r] = "idle"
        BY <3>1
      <3>3. \A q \in HttpReqs \ {r} : Phase(pc'[q]) = Phase(pc[q])
        BY Zenon
      <3>4. QED
        BY <3>1, <3>2, <3>3, CallEnds, Zenon
    <2>2. outcome' = [outcome EXCEPT ![r] = 503]
      <3>1. result'[r] = 503
        BY <1>2
      <3>2. QED
        BY <1>0, <3>1, Zenon
    <2>3. served' = served
      <3>1. \A q \in HttpReqs : answer'[q] = answer[q]
        BY <1>2
      <3>2. QED
        BY <3>1, Zenon
    <2>4. Call!Refuse(r)
      BY <2>1, <2>2, <2>3, Zenon DEF Call!Refuse
    <2>5. QED
      BY <2>4 DEF Call!CallNext
  <1>3. CASE /\ Phase(pc[r]) = "open" /\ Phase(pc'[r]) = "open" /\ answer[r] = "none"
             /\ answer'[r] \in {"ok", "error"} /\ result'[r] = result[r]
    <2>1. PICK a \in {"ok", "error"} : a = answer'[r]
      BY <1>3
    <2>2. /\ phase' = phase /\ outcome' = outcome /\ phase[r] = "open"
          /\ served' = [served EXCEPT ![r] = a] /\ served[r] = "none"
      BY <1>3, <2>1
    <2>3. Call!Serve(r, a)
      BY <2>2 DEF Call!Serve
    <2>4. QED
      BY <2>3 DEF Call!CallNext
  <1>4. CASE /\ Phase(pc[r]) = "open" /\ Phase(pc'[r]) = "done"
             /\ answer'[r] = answer[r] /\ result'[r] \in HonestStatus[answer[r]]
    <2>1. phase' = [phase EXCEPT ![r] = "done"] /\ phase[r] = "open"
      <3>1. Phase(pc[r]) = "open" /\ Phase(pc'[r]) = "done"
        BY <1>4, Zenon
      <3>2. phase[r] = "open"
        BY <3>1
      <3>3. \A q \in HttpReqs \ {r} : Phase(pc'[q]) = Phase(pc[q])
        BY Zenon
      <3>4. QED
        BY <3>1, <3>2, <3>3, CallEnds, Zenon
    <2>2. outcome' = [outcome EXCEPT ![r] = result'[r]]
      BY <1>0
    <2>3. served' = served
      <3>1. \A q \in HttpReqs : answer'[q] = answer[q]
        BY <1>4
      <3>2. QED
        BY <3>1, Zenon
    <2>4. result'[r] \in Call!Permitted[served[r]]
      BY <1>4 DEF Call!Permitted, HonestStatus
    <2>5. Call!Return(r)
      BY <2>1, <2>2, <2>3, <2>4, Zenon DEF Call!Return
    <2>6. QED
      BY <2>5 DEF Call!CallNext
  <1>5. QED
    BY <1>1, <1>2, <1>3, <1>4

\* At the start no call has been made.
LEMMA CallInit == Init => Call!CallInit
  BY DEF Init, Call!CallInit, Reqs

\* A step of an issuing thread opens a call, returns from one, or stutters.
LEMMA CallRequest ==
  ASSUME CallInv, NEW r \in Reqs, Request(r)
  PROVE  [Call!CallNext]_(Call!callvars)
  <1> USE DEF SameCall, Phase
  <1>0. TypeOK /\ HttpReqs \subseteq Reqs
    BY DEF CallInv, Reqs
  <1>1. CASE HttpSelect(r)
    <2>1. /\ r \in HttpReqs /\ pc[r] = "idle" /\ answer' = answer
          /\ \A q \in HttpReqs \ {r} : SameCall(q)
          /\ \/ pc'[r] = "insert" /\ result'[r] = result[r]
             \/ pc'[r] = "done" /\ result'[r] = 503
      BY <1>0, <1>1 DEF HttpSelect, Select, TypeOK
    <2>2. QED
      BY <2>1, CallMove
  <1>2. CASE BridgeSelect(r)
    <2>1. \A q \in HttpReqs : q # r
      BY <1>2, ConstantsAssumption DEF BridgeSelect
    <2>2. QED
      BY <1>0, <1>2, <2>1, CallStutter DEF BridgeSelect, Select, TypeOK
  <1>3. CASE InsertPending(r) \/ LookupFd(r) \/ SendDelivers(r) \/ SendLost(r)
    BY <1>0, <1>3, CallStutter
       DEF InsertPending, LookupFd, SendDelivers, SendLost, TypeOK
  <1>4. CASE MarkInFlight(r)
    <2>1. \A q \in HttpReqs : SameCall(q)
      BY <1>0, <1>4 DEF MarkInFlight, TypeOK
    <2>2. QED
      BY <2>1, CallStutter
  <1>5. CASE EraseUnsent(r)
    <2>1. CASE r \in HttpReqs
      <3>1. /\ pc[r] = "erase" /\ pc'[r] = "done" /\ answer' = answer /\ result'[r] = 503
            /\ \A q \in HttpReqs \ {r} : SameCall(q)
        BY <1>0, <1>5, <2>1 DEF EraseUnsent, TypeOK
      <3>2. answer[r] = "none"
        BY <1>0, <3>1 DEF CallInv, DeliveryInv, Unsent
      <3>3. QED
        BY <2>1, <3>1, <3>2, CallMove DEF HonestStatus
    <2>2. CASE r \notin HttpReqs
      BY <1>0, <1>5, <2>2, CallStutter DEF EraseUnsent, TypeOK
    <2>3. QED
      BY <2>1, <2>2
  <1>6. ASSUME ReturnResult(r), pc[r] \in {"returned", "waiting"}
        PROVE  [Call!CallNext]_(Call!callvars)
    <2>1. r \in HttpReqs
      BY <1>0, <1>6 DEF TypeOK
    <2>2. StatusOf(r) \in HonestStatus[answer[r]]
      BY <1>0 DEF CallInv, OutcomeInv, EntryAgrees, StatusOf, HonestStatus, Live,
         LiveStates, RequestState, TypeOK
    <2>3. /\ pc'[r] = "done" /\ answer' = answer /\ result'[r] = StatusOf(r)
          /\ \A q \in HttpReqs \ {r} : SameCall(q)
      BY <1>0, <1>6 DEF ReturnResult, TypeOK
    <2>4. QED
      BY <1>6, <2>1, <2>2, <2>3, CallMove
  <1>7. CASE WaitStart(r)
    <2>1. ASSUME pc[r] = "returned", pc' = [pc EXCEPT ![r] = "waiting"],
                 UNCHANGED <<result, answer>>
          PROVE  [Call!CallNext]_(Call!callvars)
      BY <1>0, <2>1, CallStutter DEF TypeOK
    <2>2. QED
      BY <1>6, <1>7, <2>1 DEF WaitStart
  <1>8. CASE Wake(r) \/ WaitTimeout(r)
    BY <1>6, <1>8 DEF Wake, WaitTimeout
  <1>9. CASE InvokeGivesUp(r)
    <2>1. \A q \in HttpReqs : q # r
      BY <1>9, ConstantsAssumption DEF InvokeGivesUp
    <2>2. QED
      BY <1>0, <1>9, <2>1, CallStutter DEF InvokeGivesUp, TypeOK
  <1>10. QED
    BY <1>1, <1>2, <1>3, <1>4, <1>5, <1>7, <1>8, <1>9, Zenon DEF Request, SendStep

\* Of what happens on a connection, a call sees the answer only.
LEMMA CallConnection ==
  ASSUME CallInv, NEW fd \in Fds, Connection(fd)
  PROVE  [Call!CallNext]_(Call!callvars)
  <1> USE DEF SameCall, Phase
  <1>0. TypeOK /\ HttpReqs \subseteq Reqs
    BY DEF CallInv, Reqs
  <1>1. CASE UNCHANGED <<answer, pc, result>>
    BY <1>1, CallStutter
  <1>2. ASSUME NEW s \in Services, handleNewConnection(s, fd)
        PROVE  UNCHANGED <<answer, pc, result>>
    BY <1>2 DEF handleNewConnection
  <1>3. CASE PeerDrops(fd) \/ IdentifyBind(fd) \/ IdentifyRegister(fd) \/ PingBlocks(fd)
    BY <1>1, <1>3 DEF PeerDrops, IdentifyBind, IdentifyRegister, PingBlocks
  <1>4. CASE closeConnection(fd) \/ closeConnectionBlocks(fd)
    BY <1>1, <1>4 DEF closeConnection, closeConnectionBlocks
  <1>5. ASSUME NEW r \in Reqs, NEW a \in {"ok", "error"}, handleResponseMessage(fd, r, a)
        PROVE  [Call!CallNext]_(Call!callvars)
    <2>1. /\ pc' = pc
          /\ \A q \in HttpReqs : result'[q] = result[q]
          /\ \A q \in Reqs \ {r} : answer'[q] = answer[q]
          /\ answer'[r] = answer[r] \/ (state[r] # "absent" /\ answer'[r] = a)
      BY <1>0, <1>5, ConstantsAssumption DEF handleResponseMessage, TypeOK
    <2>2. CASE r \in HttpReqs /\ state[r] # "absent" /\ answer'[r] = a
      <3>1. answer[r] = "none" /\ pc[r] \notin Unsent
        BY <1>0, <1>5, AnswerOnce DEF CallInv
      <3>2. pc[r] # "done"
        BY <2>2 DEF CallInv, OutcomeInv, CallClosed
      <3>3. \A q \in HttpReqs \ {r} : SameCall(q)
        BY <1>0, <2>1
      <3>4. Phase(pc[r]) = "open" /\ Phase(pc'[r]) = "open"
        BY <2>1, <3>1, <3>2 DEF Unsent
      <3>5. QED
        BY <2>1, <2>2, <3>1, <3>3, <3>4, CallMove
    <2>3. CASE r \notin HttpReqs \/ answer'[r] = answer[r]
      BY <1>0, <2>1, <2>3, CallStutter
    <2>4. QED
      BY <2>1, <2>2, <2>3
  <1>6. ASSUME NEW r \in Reqs, handleResponseBlocks(fd, r)
        PROVE  UNCHANGED <<answer, pc, result>>
    BY <1>6 DEF handleResponseBlocks
  <1>7. ASSUME NEW r \in Reqs, InvokeSelect(r, fd)
        PROVE  [Call!CallNext]_(Call!callvars)
    <2>1. \A q \in HttpReqs : q # r
      BY <1>7, ConstantsAssumption DEF InvokeSelect
    <2>2. QED
      BY <1>0, <1>7, <2>1, CallStutter DEF InvokeSelect, Select, TypeOK
  <1>8. QED
    BY <1>1, <1>2, <1>3, <1>4, <1>5, <1>6, <1>7, Zenon DEF Connection

\* Every step of the gateway is a step of RequestCall or a stutter.
LEMMA CallStep == CallInv /\ [Next]_vars => [Call!CallNext]_(Call!callvars)
  <1> SUFFICES ASSUME CallInv, [Next]_vars PROVE [Call!CallNext]_(Call!callvars)
    OBVIOUS
  <1>1. CASE UNCHANGED <<answer, pc, result>>
    BY <1>1, CallStutter DEF SameCall
  <1>2. ASSUME NEW s \in Services, FailInFlight(s) PROVE UNCHANGED <<answer, pc, result>>
    BY <1>2 DEF FailInFlight, FailEntries
  <1>3. ASSUME NEW old \in SUBSET Reqs, NEW stale \in SUBSET Reqs,
               cleanupExpiredRequests(old, stale)
        PROVE  UNCHANGED <<answer, pc, result>>
    BY <1>3 DEF cleanupExpiredRequests
  <1>4. CASE performHealthCheck \/ UNCHANGED vars
    BY <1>1, <1>4 DEF performHealthCheck, vars
  <1>5. QED
    BY <1>1, <1>2, <1>3, <1>4, CallConnection, CallRequest DEF Next

\* The refinement: with its connections, entries, waiters, locks and timers,
\* the gateway opens each HTTP call once, takes one answer at most and only
\* while the call is open, and returns once, with a status the answer allows.
THEOREM CallsImplemented == Spec => ImplementsCalls
  <1>1. QED
    BY CallInit, CallStep, CallInvariant, PTL DEF Spec, ImplementsCalls, Call!CallSpec

=============================================================================
