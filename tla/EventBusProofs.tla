-------------------------- MODULE EventBusProofs --------------------------
(***************************************************************************)
(* The event bus for every set of publishers, events and subscriptions: it *)
(* is an EventChannel, stop() drains it, and unsubscribe() silences.       *)
(***************************************************************************)
EXTENDS EventBus, SequenceTheorems, TLAPS

\* The worker exists from start() to join(), and ends only when the bus stops.
Lifecycle ==
    /\ running <=> owner = "up"
    /\ worker = "none" <=> owner = "down"
    /\ worker = "ended" => ~running

\* Each event is published by one thread, which has it until it is queued.
OwnEvent ==
    /\ accepted \subseteq published
    /\ \A t \in Callers : pub[t] = "push" => arg[t] \in published \ accepted
    /\ \A t, u \in Callers :
         pub[t] = "push" /\ pub[u] = "push" /\ t # u => arg[t] # arg[u]

\* A worker that has ended has left no accepted event behind.
Drained == worker \in {"none", "ended"} => \A e \in accepted : ~Queued(e)

\* Handlers that run, or will in this dispatch, are those of subscribers.
Subscribed == todo \subseteq subs /\ (handling # "none" => handling \in subs)

BusInv == TypeOK /\ Lifecycle /\ OwnEvent /\ Drained /\ Subscribed

-----------------------------------------------------------------------------
\* Types at the start.
LEMMA TypeInit == Init => TypeOK
  <1> SUFFICES ASSUME Init PROVE TypeOK
    OBVIOUS
  <1>1. eventQueue \in Seq(Events) /\ log \in [Subs -> Seq(Events)]
    BY DEF Init
  <1>2. /\ pub \in [Callers -> {"idle", "push", "notify"}]
        /\ arg \in [Callers -> Events \cup {"none"}]
        /\ \A t \in Callers : pub[t] = "idle" <=> arg[t] = "none"
    BY DEF Init
  <1>3. /\ running \in BOOLEAN /\ owner \in {"down", "up", "notify", "join"}
        /\ worker \in {"none", "lock", "blocking", "asleep", "drain", "popped",
                       "dispatch", "relock", "ended"}
        /\ current \in Events \cup {"none"}
        /\ worker \in {"popped", "dispatch"} <=> current # "none"
    BY DEF Init
  <1>4. /\ subs \subseteq Subs /\ removed \subseteq Subs /\ todo \subseteq Subs
        /\ published \subseteq Events /\ accepted \subseteq Events
        /\ handling \in Subs \cup {"none"}
        /\ worker # "dispatch" => todo = {} /\ handling = "none"
    BY DEF Init
  <1>5. QED
    BY <1>1, <1>2, <1>3, <1>4 DEF TypeOK

\* Types, while the owner starts or stops the bus.
LEMMA TypeOwner ==
  ASSUME TypeOK, Lifecycle, start \/ Stop
  PROVE  TypeOK'
  <1>1. CASE start
    BY <1>1 DEF start, Lifecycle, TypeOK, dispVars, pubVars
  <1>2. CASE StopFlag
    BY <1>2 DEF StopFlag, TypeOK, dispVars, pubVars
  <1>3. CASE StopNotify
    BY <1>3 DEF StopNotify, Woken, TypeOK, dispVars, pubVars
  <1>4. CASE StopJoined
    BY <1>4 DEF StopJoined, TypeOK, dispVars, pubVars
  <1>5. QED
    BY <1>1, <1>2, <1>3, <1>4 DEF Stop

\* Types, while a thread publishes.
LEMMA TypePublish ==
  ASSUME TypeOK, NEW t \in Callers, Publish(t)
  PROVE  TypeOK'
  <1>1. ASSUME NEW e \in Events, PublishBegin(t, e) PROVE TypeOK'
    <2>1. \A u \in Callers : pub'[u] = "idle" <=> arg'[u] = "none"
      BY <1>1, BusAssumption DEF PublishBegin, TypeOK
    <2>2. /\ pub' \in [Callers -> {"idle", "push", "notify"}]
          /\ arg' \in [Callers -> Events \cup {"none"}]
          /\ published' \subseteq Events
      BY <1>1 DEF PublishBegin, TypeOK
    <2>3. QED
      BY <1>1, <2>1, <2>2 DEF PublishBegin, TypeOK, dispVars
  <1>2. CASE PublishPush(t)
    <2>1. arg[t] \in Events
      BY <1>2 DEF PublishPush, TypeOK
    <2>2. eventQueue' \in Seq(Events)
      BY <1>2, <2>1, AppendProperties DEF PublishPush, TypeOK
    <2>3. pub' \in [Callers -> {"idle", "push", "notify"}]
      BY <1>2 DEF PublishPush, TypeOK
    <2>4. \A u \in Callers : pub'[u] = "idle" <=> arg'[u] = "none"
      BY <1>2 DEF PublishPush, TypeOK
    <2>5. accepted' \subseteq Events
      BY <1>2, <2>1 DEF PublishPush, TypeOK
    <2>6. QED
      BY <1>2, <2>2, <2>3, <2>4, <2>5 DEF PublishPush, TypeOK, dispVars
  <1>3. CASE PublishNotify(t)
    <2>1. /\ pub' \in [Callers -> {"idle", "push", "notify"}]
          /\ arg' \in [Callers -> Events \cup {"none"}]
      BY <1>3 DEF PublishNotify, TypeOK
    <2>2. \A u \in Callers : pub'[u] = "idle" <=> arg'[u] = "none"
      BY <1>3 DEF PublishNotify, TypeOK
    <2>3. QED
      BY <1>3, <2>1, <2>2 DEF PublishNotify, Woken, TypeOK, dispVars
  <1>4. QED
    BY <1>1, <1>2, <1>3 DEF Publish

\* Types, while a subscription comes or goes.
LEMMA TypeSubscription ==
  ASSUME TypeOK, NEW s \in Subs, subscribe(s) \/ unsubscribe(s)
  PROVE  TypeOK'
  <1>1. CASE subscribe(s)
    BY <1>1 DEF subscribe, TypeOK, dispVars, pubVars
  <1>2. CASE unsubscribe(s)
    BY <1>2 DEF unsubscribe, TypeOK, dispVars, pubVars
  <1>3. QED
    BY <1>1, <1>2

\* Types, while the worker runs.
LEMMA TypeWorker ==
  ASSUME TypeOK, Worker \/ WorkerWakesSpuriously
  PROVE  TypeOK'
  <1> USE DEF dispVars, pubVars
  <1>1. CASE WorkerTests
    BY <1>1 DEF WorkerTests, TypeOK
  <1>2. CASE WorkerSleeps
    BY <1>2 DEF WorkerSleeps, TypeOK
  <1>3. CASE WorkerPops
    <2>1. Head(eventQueue) \in Events /\ Tail(eventQueue) \in Seq(Events)
      BY <1>3, HeadTailProperties DEF WorkerPops, TypeOK
    <2>2. QED
      BY <1>3, <2>1, BusAssumption DEF WorkerPops, TypeOK
  <1>4. CASE WorkerDrained
    BY <1>4 DEF WorkerDrained, TypeOK
  <1>5. CASE DispatchBegin
    BY <1>5 DEF DispatchBegin, TypeOK
  <1>6. ASSUME NEW s \in Subs, HandlerCalled(s) PROVE TypeOK'
    <2>1. current \in Events
      BY <1>6 DEF HandlerCalled, TypeOK
    <2>2. Append(log[s], current) \in Seq(Events)
      BY <2>1, AppendProperties DEF TypeOK
    <2>3. log' \in [Subs -> Seq(Events)]
      BY <1>6, <2>2 DEF HandlerCalled, TypeOK
    <2>4. QED
      BY <1>6, <2>3 DEF HandlerCalled, TypeOK
  <1>7. CASE HandlerReturns
    BY <1>7 DEF HandlerReturns, TypeOK
  <1>8. CASE DispatchEnd
    BY <1>8 DEF DispatchEnd, TypeOK
  <1>9. CASE WorkerRelocks
    BY <1>9 DEF WorkerRelocks, TypeOK
  <1>10. CASE WorkerWakesSpuriously
    BY <1>10 DEF WorkerWakesSpuriously, TypeOK
  <1>11. QED
    BY <1>1, <1>2, <1>3, <1>4, <1>5, <1>6, <1>7, <1>8, <1>9, <1>10 DEF Worker

\* Types, in any step.
LEMMA TypeStep ==
  ASSUME TypeOK, Lifecycle, [Next]_vars
  PROVE  TypeOK'
  <1>1. CASE UNCHANGED vars
    BY <1>1 DEF vars, dispVars, pubVars, TypeOK
  <1>2. CASE Next
    BY <1>2, TypeOwner, TypePublish, TypeSubscription, TypeWorker DEF Next
  <1>3. QED
    BY <1>1, <1>2

-----------------------------------------------------------------------------
\* Only the owner starts a worker, and joins it.
LEMMA LifecycleStep ==
  ASSUME TypeOK, Lifecycle, [Next]_vars
  PROVE  Lifecycle'
  <1> USE DEF Lifecycle
  <1>1. CASE start
    BY <1>1 DEF start
  <1>2. CASE Stop
    BY <1>2 DEF Stop, StopFlag, StopNotify, StopJoined, Woken
  <1>3. CASE Worker
    <2> SUFFICES /\ UNCHANGED <<running, owner>>
                 /\ worker # "none" /\ worker' # "none"
                 /\ worker' = "ended" => ~running
      OBVIOUS
    <2>1. CASE WorkerTests \/ WorkerSleeps \/ WorkerPops \/ WorkerDrained
      BY <2>1 DEF WorkerTests, WorkerSleeps, WorkerPops, WorkerDrained
    <2>2. CASE DispatchBegin \/ HandlerReturns \/ DispatchEnd \/ WorkerRelocks
      BY <2>2 DEF DispatchBegin, HandlerReturns, DispatchEnd, WorkerRelocks, TypeOK
    <2>3. ASSUME NEW s \in Subs, HandlerCalled(s)
          PROVE  UNCHANGED <<running, owner, worker>> /\ worker = "dispatch"
      BY <2>3 DEF HandlerCalled
    <2>4. QED
      BY <1>3, <2>1, <2>2, <2>3 DEF Worker
  <1>4. CASE WorkerWakesSpuriously
    BY <1>4 DEF WorkerWakesSpuriously
  <1>5. ASSUME NEW t \in Callers, Publish(t) PROVE Lifecycle'
    BY <1>5 DEF Publish, PublishBegin, PublishPush, PublishNotify, Woken
  <1>6. ASSUME NEW s \in Subs, subscribe(s) \/ unsubscribe(s) PROVE Lifecycle'
    BY <1>6 DEF subscribe, unsubscribe
  <1>7. CASE UNCHANGED vars
    BY <1>7 DEF vars
  <1>8. QED
    BY <1>1, <1>2, <1>3, <1>4, <1>5, <1>6, <1>7 DEF Next

\* An event that a publisher holds is in no other hands and no queue.
LEMMA OwnEventStep ==
  ASSUME TypeOK, OwnEvent, [Next]_vars
  PROVE  OwnEvent'
  <1> USE DEF OwnEvent
  <1>1. ASSUME NEW t \in Callers, NEW e \in Events, PublishBegin(t, e) PROVE OwnEvent'
    <2>1. \A u \in Callers : u # t => pub'[u] = pub[u] /\ arg'[u] = arg[u]
      BY <1>1 DEF PublishBegin, TypeOK
    <2>2. pub'[t] = "push" /\ arg'[t] = e /\ e \notin published
      BY <1>1 DEF PublishBegin, TypeOK
    <2>3. QED
      BY <1>1, <2>1, <2>2 DEF PublishBegin
  <1>2. ASSUME NEW t \in Callers, PublishPush(t) PROVE OwnEvent'
    <2>1. \A u \in Callers : pub'[u] = "push" => u # t /\ pub[u] = "push"
      BY <1>2 DEF PublishPush, TypeOK
    <2>2. pub[t] = "push" /\ accepted' \subseteq accepted \cup {arg[t]}
      BY <1>2 DEF PublishPush
    <2>3. QED
      BY <1>2, <2>1, <2>2 DEF PublishPush
  <1>3. ASSUME NEW t \in Callers, PublishNotify(t) PROVE OwnEvent'
    <2>1. \A u \in Callers : pub'[u] = "push" => pub[u] = "push" /\ arg'[u] = arg[u]
      BY <1>3 DEF PublishNotify, TypeOK
    <2>2. QED
      BY <1>3, <2>1 DEF PublishNotify
  <1>4. CASE UNCHANGED pubVars
    BY <1>4 DEF pubVars
  <1>5. QED
    BY <1>1, <1>2, <1>3, <1>4, Zenon DEF Next, Publish, start, Stop, StopFlag, StopNotify,
       StopJoined, Worker, WorkerTests, WorkerSleeps, WorkerPops, WorkerDrained,
       DispatchBegin, HandlerCalled, HandlerReturns, DispatchEnd, WorkerRelocks,
       WorkerWakesSpuriously, subscribe, unsubscribe, vars

\* The worker ends only at a queue it has found empty.
LEMMA DrainedStep ==
  ASSUME TypeOK, Lifecycle, OwnEvent, Drained, [Next]_vars
  PROVE  Drained'
  <1> USE DEF Drained
  <1>1. CASE start
    BY <1>1 DEF start
  <1>2. CASE Stop
    <2>1. UNCHANGED <<eventQueue, accepted>>
      BY <1>2 DEF Stop, StopFlag, StopNotify, StopJoined, pubVars
    <2>2. worker' \in {"none", "ended"} => worker \in {"none", "ended"}
      BY <1>2 DEF Stop, StopFlag, StopNotify, StopJoined, Woken
    <2>3. QED
      BY <2>1, <2>2 DEF Queued
  <1>3. ASSUME NEW t \in Callers, Publish(t) PROVE Drained'
    <2>1. ASSUME NEW e \in Events, PublishBegin(t, e) PROVE Drained'
      BY <2>1 DEF PublishBegin, Queued
    <2>2. CASE PublishPush(t)
      <3> SUFFICES ASSUME worker' \in {"none", "ended"}, NEW e \in accepted'
                   PROVE  ~Queued(e)'
        OBVIOUS
      <3>1. worker \in {"none", "ended"} /\ ~running
        BY <2>2 DEF PublishPush, Lifecycle
      <3>2. e \in accepted /\ ~Queued(e)
        BY <2>2, <3>1 DEF PublishPush
      <3>3. arg[t] # e /\ arg[t] \in Events
        BY <2>2, <3>2 DEF PublishPush, OwnEvent, TypeOK
      <3>4. /\ Len(eventQueue') = Len(eventQueue) + 1
            /\ \A i \in 1..Len(eventQueue) : eventQueue'[i] = eventQueue[i]
            /\ eventQueue'[Len(eventQueue) + 1] = arg[t]
            /\ Len(eventQueue) \in Nat
        BY <2>2, <3>3, AppendProperties DEF PublishPush, TypeOK
      <3>5. QED
        BY <3>2, <3>3, <3>4 DEF Queued
    <2>3. CASE PublishNotify(t)
      BY <2>3 DEF PublishNotify, Woken, Queued
    <2>4. QED
      BY <1>3, <2>1, <2>2, <2>3 DEF Publish
  <1>4. CASE WorkerDrained
    <2>1. Len(eventQueue') = 0
      BY <1>4 DEF WorkerDrained
    <2>2. QED
      BY <2>1 DEF Queued
  <1>5. CASE WorkerTests \/ WorkerSleeps \/ WorkerPops \/ WorkerWakesSpuriously
    BY <1>5 DEF WorkerTests, WorkerSleeps, WorkerPops, WorkerWakesSpuriously
  <1>6. CASE DispatchBegin \/ HandlerReturns \/ DispatchEnd \/ WorkerRelocks
    BY <1>6 DEF DispatchBegin, HandlerReturns, DispatchEnd, WorkerRelocks, TypeOK
  <1>7. ASSUME NEW s \in Subs, HandlerCalled(s) PROVE Drained'
    BY <1>7 DEF HandlerCalled
  <1>8. ASSUME NEW s \in Subs, subscribe(s) \/ unsubscribe(s) PROVE Drained'
    BY <1>8 DEF subscribe, unsubscribe, pubVars, Queued
  <1>9. CASE UNCHANGED vars
    BY <1>9 DEF vars, pubVars, Queued
  <1>10. QED
    BY <1>1, <1>2, <1>3, <1>4, <1>5, <1>6, <1>7, <1>8, <1>9 DEF Next, Worker

\* subscribe() and unsubscribe() wait for a dispatch to end.
LEMMA SubscribedStep ==
  ASSUME TypeOK, Subscribed, [Next]_vars
  PROVE  Subscribed'
  <1> USE DEF Subscribed
  <1>1. ASSUME NEW s \in Subs, subscribe(s) \/ unsubscribe(s) PROVE Subscribed'
    BY <1>1 DEF subscribe, unsubscribe, SubsMutexFree, TypeOK, dispVars
  <1>2. CASE DispatchBegin
    BY <1>2 DEF DispatchBegin
  <1>3. ASSUME NEW s \in Subs, HandlerCalled(s) PROVE Subscribed'
    BY <1>3 DEF HandlerCalled
  <1>4. CASE HandlerReturns
    BY <1>4 DEF HandlerReturns
  <1>5. CASE UNCHANGED <<subs, todo, handling>>
    BY <1>5
  <1>6. CASE start \/ Stop \/ WorkerWakesSpuriously \/ UNCHANGED vars
    BY <1>6, <1>5 DEF start, Stop, StopFlag, StopNotify, StopJoined,
       WorkerWakesSpuriously, vars, dispVars
  <1>7. CASE WorkerTests \/ WorkerSleeps \/ WorkerPops \/ WorkerDrained \/ DispatchEnd
             \/ WorkerRelocks
    BY <1>7, <1>5 DEF WorkerTests, WorkerSleeps, WorkerPops, WorkerDrained, DispatchEnd,
       WorkerRelocks, dispVars
  <1>8. ASSUME NEW t \in Callers, Publish(t) PROVE Subscribed'
    BY <1>8, <1>5 DEF Publish, PublishBegin, PublishPush, PublishNotify, dispVars
  <1>9. QED
    BY <1>1, <1>2, <1>3, <1>4, <1>6, <1>7, <1>8 DEF Next, Worker

\* The inductive invariant: the worker lives from start() to the end of stop(), an
\* event has one owner until it is queued, a worker that has ended left no accepted
\* event, and the handlers of a dispatch are subscribed (BusInv).
THEOREM Invariance == Spec => []BusInv
  <1>1. Init => BusInv
    <2> SUFFICES ASSUME Init PROVE BusInv
      OBVIOUS
    <2>1. Lifecycle /\ OwnEvent /\ Drained /\ Subscribed
      BY DEF Init, Lifecycle, OwnEvent, Drained, Subscribed
    <2>2. QED
      BY <2>1, TypeInit DEF BusInv
  <1>2. BusInv /\ [Next]_vars => BusInv'
    BY TypeStep, LifecycleStep, OwnEventStep, DrainedStep, SubscribedStep DEF BusInv
  <1>3. QED
    BY <1>1, <1>2, PTL DEF Spec

-----------------------------------------------------------------------------
\* Every variable of the bus keeps its type, and the locals of a thread are set
\* exactly while the thread is in the code that uses them.
THEOREM TypeCorrect == Spec => []TypeOK
  <1>1. BusInv => TypeOK
    BY DEF BusInv
  <1>2. QED
    BY <1>1, Invariance, PTL

\* When stop() has returned, no event that was queued while the bus was running
\* is left in the queue, however publish() and stop() interleave.
THEOREM StopLeavesNothing == Spec => []StopDrains
  <1>1. BusInv => StopDrains
    BY DEF BusInv, Lifecycle, Drained, StopDrains
  <1>2. QED
    BY <1>1, Invariance, PTL

\* Once unsubscribe() has returned, the handler does not run.
THEOREM Unsubscribed == Spec => []UnsubscribedIsQuiet
  <1>1. BusInv => UnsubscribedIsQuiet
    BY DEF BusInv, Subscribed, UnsubscribedIsQuiet
  <1>2. QED
    BY <1>1, Invariance, PTL

-----------------------------------------------------------------------------
(* The refinement of EventChannel.                                          *)

\* A sequence is its head before its tail.
LEMMA ConsHeadTail ==
  ASSUME NEW S, NEW q \in Seq(S), q # <<>>
  PROVE  <<Head(q)>> \o Tail(q) = q
  OBVIOUS

\* One element in front and one at the end may be added in either order.
LEMMA ConsAppend ==
  ASSUME NEW S, NEW q \in Seq(S), NEW c \in S, NEW e \in S
  PROVE  <<c>> \o Append(q, e) = Append(<<c>> \o q, e)
  OBVIOUS

\* What was put in front is the head, and the rest the tail.
LEMMA HeadTailCons ==
  ASSUME NEW S, NEW q \in Seq(S), NEW c \in S
  PROVE  /\ <<c>> \o q # <<>>
         /\ Head(<<c>> \o q) = c
         /\ Tail(<<c>> \o q) = q
  OBVIOUS

\* The bus starts as an empty channel.
LEMMA ChannelInit == Init => Channel!Init
  BY DEF Init, Channel!Init, channelQueue, channelLog

\* Steps that neither publish, subscribe nor begin a dispatch.
LEMMA Stutters ==
  ASSUME UNCHANGED <<eventQueue, subs, current, todo, log>>,
         worker = "popped" <=> worker' = "popped"
  PROVE  UNCHANGED Channel!vars
  BY DEF Channel!vars, channelQueue, channelLog

\* To take the subscription lock is to dispatch; the other steps of the worker stutter.
LEMMA WorkerImplements ==
  ASSUME TypeOK, Worker
  PROVE  Channel!Dispatch \/ UNCHANGED Channel!vars
  <1> USE DEF dispVars, pubVars
  <1>1. CASE WorkerTests \/ WorkerSleeps \/ WorkerDrained \/ WorkerRelocks
    BY <1>1, Stutters DEF WorkerTests, WorkerSleeps, WorkerDrained, WorkerRelocks
  <1>2. CASE HandlerReturns
    BY <1>2, Stutters DEF HandlerReturns
  <1>3. CASE WorkerPops
    <2>1. todo = {} /\ UNCHANGED <<subs, todo, log>>
      BY <1>3 DEF WorkerPops, TypeOK
    <2>2. channelLog' = channelLog
      BY <2>1 DEF channelLog
    <2>3. channelQueue = eventQueue /\ channelQueue' = <<Head(eventQueue)>> \o Tail(eventQueue)
      BY <1>3 DEF WorkerPops, channelQueue
    <2>4. eventQueue \in Seq(Events) /\ eventQueue # <<>>
      BY <1>3 DEF WorkerPops, TypeOK
    <2>5. channelQueue' = channelQueue
      BY <2>3, <2>4, ConsHeadTail
    <2>6. QED
      BY <2>1, <2>2, <2>5 DEF Channel!vars
  <1>4. CASE DispatchBegin
    <2>1. /\ current \in Events /\ eventQueue \in Seq(Events) /\ todo = {}
          /\ channelQueue = <<current>> \o eventQueue /\ channelQueue' = eventQueue
      BY <1>4 DEF DispatchBegin, TypeOK, channelQueue
    <2>2. /\ channelQueue # <<>> /\ Head(channelQueue) = current
          /\ channelQueue' = Tail(channelQueue)
      BY <2>1, HeadTailCons
    <2>3. channelLog = [s \in Subs |-> log[s]]
      BY <2>1 DEF channelLog
    <2>4. channelLog' = [s \in Subs |-> IF s \in subs /\ Matches(s, current)
                                         THEN Append(log[s], current) ELSE log[s]]
      BY <1>4 DEF DispatchBegin, channelLog, TypeOK
    <2>5. channelLog' = [s \in Subs |-> IF s \in subs /\ Matches(s, Head(channelQueue))
                                         THEN Append(channelLog[s], Head(channelQueue))
                                         ELSE channelLog[s]]
      BY <2>2, <2>3, <2>4
    <2>6. QED
      BY <1>4, <2>2, <2>5 DEF Channel!Dispatch, DispatchBegin
  <1>5. ASSUME NEW s \in Subs, HandlerCalled(s) PROVE UNCHANGED Channel!vars
    <2>1. UNCHANGED <<eventQueue, subs, current, worker>>
      BY <1>5 DEF HandlerCalled
    <2>2. channelQueue' = channelQueue
      BY <2>1 DEF channelQueue
    <2>3. log' = [log EXCEPT ![s] = Append(@, current)] /\ s \in todo /\ todo' = todo \ {s}
      BY <1>5 DEF HandlerCalled
    <2>4. ASSUME NEW x \in Subs
          PROVE  (IF x \in todo' THEN Append(log'[x], current') ELSE log'[x])
                 = (IF x \in todo THEN Append(log[x], current) ELSE log[x])
      BY <2>1, <2>3 DEF TypeOK
    <2>5. channelLog' = channelLog
      BY <2>4 DEF channelLog
    <2>6. QED
      BY <2>1, <2>2, <2>5 DEF Channel!vars
  <1>6. CASE DispatchEnd
    <2>1. /\ todo = {} /\ UNCHANGED <<eventQueue, subs, todo, log>>
          /\ worker # "popped" /\ worker' # "popped"
      BY <1>6 DEF DispatchEnd
    <2>2. channelQueue' = channelQueue /\ channelLog' = channelLog
      BY <2>1 DEF channelQueue, channelLog
    <2>3. QED
      BY <2>1, <2>2 DEF Channel!vars
  <1>7. QED
    BY <1>1, <1>2, <1>3, <1>4, <1>5, <1>6 DEF Worker

\* To queue an event is to publish it; the other steps of publish() stutter.
LEMMA PublishImplements ==
  ASSUME TypeOK, NEW t \in Callers, Publish(t)
  PROVE  (\E e \in Events : Channel!Publish(e)) \/ UNCHANGED Channel!vars
  <1> USE DEF dispVars
  <1>1. ASSUME NEW e \in Events, PublishBegin(t, e) PROVE UNCHANGED Channel!vars
    BY <1>1, Stutters DEF PublishBegin
  <1>2. CASE PublishNotify(t)
    BY <1>2, Stutters DEF PublishNotify, Woken
  <1>3. CASE PublishPush(t)
    <2>1. arg[t] \in Events /\ eventQueue \in Seq(Events)
      BY <1>3 DEF PublishPush, TypeOK
    <2>2. /\ eventQueue' = Append(eventQueue, arg[t])
          /\ UNCHANGED <<subs, worker, current, todo, log>>
      BY <1>3 DEF PublishPush
    <2>3. channelLog' = channelLog
      BY <2>2 DEF channelLog
    <2>4. channelQueue' = Append(channelQueue, arg[t])
      <3>1. CASE worker = "popped"
        <4>1. current \in Events
          BY <3>1 DEF TypeOK
        <4>2. QED
          BY <2>1, <2>2, <3>1, <4>1, ConsAppend DEF channelQueue
      <3>2. CASE worker # "popped"
        BY <2>2, <3>2 DEF channelQueue
      <3>3. QED
        BY <3>1, <3>2
    <2>5. QED
      BY <2>1, <2>2, <2>3, <2>4 DEF Channel!Publish
  <1>4. QED
    BY <1>1, <1>2, <1>3 DEF Publish

\* A subscription comes or goes in the bus as in the channel.
LEMMA SubscriptionImplements ==
  ASSUME TypeOK, NEW s \in Subs, subscribe(s) \/ unsubscribe(s)
  PROVE  Channel!Subscribe(s) \/ Channel!Unsubscribe(s)
  <1>1. UNCHANGED <<eventQueue, worker, current, todo, log>>
    BY DEF subscribe, unsubscribe, dispVars
  <1>2. channelQueue' = channelQueue /\ channelLog' = channelLog
    BY <1>1 DEF channelQueue, channelLog
  <1>3. QED
    BY <1>2 DEF subscribe, unsubscribe, Channel!Subscribe, Channel!Unsubscribe

\* Every step of the bus is a step of the channel or a stutter.
LEMMA ChannelStep ==
  ASSUME TypeOK, Lifecycle, [Next]_vars
  PROVE  [Channel!Next]_(Channel!vars)
  <1>1. CASE start \/ Stop \/ WorkerWakesSpuriously
    <2>1. worker # "popped" \/ UNCHANGED worker
      BY <1>1 DEF start, Stop, StopFlag, StopNotify, StopJoined, WorkerWakesSpuriously,
         Woken, Lifecycle
    <2>2. QED
      BY <1>1, <2>1, Stutters DEF start, Stop, StopFlag, StopNotify, StopJoined,
         WorkerWakesSpuriously, Woken, Lifecycle, dispVars
  <1>2. CASE Worker
    BY <1>2, WorkerImplements DEF Channel!Next
  <1>3. ASSUME NEW t \in Callers, Publish(t) PROVE [Channel!Next]_(Channel!vars)
    BY <1>3, PublishImplements DEF Channel!Next
  <1>4. ASSUME NEW s \in Subs, subscribe(s) \/ unsubscribe(s)
        PROVE  [Channel!Next]_(Channel!vars)
    BY <1>4, SubscriptionImplements DEF Channel!Next
  <1>5. CASE UNCHANGED vars
    BY <1>5, Stutters DEF vars, dispVars
  <1>6. QED
    BY <1>1, <1>2, <1>3, <1>4, <1>5 DEF Next

\* The bus implements the abstract channel: no event is lost, repeated, reordered
\* or given to some of its subscribers only.
THEOREM BusIsChannel == Spec => ImplementsChannel
  <1>1. BusInv => TypeOK /\ Lifecycle
    BY DEF BusInv
  <1>2. QED
    BY <1>1, Invariance, ChannelInit, ChannelStep, PTL
    DEF Spec, ImplementsChannel, Channel!ChannelSpec
=============================================================================
