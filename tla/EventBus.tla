------------------------------ MODULE EventBus ------------------------------
(***************************************************************************)
(* The gateway's publish/subscribe channel: threads that publish, one      *)
(* worker thread that dispatches, subscribers that come and go, and the    *)
(* owner that starts and stops the worker, with the two mutexes and the    *)
(* condition variable between them.                                        *)
(***************************************************************************)
EXTENDS Integers, Sequences

CONSTANTS
    Publishers,     \* threads that call publish(); handlers do it too
    Events,         \* the events published, each once
    Subs,           \* the subscriptions, each with its identifier
    Topics,         \* topics of events
    TopicOf,        \* topic of an event
    SubTopic        \* topic of a subscription, "*" for all events

ASSUME BusAssumption ==
    /\ "worker" \notin Publishers
    /\ TopicOf \in [Events -> Topics]
    /\ SubTopic \in [Subs -> Topics \cup {"*"}]
    /\ "none" \notin Events \cup Subs

VARIABLES
    running,    \* running_
    eventQueue,
    subs,       \* subscriptions_, whose order nobody sees
    worker,     \* where the worker thread is, "none" when it is joined
    current,    \* the event it dispatches
    todo,       \* matching subscriptions dispatch() has not come to yet
    handling,   \* subscription whose handler runs
    pub,        \* pub[t]: where thread t is in publish()
    arg,        \* arg[t]: the event it publishes
    owner,      \* where the thread that starts and stops the bus is
    published, removed,     \* events and subscriptions used up (bound)
    accepted,   \* history: events queued while the bus was running
    log         \* history: log[s] is the events the handler of s was given

pubVars == <<pub, arg, published, accepted>>
dispVars == <<current, todo, handling, log>>
vars == <<running, eventQueue, subs, worker, dispVars, pubVars, owner, removed>>

Callers == Publishers \cup {"worker"}
Matches(s, e) == SubTopic[s] \in {"*", TopicOf[e]}
Queued(e) == \E i \in 1..Len(eventQueue) : eventQueue[i] = e

\* The worker holds queueMutex_ across these steps; nobody else does.
QueueMutexFree == worker \notin {"blocking", "drain"}
\* dispatch() holds subsMutex_, shared, while the handlers run.
SubsMutexFree == worker # "dispatch"

TypeOK ==
    /\ running \in BOOLEAN
    /\ eventQueue \in Seq(Events)
    /\ subs \subseteq Subs /\ removed \subseteq Subs
    /\ worker \in {"none", "lock", "blocking", "asleep", "drain", "popped", "dispatch",
                   "relock", "ended"}
    /\ current \in Events \cup {"none"}
    /\ worker \in {"popped", "dispatch"} <=> current # "none"
    /\ todo \subseteq Subs /\ handling \in Subs \cup {"none"}
    /\ worker # "dispatch" => todo = {} /\ handling = "none"
    /\ pub \in [Callers -> {"idle", "push", "notify"}]
    /\ arg \in [Callers -> Events \cup {"none"}]
    /\ \A t \in Callers : pub[t] = "idle" <=> arg[t] = "none"
    /\ owner \in {"down", "up", "notify", "join"}
    /\ published \subseteq Events /\ accepted \subseteq Events
    /\ log \in [Subs -> Seq(Events)]

Init ==
    /\ running = FALSE /\ eventQueue = <<>> /\ subs = {} /\ worker = "none"
    /\ current = "none" /\ todo = {} /\ handling = "none"
    /\ pub = [t \in Callers |-> "idle"] /\ arg = [t \in Callers |-> "none"]
    /\ owner = "down"
    /\ published = {} /\ removed = {} /\ accepted = {}
    /\ log = [s \in Subs |-> <<>>]

-----------------------------------------------------------------------------
(* start() and stop().  One thread owns the bus: ServiceGateway's own.      *)

start ==
    /\ owner = "down"
    /\ running' = TRUE
    /\ worker' = "lock"
    /\ owner' = "up"
    /\ UNCHANGED <<eventQueue, subs, dispVars, pubVars, removed>>

\* Mutant of StopFlag: the flag is changed without queueMutex_.
StopFlag_Unlocked ==
    /\ owner = "up"
    /\ running' = FALSE
    /\ owner' = "notify"
    /\ UNCHANGED <<eventQueue, subs, worker, dispVars, pubVars, removed>>

StopFlag ==
    /\ owner = "up"
    /\ QueueMutexFree
    /\ running' = FALSE
    /\ owner' = "notify"
    /\ UNCHANGED <<eventQueue, subs, worker, dispVars, pubVars, removed>>

\* The condition variable: a notification wakes the worker if it sleeps.
Woken == IF worker = "asleep" THEN "lock" ELSE worker

StopNotify ==
    /\ owner = "notify"
    /\ worker' = Woken
    /\ owner' = "join"
    /\ UNCHANGED <<running, eventQueue, subs, dispVars, pubVars, removed>>

StopJoined ==
    /\ owner = "join" /\ worker = "ended"
    /\ worker' = "none"
    /\ owner' = "down"
    /\ UNCHANGED <<running, eventQueue, subs, dispVars, pubVars, removed>>

-----------------------------------------------------------------------------
subscribe(s) ==
    /\ SubsMutexFree
    /\ s \notin subs \cup removed
    /\ subs' = subs \cup {s}
    /\ UNCHANGED <<running, eventQueue, worker, dispVars, pubVars, owner, removed>>

\* Mutant of unsubscribe: subsMutex_ is not taken.
unsubscribe_Unlocked(s) ==
    /\ s \in subs
    /\ subs' = subs \ {s} /\ removed' = removed \cup {s}
    /\ UNCHANGED <<running, eventQueue, worker, dispVars, pubVars, owner>>

unsubscribe(s) ==
    /\ SubsMutexFree
    /\ s \in subs
    /\ subs' = subs \ {s} /\ removed' = removed \cup {s}
    /\ UNCHANGED <<running, eventQueue, worker, dispVars, pubVars, owner>>

-----------------------------------------------------------------------------
(* publish(): running_ is tested before queueMutex_ is taken.  The worker   *)
(* thread calls it from within a handler.                                   *)

PublishBegin(t, e) ==
    /\ pub[t] = "idle" /\ e \notin published
    /\ t = "worker" => handling # "none"
    /\ running
    /\ pub' = [pub EXCEPT ![t] = "push"]
    /\ arg' = [arg EXCEPT ![t] = e]
    /\ published' = published \cup {e}
    /\ UNCHANGED <<running, eventQueue, subs, worker, dispVars, accepted, owner, removed>>

PublishPush(t) ==
    /\ pub[t] = "push"
    /\ QueueMutexFree
    /\ eventQueue' = Append(eventQueue, arg[t])
    /\ accepted' = IF running THEN accepted \cup {arg[t]} ELSE accepted
    /\ pub' = [pub EXCEPT ![t] = "notify"]
    /\ UNCHANGED <<running, subs, worker, dispVars, arg, published, owner, removed>>

\* Mutant of PublishNotify: nobody is notified.
PublishNotify_Omitted(t) ==
    /\ pub[t] = "notify"
    /\ pub' = [pub EXCEPT ![t] = "idle"]
    /\ arg' = [arg EXCEPT ![t] = "none"]
    /\ UNCHANGED <<running, eventQueue, subs, worker, dispVars, published, accepted, owner,
                   removed>>

PublishNotify(t) ==
    /\ pub[t] = "notify"
    /\ worker' = Woken
    /\ pub' = [pub EXCEPT ![t] = "idle"]
    /\ arg' = [arg EXCEPT ![t] = "none"]
    /\ UNCHANGED <<running, eventQueue, subs, dispVars, published, accepted, owner, removed>>

-----------------------------------------------------------------------------
(* workerLoop() and dispatch()                                              *)

\* wait(): the predicate is tested with queueMutex_ held ...
WorkerTests ==
    /\ worker = "lock"
    /\ worker' = IF eventQueue # <<>> \/ ~running THEN "drain" ELSE "blocking"
    /\ UNCHANGED <<running, eventQueue, subs, dispVars, pubVars, owner, removed>>

\* ... which is given up and the sleep begun in one step.
WorkerSleeps ==
    /\ worker = "blocking"
    /\ worker' = "asleep"
    /\ UNCHANGED <<running, eventQueue, subs, dispVars, pubVars, owner, removed>>

WorkerWakesSpuriously ==
    /\ worker = "asleep"
    /\ worker' = "lock"
    /\ UNCHANGED <<running, eventQueue, subs, dispVars, pubVars, owner, removed>>

WorkerPops ==
    /\ worker = "drain" /\ eventQueue # <<>>
    /\ current' = Head(eventQueue)
    /\ eventQueue' = Tail(eventQueue)
    /\ worker' = "popped"
    /\ UNCHANGED <<running, subs, todo, handling, log, pubVars, owner, removed>>

\* Mutant of WorkerDrained: a stopped worker ends with events in the queue.
WorkerDrained_Early ==
    /\ worker = "drain" /\ (eventQueue = <<>> \/ ~running)
    /\ worker' = IF running THEN "lock" ELSE "ended"
    /\ UNCHANGED <<running, eventQueue, subs, dispVars, pubVars, owner, removed>>

WorkerDrained ==
    /\ worker = "drain" /\ eventQueue = <<>>
    /\ worker' = IF running THEN "lock" ELSE "ended"
    /\ UNCHANGED <<running, eventQueue, subs, dispVars, pubVars, owner, removed>>

DispatchBegin ==
    /\ worker = "popped"
    /\ worker' = "dispatch"
    /\ todo' = {s \in subs : Matches(s, current)}
    /\ UNCHANGED <<running, eventQueue, subs, current, handling, log, pubVars, owner,
                   removed>>

HandlerCalled(s) ==
    /\ worker = "dispatch" /\ handling = "none" /\ s \in todo
    /\ handling' = s
    /\ todo' = todo \ {s}
    /\ log' = [log EXCEPT ![s] = Append(@, current)]
    /\ UNCHANGED <<running, eventQueue, subs, worker, current, pubVars, owner, removed>>

\* It returns, or throws: the exception is swallowed.
HandlerReturns ==
    /\ handling # "none" /\ pub["worker"] = "idle"
    /\ handling' = "none"
    /\ UNCHANGED <<running, eventQueue, subs, worker, current, todo, log, pubVars, owner,
                   removed>>

\* Mutant of DispatchEnd: an exception of a handler ends the dispatch.
DispatchEnd_Early ==
    /\ worker = "dispatch" /\ handling = "none"
    /\ worker' = "relock"
    /\ current' = "none"
    /\ UNCHANGED <<running, eventQueue, subs, todo, handling, log, pubVars, owner, removed>>

DispatchEnd ==
    /\ worker = "dispatch" /\ handling = "none" /\ todo = {}
    /\ worker' = "relock"
    /\ current' = "none"
    /\ UNCHANGED <<running, eventQueue, subs, todo, handling, log, pubVars, owner, removed>>

WorkerRelocks ==
    /\ worker = "relock"
    /\ worker' = "drain"
    /\ UNCHANGED <<running, eventQueue, subs, dispVars, pubVars, owner, removed>>

-----------------------------------------------------------------------------
Stop == StopFlag \/ StopNotify \/ StopJoined
Publish(t) == (\E e \in Events : PublishBegin(t, e)) \/ PublishPush(t) \/ PublishNotify(t)
Worker == \/ WorkerTests \/ WorkerSleeps \/ WorkerPops \/ WorkerDrained
          \/ DispatchBegin \/ (\E s \in Subs : HandlerCalled(s)) \/ HandlerReturns
          \/ DispatchEnd \/ WorkerRelocks

Next == \/ start \/ Stop \/ Worker \/ WorkerWakesSpuriously
        \/ \E t \in Callers : Publish(t)
        \/ \E s \in Subs : subscribe(s) \/ unsubscribe(s)

Spec == Init /\ [][Next]_vars

\* Threads run, handlers end, a thread that waits for queueMutex_ gets it.
FairSpec ==
    /\ Spec
    /\ WF_vars(Worker) /\ WF_vars(StopNotify) /\ WF_vars(StopJoined)
    /\ \A t \in Callers : SF_vars(PublishPush(t)) /\ WF_vars(PublishNotify(t))

-----------------------------------------------------------------------------
(* Properties                                                               *)

\* An event is out of the channel's queue once dispatch() holds the subscription
\* lock, and all its deliveries happen then.
channelQueue == IF worker = "popped" THEN <<current>> \o eventQueue ELSE eventQueue
channelLog == [s \in Subs |-> IF s \in todo THEN Append(log[s], current) ELSE log[s]]

Channel == INSTANCE EventChannel WITH queue <- channelQueue, log <- channelLog

\* The bus is an EventChannel: each event goes once, in the order of publication,
\* to the handlers subscribed when it is dispatched, all of them or none.
ImplementsChannel == Channel!ChannelSpec

\* The handler of a subscription never runs after unsubscribe() has returned.
UnsubscribedIsQuiet == handling # "none" => handling \in subs

\* stop() drains: when it has returned, no event that was queued while the bus
\* was running is left, although publish() tests running_ without the lock.
StopDrains == owner = "down" => worker = "none" /\ \A e \in accepted : ~Queued(e)

\* An event queued while the bus was running is dispatched, stopped or not.
AcceptedIsDispatched ==
    \A e \in Events : (e \in accepted /\ Queued(e)) ~> (~Queued(e) /\ current # e)

\* stop() returns: the worker never sleeps through it.
StopReturns == owner = "notify" ~> owner = "down"
=============================================================================
