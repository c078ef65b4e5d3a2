--------------------------- MODULE ServiceClient ---------------------------
(***************************************************************************)
(* The client side of the broker's protocol, in a service process: the     *)
(* thread in run(), its message loop and ping loop, the thread that calls  *)
(* stop() and later destroys the client, the worker threads of requests,   *)
(* and threads that call invoke().  They share one socket, a few atomics   *)
(* and three mutexes; descriptors are those of the process, and other      *)
(* parts of it (database, HTTP server) open and close descriptors too.     *)
(***************************************************************************)
EXTENDS Integers, FiniteSets

CONSTANTS
    Fds,        \* descriptor numbers the process can be given
    Works,      \* requests the gateway sends, one worker thread each
    Invokes     \* calls of invoke()

ASSUME ClientAssumption ==
    /\ Fds \subseteq Nat
    /\ Works \cap Invokes = {}
    /\ {"run", "ping", "none", "ACKNOWLEDGED"} \cap (Works \cup Invokes) = {}

NoFd == -1

VARIABLES
    stopRequested, connected, registered,   \* the atomics of the client
    sock,       \* socketFd
    own,        \* own[fd]: what the descriptor is in this process
    up,         \* connections that carry data: not shut down, other end open
    identified, \* the gateway has received IDENTIFY on the newest connection
    inbox,      \* what the gateway has sent on it and nobody has read
    reached,    \* INVOKEs the gateway has received on it, not answered
    pc,         \* where the four long-lived threads are
    fdOf,       \* descriptor a thread took from socketFd (disconnect, recv)
    handling,   \* message the message loop is handling, "none" between two
    sender,     \* holder of sendMutex_ inside sendMessage, "none" if free
    sendFd,     \* descriptor it loaded
    worker,     \* worker[w]: where the thread of request w is
    load,       \* identity.currentLoad, which PING reports
    call,       \* call[v]: where the thread in invoke() is
    pendingInvokes,
    written, done,      \* PendingInvoke::result filled in, PendingInvoke::done
    result      \* result[v]: what invoke() returned

connVars == <<connected, registered, sock, own, up>>
gateVars == <<identified, inbox, reached>>
sendVars == <<sender, sendFd>>
callVars == <<call, pendingInvokes, written, done, result>>
workVars == <<worker, load>>
vars == <<stopRequested, connVars, gateVars, pc, fdOf, handling, sendVars, workVars,
          callVars>>

Threads == {"run", "msg", "ping", "stop", "dtor"}
Stoppers == {"stop", "dtor"}
Disconnectors == {"run", "msg"} \cup Stoppers
Msgs    == {"ACKNOWLEDGED"} \cup Works \cup Invokes
StopSteps == {"idle", "disconnect", "mark", "shutdown", "close", "join", "joining", "stopped"}
Steps == [run  |-> {"check", "connect", "register", "sending", "start", "join",
                    "disconnect", "mark", "shutdown", "close", "backoff", "returned"},
          msg  |-> {"end", "loop", "recv", "handle", "write", "setdone",
                    "disconnect", "mark", "shutdown", "close"},
          ping |-> {"end", "loop", "sending"},
          stop |-> StopSteps, dtor |-> StopSteps]
\* Where a thread goes on when its disconnect() returns.
AfterDisconnect == [run |-> "backoff", msg |-> "end", stop |-> "join", dtor |-> "join"]
Goto(t, l) == pc' = [pc EXCEPT ![t] = l]

TypeOK ==
    /\ stopRequested \in BOOLEAN /\ connected \in BOOLEAN /\ registered \in BOOLEAN
    /\ sock \in Fds \cup {NoFd}
    /\ own \in [Fds -> {"free", "link", "other"}]
    /\ up \subseteq {fd \in Fds : own[fd] = "link"}
    /\ identified \in BOOLEAN
    /\ inbox \subseteq Msgs /\ reached \subseteq Invokes
    /\ handling \in Msgs \cup {"none"}
    /\ \A t \in Threads : pc[t] \in Steps[t]
    /\ fdOf \in [Disconnectors -> Fds \cup {NoFd}]
    /\ \A t \in Disconnectors : pc[t] = "close" => fdOf[t] \in Fds
    /\ pc["run"] = "connect" => ~connected
    /\ sender \in {"none", "run", "ping"} \cup Works \cup Invokes
    /\ sendFd \in Fds \cup {NoFd}
    /\ worker \in [Works -> {"none", "running", "sending", "finished"}]
    /\ load \in Nat
    /\ call \in [Invokes -> {"idle", "send", "sending", "waiting", "returned"}]
    /\ pendingInvokes \subseteq Invokes /\ written \subseteq Invokes /\ done \subseteq Invokes
    /\ result \in [Invokes -> {"none", "refused", "unsent", "timeout", "response"}]

Init ==
    /\ stopRequested = FALSE /\ connected = FALSE /\ registered = FALSE
    /\ sock = NoFd
    /\ own = [fd \in Fds |-> "free"] /\ up = {}
    /\ identified = FALSE /\ inbox = {} /\ reached = {}
    /\ pc = [run |-> "check", msg |-> "end", ping |-> "end",
             stop |-> "idle", dtor |-> "idle"]
    /\ fdOf = [t \in Disconnectors |-> NoFd]
    /\ handling = "none"
    /\ sender = "none" /\ sendFd = NoFd
    /\ worker = [w \in Works |-> "none"] /\ load = 0
    /\ call = [v \in Invokes |-> "idle"]
    /\ pendingInvokes = {} /\ written = {} /\ done = {}
    /\ result = [v \in Invokes |-> "none"]

-----------------------------------------------------------------------------
(* disconnect(), called by run(), by the message loop and by stop().        *)

\* Only a connected client is disconnected; two threads may both find it so.
DisconnectBegin(t) ==
    /\ pc[t] = "disconnect"
    /\ Goto(t, IF connected THEN "mark" ELSE AfterDisconnect[t])
    /\ UNCHANGED <<stopRequested, connVars, gateVars, fdOf, handling, sendVars, workVars,
                   callVars>>

MarkDisconnected(t) ==
    /\ pc[t] = "mark"
    /\ connected' = FALSE /\ registered' = FALSE
    /\ Goto(t, "shutdown")
    /\ UNCHANGED <<stopRequested, sock, own, up, gateVars, fdOf, handling, sendVars,
                   workVars, callVars>>

\* Mutants of Shutdown: the threads blocked on the socket are not unblocked; the
\* descriptor is not compared with -1.
Shutdown_Omitted(t) ==
    /\ pc[t] = "shutdown"
    /\ fdOf' = [fdOf EXCEPT ![t] = sock]
    /\ Goto(t, IF sock = NoFd THEN AfterDisconnect[t] ELSE "close")
    /\ UNCHANGED <<stopRequested, connVars, gateVars, handling, sendVars, workVars,
                   callVars>>

Shutdown_Unchecked(t) ==
    /\ pc[t] = "shutdown"
    /\ fdOf' = [fdOf EXCEPT ![t] = sock]
    /\ up' = up \ {sock}
    /\ Goto(t, "close")
    /\ UNCHANGED <<stopRequested, connected, registered, sock, own, gateVars, handling,
                   sendVars, workVars, callVars>>

\* shutdown(), without a lock, so that a blocked send() or recv() returns.
Shutdown(t) ==
    /\ pc[t] = "shutdown"
    /\ fdOf' = [fdOf EXCEPT ![t] = sock]
    /\ up' = up \ {sock}
    /\ Goto(t, IF sock = NoFd THEN AfterDisconnect[t] ELSE "close")
    /\ UNCHANGED <<stopRequested, connected, registered, sock, own, gateVars, handling,
                   sendVars, workVars, callVars>>

\* Mutant of Close: sendMutex_ is not taken.
Close_Unlocked(t) ==
    /\ pc[t] = "close"
    /\ own' = [own EXCEPT ![fdOf[t]] = "free"]
    /\ sock' = NoFd
    /\ fdOf' = [fdOf EXCEPT ![t] = NoFd]
    /\ Goto(t, AfterDisconnect[t])
    /\ UNCHANGED <<stopRequested, connected, registered, up, gateVars, handling, sendVars,
                   workVars, callVars>>

\* close() and socketFd := -1 under sendMutex_.  Two threads may get here with
\* the same descriptor: the second close() hits whatever it is by then.
Close(t) ==
    /\ pc[t] = "close"
    /\ sender = "none"
    /\ own' = [own EXCEPT ![fdOf[t]] = "free"]
    /\ sock' = NoFd
    /\ fdOf' = [fdOf EXCEPT ![t] = NoFd]
    /\ Goto(t, AfterDisconnect[t])
    /\ UNCHANGED <<stopRequested, connected, registered, up, gateVars, handling, sendVars,
                   workVars, callVars>>

Disconnect(t) == DisconnectBegin(t) \/ MarkDisconnected(t) \/ Shutdown(t) \/ Close(t)

-----------------------------------------------------------------------------
(* sendMessage(): IDENTIFY (run), PING, RESPONSE (workers), INVOKE.         *)

\* sendMutex_ is taken, then socketFd loaded.
Acquire(t) ==
    /\ sender = "none"
    /\ sender' = t
    /\ sendFd' = sock

\* send() returns: the message is out, or the connection is gone, which the
\* first send() after the other end closed may not notice.
Sent   == sendFd \in up
Lost   == sendFd # NoFd /\ sendFd \notin up
Failed == sendFd \notin up
Release == sender' = "none" /\ sendFd' = NoFd

-----------------------------------------------------------------------------
(* run()                                                                    *)

RunCheck ==
    /\ pc["run"] = "check"
    /\ Goto("run", IF stopRequested THEN "returned" ELSE "connect")
    /\ UNCHANGED <<stopRequested, connVars, gateVars, fdOf, handling, sendVars, workVars,
                   callVars>>

\* connect(): the gateway is reachable ...
RunConnects ==
    /\ pc["run"] = "connect" /\ ~connected
    /\ \E fd \in Fds :
         /\ own[fd] = "free"
         /\ own' = [own EXCEPT ![fd] = "link"]
         /\ up' = up \cup {fd}
         /\ sock' = fd
    /\ connected' = TRUE
    /\ identified' = FALSE /\ inbox' = {} /\ reached' = {}
    /\ Goto("run", "register")
    /\ UNCHANGED <<stopRequested, registered, fdOf, handling, sendVars, workVars, callVars>>

\* ... or not.
RunConnectFails ==
    /\ pc["run"] = "connect" /\ ~connected
    /\ Goto("run", "backoff")
    /\ UNCHANGED <<stopRequested, connVars, gateVars, fdOf, handling, sendVars, workVars,
                   callVars>>

\* registerService() sends IDENTIFY.
RunRegister ==
    /\ pc["run"] = "register"
    /\ IF connected
         THEN Acquire("run") /\ Goto("run", "sending")
         ELSE Goto("run", "disconnect") /\ UNCHANGED sendVars
    /\ UNCHANGED <<stopRequested, connVars, gateVars, fdOf, handling, workVars, callVars>>

RunIdentified ==
    /\ pc["run"] = "sending"
    /\ \/ Sent /\ identified' = TRUE /\ Goto("run", "start")
       \/ Lost /\ UNCHANGED identified /\ Goto("run", "start")
       \/ Failed /\ UNCHANGED identified /\ Goto("run", "disconnect")
    /\ Release
    /\ UNCHANGED <<stopRequested, connVars, inbox, reached, fdOf, handling, workVars, callVars>>

\* The message and ping threads are started, and joined.
RunStart ==
    /\ pc["run"] = "start"
    /\ pc' = [pc EXCEPT !["run"] = "join", !["msg"] = "loop", !["ping"] = "loop"]
    /\ UNCHANGED <<stopRequested, connVars, gateVars, fdOf, handling, sendVars, workVars,
                   callVars>>

RunJoined ==
    /\ pc["run"] = "join" /\ pc["msg"] = "end" /\ pc["ping"] = "end"
    /\ Goto("run", IF stopRequested THEN "returned" ELSE "disconnect")
    /\ UNCHANGED <<stopRequested, connVars, gateVars, fdOf, handling, sendVars, workVars,
                   callVars>>

RunBackoff ==
    /\ pc["run"] = "backoff"
    /\ Goto("run", "check")
    /\ UNCHANGED <<stopRequested, connVars, gateVars, fdOf, handling, sendVars, workVars,
                   callVars>>

-----------------------------------------------------------------------------
(* messageLoop() and pingLoop()                                             *)

MsgLoop ==
    /\ pc["msg"] = "loop"
    /\ IF connected
         THEN fdOf' = [fdOf EXCEPT !["msg"] = sock] /\ Goto("msg", "recv")
         ELSE Goto("msg", "end") /\ UNCHANGED fdOf
    /\ UNCHANGED <<stopRequested, connVars, gateVars, handling, sendVars, workVars, callVars>>

NextMessage == /\ handling' \in inbox
               /\ inbox' = inbox \ {handling'}

\* recv() returns something of what the gateway has sent.
MsgReceives ==
    /\ pc["msg"] = "recv" /\ fdOf["msg"] # NoFd
    /\ own[fdOf["msg"]] = "link"
    /\ NextMessage
    /\ Goto("msg", "handle")
    /\ UNCHANGED <<stopRequested, connVars, identified, reached, fdOf, sendVars, workVars,
                   callVars>>

\* More messages may have come with the same recv(): they are handled even if
\* the client has been disconnected meanwhile.
MsgContinues ==
    /\ pc["msg"] = "handle" /\ handling = "none"
    /\ NextMessage
    /\ UNCHANGED <<stopRequested, connVars, identified, reached, pc, fdOf, sendVars, workVars,
                   callVars>>

\* The number that was loaded is closed and somebody else's by now.
ReadsForeign == pc["msg"] = "recv" /\ fdOf["msg"] # NoFd /\ own[fdOf["msg"]] = "other"

\* Mutant of MsgRecvFails: the loop ends and leaves the connection to others.
MsgRecvFails_LeavesConnection ==
    /\ pc["msg"] = "recv" /\ ~ReadsForeign
    /\ fdOf["msg"] \notin up
    /\ Goto("msg", "end")
    /\ UNCHANGED <<stopRequested, connVars, gateVars, fdOf, handling, sendVars, workVars,
                   callVars>>

\* recv() returns 0 or an error: tear the connection down, unless it is gone.
MsgRecvFails ==
    /\ pc["msg"] = "recv" /\ ~ReadsForeign
    /\ fdOf["msg"] \notin up
    /\ Goto("msg", IF connected THEN "disconnect" ELSE "end")
    /\ UNCHANGED <<stopRequested, connVars, gateVars, fdOf, handling, sendVars, workVars,
                   callVars>>

\* recv() on what is somebody else's: it takes bytes that are no message, or fails.  It
\* may as well block, so that nothing says that this step comes.
MsgReadsForeign ==
    /\ ReadsForeign
    /\ \/ Goto("msg", "loop")
       \/ Goto("msg", IF connected THEN "disconnect" ELSE "end")
    /\ UNCHANGED <<stopRequested, connVars, gateVars, fdOf, handling, sendVars, workVars,
                   callVars>>

MsgBatchDone ==
    /\ pc["msg"] = "handle" /\ handling = "none"
    /\ Goto("msg", "loop")
    /\ UNCHANGED <<stopRequested, connVars, gateVars, fdOf, handling, sendVars, workVars,
                   callVars>>

HandleAcknowledged ==
    /\ pc["msg"] = "handle" /\ handling = "ACKNOWLEDGED"
    /\ handling' = "none"
    /\ registered' = TRUE
    /\ UNCHANGED <<stopRequested, connected, sock, own, up, gateVars, pc, fdOf, sendVars,
                   workVars, callVars>>

\* handleRequest(): under requestThreadsMutex_, which joinRequestThreads() may
\* hold; finished workers are joined, a new one is started.
handleRequest(w) ==
    /\ pc["msg"] = "handle" /\ handling = w
    /\ pc["stop"] # "joining"
    /\ handling' = "none"
    /\ worker' = [x \in Works |-> IF x = w THEN "running"
                                ELSE IF worker[x] = "finished" THEN "none" ELSE worker[x]]
    /\ UNCHANGED <<stopRequested, connVars, gateVars, pc, fdOf, sendVars, load, callVars>>

\* handleInvokeResponse() looks the call up, fills in its result without a
\* lock, then sets done and notifies.
FindInvoke(v) ==
    /\ pc["msg"] = "handle" /\ handling = v
    /\ IF v \in pendingInvokes
         THEN Goto("msg", "write") /\ UNCHANGED handling
         ELSE handling' = "none" /\ UNCHANGED pc
    /\ UNCHANGED <<stopRequested, connVars, gateVars, fdOf, sendVars, workVars, callVars>>

\* Mutant of WriteResult: done is set before the result is filled in.
WriteResult_DoneFirst ==
    /\ pc["msg"] = "write"
    /\ done' = done \cup {handling}
    /\ Goto("msg", "setdone")
    /\ UNCHANGED <<stopRequested, connVars, gateVars, fdOf, handling, sendVars, workVars,
                   call, pendingInvokes, written, result>>

WriteResult ==
    /\ pc["msg"] = "write"
    /\ written' = written \cup {handling}
    /\ Goto("msg", "setdone")
    /\ UNCHANGED <<stopRequested, connVars, gateVars, fdOf, handling, sendVars, workVars,
                   call, pendingInvokes, done, result>>

SetDone ==
    /\ pc["msg"] = "setdone"
    /\ done' = done \cup {handling}
    /\ handling' = "none"
    /\ Goto("msg", "handle")
    /\ UNCHANGED <<stopRequested, connVars, gateVars, fdOf, sendVars, workVars, call,
                   pendingInvokes, written, result>>

PingEnds ==
    /\ pc["ping"] = "loop" /\ ~connected
    /\ Goto("ping", "end")
    /\ UNCHANGED <<stopRequested, connVars, gateVars, fdOf, handling, sendVars, workVars,
                   callVars>>

PingSends ==
    /\ pc["ping"] = "loop" /\ connected /\ registered
    /\ Acquire("ping")
    /\ Goto("ping", "sending")
    /\ UNCHANGED <<stopRequested, connVars, gateVars, fdOf, handling, workVars, callVars>>

PingSent ==
    /\ pc["ping"] = "sending"
    /\ Release
    /\ Goto("ping", "loop")
    /\ UNCHANGED <<stopRequested, connVars, gateVars, fdOf, handling, workVars, callVars>>

-----------------------------------------------------------------------------
(* Worker threads, invoke(), stop() and the destructor.                     *)

\* A request that was served is taken off the load, one whose handler threw is not.
LoadServed == load' \in {load, IF load > 0 THEN load - 1 ELSE 0}

\* The handler has returned (or thrown): sendResponse() on today's connection.
WorkerAnswers(w) ==
    /\ worker[w] = "running"
    /\ IF connected
         THEN /\ Acquire(w)
              /\ worker' = [worker EXCEPT ![w] = "sending"]
              /\ UNCHANGED load
         ELSE /\ LoadServed
              /\ worker' = [worker EXCEPT ![w] = "finished"]
              /\ UNCHANGED sendVars
    /\ UNCHANGED <<stopRequested, connVars, gateVars, pc, fdOf, handling, callVars>>

WorkerFinishes(w) ==
    /\ worker[w] = "sending"
    /\ Release /\ LoadServed
    /\ worker' = [worker EXCEPT ![w] = "finished"]
    /\ UNCHANGED <<stopRequested, connVars, gateVars, pc, fdOf, handling, callVars>>

InvokeBegin(v) ==
    /\ call[v] = "idle"
    /\ IF connected /\ registered
         THEN /\ pendingInvokes' = pendingInvokes \cup {v}
              /\ call' = [call EXCEPT ![v] = "send"]
              /\ UNCHANGED result
         ELSE /\ result' = [result EXCEPT ![v] = "refused"]
              /\ call' = [call EXCEPT ![v] = "returned"]
              /\ UNCHANGED pendingInvokes
    /\ UNCHANGED <<stopRequested, connVars, gateVars, pc, fdOf, handling, sendVars, workVars,
                   written, done>>

InvokeSend(v) ==
    /\ call[v] = "send"
    /\ Acquire(v)
    /\ call' = [call EXCEPT ![v] = "sending"]
    /\ UNCHANGED <<stopRequested, connVars, gateVars, pc, fdOf, handling, workVars,
                   pendingInvokes, written, done, result>>

InvokeSent(v) ==
    /\ call[v] = "sending"
    /\ \/ /\ Sent \/ Lost
          /\ reached' = IF Sent THEN reached \cup {v} ELSE reached
          /\ call' = [call EXCEPT ![v] = "waiting"]
          /\ UNCHANGED <<pendingInvokes, result>>
       \/ /\ Failed
          /\ pendingInvokes' = pendingInvokes \ {v}
          /\ call' = [call EXCEPT ![v] = "returned"]
          /\ result' = [result EXCEPT ![v] = "unsent"]
          /\ UNCHANGED reached
    /\ Release
    /\ UNCHANGED <<stopRequested, connVars, identified, inbox, pc, fdOf, handling, workVars,
                   written, done>>

\* Mutant of InvokeReturns: wait() instead of wait_for().
InvokeReturns_Waits(v) ==
    /\ call[v] = "waiting" /\ v \in done
    /\ call' = [call EXCEPT ![v] = "returned"]
    /\ pendingInvokes' = pendingInvokes \ {v}
    /\ result' = [result EXCEPT ![v] = "response"]
    /\ UNCHANGED <<stopRequested, connVars, gateVars, pc, fdOf, handling, sendVars, workVars,
                   written, done>>

\* wait_for() ends: done is tested under invokeMutex, also when time is up.
InvokeReturns(v) ==
    /\ call[v] = "waiting"
    /\ call' = [call EXCEPT ![v] = "returned"]
    /\ pendingInvokes' = pendingInvokes \ {v}
    /\ result' = [result EXCEPT ![v] = IF v \in done THEN "response" ELSE "timeout"]
    /\ UNCHANGED <<stopRequested, connVars, gateVars, pc, fdOf, handling, sendVars, workVars,
                   written, done>>

\* Mutant of StopCalled: the flag is set after disconnect() has returned.
StopCalled_FlagLate(t) ==
    \/ /\ pc[t] = "idle"
       /\ t = "dtor" => pc["stop"] = "stopped" /\ pc["run"] = "returned"
       /\ Goto(t, "disconnect")
       /\ UNCHANGED <<stopRequested, connVars, gateVars, fdOf, handling, sendVars, workVars,
                      callVars>>
    \/ /\ pc[t] = "join" /\ ~stopRequested
       /\ stopRequested' = TRUE
       /\ UNCHANGED <<connVars, gateVars, pc, fdOf, handling, sendVars, workVars, callVars>>

\* stop(): the flag, then disconnect(), then joinRequestThreads().  The owner
\* calls it, joins the thread in run(), and destroys the client; the destructor
\* calls it again.
StopCalled(t) ==
    /\ pc[t] = "idle"
    /\ t = "dtor" => pc["stop"] = "stopped" /\ pc["run"] = "returned"
    /\ stopRequested' = TRUE
    /\ Goto(t, "disconnect")
    /\ UNCHANGED <<connVars, gateVars, fdOf, handling, sendVars, workVars, callVars>>

\* joinRequestThreads() takes requestThreadsMutex_ and holds it over the joins.
StopJoins(t) ==
    /\ pc[t] = "join"
    /\ Goto(t, "joining")
    /\ UNCHANGED <<stopRequested, connVars, gateVars, fdOf, handling, sendVars, workVars,
                   callVars>>

\* Mutant of StopJoined: the workers are forgotten, not joined.
StopJoined_Forgets(t) ==
    /\ pc[t] = "joining"
    /\ Goto(t, "stopped")
    /\ UNCHANGED <<stopRequested, connVars, gateVars, fdOf, handling, sendVars, workVars,
                   callVars>>

StopJoined(t) ==
    /\ pc[t] = "joining"
    /\ \A w \in Works : worker[w] \in {"none", "finished"}
    /\ worker' = [w \in Works |-> "none"]
    /\ Goto(t, "stopped")
    /\ UNCHANGED <<stopRequested, connVars, gateVars, fdOf, handling, sendVars, load, callVars>>

-----------------------------------------------------------------------------
(* The gateway, the network, and the rest of the process.                   *)

GatewayAcks ==
    /\ identified /\ sock \in up
    /\ inbox' = inbox \cup {"ACKNOWLEDGED"}
    /\ identified' = FALSE
    /\ UNCHANGED <<stopRequested, connVars, reached, pc, fdOf, handling, sendVars, workVars,
                   callVars>>

GatewayRequests(w) ==
    /\ sock \in up
    /\ worker[w] = "none" /\ w \notin inbox \cup {handling}
    /\ inbox' = inbox \cup {w}
    /\ UNCHANGED <<stopRequested, connVars, identified, reached, pc, fdOf, handling,
                   sendVars, workVars, callVars>>

GatewayResponds(v) ==
    /\ v \in reached /\ sock \in up
    /\ inbox' = inbox \cup {v}
    /\ reached' = reached \ {v}
    /\ UNCHANGED <<stopRequested, connVars, identified, pc, fdOf, handling, sendVars,
                   workVars, callVars>>

LinkDrops(fd) ==
    /\ fd \in up
    /\ up' = up \ {fd}
    /\ UNCHANGED <<stopRequested, connected, registered, sock, own, gateVars, pc, fdOf,
                   handling, sendVars, workVars, callVars>>

\* Bound: the process never runs out of descriptors.
OthersOpenOrClose(fd) ==
    /\ own[fd] # "link"
    /\ own[fd] = "free" => \E f \in Fds \ {fd} : own[f] = "free"
    /\ own' = [own EXCEPT ![fd] = IF @ = "free" THEN "other" ELSE "free"]
    /\ UNCHANGED <<stopRequested, connected, registered, sock, up, gateVars, pc, fdOf,
                   handling, sendVars, workVars, callVars>>

-----------------------------------------------------------------------------
Run == \/ RunCheck \/ RunConnects \/ RunConnectFails \/ RunRegister \/ RunIdentified
       \/ RunStart \/ RunJoined \/ RunBackoff
Msg == \/ MsgLoop \/ MsgReceives \/ MsgContinues \/ MsgRecvFails \/ MsgReadsForeign
       \/ MsgBatchDone \/ HandleAcknowledged \/ WriteResult \/ SetDone
       \/ \E w \in Works : handleRequest(w)
       \/ \E v \in Invokes : FindInvoke(v)
Ping == PingEnds \/ PingSends \/ PingSent
Worker(w) == WorkerAnswers(w) \/ WorkerFinishes(w)
Invoke(v) == InvokeBegin(v) \/ InvokeSend(v) \/ InvokeSent(v) \/ InvokeReturns(v)
Stop(t) == StopCalled(t) \/ StopJoins(t) \/ StopJoined(t)
Environment == \/ GatewayAcks
               \/ \E w \in Works : GatewayRequests(w)
               \/ \E v \in Invokes : GatewayResponds(v)
               \/ \E fd \in Fds : LinkDrops(fd) \/ OthersOpenOrClose(fd)

Next == \/ Run \/ Msg \/ Ping \/ Environment
        \/ \E t \in Disconnectors : Disconnect(t)
        \/ \E t \in Stoppers : Stop(t)
        \/ \E w \in Works : Worker(w)
        \/ \E v \in Invokes : Invoke(v)

Spec == Init /\ [][Next]_vars

\* Threads run, send() returns, handlers end, sleeps and time-outs are over.  Nothing
\* is assumed of a recv() on somebody else's descriptor, nor of the gateway, except
\* (ReachableSpec) that it can be connected to again and again.
FairSpec ==
    /\ Spec
    /\ WF_vars(Run) /\ WF_vars(~ReadsForeign /\ Msg) /\ WF_vars(PingEnds) /\ WF_vars(PingSent)
    /\ \A t \in Disconnectors : 
         WF_vars(DisconnectBegin(t)) /\ WF_vars(MarkDisconnected(t))
         /\ WF_vars(Shutdown(t)) /\ SF_vars(Close(t))
    /\ \A t \in Stoppers : WF_vars(StopJoins(t)) /\ WF_vars(StopJoined(t))
    /\ \A w \in Works : SF_vars(WorkerAnswers(w)) /\ WF_vars(WorkerFinishes(w))
    /\ \A v \in Invokes : SF_vars(InvokeSend(v)) /\ WF_vars(InvokeSent(v))
                          /\ WF_vars(InvokeReturns(v))
ReachableSpec == FairSpec /\ SF_vars(RunConnects) /\ SF_vars(RunRegister)

-----------------------------------------------------------------------------
(* Properties                                                               *)

\* sendMessage() writes only to the client's own connection, never to a
\* descriptor that was closed, or closed and opened again by somebody else,
\* although disconnect() may run in two threads at once.
SendsOnOwnLink == sender # "none" /\ sendFd # NoFd => own[sendFd] = "link"

\* A stale disconnect() never forgets a newer connection: an open connection is
\* the one in socketFd, so that it will be closed.
NoLeakedLink == \A fd \in Fds : own[fd] = "link" => sock = fd

\* When the destructor is over nothing uses the client any more: run() has
\* returned, the loops have ended and every worker is joined.
DestroyedIsQuiet ==
    pc["dtor"] = "stopped" =>
        /\ pc["run"] = "returned" /\ pc["msg"] = "end" /\ pc["ping"] = "end"
        /\ \A w \in Works : worker[w] = "none"

\* invoke() returns a response only when all of it is there, and a call that has
\* returned is no longer pending.
InvokeResultComplete ==
    \A v \in Invokes : call[v] = "returned" =>
        v \notin pendingInvokes /\ (result[v] = "response" => v \in written)

\* The load a PING reports is the number of requests being served, by which the
\* gateway chooses between services and leaves out those that have too many.
LoadIsActiveRequests ==
    load = Cardinality({w \in Works : worker[w] \in {"running", "sending"}})

\* A client in run() is told of a dead connection: it connects again, or is
\* being stopped.
Reconnects ==
    (pc["run"] = "join" /\ sock \notin up) ~> (stopRequested \/ sock \in up)

\* stop() ends run() if the client is connected and its loops are running, unless the
\* message loop is caught in recv() on a number that was given away after the close ...
StopEndsLoops ==
    \/ []<>ReadsForeign
    \/ (pc["run"] = "join" /\ pc["stop"] = "disconnect") ~> pc["run"] = "returned"

\* ... and whatever it is doing: it "keeps retrying until stop() is called".
StopEndsRun == pc["stop"] = "disconnect" ~> pc["run"] = "returned"

\* A call of invoke() returns, at the latest when its time-out is over.
InvokeEnds == \A v \in Invokes : call[v] = "send" ~> call[v] = "returned"
=============================================================================
