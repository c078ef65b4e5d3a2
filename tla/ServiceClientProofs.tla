------------------------ MODULE ServiceClientProofs ------------------------
(***************************************************************************)
(* Safety of ServiceClient for every set of descriptors, requests and      *)
(* calls: the socket its threads share, the destructor, and invoke().      *)
(***************************************************************************)
EXTENDS ServiceClient, TLAPS

USE DEF connVars, gateVars, sendVars, callVars, workVars

\* The four threads and the destructor each have a place.
PcInv == pc \in [Threads -> StopSteps \cup Steps["run"] \cup Steps["msg"] \cup Steps["ping"]]

\* Where each thread can be, one thread at a time.
LEMMA Places ==
  ASSUME TypeOK
  PROVE  /\ pc["run"] \in {"check", "connect", "register", "sending", "start", "join",
                           "disconnect", "mark", "shutdown", "close", "backoff", "returned"}
         /\ pc["msg"] \in {"end", "loop", "recv", "handle", "write", "setdone",
                           "disconnect", "mark", "shutdown", "close"}
         /\ pc["ping"] \in {"end", "loop", "sending"}
         /\ pc["stop"] \in StopSteps /\ pc["dtor"] \in StopSteps
  BY DEF TypeOK, Threads, Steps

\* Of the session: run() connects only while nothing else is in disconnect()
\* with an older descriptor, the loops live only while run() joins them, and
\* the destructor starts when run() and stop() are over.
Closing == {"mark", "shutdown", "close"}
SessionInv ==
    /\ pc["run"] \in {"check", "connect", "backoff", "shutdown", "close"} => ~connected
    /\ pc["msg"] # "end" \/ pc["ping"] # "end" => pc["run"] = "join"
    /\ pc["stop"] # "idle" => stopRequested
    /\ pc["stop"] \in Closing => pc["run"] # "connect"
    /\ pc["dtor"] # "idle" => pc["stop"] = "stopped" /\ pc["run"] = "returned"

\* Of the socket: an open connection is in socketFd and will be closed, and a
\* thread about to close a descriptor has the one in socketFd, shut down.
LinkInv ==
    /\ sock # NoFd => own[sock] = "link"
    /\ NoLeakedLink
    /\ sock # NoFd => connected \/ \E t \in Disconnectors : pc[t] \in {"shutdown", "close"}
    /\ \A t \in Disconnectors : pc[t] = "close" => fdOf[t] \notin up /\ sock \in {NoFd, fdOf[t]}

SocketInv == TypeOK /\ PcInv /\ SessionInv /\ LinkInv

\* What Goto does, and when the places stay right.
LEMMA Moves ==
  ASSUME TypeOK, PcInv, NEW t \in Threads, NEW l \in Steps[t], Goto(t, l)
  PROVE  /\ pc'[t] = l
         /\ \A u \in Threads \ {t} : pc'[u] = pc[u]
         /\ PcInv'
         /\ \A u \in Threads : pc'[u] \in Steps[u]
  <1>1. l \in StopSteps \cup Steps["run"] \cup Steps["msg"] \cup Steps["ping"]
    BY DEF Threads, Steps
  <1>2. QED
    BY <1>1 DEF PcInv, Goto, TypeOK

\* disconnect() is left for the place its caller goes on from.
LEMMA DisconnectPlaces ==
  ASSUME NEW t \in Disconnectors
  PROVE  /\ t \in Threads /\ AfterDisconnect[t] \in Steps[t]
         /\ {"disconnect", "mark", "shutdown", "close"} \subseteq Steps[t]
         /\ AfterDisconnect[t] \in {"backoff", "end", "join"}
         /\ t = "run" => AfterDisconnect[t] = "backoff"
  BY DEF Disconnectors, Stoppers, Threads, Steps, StopSteps, AfterDisconnect

\* A step of disconnect(), in one of the threads that may run it together.
LEMMA DisconnectStep ==
  ASSUME SocketInv, NEW t \in Disconnectors, Disconnect(t)
  PROVE  SocketInv'
  <1> USE ClientAssumption DEF NoFd
  <1>0. TypeOK /\ PcInv /\ SessionInv /\ LinkInv
    BY DEF SocketInv
  <1>p. {"run", "msg", "ping", "stop", "dtor"} = Threads
    BY DEF Threads
  <1>q. Disconnectors = {"run", "msg", "stop", "dtor"}
    BY DEF Disconnectors, Stoppers
  <1>1. CASE DisconnectBegin(t)
    <2> DEFINE l == IF connected THEN "mark" ELSE AfterDisconnect[t]
    <2>1. l \in Steps[t] /\ Goto(t, l) /\ pc[t] = "disconnect"
      BY <1>1, DisconnectPlaces DEF DisconnectBegin
    <2>2. /\ pc'[t] = l /\ PcInv' /\ \A u \in Threads \ {t} : pc'[u] = pc[u]
          /\ \A u \in Threads : pc'[u] \in Steps[u]
      BY <1>0, <2>1, Moves, DisconnectPlaces
    <2>3. /\ UNCHANGED <<stopRequested, connVars, gateVars, fdOf, handling, sendVars,
                         workVars, callVars>>
          /\ l \in {"mark", "backoff", "end", "join"} /\ (t = "run" => l \in {"mark", "backoff"})
          /\ l = "mark" <=> connected
      BY <1>1, DisconnectPlaces DEF DisconnectBegin
    <2> HIDE DEF l
    <2>4. TypeOK'
      BY <1>0, <2>2, <2>3, <1>p, <1>q DEF TypeOK
    <2>5. SessionInv'
      BY <1>0, <2>1, <2>2, <2>3, <1>p, <1>q DEF SessionInv, Closing, TypeOK
    <2>6. LinkInv'
      BY <1>0, <2>1, <2>2, <2>3, <1>p, <1>q DEF LinkInv, NoLeakedLink
    <2>7. QED
      BY <2>2, <2>4, <2>5, <2>6 DEF SocketInv
  <1>2. CASE MarkDisconnected(t)
    <2>1. "shutdown" \in Steps[t] /\ Goto(t, "shutdown") /\ pc[t] = "mark"
      BY <1>2, DisconnectPlaces DEF MarkDisconnected
    <2>2. /\ pc'[t] = "shutdown" /\ PcInv' /\ \A u \in Threads \ {t} : pc'[u] = pc[u]
          /\ \A u \in Threads : pc'[u] \in Steps[u]
      BY <1>0, <2>1, Moves, DisconnectPlaces
    <2>3. /\ connected' = FALSE /\ registered' = FALSE
          /\ UNCHANGED <<stopRequested, sock, own, up, gateVars, fdOf, handling, sendVars,
                         workVars, callVars>>
      BY <1>2 DEF MarkDisconnected
    <2>4. TypeOK'
      BY <1>0, <2>2, <2>3, <1>p, <1>q DEF TypeOK
    <2>5. SessionInv'
      BY <1>0, <2>1, <2>2, <2>3, <1>p, <1>q DEF SessionInv, Closing, TypeOK
    <2>6. LinkInv'
      BY <1>0, <2>1, <2>2, <2>3, <1>p, <1>q DEF LinkInv, NoLeakedLink
    <2>7. QED
      BY <2>2, <2>4, <2>5, <2>6 DEF SocketInv
  <1>3. CASE Shutdown(t)
    <2> DEFINE l == IF sock = -1 THEN AfterDisconnect[t] ELSE "close"
    <2>1. l \in Steps[t] /\ Goto(t, l) /\ pc[t] = "shutdown"
      BY <1>3, DisconnectPlaces DEF Shutdown
    <2>2. /\ pc'[t] = l /\ PcInv' /\ \A u \in Threads \ {t} : pc'[u] = pc[u]
          /\ \A u \in Threads : pc'[u] \in Steps[u]
      BY <1>0, <2>1, Moves, DisconnectPlaces
    <2>3. /\ UNCHANGED <<stopRequested, connected, registered, sock, own, gateVars, handling,
                         sendVars, workVars, callVars>>
          /\ up' = up \ {sock} /\ fdOf' = [fdOf EXCEPT ![t] = sock]
          /\ l \in {"close", "backoff", "end", "join"} /\ (t = "run" => l \in {"close", "backoff"})
          /\ l = "close" <=> sock # -1
      BY <1>3, DisconnectPlaces DEF Shutdown
    <2> HIDE DEF l
    <2>4. TypeOK'
      BY <1>0, <2>1, <2>2, <2>3, <1>p, <1>q DEF TypeOK, SessionInv
    <2>5. SessionInv'
      BY <1>0, <2>1, <2>2, <2>3, <1>p, <1>q DEF SessionInv, Closing, TypeOK
    <2>6. LinkInv'
      BY <1>0, <2>1, <2>2, <2>3, <1>p, <1>q DEF LinkInv, NoLeakedLink, TypeOK
    <2>7. QED
      BY <2>2, <2>4, <2>5, <2>6 DEF SocketInv
  <1>4. CASE Close(t)
    <2> DEFINE l == AfterDisconnect[t]
    <2>1. l \in Steps[t] /\ Goto(t, l) /\ pc[t] = "close"
      BY <1>4, DisconnectPlaces DEF Close
    <2>2. /\ pc'[t] = l /\ PcInv' /\ \A u \in Threads \ {t} : pc'[u] = pc[u]
          /\ \A u \in Threads : pc'[u] \in Steps[u]
      BY <1>0, <2>1, Moves, DisconnectPlaces
    <2>3. /\ UNCHANGED <<stopRequested, connected, registered, up, gateVars, handling,
                         sendVars, workVars, callVars>>
          /\ own' = [own EXCEPT ![fdOf[t]] = "free"] /\ sock' = -1
          /\ fdOf' = [fdOf EXCEPT ![t] = -1] /\ fdOf[t] \in Fds
          /\ l \in {"backoff", "end", "join"} /\ (t = "run" => l = "backoff")
      BY <1>0, <1>4, DisconnectPlaces DEF Close, TypeOK
    <2> HIDE DEF l
    <2>4. TypeOK'
      BY <1>0, <2>1, <2>2, <2>3, <1>p, <1>q DEF TypeOK, SessionInv, LinkInv
    <2>5. SessionInv'
      BY <1>0, <2>1, <2>2, <2>3, <1>p, <1>q DEF SessionInv, Closing, TypeOK
    <2>6. LinkInv'
      <3>1. \A fd \in Fds : own'[fd] # "link"
        BY <1>0, <2>1, <2>3 DEF LinkInv, NoLeakedLink, TypeOK
      <3>2. \A u \in Disconnectors : pc'[u] = "close" => u # t /\ fdOf'[u] = fdOf[u]
        BY <1>0, <2>1, <2>2, <2>3, <1>p, <1>q DEF TypeOK
      <3>3. QED
        BY <1>0, <2>1, <2>2, <2>3, <3>1, <3>2, <1>p, <1>q DEF LinkInv, NoLeakedLink
    <2>7. QED
      BY <2>2, <2>4, <2>5, <2>6 DEF SocketInv
  <1>5. QED
    BY <1>1, <1>2, <1>3, <1>4 DEF Disconnect

\* A step of run().
LEMMA RunStep ==
  ASSUME SocketInv, Run
  PROVE  SocketInv'
  <1> USE ClientAssumption DEF NoFd
  <1>0. TypeOK /\ PcInv /\ SessionInv /\ LinkInv
    BY DEF SocketInv
  <1>p. {"run", "msg", "ping", "stop", "dtor"} = Threads
    BY DEF Threads
  <1>q. Disconnectors = {"run", "msg", "stop", "dtor"}
    BY DEF Disconnectors, Stoppers
  <1>r. Steps["run"] = {"check", "connect", "register", "sending", "start", "join",
                        "disconnect", "mark", "shutdown", "close", "backoff", "returned"}
    BY DEF Steps
  <1>1. ASSUME NEW l \in {"connect", "sending", "start", "disconnect", "backoff", "check",
                          "returned"},
               Goto("run", l),
               pc["run"] \in {"check", "connect", "register", "sending", "join", "backoff"},
               l = "connect" => pc["run"] = "check" /\ ~stopRequested,
               l \in {"backoff", "check"} => pc["run"] \in {"connect", "backoff"},
               pc["run"] = "join" => pc["msg"] = "end" /\ pc["ping"] = "end",
               UNCHANGED <<stopRequested, connVars, inbox, reached, fdOf, handling,
                           workVars, callVars>>,
               identified' \in BOOLEAN,
               sender' \in {sender, "none", "run"}, sendFd' \in {sendFd, -1, sock}
        PROVE  SocketInv'
    <2>1. /\ pc'["run"] = l /\ PcInv' /\ \A u \in Threads \ {"run"} : pc'[u] = pc[u]
          /\ \A u \in Threads : pc'[u] \in Steps[u]
      BY <1>0, <1>1, <1>r, <1>p, Moves
    <2>2. TypeOK'
      BY <1>0, <1>1, <2>1, <1>p, <1>q DEF TypeOK, SessionInv
    <2>3. SessionInv'
      BY <1>0, <1>1, <2>1, <1>p, <1>q DEF SessionInv, Closing, TypeOK
    <2>4. LinkInv'
      BY <1>0, <1>1, <2>1, <1>p, <1>q DEF LinkInv, NoLeakedLink
    <2>5. QED
      BY <2>1, <2>2, <2>3, <2>4 DEF SocketInv
  <1>2. CASE RunCheck
    BY <1>0, <1>1, <1>2 DEF RunCheck, TypeOK
  <1>3. CASE RunConnects
    <2>1. PICK fd \in Fds :
            /\ own[fd] = "free" /\ own' = [own EXCEPT ![fd] = "link"]
            /\ up' = up \cup {fd} /\ sock' = fd
      BY <1>3 DEF RunConnects
    <2>2. /\ pc["run"] = "connect" /\ ~connected /\ Goto("run", "register")
          /\ connected' = TRUE /\ identified' = FALSE /\ inbox' = {} /\ reached' = {}
          /\ UNCHANGED <<stopRequested, registered, fdOf, handling, sendVars, workVars,
                         callVars>>
      BY <1>3 DEF RunConnects
    <2>3. /\ pc'["run"] = "register" /\ PcInv' /\ \A u \in Threads \ {"run"} : pc'[u] = pc[u]
          /\ \A u \in Threads : pc'[u] \in Steps[u]
      BY <1>0, <2>2, <1>r, <1>p, Moves
    <2>4. \A t \in Disconnectors : pc[t] \notin {"shutdown", "close"}
      BY <1>0, <2>2, <1>q DEF SessionInv, Closing
    <2>5. sock = -1 /\ \A f \in Fds : own[f] # "link"
      BY <1>0, <2>2, <2>4 DEF LinkInv, NoLeakedLink
    <2>6. TypeOK'
      <3>1. /\ own' \in [Fds -> {"free", "link", "other"}]
            /\ up' \subseteq {f \in Fds : own'[f] = "link"}
        BY <1>0, <2>1 DEF TypeOK
      <3>2. \A t \in Disconnectors : pc'[t] # "close"
        BY <2>3, <2>4, <1>p, <1>q
      <3>3. QED
        BY <1>0, <2>1, <2>2, <2>3, <3>1, <3>2 DEF TypeOK
    <2>7. SessionInv'
      BY <1>0, <2>1, <2>2, <2>3, <1>p DEF SessionInv, Closing
    <2>8. LinkInv'
      BY <1>0, <2>1, <2>2, <2>3, <2>4, <2>5, <1>p, <1>q DEF LinkInv, NoLeakedLink, TypeOK
    <2>9. QED
      BY <2>3, <2>6, <2>7, <2>8 DEF SocketInv
  <1>4. CASE RunConnectFails
    BY <1>0, <1>1, <1>4 DEF RunConnectFails, TypeOK
  <1>5. CASE RunRegister
    BY <1>0, <1>1, <1>5 DEF RunRegister, Acquire, TypeOK
  <1>6. CASE RunIdentified
    BY <1>0, <1>1, <1>6 DEF RunIdentified, Release, TypeOK
  <1>7. CASE RunStart
    <2>1. /\ pc["run"] = "start"
          /\ pc' = [pc EXCEPT !["run"] = "join", !["msg"] = "loop", !["ping"] = "loop"]
          /\ UNCHANGED <<stopRequested, connVars, gateVars, fdOf, handling, sendVars, workVars,
                         callVars>>
      BY <1>7 DEF RunStart
    <2>2. /\ pc'["run"] = "join" /\ pc'["msg"] = "loop" /\ pc'["ping"] = "loop"
          /\ pc'["stop"] = pc["stop"] /\ pc'["dtor"] = pc["dtor"]
      BY <1>0, <2>1, <1>p DEF PcInv
    <2>3. PcInv'
      BY <1>0, <2>1 DEF PcInv, Steps, StopSteps
    <2>4. \A u \in Threads : pc'[u] \in Steps[u]
      BY <1>0, <2>2, Places DEF Threads, Steps
    <2>5. TypeOK'
      <3>1. \A t \in Disconnectors : pc'[t] = "close" => pc[t] = "close"
        BY <2>2, <1>q
      <3>2. QED
        BY <1>0, <2>1, <2>2, <2>4, <3>1 DEF TypeOK
    <2>6. SessionInv'
      BY <1>0, <2>1, <2>2, <1>p DEF SessionInv, Closing
    <2>7. LinkInv'
      BY <1>0, <2>1, <2>2, <1>p, <1>q DEF LinkInv, NoLeakedLink, SessionInv
    <2>8. QED
      BY <2>3, <2>5, <2>6, <2>7 DEF SocketInv
  <1>8. CASE RunJoined
    BY <1>0, <1>1, <1>8 DEF RunJoined, TypeOK
  <1>9. CASE RunBackoff
    BY <1>0, <1>1, <1>9 DEF RunBackoff, TypeOK
  <1>10. QED
    BY <1>2, <1>3, <1>4, <1>5, <1>6, <1>7, <1>8, <1>9 DEF Run

\* Nothing that the socket invariant is about changes.
SameSocket == UNCHANGED <<stopRequested, connected, sock, own, up, pc, fdOf>>

\* Nothing about the socket is disturbed by a step that leaves it alone.
LEMMA SocketFrame ==
  ASSUME SocketInv, SameSocket, TypeOK'
  PROVE  SocketInv'
  BY DEF SocketInv, SameSocket, PcInv, SessionInv, LinkInv, NoLeakedLink

\* The message loop moves, among its own places.
LEMMA MsgMove ==
  ASSUME SocketInv, NEW l \in {"end", "loop", "recv", "handle", "write", "setdone",
                               "disconnect"},
         Goto("msg", l), pc["msg"] \in {"loop", "recv", "handle", "write", "setdone"},
         UNCHANGED <<stopRequested, connVars, identified, reached, sendVars, workVars,
                     call, pendingInvokes, result>>,
         fdOf' = fdOf \/ fdOf' = [fdOf EXCEPT !["msg"] = sock],
         handling' \in Msgs \cup {"none"}, inbox' \subseteq Msgs,
         written' \subseteq Invokes, done' \subseteq Invokes
  PROVE  SocketInv'
  <1> USE ClientAssumption DEF NoFd
  <1>0. TypeOK /\ PcInv /\ SessionInv /\ LinkInv
    BY DEF SocketInv
  <1>p. {"run", "msg", "ping", "stop", "dtor"} = Threads
    BY DEF Threads
  <1>q. Disconnectors = {"run", "msg", "stop", "dtor"}
    BY DEF Disconnectors, Stoppers
  <1>1. /\ pc'["msg"] = l /\ PcInv' /\ \A u \in Threads \ {"msg"} : pc'[u] = pc[u]
        /\ \A u \in Threads : pc'[u] \in Steps[u]
    <2>1. l \in Steps["msg"]
      BY DEF Steps
    <2>2. QED
      BY <1>0, <1>p, <2>1, Moves
  <1>2. \A t \in Disconnectors : pc'[t] = "close" => pc[t] = "close" /\ fdOf'[t] = fdOf[t]
    BY <1>0, <1>1, <1>p, <1>q DEF TypeOK
  <1>3. TypeOK'
    <2>1. fdOf' \in [Disconnectors -> Fds \cup {-1}]
      BY <1>0 DEF TypeOK
    <2>2. QED
      BY <1>0, <1>1, <1>2, <2>1, <1>p DEF TypeOK
  <1>4. SessionInv'
    BY <1>0, <1>1, <1>p DEF SessionInv, Closing
  <1>5. LinkInv'
    BY <1>0, <1>1, <1>2, <1>p, <1>q DEF LinkInv, NoLeakedLink
  <1>6. QED
    BY <1>1, <1>3, <1>4, <1>5 DEF SocketInv

\* Of invoke(): the loop fills in what it found, and says done after that.
InvokeInv ==
    /\ pc["msg"] \in {"write", "setdone"} => handling \in Invokes
    /\ pc["msg"] = "setdone" => handling \in written
    /\ done \subseteq written
    /\ \A v \in Invokes : call[v] = "idle" => v \notin pendingInvokes
    /\ InvokeResultComplete

\* A step of the message loop.
LEMMA MsgStep ==
  ASSUME SocketInv, InvokeInv, Msg
  PROVE  SocketInv'
  <1>0. /\ handling \in Msgs \cup {"none"} /\ inbox \subseteq Msgs
        /\ written \subseteq Invokes /\ done \subseteq Invokes /\ "none" \notin Msgs
    BY ClientAssumption DEF SocketInv, TypeOK, Msgs
  <1>1. CASE MsgLoop
    BY <1>0, <1>1, MsgMove DEF MsgLoop
  <1>2. CASE MsgReceives
    BY <1>0, <1>2, MsgMove DEF MsgReceives, NextMessage
  <1>3. CASE MsgContinues
    <2>1. SameSocket /\ UNCHANGED <<registered, identified, reached, sendVars, workVars, callVars>>
      BY <1>3 DEF MsgContinues, SameSocket
    <2>2. handling' \in Msgs /\ inbox' \subseteq Msgs
      BY <1>0, <1>3 DEF MsgContinues, NextMessage
    <2>3. TypeOK'
      BY <2>1, <2>2 DEF SocketInv, TypeOK, SameSocket
    <2>4. QED
      BY <2>1, <2>3, SocketFrame
  <1>4. CASE MsgRecvFails
    BY <1>0, <1>4, MsgMove DEF MsgRecvFails, ReadsForeign
  <1>5. CASE MsgBatchDone
    BY <1>0, <1>5, MsgMove DEF MsgBatchDone
  <1>6. CASE HandleAcknowledged
    <2>1. SameSocket /\ TypeOK'
      BY <1>6 DEF HandleAcknowledged, SameSocket, SocketInv, TypeOK
    <2>2. QED
      BY <2>1, SocketFrame
  <1>7. CASE WriteResult
    BY <1>0, <1>7, MsgMove DEF WriteResult, InvokeInv
  <1>8. CASE SetDone
    BY <1>0, <1>8, MsgMove DEF SetDone, InvokeInv
  <1>9. ASSUME NEW w \in Works, handleRequest(w) PROVE SocketInv'
    <2>1. SameSocket /\ TypeOK'
      BY <1>9 DEF handleRequest, SameSocket, SocketInv, TypeOK
    <2>2. QED
      BY <2>1, SocketFrame
  <1>10. ASSUME NEW v \in Invokes, FindInvoke(v) PROVE SocketInv'
    <2>1. CASE v \in pendingInvokes
      BY <1>0, <1>10, <2>1, MsgMove DEF FindInvoke
    <2>2. CASE v \notin pendingInvokes
      <3>1. SameSocket /\ TypeOK'
        BY <1>10, <2>2 DEF FindInvoke, SameSocket, SocketInv, TypeOK
      <3>2. QED
        BY <3>1, SocketFrame
    <2>3. QED
      BY <2>1, <2>2
  <1>11. CASE MsgReadsForeign
    <2>1. PICK l \in {"loop", "disconnect", "end"} : Goto("msg", l)
      BY <1>11 DEF MsgReadsForeign
    <2>2. pc["msg"] = "recv" /\ UNCHANGED <<stopRequested, connVars, gateVars, fdOf, handling,
                                           sendVars, workVars, callVars>>
      BY <1>11 DEF MsgReadsForeign, ReadsForeign
    <2>3. QED
      BY <1>0, <2>1, <2>2, MsgMove
  <1>12. QED
    BY <1>1, <1>2, <1>3, <1>4, <1>5, <1>6, <1>7, <1>8, <1>9, <1>10, <1>11 DEF Msg

\* A step of the ping loop.
LEMMA PingStep ==
  ASSUME SocketInv, Ping
  PROVE  SocketInv'
  <1> USE ClientAssumption DEF NoFd
  <1>0. TypeOK /\ PcInv /\ SessionInv /\ LinkInv
    BY DEF SocketInv
  <1>p. {"run", "msg", "ping", "stop", "dtor"} = Threads
    BY DEF Threads
  <1>q. Disconnectors = {"run", "msg", "stop", "dtor"}
    BY DEF Disconnectors, Stoppers
  <1>1. PICK l \in {"end", "loop", "sending"} : Goto("ping", l)
    BY DEF Ping, PingEnds, PingSends, PingSent
  <1>2. /\ pc["ping"] \in {"loop", "sending"}
        /\ UNCHANGED <<stopRequested, connVars, gateVars, fdOf, handling, workVars, callVars>>
        /\ sender' \in {sender, "none", "ping"} /\ sendFd' \in {sendFd, -1, sock}
    BY DEF Ping, PingEnds, PingSends, PingSent, Acquire, Release
  <1>3. /\ pc'["ping"] = l /\ PcInv' /\ \A u \in Threads \ {"ping"} : pc'[u] = pc[u]
        /\ \A u \in Threads : pc'[u] \in Steps[u]
    <2>1. l \in Steps["ping"]
      BY DEF Steps
    <2>2. QED
      BY <1>0, <1>p, <1>1, <2>1, Moves
  <1>4. TypeOK'
    BY <1>0, <1>2, <1>3, <1>p, <1>q DEF TypeOK
  <1>5. SessionInv'
    BY <1>0, <1>2, <1>3, <1>p DEF SessionInv, Closing
  <1>6. LinkInv'
    BY <1>0, <1>2, <1>3, <1>p, <1>q DEF LinkInv, NoLeakedLink
  <1>7. QED
    BY <1>3, <1>4, <1>5, <1>6 DEF SocketInv

\* A step of the owner, in stop() or in the destructor.
LEMMA StopStep ==
  ASSUME SocketInv, NEW t \in Stoppers, Stop(t)
  PROVE  SocketInv'
  <1> USE ClientAssumption DEF NoFd
  <1>0. TypeOK /\ PcInv /\ SessionInv /\ LinkInv
    BY DEF SocketInv
  <1>p. {"run", "msg", "ping", "stop", "dtor"} = Threads
    BY DEF Threads
  <1>q. Disconnectors = {"run", "msg", "stop", "dtor"} /\ t \in {"stop", "dtor"}
    BY DEF Disconnectors, Stoppers
  <1>1. PICK l \in {"disconnect", "joining", "stopped"} : Goto(t, l)
    BY DEF Stop, StopCalled, StopJoins, StopJoined
  <1>2. /\ pc[t] \in {"idle", "join", "joining"}
        /\ t = "dtor" /\ pc[t] = "idle" => pc["stop"] = "stopped" /\ pc["run"] = "returned"
        /\ UNCHANGED <<connVars, gateVars, fdOf, handling, sendVars, load, callVars>>
        /\ stopRequested' = TRUE \/ (stopRequested' = stopRequested /\ pc[t] # "idle")
        /\ worker' \in [Works -> {"none", "running", "sending", "finished"}]
    <2>1. worker \in [Works -> {"none", "running", "sending", "finished"}]
      BY <1>0 DEF TypeOK
    <2>2. CASE StopCalled(t)
      BY <2>1, <2>2 DEF StopCalled
    <2>3. CASE StopJoins(t)
      BY <2>1, <2>3 DEF StopJoins
    <2>4. CASE StopJoined(t)
      BY <2>1, <2>4 DEF StopJoined
    <2>5. QED
      BY <2>2, <2>3, <2>4 DEF Stop
  <1>3. /\ pc'[t] = l /\ PcInv' /\ \A u \in Threads \ {t} : pc'[u] = pc[u]
        /\ \A u \in Threads : pc'[u] \in Steps[u]
    <2>1. l \in Steps[t]
      BY <1>q DEF Steps, StopSteps
    <2>2. QED
      BY <1>0, <1>p, <1>q, <1>1, <2>1, Moves
  <1>4. stopRequested' \in BOOLEAN /\ (stopRequested => stopRequested')
    <2>1. stopRequested \in BOOLEAN
      BY <1>0 DEF TypeOK
    <2>2. CASE stopRequested' = TRUE
      BY <2>2
    <2>3. CASE stopRequested' = stopRequested
      BY <2>1, <2>3, Zenon
    <2>4. QED
      BY <1>2, <2>2, <2>3
  <1>5. TypeOK'
    <2>1. \A u \in Disconnectors : pc'[u] = "close" => pc[u] = "close"
      BY <1>3, <1>p, <1>q
    <2>2. pc'["run"] = pc["run"]
      BY <1>3, <1>p, <1>q
    <2>3. QED
      BY <1>0, <1>2, <1>3, <1>4, <2>1, <2>2 DEF TypeOK
  <1>6. SessionInv'
    BY <1>0, <1>2, <1>3, <1>4, <1>p, <1>q DEF SessionInv, Closing
  <1>7. LinkInv'
    BY <1>0, <1>2, <1>3, <1>p, <1>q DEF LinkInv, NoLeakedLink
  <1>8. QED
    BY <1>3, <1>5, <1>6, <1>7 DEF SocketInv

\* A step of the thread of a request.
LEMMA WorkerStep ==
  ASSUME SocketInv, NEW w \in Works, Worker(w)
  PROVE  SocketInv'
  <1>1. SameSocket /\ UNCHANGED <<registered, gateVars, handling, callVars>>
    BY DEF Worker, WorkerAnswers, WorkerFinishes, SameSocket
  <1>2. /\ worker' \in [Works -> {"none", "running", "sending", "finished"}]
        /\ load' \in Nat
        /\ sender' \in {sender, "none", w} /\ sendFd' \in {sendFd, NoFd, sock}
    BY DEF Worker, WorkerAnswers, WorkerFinishes, LoadServed, Acquire, Release,
       SocketInv, TypeOK
  <1>3. TypeOK'
    BY <1>1, <1>2 DEF SocketInv, TypeOK, SameSocket
  <1>4. QED
    BY <1>1, <1>3, SocketFrame

\* A step of a thread in invoke().
LEMMA InvokeStep ==
  ASSUME SocketInv, NEW v \in Invokes, Invoke(v)
  PROVE  SocketInv'
  <1>1. /\ SameSocket
        /\ UNCHANGED <<registered, identified, inbox, handling, workVars, written, done>>
    BY DEF Invoke, InvokeBegin, InvokeSend, InvokeSent, InvokeReturns, SameSocket
  <1>2. /\ call' \in [Invokes -> {"idle", "send", "sending", "waiting", "returned"}]
        /\ result' \in [Invokes -> {"none", "refused", "unsent", "timeout", "response"}]
        /\ pendingInvokes' \subseteq Invokes
        /\ reached' \in {reached, reached \cup {v}}
        /\ sender' \in {sender, "none", v} /\ sendFd' \in {sendFd, NoFd, sock}
    BY DEF Invoke, InvokeBegin, InvokeSend, InvokeSent, InvokeReturns, Acquire, Release,
       SocketInv, TypeOK
  <1>3. TypeOK'
    BY <1>1, <1>2 DEF SocketInv, TypeOK, SameSocket
  <1>4. QED
    BY <1>1, <1>3, SocketFrame

\* A step of the gateway, the network or another user of descriptors.
LEMMA EnvironmentStep ==
  ASSUME SocketInv, Environment
  PROVE  SocketInv'
  <1> USE ClientAssumption DEF NoFd
  <1>0. TypeOK /\ PcInv /\ SessionInv /\ LinkInv
    BY DEF SocketInv
  <1>1. CASE GatewayAcks
    <2>1. /\ SameSocket /\ inbox' \subseteq Msgs
          /\ reached' = reached /\ identified' = FALSE
          /\ UNCHANGED <<registered, handling, sendVars, workVars, callVars>>
      BY <1>0, <1>1 DEF GatewayAcks, SameSocket, TypeOK, Msgs
    <2>2. TypeOK'
      BY <1>0, <2>1 DEF TypeOK, SameSocket
    <2>3. QED
      BY <2>1, <2>2, SocketFrame
  <1>2. ASSUME NEW w \in Works, GatewayRequests(w) PROVE SocketInv'
    <2>1. /\ SameSocket /\ inbox' \subseteq Msgs
          /\ reached' = reached /\ identified' = identified
          /\ UNCHANGED <<registered, handling, sendVars, workVars, callVars>>
      BY <1>0, <1>2 DEF GatewayRequests, SameSocket, TypeOK, Msgs
    <2>2. TypeOK'
      BY <1>0, <2>1 DEF TypeOK, SameSocket
    <2>3. QED
      BY <2>1, <2>2, SocketFrame
  <1>3. ASSUME NEW v \in Invokes, GatewayResponds(v) PROVE SocketInv'
    <2>1. /\ SameSocket /\ inbox' \subseteq Msgs
          /\ reached' \subseteq Invokes /\ identified' = identified
          /\ UNCHANGED <<registered, handling, sendVars, workVars, callVars>>
      BY <1>0, <1>3 DEF GatewayResponds, SameSocket, TypeOK, Msgs
    <2>2. TypeOK'
      BY <1>0, <2>1 DEF TypeOK, SameSocket
    <2>3. QED
      BY <2>1, <2>2, SocketFrame
  <1>4. ASSUME NEW fd \in Fds, LinkDrops(fd) PROVE SocketInv'
    <2>1. /\ up' = up \ {fd}
          /\ UNCHANGED <<stopRequested, connected, registered, sock, own, gateVars, pc, fdOf,
                         handling, sendVars, workVars, callVars>>
      BY <1>4 DEF LinkDrops
    <2>2. TypeOK'
      BY <1>0, <2>1 DEF TypeOK
    <2>3. PcInv' /\ SessionInv' /\ LinkInv'
      BY <1>0, <2>1 DEF PcInv, SessionInv, LinkInv, NoLeakedLink
    <2>4. QED
      BY <2>2, <2>3 DEF SocketInv
  <1>5. ASSUME NEW fd \in Fds, OthersOpenOrClose(fd) PROVE SocketInv'
    <2>1. /\ own[fd] # "link"
          /\ own' \in {[own EXCEPT ![fd] = "other"], [own EXCEPT ![fd] = "free"]}
          /\ UNCHANGED <<stopRequested, connected, registered, sock, up, gateVars, pc, fdOf,
                         handling, sendVars, workVars, callVars>>
      BY <1>5 DEF OthersOpenOrClose
    <2>2. TypeOK'
      BY <1>0, <2>1 DEF TypeOK
    <2>f. own[fd] # "link" /\ own'[fd] # "link" /\ \A f \in Fds \ {fd} : own'[f] = own[f]
      BY <1>0, <2>1 DEF TypeOK
    <2>3. LinkInv'
      BY <1>0, <2>1, <2>f DEF LinkInv, NoLeakedLink, TypeOK
    <2>4. PcInv' /\ SessionInv'
      BY <1>0, <2>1 DEF PcInv, SessionInv
    <2>5. QED
      BY <2>2, <2>3, <2>4 DEF SocketInv
  <1>6. QED
    BY <1>1, <1>2, <1>3, <1>4, <1>5 DEF Environment

\* Any step: what the threads know about the socket stays true.
LEMMA SocketStep == SocketInv /\ InvokeInv /\ [Next]_vars => SocketInv'
  <1> SUFFICES ASSUME SocketInv, InvokeInv, [Next]_vars PROVE SocketInv'
    OBVIOUS
  <1>1. CASE UNCHANGED vars
    BY <1>1, SocketFrame DEF vars, SameSocket, SocketInv, TypeOK
  <1>2. QED
    BY <1>1, DisconnectStep, RunStep, MsgStep, PingStep, StopStep, WorkerStep, InvokeStep,
       EnvironmentStep, Zenon DEF Next

\* Steps of other threads: the loop stays where it is.
LEMMA InvokeFrame ==
  ASSUME InvokeInv, pc'["msg"] = pc["msg"], UNCHANGED <<handling, callVars>>
  PROVE  InvokeInv'
  BY DEF InvokeInv, InvokeResultComplete

\* The steps of the other threads that move one of the long-lived ones.
LEMMA OtherThreads ==
  ASSUME SocketInv, NEW t \in Threads \ {"msg"}, NEW l, Goto(t, l)
  PROVE  pc'["msg"] = pc["msg"]
  BY DEF SocketInv, PcInv, Goto, Threads

\* Any step: an entry of pendingInvokes is its call's, and is filled in once.
LEMMA InvokeInvStep == SocketInv /\ InvokeInv /\ [Next]_vars => InvokeInv'
  <1> SUFFICES ASSUME SocketInv, InvokeInv, [Next]_vars PROVE InvokeInv'
    OBVIOUS
  <1>0. /\ "msg" \in Threads /\ pc \in [Threads -> StopSteps \cup Steps["run"]
                                        \cup Steps["msg"] \cup Steps["ping"]]
        /\ call \in [Invokes -> {"idle", "send", "sending", "waiting", "returned"}]
        /\ result \in [Invokes -> {"none", "refused", "unsent", "timeout", "response"}]
        /\ "none" \notin Invokes
    BY ClientAssumption DEF SocketInv, TypeOK, PcInv, Threads
  <1>1. ASSUME NEW t \in Disconnectors, Disconnect(t) PROVE InvokeInv'
    <2>1. UNCHANGED <<handling, callVars>>
      BY <1>1 DEF Disconnect, DisconnectBegin, MarkDisconnected, Shutdown, Close
    <2>2. CASE t = "msg"
      <3>1. pc["msg"] \in {"disconnect", "mark", "shutdown", "close"}
        BY <1>1, <2>2 DEF Disconnect, DisconnectBegin, MarkDisconnected, Shutdown, Close
      <3>2. pc'["msg"] \in {"mark", "shutdown", "close", "end"}
        BY <1>0, <1>1, <2>2 DEF Disconnect, DisconnectBegin, MarkDisconnected, Shutdown, Close,
           Goto, AfterDisconnect
      <3>3. QED
        BY <2>1, <3>1, <3>2 DEF InvokeInv, InvokeResultComplete
    <2>3. CASE t # "msg"
      <3>1. pc'["msg"] = pc["msg"]
        BY <1>0, <1>1, <2>3 DEF Disconnect, DisconnectBegin, MarkDisconnected, Shutdown, Close,
           Goto
      <3>2. QED
        BY <2>1, <3>1, InvokeFrame
    <2>4. QED
      BY <2>2, <2>3
  <1>2. CASE Run
    <2>1. CASE RunStart
      <3>1. pc["msg"] = "end"
        BY <2>1 DEF RunStart, SocketInv, SessionInv
      <3>2. pc'["msg"] = "loop" /\ UNCHANGED <<handling, callVars>>
        BY <1>0, <2>1 DEF RunStart
      <3>3. QED
        BY <3>1, <3>2 DEF InvokeInv, InvokeResultComplete
    <2>2. CASE ~RunStart
      <3>1. pc'["msg"] = pc["msg"] /\ UNCHANGED <<handling, callVars>>
        BY <1>0, <1>2, <2>2 DEF Run, RunCheck, RunConnects, RunConnectFails, RunRegister,
           RunIdentified, RunJoined, RunBackoff, Goto
      <3>2. QED
        BY <3>1, InvokeFrame
    <2>3. QED
      BY <2>1, <2>2
  <1>3. CASE Msg
    <2>1. UNCHANGED <<call, pendingInvokes, result>>
      BY <1>3 DEF Msg, MsgLoop, MsgReceives, MsgContinues, MsgRecvFails, MsgReadsForeign, MsgBatchDone,
         HandleAcknowledged, WriteResult, SetDone, handleRequest, FindInvoke
    <2>2. ASSUME UNCHANGED <<written, done>>, pc'["msg"] \notin {"write", "setdone"}
          PROVE  InvokeInv'
      BY <2>1, <2>2 DEF InvokeInv, InvokeResultComplete
    <2>3. CASE MsgLoop \/ MsgReceives \/ MsgRecvFails \/ MsgReadsForeign \/ MsgBatchDone
      BY <1>0, <2>2, <2>3 DEF MsgLoop, MsgReceives, MsgRecvFails, MsgReadsForeign, MsgBatchDone, Goto
    <2>4. CASE MsgContinues \/ HandleAcknowledged
      BY <2>2, <2>4 DEF MsgContinues, HandleAcknowledged
    <2>5. ASSUME NEW w \in Works, handleRequest(w) PROVE InvokeInv'
      BY <2>2, <2>5 DEF handleRequest
    <2>6. CASE WriteResult
      <3>1. /\ pc["msg"] = "write" /\ written' = written \cup {handling}
            /\ UNCHANGED <<handling, done>>
        BY <2>6 DEF WriteResult
      <3>2. pc'["msg"] = "setdone"
        BY <1>0, <2>6 DEF WriteResult, Goto
      <3>3. QED
        BY <2>1, <3>1, <3>2 DEF InvokeInv, InvokeResultComplete
    <2>7. CASE SetDone
      <3>1. /\ pc["msg"] = "setdone" /\ done' = done \cup {handling} /\ written' = written
        BY <2>7 DEF SetDone
      <3>2. pc'["msg"] = "handle"
        BY <1>0, <2>7 DEF SetDone, Goto
      <3>3. QED
        BY <2>1, <3>1, <3>2 DEF InvokeInv, InvokeResultComplete
    <2>8. ASSUME NEW v \in Invokes, FindInvoke(v) PROVE InvokeInv'
      <3>1. CASE v \in pendingInvokes
        <4>1. pc'["msg"] = "write" /\ handling' = v /\ UNCHANGED <<written, done>>
          BY <1>0, <2>8, <3>1 DEF FindInvoke, Goto
        <4>2. QED
          BY <2>1, <4>1 DEF InvokeInv, InvokeResultComplete
      <3>2. CASE v \notin pendingInvokes
        BY <2>2, <2>8, <3>2 DEF FindInvoke
      <3>3. QED
        BY <3>1, <3>2
    <2>9. QED
      BY <1>3, <2>3, <2>4, <2>5, <2>6, <2>7, <2>8 DEF Msg
  <1>4. CASE Ping
    <2>1. pc'["msg"] = pc["msg"] /\ UNCHANGED <<handling, callVars>>
      BY <1>0, <1>4 DEF Ping, PingEnds, PingSends, PingSent, Goto
    <2>2. QED
      BY <2>1, InvokeFrame
  <1>5. CASE Environment
    BY <1>5, InvokeFrame DEF Environment, GatewayAcks, GatewayRequests, GatewayResponds,
       LinkDrops, OthersOpenOrClose
  <1>6. ASSUME NEW t \in Stoppers, Stop(t) PROVE InvokeInv'
    <2>1. pc'["msg"] = pc["msg"] /\ UNCHANGED <<handling, callVars>>
      BY <1>0, <1>6 DEF Stop, StopCalled, StopJoins, StopJoined, Goto, Stoppers
    <2>2. QED
      BY <2>1, InvokeFrame
  <1>7. ASSUME NEW w \in Works, Worker(w) PROVE InvokeInv'
    BY <1>7, InvokeFrame DEF Worker, WorkerAnswers, WorkerFinishes
  <1>8. ASSUME NEW v \in Invokes, Invoke(v) PROVE InvokeInv'
    <2>1. UNCHANGED <<pc, handling, written, done>>
      BY <1>8 DEF Invoke, InvokeBegin, InvokeSend, InvokeSent, InvokeReturns
    <2>2. /\ call[v] # "returned"
          /\ \A u \in Invokes \ {v} : /\ call'[u] = call[u] /\ result'[u] = result[u]
                                      /\ u \in pendingInvokes' => u \in pendingInvokes
          /\ call'[v] # "idle"
          /\ call'[v] = "returned" =>
                v \notin pendingInvokes' /\ (result'[v] = "response" => v \in done)
      <3>1. CASE InvokeBegin(v)
        BY <1>0, <3>1 DEF InvokeBegin, InvokeInv
      <3>2. CASE InvokeSend(v)
        BY <1>0, <3>2 DEF InvokeSend
      <3>3. CASE InvokeSent(v)
        BY <1>0, <3>3 DEF InvokeSent
      <3>4. CASE InvokeReturns(v)
        BY <1>0, <3>4 DEF InvokeReturns
      <3>5. QED
        BY <1>8, <3>1, <3>2, <3>3, <3>4 DEF Invoke
    <2>3. QED
      BY <2>1, <2>2 DEF InvokeInv, InvokeResultComplete
  <1>9. CASE UNCHANGED vars
    BY <1>9, InvokeFrame DEF vars
  <1>10. QED
    BY <1>1, <1>2, <1>3, <1>4, <1>5, <1>6, <1>7, <1>8, <1>9, Zenon DEF Next

\* What a step does to a send that is going on: nothing, and its descriptor
\* stays a connection; or it ends; or it begins, on the descriptor in socketFd.
LEMMA SendEffect ==
  ASSUME SocketInv, [Next]_vars
  PROVE  \/ sender' = "none"
         \/ UNCHANGED sendVars /\ \A fd \in Fds : own[fd] = "link" => own'[fd] = "link"
         \/ sendFd' = sock /\ own' = own
  <1> DEFINE Kept == UNCHANGED sendVars /\ \A fd \in Fds : own[fd] = "link" => own'[fd] = "link"
             Goal == sender' = "none" \/ Kept \/ (sendFd' = sock /\ own' = own)
  <1>0. own \in [Fds -> {"free", "link", "other"}]
    BY DEF SocketInv, TypeOK
  <1>1. ASSUME NEW t \in Disconnectors, Disconnect(t) PROVE Goal
    <2>1. CASE Close(t)
      BY <2>1 DEF Close
    <2>2. CASE DisconnectBegin(t) \/ MarkDisconnected(t) \/ Shutdown(t)
      BY <2>2 DEF DisconnectBegin, MarkDisconnected, Shutdown
    <2>3. QED
      BY <1>1, <2>1, <2>2 DEF Disconnect
  <1>2. CASE Run
    <2>1. CASE RunConnects
      BY <1>0, <2>1 DEF RunConnects
    <2>2. CASE RunRegister \/ RunIdentified
      BY <2>2 DEF RunRegister, RunIdentified, Acquire, Release
    <2>3. CASE RunCheck \/ RunConnectFails \/ RunStart \/ RunJoined \/ RunBackoff
      BY <2>3 DEF RunCheck, RunConnectFails, RunStart, RunJoined, RunBackoff
    <2>4. QED
      BY <1>2, <2>1, <2>2, <2>3 DEF Run
  <1>3. CASE Msg
    BY <1>3 DEF Msg, MsgLoop, MsgReceives, MsgContinues, MsgRecvFails, MsgReadsForeign, MsgBatchDone,
       HandleAcknowledged, WriteResult, SetDone, handleRequest, FindInvoke
  <1>4. CASE Ping
    BY <1>4 DEF Ping, PingEnds, PingSends, PingSent, Acquire, Release
  <1>5. CASE Environment
    BY <1>0, <1>5 DEF Environment, GatewayAcks, GatewayRequests, GatewayResponds, LinkDrops,
       OthersOpenOrClose
  <1>6. ASSUME NEW t \in Stoppers, Stop(t) PROVE Goal
    BY <1>6 DEF Stop, StopCalled, StopJoins, StopJoined
  <1>7. ASSUME NEW w \in Works, Worker(w) PROVE Goal
    BY <1>7 DEF Worker, WorkerAnswers, WorkerFinishes, Acquire, Release
  <1>8. ASSUME NEW v \in Invokes, Invoke(v) PROVE Goal
    BY <1>8 DEF Invoke, InvokeBegin, InvokeSend, InvokeSent, InvokeReturns, Acquire, Release
  <1>9. CASE UNCHANGED vars
    BY <1>9 DEF vars
  <1>10. QED
    BY <1>1, <1>2, <1>3, <1>4, <1>5, <1>6, <1>7, <1>8, <1>9 DEF Next

\* Nobody begins to send on, or closes, a descriptor a message is being sent on.
LEMMA SendsStep == SocketInv /\ SendsOnOwnLink /\ [Next]_vars => SendsOnOwnLink'
  <1> SUFFICES ASSUME SocketInv, SendsOnOwnLink, [Next]_vars PROVE SendsOnOwnLink'
    OBVIOUS
  <1>1. sock # NoFd => own[sock] = "link"
    BY DEF SocketInv, LinkInv
  <1>2. sendFd \in Fds \cup {NoFd}
    BY DEF SocketInv, TypeOK
  <1>3. QED
    BY <1>1, <1>2, SendEffect DEF SendsOnOwnLink

\* The workers are joined when the destructor is over.
JoinedInv == pc["dtor"] = "stopped" => \A w \in Works : worker[w] = "none"

\* What the destructor has joined does not come back.
LEMMA JoinedStep == SocketInv /\ JoinedInv /\ [Next]_vars => JoinedInv'
  <1> SUFFICES ASSUME SocketInv, JoinedInv, [Next]_vars, pc'["dtor"] = "stopped",
                      NEW w \in Works
               PROVE  worker'[w] = "none"
    BY DEF JoinedInv
  <1>0. /\ pc \in [Threads -> StopSteps \cup Steps["run"] \cup Steps["msg"] \cup Steps["ping"]]
        /\ "dtor" \in Threads
        /\ worker \in [Works -> {"none", "running", "sending", "finished"}]
    BY DEF SocketInv, PcInv, TypeOK, Threads
  <1>a. CASE /\ UNCHANGED worker
             /\ pc'["dtor"] = pc["dtor"]
    BY <1>a DEF JoinedInv
  <1>1. ASSUME NEW t \in Disconnectors, Disconnect(t) PROVE worker'[w] = "none"
    <2>1. UNCHANGED worker
      BY <1>1 DEF Disconnect, DisconnectBegin, MarkDisconnected, Shutdown, Close
    <2>2. PICK l : Goto(t, l) /\ l \in {"mark", "shutdown", "close", AfterDisconnect[t]}
      BY <1>1 DEF Disconnect, DisconnectBegin, MarkDisconnected, Shutdown, Close
    <2>3. l # "stopped"
      BY <2>2, DisconnectPlaces
    <2>4. pc'["dtor"] = pc["dtor"]
      BY <1>0, <2>2, <2>3 DEF Goto
    <2>5. QED
      BY <1>a, <2>1, <2>4
  <1>2. CASE Run
    <2>1. UNCHANGED worker /\ pc'["dtor"] = pc["dtor"]
      BY <1>0, <1>2 DEF Run, RunCheck, RunConnects, RunConnectFails, RunRegister,
         RunIdentified, RunStart, RunJoined, RunBackoff, Goto
    <2>2. QED
      BY <1>a, <2>1
  <1>3. CASE Msg
    <2>1. pc["msg"] # "end"
      BY <1>3 DEF Msg, MsgLoop, MsgReceives, MsgContinues, MsgRecvFails, MsgReadsForeign,
         ReadsForeign, MsgBatchDone, HandleAcknowledged, WriteResult, SetDone, handleRequest, FindInvoke
    <2>2. pc["dtor"] = "idle"
      BY <2>1 DEF SocketInv, SessionInv
    <2>3. pc'["dtor"] = pc["dtor"]
      BY <1>0, <1>3 DEF Msg, MsgLoop, MsgReceives, MsgContinues, MsgRecvFails, MsgReadsForeign, MsgBatchDone,
         HandleAcknowledged, WriteResult, SetDone, handleRequest, FindInvoke, Goto
    <2>4. QED
      BY <2>2, <2>3
  <1>4. CASE Ping
    <2>1. UNCHANGED worker /\ pc'["dtor"] = pc["dtor"]
      BY <1>0, <1>4 DEF Ping, PingEnds, PingSends, PingSent, Goto
    <2>2. QED
      BY <1>a, <2>1
  <1>5. CASE Environment
    BY <1>a, <1>5 DEF Environment, GatewayAcks, GatewayRequests, GatewayResponds, LinkDrops,
       OthersOpenOrClose
  <1>6. ASSUME NEW t \in Stoppers, Stop(t) PROVE worker'[w] = "none"
    <2>1. CASE StopJoined(t)
      BY <2>1 DEF StopJoined
    <2>2. CASE StopCalled(t) \/ StopJoins(t)
      <3>1. UNCHANGED worker /\ (pc'["dtor"] = "stopped" => pc["dtor"] = "stopped")
        BY <1>0, <2>2 DEF StopCalled, StopJoins, Goto
      <3>2. QED
        BY <3>1 DEF JoinedInv
    <2>3. QED
      BY <1>6, <2>1, <2>2 DEF Stop
  <1>7. ASSUME NEW x \in Works, Worker(x) PROVE worker'[w] = "none"
    <2>1. pc' = pc /\ worker[x] # "none"
      BY <1>7 DEF Worker, WorkerAnswers, WorkerFinishes
    <2>2. QED
      BY <2>1 DEF JoinedInv
  <1>8. ASSUME NEW v \in Invokes, Invoke(v) PROVE worker'[w] = "none"
    BY <1>a, <1>8 DEF Invoke, InvokeBegin, InvokeSend, InvokeSent, InvokeReturns
  <1>9. CASE UNCHANGED vars
    BY <1>a, <1>9 DEF vars
  <1>10. QED
    BY <1>1, <1>2, <1>3, <1>4, <1>5, <1>6, <1>7, <1>8, <1>9 DEF Next

-----------------------------------------------------------------------------
ClientInv == SocketInv /\ InvokeInv /\ SendsOnOwnLink /\ JoinedInv

\* The invariant of the client holds in every state.
LEMMA ClientInvariant == Spec => []ClientInv
  <1>1. ASSUME Init PROVE ClientInv
    <2>0. /\ PcInv /\ \A t \in Threads : pc[t] \in Steps[t]
          /\ \A t \in Disconnectors : pc[t] # "close"
      BY <1>1 DEF Init, PcInv, Threads, Steps, StopSteps, Disconnectors, Stoppers
    <2>1. TypeOK /\ PcInv
      BY <1>1, <2>0 DEF Init, TypeOK
    <2>2. SessionInv
      BY <1>1 DEF Init, SessionInv, Closing
    <2>3. LinkInv
      BY <1>1 DEF Init, LinkInv, NoLeakedLink, Disconnectors, Stoppers
    <2>4. InvokeInv /\ SendsOnOwnLink /\ JoinedInv
      BY <1>1 DEF Init, InvokeInv, InvokeResultComplete, SendsOnOwnLink, JoinedInv
    <2>5. QED
      BY <2>1, <2>2, <2>3, <2>4 DEF ClientInv, SocketInv
  <1>2. ClientInv /\ [Next]_vars => ClientInv'
    BY SocketStep, InvokeInvStep, SendsStep, JoinedStep DEF ClientInv
  <1>3. QED
    BY <1>1, <1>2, PTL DEF Spec

\* Every variable keeps its type: the descriptor a thread is about to close is
\* one, and run() connects only when it is not connected.
THEOREM ClientTypeCorrect == Spec => []TypeOK
  <1>1. ClientInv => TypeOK
    BY DEF ClientInv, SocketInv
  <1>2. QED
    BY <1>1, ClientInvariant, PTL

\* sendMessage() writes only to the client's own connection, however many
\* threads send and whoever disconnects meanwhile.
THEOREM SendsAreOnOwnLink == Spec => []SendsOnOwnLink
  <1>1. ClientInv => SendsOnOwnLink
    BY DEF ClientInv
  <1>2. QED
    BY <1>1, ClientInvariant, PTL

\* An open connection is the one in socketFd: no disconnect() of run(), the
\* message loop, stop() or the destructor forgets a connection made since.
THEOREM LinksAreKept == Spec => []NoLeakedLink
  <1>1. ClientInv => NoLeakedLink
    BY DEF ClientInv, SocketInv, LinkInv
  <1>2. QED
    BY <1>1, ClientInvariant, PTL

\* When the destructor is over, run(), the loops and the workers are too.
THEOREM DestructionIsQuiet == Spec => []DestroyedIsQuiet
  <1>1. ClientInv => DestroyedIsQuiet
    BY DEF ClientInv, SocketInv, SessionInv, JoinedInv, DestroyedIsQuiet
  <1>2. QED
    BY <1>1, ClientInvariant, PTL

\* invoke() returns a response only when the message loop has written all of
\* it, and leaves nothing pending.
THEOREM InvokeResultsAreComplete == Spec => []InvokeResultComplete
  <1>1. ClientInv => InvokeResultComplete
    BY DEF ClientInv, InvokeInv
  <1>2. QED
    BY <1>1, ClientInvariant, PTL

=============================================================================
