---------------------------- MODULE EventChannel ----------------------------
(***************************************************************************)
(* What the event bus promises: one queue of events, each of them given    *)
(* once, in the order of publication, to every subscriber there is when it *)
(* is dispatched, and to nobody else.                                      *)
(***************************************************************************)
EXTENDS Sequences

CONSTANTS Events, Subs, Matches(_, _)

VARIABLES queue, subs, log
vars == <<queue, subs, log>>

Init == queue = <<>> /\ subs = {} /\ log = [s \in Subs |-> <<>>]

Publish(e) == queue' = Append(queue, e) /\ UNCHANGED <<subs, log>>

Dispatch ==
    /\ queue # <<>>
    /\ queue' = Tail(queue)
    /\ log' = [s \in Subs |-> IF s \in subs /\ Matches(s, Head(queue))
                                THEN Append(log[s], Head(queue)) ELSE log[s]]
    /\ UNCHANGED subs

Subscribe(s)   == subs' = subs \cup {s} /\ UNCHANGED <<queue, log>>
Unsubscribe(s) == subs' = subs \ {s} /\ UNCHANGED <<queue, log>>

Next == \/ \E e \in Events : Publish(e)
        \/ Dispatch
        \/ \E s \in Subs : Subscribe(s) \/ Unsubscribe(s)

ChannelSpec == Init /\ [][Next]_vars
=============================================================================
