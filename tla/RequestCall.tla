---------------------------- MODULE RequestCall ----------------------------
(***************************************************************************)
(* What the gateway promises the client of POST /invoke: a call is opened  *)
(* once, its service's answer is taken at most once and only while the     *)
(* call is open, and the call returns once, with a status that does not    *)
(* contradict the answer.  Nothing here knows of connections, entries,     *)
(* locks or timers.                                                        *)
(***************************************************************************)
EXTENDS Naturals

CONSTANT Calls
VARIABLES phase, served, outcome
callvars == <<phase, served, outcome>>

\* 404 is what a call gets whose entry is gone when it looks for it.
Permitted == [ok |-> {200, 404}, error |-> {500, 404}, none |-> {503, 504, 404}]

CallInit ==
    /\ phase = [r \in Calls |-> "idle"]
    /\ served = [r \in Calls |-> "none"]
    /\ outcome = [r \in Calls |-> 0]

Open(r) ==
    /\ phase[r] = "idle"
    /\ phase' = [phase EXCEPT ![r] = "open"]
    /\ UNCHANGED <<served, outcome>>

\* Nobody offers the capability.
Refuse(r) ==
    /\ phase[r] = "idle"
    /\ phase' = [phase EXCEPT ![r] = "done"]
    /\ outcome' = [outcome EXCEPT ![r] = 503]
    /\ UNCHANGED served

Serve(r, answer) ==
    /\ phase[r] = "open" /\ served[r] = "none"
    /\ served' = [served EXCEPT ![r] = answer]
    /\ UNCHANGED <<phase, outcome>>

Return(r) ==
    /\ phase[r] = "open"
    /\ phase' = [phase EXCEPT ![r] = "done"]
    /\ \E status \in Permitted[served[r]] : outcome' = [outcome EXCEPT ![r] = status]
    /\ UNCHANGED served

CallNext == \E r \in Calls :
    \/ Open(r) \/ Refuse(r) \/ Return(r)
    \/ \E answer \in {"ok", "error"} : Serve(r, answer)

CallSpec == CallInit /\ [][CallNext]_callvars
=============================================================================
