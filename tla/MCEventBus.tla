----------------------------- MODULE MCEventBus -----------------------------
(* An instance of EventBus for TLC: one topic has a subscriber of its own,  *)
(* another subscriber takes every event.                                    *)
EXTENDS EventBus

CONSTANTS p1, p2, e1, e2, e3, s1, s2, t1, t2

MCTopicOf  == [e \in Events |-> IF e = e2 THEN t2 ELSE t1]
MCSubTopic == [s \in Subs |-> IF s = s1 THEN "*" ELSE t1]
=============================================================================
