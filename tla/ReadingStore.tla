---------------------------- MODULE ReadingStore ----------------------------
(* What the pipeline promises, whatever is lost, repeated or restarted: a   *)
(* reading once taken is held somewhere until it is stored, or given up for *)
(* a reason that is recorded, or its sensor is deleted with all its         *)
(* readings; and it does not stay held forever.                             *)
EXTENDS Integers

CONSTANT Readings
VARIABLE state

\* given: dead-lettered, or discarded by ingestion.  wiped: with its file.
Moves == { <<"none", "none">>, <<"none", "held">>, <<"held", "held">>,
           <<"held", "stored">>, <<"held", "given">>, <<"held", "wiped">>,
           <<"stored", "stored">>, <<"given", "given">>, <<"wiped", "wiped">> }
         \cup ({"none", "held", "stored", "given", "wiped", "deleted"} \X {"deleted"})

StoreInit == state = [r \in Readings |-> "none"]
StoreNext == /\ DOMAIN state' = Readings
             /\ \A r \in Readings : <<state[r], state'[r]>> \in Moves
\* Nothing that was taken is lost, and nothing recorded is taken back.
StoreSafety == StoreInit /\ [][StoreNext]_state
\* Readings is finite and no reading is held twice: that again and again none is
\* held says that each one that is held leaves.
StoreSpec == /\ StoreSafety
             /\ []<>(\A r \in Readings : state[r] # "held")
=============================================================================
