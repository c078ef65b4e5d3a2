----------------------------- MODULE MCPipeline -----------------------------
(* An instance of Pipeline: two sensors with a reading each, which makes a  *)
(* pack; the database rejects that of s1, and s2 is there from the start or *)
(* registered later, is given another unit and deleted.                     *)
EXTENDS Pipeline

CONSTANTS s1, s2

MCSensorOf == [r \in Readings |-> IF r = 1 THEN s1 ELSE s2]
pressure == [unit |-> "kPa", type |-> "pressure"]
moisture == [unit |-> "%", type |-> "moisture"]
MCRows == {pressure, moisture}
MCAtStart == { [s \in Sensors |-> IF s = s1 THEN pressure ELSE row] : row \in {moisture, NoRow} }
MCChanges == { <<s2, NoRow, moisture>>, <<s2, moisture, pressure>>,
               <<s2, moisture, NoRow>>, <<s2, pressure, NoRow>> }

MCSpec == PipeSpec /\ PipeFairness
=============================================================================
