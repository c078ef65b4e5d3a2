------------------------------- MODULE Broker -------------------------------
(* The two durable queues of the message broker.  A message a consumer      *)
(* holds is in its queue until it is acked.                                 *)
EXTENDS Readings

VARIABLES
    readingQ,   \* sensor_readings: copies of each reading
    telemetryQ  \* device_telemetry: copies of each config_span message

queues == <<readingQ, telemetryQ>>

\* A config_span message: the version, and the first and last timestamps.
Spans == {s \in [version : Versions, first : Readings, last : Readings] : s.first <= s.last}
NoSpan == [version |-> 0, first |-> 0, last |-> 0]
InSpan(r, s) == s.first <= r /\ r <= s.last

QueueTypeOK == readingQ \in [Readings -> Nat] /\ telemetryQ \in [Spans -> Nat]
QueueInit == readingQ = [r \in Readings |-> 0] /\ telemetryQ = [s \in Spans |-> 0]

Added(queue, msgs) == [m \in DOMAIN queue |-> IF m \in msgs THEN queue[m] + 1 ELSE queue[m]]
Removed(queue, m) == [queue EXCEPT ![m] = @ - 1]
=============================================================================
