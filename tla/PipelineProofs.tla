--------------------------- MODULE PipelineProofs ---------------------------
(***************************************************************************)
(* What TLC checks of the pipeline on an instance, for every number of     *)
(* readings, sensors, versions and faults, and every size of a pack: types,*)
(* that a reading once taken is not lost (the safety of ReadingStore), and *)
(* that what the station was told is so.                                   *)
(***************************************************************************)
EXTENDS Pipeline, FiniteSetTheorems, SequenceTheorems, TLAPS

-----------------------------------------------------------------------------
(* Constants and data *)

Messages == [pack : SUBSET Readings, own : SensorTables, cfg : Versions \cup {0}, live : BOOLEAN]
Replies == [ok : BOOLEAN, accepted : SUBSET Readings, dropped : SUBSET Readings, none : BOOLEAN]

\* A reading and a version are not the 0 that stands for none of them.
LEMMA Numbers ==
  /\ Readings \subseteq Nat \ {0} /\ 0 \notin Readings /\ 0 \notin Poison
  /\ 0 \notin Versions /\ NoSpan \notin Spans
<1>1. Cardinality(Readings) \in Nat
  BY FS_CardinalityType, ReadingsAssumption
<1>2. Readings \subseteq Nat \ {0} /\ 0 \notin Readings
  BY <1>1, ReadingsAssumption
<1> QED
  BY <1>2, ReadingsAssumption DEF NoSpan, Spans

\* A message of the second queue has its fields.
LEMMA SpanFacts ==
  ASSUME NEW s \in Spans
  PROVE  /\ s.version \in Versions /\ s.first \in Readings /\ s.last \in Readings
         /\ s.first \in Nat /\ s.last \in Nat /\ s.first <= s.last
  BY Numbers DEF Spans

\* A row merged with a span is a span of its version, which covers both.
LEMMA MergedCovers ==
  ASSUME NEW s \in Spans, NEW row \in Spans \cup {NoSpan}
  PROVE  /\ Merged(row, s) \in Spans /\ Merged(row, s) # NoSpan
         /\ Merged(row, s).first <= s.first /\ s.last <= Merged(row, s).last
         /\ \A r \in Readings : row # NoSpan /\ InSpan(r, row) => InSpan(r, Merged(row, s))
<1>1. CASE row = NoSpan
  BY <1>1, Numbers, SpanFacts DEF Merged
<1>2. CASE row # NoSpan
  <2> DEFINE low == IF row.first < s.first THEN row.first ELSE s.first
             high == IF row.last > s.last THEN row.last ELSE s.last
  <2>1. row \in Spans
    BY <1>2
  <2>2. /\ s.version \in Versions /\ s.first \in Readings /\ s.last \in Readings
        /\ row.first \in Readings /\ row.last \in Readings
        /\ s.first \in Nat /\ s.last \in Nat /\ row.first \in Nat /\ row.last \in Nat
        /\ s.first <= s.last /\ row.first <= row.last
    BY <2>1, SpanFacts
  <2>3. /\ low \in Readings /\ high \in Readings /\ low <= high
        /\ low <= s.first /\ s.last <= high /\ low <= row.first /\ row.last <= high
        /\ low \in Nat /\ high \in Nat
    BY <2>2
  <2>4. Merged(row, s) = [s EXCEPT !.first = low, !.last = high]
    BY <1>2 DEF Merged
  <2> HIDE DEF low, high
  <2>5. s = [version |-> s.version, first |-> s.first, last |-> s.last]
    BY DEF Spans
  <2>6. Merged(row, s) = [version |-> s.version, first |-> low, last |-> high]
    BY <2>4, <2>5
  <2> DEFINE m == [version |-> s.version, first |-> low, last |-> high]
  <2>7. /\ m \in Spans /\ m.first = low /\ m.last = high
    BY <2>2, <2>3 DEF Spans
  <2> HIDE DEF m
  <2>8. ASSUME NEW r \in Readings, InSpan(r, row) PROVE InSpan(r, m)
    BY <2>2, <2>3, <2>7, <2>8, Numbers DEF InSpan
  <2> QED
    BY <2>3, <2>6, <2>7, <2>8, Numbers DEF m
<1> QED
  BY <1>1, <1>2

-----------------------------------------------------------------------------
(* ReadingWriter and the queues *)

\* A reading goes with its sensor.
Gone(r) == SensorOf[r] \in deleted

\* A reading that is recorded, or waits in the queue for the writer.
Safe(r) == r \in rows \cup dead \cup dropped \cup wiped \/ readingQ[r] > 0 \/ Gone(r)

\* A version's span covers the reading: in the table, in the queue, or dead-lettered.
Covered(r, v) ==
  \/ spans[v] # NoSpan /\ InSpan(r, spans[v])
  \/ \E s \in Spans : (telemetryQ[s] > 0 \/ s \in deadSpans) /\ s.version = v /\ InSpan(r, s)

\* What the writer rejects is never stored; what it acknowledges is recorded.
WriterInv ==
  /\ outcome = "dead" /\ reading # 0 => reading \in Poison \/ Gone(reading)
  /\ rows \cap Poison = {} /\ \A r \in dead : r \in Poison \/ Gone(r)
  /\ outcome = "ack" /\ reading # 0 => reading \in rows \cup dead \/ Gone(reading)
  /\ outcome = "ack" /\ span # NoSpan =>
       \/ span \in deadSpans
       \/ /\ spans[span.version] # NoSpan
          /\ spans[span.version].first <= span.first /\ span.last <= spans[span.version].last

WriterGood == QueueTypeOK /\ WriterTypeOK /\ WriterInv

\* The sensor of a queued reading is in the table, or was.
QueuedInv == \A r \in Readings : readingQ[r] > 0 => sensors[SensorOf[r]] # NoRow \/ Gone(r)

\* Steps that leave the tables alone.
LEMMA WriterMoves ==
  ASSUME WriterGood, QueuedInv, UNCHANGED tableVars,
         \/ waitForBroker \/ waitForDatabase \/ WriteRejected \/ SpanRejected
         \/ ConsumerLost \/ WriterRestart
         \/ \E r \in Readings : ConsumeReading(r)
         \/ \E s \in Spans : ConsumeSpan(s)
  PROVE  WriterGood' /\ UNCHANGED <<queues, tables>>
<1> USE Numbers DEF WriterGood, QueueTypeOK, WriterTypeOK, WriterInv, Idle, queues, tables, handler, Gone, tableVars
<1>1. CASE waitForBroker \/ waitForDatabase
  BY <1>1 DEF waitForBroker, waitForDatabase, Connect
<1>2. CASE WriteRejected \/ SpanRejected
  BY <1>2, ReadingsAssumption DEF WriteRejected, SpanRejected, Rejected, QueuedInv
<1>3. CASE ConsumerLost \/ WriterRestart
  BY <1>3 DEF ConsumerLost, WriterRestart, Released
<1>4. ASSUME NEW r \in Readings, ConsumeReading(r)
      PROVE  WriterGood' /\ UNCHANGED <<queues, tables>>
  BY <1>4 DEF ConsumeReading
<1>5. ASSUME NEW s \in Spans, ConsumeSpan(s)
      PROVE  WriterGood' /\ UNCHANGED <<queues, tables>>
  BY <1>5 DEF ConsumeSpan
<1> QED
  BY <1>1, <1>2, <1>3, <1>4, <1>5

\* A commit: of a reading, or of a span that widens the row of its version.
LEMMA WriteStep ==
  ASSUME WriterGood, ~Idle, outcome = "none", ~Rejected, Write
  PROVE  /\ rows' \subseteq Readings /\ rows' \cap Poison = {} /\ UNCHANGED <<dead, deadSpans>>
         /\ spans' \in [Versions -> Spans \cup {NoSpan}]
         /\ reading # 0 => reading \in rows'
         /\ span # NoSpan => /\ spans'[span.version] # NoSpan
                             /\ spans'[span.version].first <= span.first
                             /\ span.last <= spans'[span.version].last
         /\ rows \subseteq rows' /\ \A r \in rows' : r \in rows \/ readingQ[r] > 0
         /\ \A v \in Versions, r \in Readings :
              spans[v] # NoSpan /\ InSpan(r, spans[v]) => spans'[v] # NoSpan /\ InSpan(r, spans'[v])
<1> USE DEF WriterGood, QueueTypeOK, WriterTypeOK, WriterInv, Idle
<1>1. CASE reading # 0
  BY <1>1 DEF Write, Rejected
<1>2. CASE reading = 0
  <2>1. span \in Spans /\ span.version \in Versions
    BY <1>2, SpanFacts
  <2> DEFINE m == Merged(spans[span.version], span)
  <2>2. spans' = [spans EXCEPT ![span.version] = m] /\ UNCHANGED <<rows, dead, deadSpans>>
    BY <1>2 DEF Write
  <2>3. /\ m \in Spans /\ m # NoSpan /\ m.first <= span.first /\ span.last <= m.last
        /\ \A r \in Readings : spans[span.version] # NoSpan /\ InSpan(r, spans[span.version])
                                 => InSpan(r, m)
    BY <2>1, MergedCovers
  <2> HIDE DEF m
  <2> QED
    BY <1>2, <2>1, <2>2, <2>3
<1> QED
  BY <1>1, <1>2

Recorded(r) == r \in rows \cup dead \/ readingQ[r] > 0 \/ Gone(r)

\* What a step of the writer may do to a reading and to a version's span.
WriterKeeps ==
  /\ UNCHANGED tableVars
  /\ rows \subseteq rows' /\ dead \subseteq dead'
  /\ \A r \in rows' : r \in rows \/ readingQ[r] > 0
  /\ \A r \in dead' : r \in dead \/ readingQ[r] > 0
  /\ \A r \in Readings : readingQ'[r] > 0 => readingQ[r] > 0
  /\ \A r \in Readings : Recorded(r) => Recorded(r)'
  /\ \A r \in Readings, v \in Versions : Covered(r, v) => Covered(r, v)'

\* Unless the tables change, nothing does that matters.
LEMMA WriterStutters ==
  ASSUME UNCHANGED <<queues, tables, tableVars>>
  PROVE  WriterKeeps
  BY DEF WriterKeeps, Recorded, Covered, Gone, queues, tables, tableVars

\* A commit, also one that the writer does not hear of.
LEMMA CommitStep ==
  ASSUME WriterGood, UNCHANGED tableVars, WriteSucceeds \/ WriteFails
  PROVE  WriterGood' /\ WriterKeeps
<1>1. CASE WriteFails /\ UNCHANGED tables
  BY <1>1, WriterStutters, Numbers
  DEF WriteFails, WriterGood, QueueTypeOK, WriterTypeOK, WriterInv, Idle, Gone, queues, tables,
      tableVars
<1>2. CASE /\ ~Idle /\ outcome = "none" /\ ~Rejected /\ Write
           /\ outcome' \in {"ack", "requeue"}
           /\ UNCHANGED <<queues, mqUp, reading, span>> /\ dbDown' \in BOOLEAN
  <2>1. /\ rows' \subseteq Readings /\ rows' \cap Poison = {} /\ UNCHANGED <<dead, deadSpans>>
        /\ spans' \in [Versions -> Spans \cup {NoSpan}]
        /\ reading # 0 => reading \in rows'
        /\ span # NoSpan => /\ spans'[span.version] # NoSpan
                            /\ spans'[span.version].first <= span.first
                            /\ span.last <= spans'[span.version].last
        /\ rows \subseteq rows' /\ \A r \in rows' : r \in rows \/ readingQ[r] > 0
        /\ \A v \in Versions, r \in Readings :
             spans[v] # NoSpan /\ InSpan(r, spans[v]) => spans'[v] # NoSpan /\ InSpan(r, spans'[v])
    BY <1>2, WriteStep
  <2>2. WriterGood'
    BY <1>2, <2>1 DEF WriterGood, QueueTypeOK, WriterTypeOK, WriterInv, Idle, Gone, queues, tableVars
  <2>3. WriterKeeps
    BY <1>2, <2>1 DEF WriterKeeps, Recorded, Covered, Gone, queues, tableVars
  <2> QED
    BY <2>2, <2>3
<1> QED
  BY <1>1, <1>2 DEF WriteSucceeds, WriteFails, tables, WriterGood, WriterTypeOK

\* A message that was rejected is given to the dead-letter queue, or back.
LEMMA DeadLetterStep ==
  ASSUME WriterGood, UNCHANGED tableVars, deadLetter
  PROVE  WriterGood' /\ WriterKeeps
<1> USE Numbers DEF deadLetter
<1>1. WriterGood'
  BY ReadingsAssumption
  DEF WriterGood, QueueTypeOK, WriterTypeOK, WriterInv, Idle, Gone, queues, tableVars
<1>2. WriterKeeps
  BY ReadingsAssumption
  DEF WriterKeeps, Recorded, Covered, Gone, queues, tableVars, WriterGood, WriterTypeOK, WriterInv, Idle
<1> QED
  BY <1>1, <1>2

\* A message leaves its queue when what it says is in the tables.
LEMMA SettleStep ==
  ASSUME WriterGood, UNCHANGED tableVars, Settle
  PROVE  WriterGood' /\ WriterKeeps
<1> USE Numbers DEF WriterGood, QueueTypeOK, WriterTypeOK, WriterInv, Idle, Gone, tableVars
<1>1. CASE outcome = "requeue"
  <2>1. UNCHANGED <<queues, mqUp, dbDown, tables>> /\ Released
    BY <1>1 DEF Settle
  <2>2. WriterGood'
    BY <2>1 DEF Released, queues, tables
  <2> QED
    BY <2>1, <2>2, WriterStutters
<1>2. CASE outcome = "ack" /\ reading # 0
  <2>1. /\ readingQ' = [readingQ EXCEPT ![reading] = @ - 1]
        /\ UNCHANGED <<telemetryQ, mqUp, dbDown, tables>> /\ Released
    BY <1>2 DEF Settle, Removed
  <2>2. readingQ' \in [Readings -> Nat]
    BY <1>2, <2>1
  <2>3. WriterGood'
    BY <2>1, <2>2 DEF Released, tables
  <2>4. \A r \in Readings : readingQ'[r] > 0 => readingQ[r] > 0
    BY <1>2, <2>1
  <2>5. \A r \in Readings : Recorded(r) => Recorded(r)'
    BY <1>2, <2>1 DEF Recorded, tables
  <2> QED
    BY <2>1, <2>3, <2>4, <2>5 DEF WriterKeeps, Covered, tables
<1>3. CASE outcome = "ack" /\ reading = 0
  <2>1. span \in Spans
    BY <1>3
  <2>2. /\ telemetryQ' = [telemetryQ EXCEPT ![span] = @ - 1]
        /\ UNCHANGED <<readingQ, mqUp, dbDown, tables>> /\ Released
    BY <1>3 DEF Settle, Removed
  <2>3. telemetryQ' \in [Spans -> Nat]
    BY <1>3, <2>1, <2>2
  <2>4. WriterGood'
    BY <2>2, <2>3 DEF Released, tables
  <2>5. ASSUME NEW r \in Readings, NEW v \in Versions, Covered(r, v) PROVE Covered(r, v)'
    <3>1. CASE spans[v] # NoSpan /\ InSpan(r, spans[v])
      BY <2>2, <3>1 DEF Covered, tables
    <3>2. CASE \E s \in Spans : /\ telemetryQ[s] > 0 \/ s \in deadSpans
                                /\ s.version = v /\ InSpan(r, s)
      <4> PICK s \in Spans : /\ telemetryQ[s] > 0 \/ s \in deadSpans
                             /\ s.version = v /\ InSpan(r, s)
        BY <3>2
      <4>3. CASE s \in deadSpans
        BY <2>2, <4>3 DEF Covered, tables
      <4>1. CASE s = span /\ s \notin deadSpans
        <5>1. /\ spans[v] \in Spans /\ spans[v].first <= span.first /\ span.last <= spans[v].last
          BY <1>3, <2>1, <4>1
        <5>2. InSpan(r, spans[v])
          BY <2>1, <4>1, <5>1, SpanFacts DEF InSpan
        <5> QED
          BY <2>2, <5>1, <5>2 DEF Covered, tables
      <4>2. CASE s # span /\ s \notin deadSpans
        <5>1. telemetryQ'[s] > 0
          BY <2>2, <4>2
        <5> QED
          BY <5>1 DEF Covered
      <4> QED
        BY <4>1, <4>2, <4>3
    <3> QED
      BY <2>5, <3>1, <3>2 DEF Covered
  <2> QED
    BY <2>2, <2>4, <2>5 DEF WriterKeeps, Recorded, tables
<1> QED
  BY <1>1, <1>2, <1>3 DEF Settle

\* The writer loses no reading and no span, through outages and restarts.
LEMMA WriterGoesOn ==
  ASSUME WriterGood, QueuedInv, UNCHANGED tableVars, WriterNext
  PROVE  WriterGood' /\ WriterKeeps
  BY WriterMoves, WriterStutters, CommitStep, DeadLetterStep, SettleStep DEF WriterNext, WriterWorks

-----------------------------------------------------------------------------
(* Station *)

\* Only the request the station waits for is live, and it is what the station would
\* send again; an answer under way is an answer to it.
LinkInv ==
  /\ left \subseteq file
  /\ \A i \in 1..Len(inbox) : inbox[i].live =>
       /\ tx = "wait" /\ reply.none
       /\ inbox[i].pack = Pack(left) /\ inbox[i].cfg = recCfg
       /\ \A j \in 1..Len(inbox) : inbox[j].live => i = j
  /\ ~reply.none => tx = "wait" /\ reply.accepted \cup reply.dropped = Pack(left)

\* What was delivered is safe, what an answer says is accepted is safe and covered,
\* and every reading taken is in a file or safe; the next ones are nowhere.
DeliveredInv == tx # "idle" => \A r \in Buffered \ left : Safe(r)
ReplyInv ==
  ~reply.none /\ reply.ok =>
    \A r \in reply.accepted : Safe(r) /\ (recCfg # 0 => Covered(r, recCfg))
TakenInv == \A r \in taken : r \in file \/ Safe(r)
FreshInv == \A r \in Readings \ taken : r \notin file /\ ~InFlight(r) /\ readingQ[r] = 0

\* The sensors of the process, and those of readings, are in the table, or were.
Was(s) == sensors[s] # NoRow \/ s \in deleted
OwnInv == /\ \A s \in Sensors : own[s] # NoRow => Was(s)
          /\ \A r \in taken : Was(SensorOf[r])

StationInv == LinkInv /\ DeliveredInv /\ ReplyInv /\ SpanCovers /\ TakenInv /\ FreshInv /\ OwnInv
StationGood == StationTypeOK /\ StationInv

\* What a step of the station may do to a reading, and to the requests.
StationMoves ==
  /\ dropped \subseteq dropped' /\ wiped \subseteq wiped'
  /\ \A r \in dropped' : r \in dropped \/ r \in file
  /\ \A r \in wiped' : r \in wiped \/ r \in file
  /\ \A r \in file' : r \in file \/ (r \notin taken /\ r \in taken')
  /\ taken \subseteq taken'
  /\ \A r \in Readings : InFlight(r)' => InFlight(r) \/ r \in file
  /\ inbox # <<>> => /\ inbox' # <<>>
                     /\ inbox'[1].pack = inbox[1].pack /\ inbox'[1].cfg = inbox[1].cfg

\* The queues and the tables stand while the station moves.
Elsewhere == UNCHANGED <<queues, tables, tableVars>>

\* A pack is a part of the entries it is made of.
LEMMA PackIsPart == \A entries : Pack(entries) \subseteq entries
  BY DEF Pack

\* A request is a message, and the inbox a function of its positions.
LEMMA InboxFacts ==
  ASSUME inbox \in Seq(Messages)
  PROVE  /\ Len(inbox) \in Nat /\ inbox \in [1..Len(inbox) -> Messages]
         /\ inbox # <<>> => 1 \in 1..Len(inbox) /\ Head(inbox) = inbox[1]
         /\ inbox = <<>> => Len(inbox) = 0
<1>1. Len(inbox) \in Nat /\ inbox \in [1..Len(inbox) -> Messages]
  BY LenProperties
<1>2. inbox # <<>> => Len(inbox) \in Nat \ {0}
  BY EmptySeq
<1>3. inbox # <<>> => Head(inbox) = inbox[1]
  BY HeadTailProperties
<1>4. inbox = <<>> => Len(inbox) = 0
  BY EmptySeq
<1> QED
  BY <1>1, <1>2, <1>3, <1>4

\* What is safe stays safe while the station moves.
LEMMA SafeStays ==
  ASSUME Elsewhere, dropped \subseteq dropped', wiped \subseteq wiped'
  PROVE  /\ \A r \in Readings : Safe(r) => Safe(r)'
         /\ \A r \in Readings, v \in Versions : Covered(r, v) <=> Covered(r, v)'
  BY DEF Elsewhere, queues, tables, tableVars, Safe, Gone, Covered

\* Steps that leave files, requests and answers alone.
LEMMA StationWaits ==
  ASSUME StationGood, Elsewhere, ConfigUpdated \/ SendFails \/ TransmitBegin
  PROVE  StationGood' /\ StationMoves
<1>1. UNCHANGED <<file, taken, own, inbox, reply, dropped, told, wiped>>
  BY DEF ConfigUpdated, SendFails, TransmitBegin, fileVars, txVars, linkVars, history
<1>2. StationTypeOK'
  BY <1>1 DEF StationGood, StationTypeOK, ConfigUpdated, SendFails, TransmitBegin, Buffered, txVars
<1>3. \A r \in Readings : InFlight(r)' <=> InFlight(r)
  BY <1>1 DEF InFlight
<1>4. \A r, v : (Safe(r)' <=> Safe(r)) /\ (Covered(r, v)' <=> Covered(r, v))
  BY <1>1 DEF Elsewhere, queues, tables, tableVars, Safe, Gone, Covered
<1>5. LinkInv'
  BY <1>1
  DEF StationGood, StationInv, LinkInv, ConfigUpdated, SendFails, TransmitBegin, Buffered, txVars
<1>6. DeliveredInv' /\ ReplyInv'
  BY <1>1, <1>4 DEF StationGood, StationInv, LinkInv, DeliveredInv, ReplyInv, ConfigUpdated, SendFails,
     TransmitBegin, Buffered, Has, txVars
<1>7. SpanCovers' /\ TakenInv' /\ FreshInv' /\ OwnInv'
  BY <1>1, <1>3, <1>4 DEF StationGood, StationInv, SpanCovers, Covered, TakenInv, FreshInv, OwnInv, Was,
     Elsewhere, queues, tables, tableVars
<1>8. StationMoves
  BY <1>1, <1>3 DEF StationMoves
<1> QED
  BY <1>2, <1>5, <1>6, <1>7, <1>8 DEF StationGood, StationInv

\* A new reading is in a file, and nowhere else.
LEMMA AppendStep ==
  ASSUME StationGood, Elsewhere, appendReading
  PROVE  StationGood' /\ StationMoves
<1> USE DEF StationGood
<1>0. PICK new \in Readings :
        /\ Has(SensorOf[new]) /\ (\A q \in taken : q < new) /\ tx = "idle"
        /\ file' = file \cup {new} /\ taken' = taken \cup {new}
        /\ UNCHANGED <<own, txVars, version, linkVars, history>>
  BY DEF appendReading
<1>1. /\ new \notin taken /\ tx = "idle"
      /\ UNCHANGED <<own, tx, left, recCfg, version, inbox, reply, dropped, told, wiped>>
  <2>1. new \notin taken
    BY <1>0, Numbers DEF StationTypeOK
  <2> QED
    BY <1>0, <2>1 DEF txVars, linkVars, history
<1>2. StationTypeOK'
  BY <1>0, <1>1 DEF StationTypeOK
<1>3. \A r \in Readings : InFlight(r)' <=> InFlight(r)
  BY <1>1 DEF InFlight
<1>4. \A r, v : (Safe(r)' <=> Safe(r)) /\ (Covered(r, v)' <=> Covered(r, v))
  BY <1>1 DEF Elsewhere, queues, tables, tableVars, Safe, Gone, Covered
<1>5. LinkInv'
  BY <1>0, <1>1 DEF StationInv, LinkInv
<1>6. DeliveredInv' /\ ReplyInv'
  BY <1>1, <1>4 DEF StationInv, DeliveredInv, ReplyInv
<1>7. SpanCovers'
  BY <1>1, <1>4 DEF StationInv, SpanCovers, Covered, Elsewhere, queues, tables
<1>8. TakenInv' /\ FreshInv'
  BY <1>0, <1>1, <1>3, <1>4 DEF StationTypeOK, StationInv, TakenInv, FreshInv, Elsewhere, queues
<1>9. OwnInv'
  BY <1>0, <1>1, ReadingsAssumption DEF StationInv, OwnInv, Was, Has, Elsewhere, tableVars
<1>10. StationMoves
  BY <1>0, <1>1, <1>3 DEF StationMoves
<1> QED
  BY <1>2, <1>5, <1>6, <1>7, <1>8, <1>9, <1>10 DEF StationInv

\* One more request: of what is left in the files.
LEMMA SendStep ==
  ASSUME StationGood, Elsewhere, SendPack
  PROVE  StationGood' /\ StationMoves
<1> USE DEF StationGood, SendPack, fileVars, history
<1> DEFINE m == [pack |-> Pack(left), own |-> own, cfg |-> recCfg, live |-> TRUE]
           n == Len(inbox)
<1>1. /\ inbox' = Append(inbox, m) /\ tx = "send" /\ tx' = "wait"
      /\ UNCHANGED <<file, taken, own, left, recCfg, version, reply, dropped, told, wiped>>
  OBVIOUS
<1>2. /\ m \in Messages /\ inbox \in Seq(Messages) /\ Pack(left) \subseteq left
      /\ left \subseteq file /\ file \subseteq Readings
  BY PackIsPart DEF StationTypeOK, Messages, StationInv, LinkInv
<1>3. m.pack = Pack(left) /\ m.cfg = recCfg /\ m.live
  OBVIOUS
<1> HIDE DEF m
<1>4. /\ n \in Nat /\ inbox' \in Seq(Messages) /\ Len(inbox') = n + 1
      /\ \A i \in 1..n : inbox'[i] = inbox[i]
      /\ inbox'[n + 1] = m
      /\ inbox # <<>> => 1 \in 1..n
  BY <1>1, <1>2, InboxFacts, AppendProperties
<1>5. StationTypeOK'
  BY <1>1, <1>4 DEF StationTypeOK, Messages
<1>6. reply.none /\ \A i \in 1..n : ~inbox[i].live
  BY <1>1 DEF StationInv, LinkInv
<1>7. LinkInv'
  BY <1>1, <1>3, <1>4, <1>6 DEF StationInv, LinkInv
<1>8. \A r, v : (Safe(r)' <=> Safe(r)) /\ (Covered(r, v)' <=> Covered(r, v))
  BY <1>1 DEF Elsewhere, queues, tables, tableVars, Safe, Gone, Covered
<1>9. \A r \in Readings : InFlight(r)' => InFlight(r) \/ r \in file
  BY <1>2, <1>3, <1>4 DEF InFlight
<1>10. DeliveredInv' /\ ReplyInv' /\ TakenInv' /\ FreshInv' /\ OwnInv'
  BY <1>1, <1>6, <1>8, <1>9
  DEF StationInv, DeliveredInv, Buffered, Has, ReplyInv, TakenInv, FreshInv, OwnInv, Was, Elsewhere,
      queues, tableVars
<1>11. SpanCovers'
  BY <1>1, <1>8 DEF StationInv, SpanCovers, Covered, Elsewhere, queues, tables
<1>12. inbox' # <<>>
  BY <1>4, EmptySeq
<1>13. StationMoves
  BY <1>1, <1>4, <1>9, <1>12 DEF StationMoves, StationTypeOK
<1> QED
  BY <1>5, <1>7, <1>10, <1>11, <1>13 DEF StationInv

\* An answer: what it accepts is safe, what it dropped is recorded.
LEMMA ReplyStep ==
  ASSUME StationGood, Elsewhere, ReplyArrives
  PROVE  StationGood' /\ StationMoves
<1> USE DEF StationGood, ReplyArrives, fileVars
<1> DEFINE pack == Pack(left)
<1>1. /\ tx = "wait" /\ ~reply.none /\ reply' = NoReply /\ tx' \in {"send", "rewrite"}
      /\ UNCHANGED <<file, taken, own, recCfg, version, inbox, wiped>>
  OBVIOUS
<1>2. /\ reply.accepted \cup reply.dropped = pack /\ pack \subseteq left
      /\ left \subseteq file /\ file \subseteq Readings
      /\ \A i \in 1..Len(inbox) : ~inbox[i].live
  BY <1>1, PackIsPart DEF StationInv, LinkInv, StationTypeOK
<1>3. /\ left' \subseteq left /\ dropped \subseteq dropped'
      /\ dropped' \subseteq dropped \cup reply.dropped
      /\ \A r \in left \ left' : reply.ok /\ (r \in reply.accepted \/ r \in dropped')
  BY <1>1, <1>2
<1>4. NoReply \in Replies /\ NoReply.none
  BY DEF NoReply, Replies
<1>5. told' \subseteq Readings \X Versions
  BY DEF StationTypeOK
<1>6. StationTypeOK'
  BY <1>1, <1>2, <1>3, <1>4, <1>5 DEF StationTypeOK, Replies
<1>7. LinkInv'
  BY <1>1, <1>2, <1>3, <1>4 DEF LinkInv
<1>8. /\ \A r \in Readings : Safe(r) => Safe(r)'
      /\ \A r \in Readings, v \in Versions : Covered(r, v) <=> Covered(r, v)'
  BY <1>1, <1>3, SafeStays
<1>9. \A r \in left \ left' : Safe(r)'
  <2> SUFFICES ASSUME NEW r \in left \ left' PROVE Safe(r)'
    OBVIOUS
  <2>1. CASE r \in dropped'
    BY <2>1 DEF Safe
  <2>2. CASE r \in reply.accepted
    BY <1>1, <1>2, <1>3, <1>8, <2>2 DEF StationInv, ReplyInv
  <2> QED
    BY <1>3, <2>1, <2>2
<1>10. DeliveredInv'
  BY <1>1, <1>2, <1>8, <1>9 DEF StationInv, DeliveredInv, Buffered, Has
<1>11. ReplyInv'
  BY <1>1, <1>4 DEF ReplyInv
<1>12. SpanCovers'
  <2> SUFFICES ASSUME NEW p \in told' PROVE Covered(p[1], p[2])'
    BY DEF SpanCovers, Covered
  <2>1. p \in Readings \X Versions
    BY <1>5
  <2>2. CASE p \in told
    BY <1>8, <2>1, <2>2 DEF StationInv, SpanCovers, Covered
  <2>3. CASE p \notin told
    <3>1. reply.ok /\ recCfg # 0 /\ p[1] \in reply.accepted /\ p[2] = recCfg
      BY <2>3
    <3> QED
      BY <1>1, <1>8, <2>1, <3>1 DEF StationInv, ReplyInv
  <2> QED
    BY <2>2, <2>3
<1>13. \A r \in Readings : InFlight(r)' <=> InFlight(r)
  BY <1>1 DEF InFlight
<1>14. TakenInv' /\ FreshInv' /\ OwnInv'
  BY <1>1, <1>8, <1>13
  DEF StationTypeOK, StationInv, TakenInv, FreshInv, OwnInv, Was, Elsewhere, queues, tableVars
<1>15. StationMoves
  BY <1>1, <1>2, <1>3, <1>13 DEF StationMoves, StationTypeOK
<1> QED
  BY <1>6, <1>7, <1>10, <1>11, <1>12, <1>14, <1>15 DEF StationInv

\* Requests that are abandoned are the same requests, of which none is live.
LEMMA AbandonedFacts ==
  ASSUME inbox \in Seq(Messages), inbox' = Abandoned
  PROVE  /\ inbox' \in Seq(Messages) /\ Len(inbox') = Len(inbox)
         /\ \A i \in 1..Len(inbox) : /\ inbox'[i].pack = inbox[i].pack
                                     /\ inbox'[i].cfg = inbox[i].cfg /\ ~inbox'[i].live
         /\ inbox # <<>> => inbox' # <<>> /\ 1 \in 1..Len(inbox)
<1> DEFINE n == Len(inbox)
<1>1. n \in Nat /\ inbox \in [1..n -> Messages] /\ (inbox # <<>> => 1 \in 1..n)
  BY InboxFacts
<1>2. \A i \in 1..n : [inbox[i] EXCEPT !.live = FALSE] \in Messages
  BY <1>1 DEF Messages
<1>3. inbox' = [i \in 1..n |-> [inbox[i] EXCEPT !.live = FALSE]]
  BY DEF Abandoned
<1>4. inbox' \in [1..n -> Messages]
  BY <1>2, <1>3
<1>5. inbox' \in Seq(Messages) /\ Len(inbox') = n
  <2>1. inbox' \in Seq(Messages)
    BY <1>1, <1>4, SeqDef
  <2> QED
    BY <1>1, <1>4, <2>1, LenProperties
<1>6. \A i \in 1..n : /\ inbox'[i].pack = inbox[i].pack
                      /\ inbox'[i].cfg = inbox[i].cfg /\ ~inbox'[i].live
  BY <1>1, <1>3 DEF Messages
<1>7. inbox # <<>> => inbox' # <<>>
  BY <1>1, <1>5, EmptySeq
<1> QED
  BY <1>1, <1>5, <1>6, <1>7

\* The station gives up waiting, or dies: what it has not erased it has still.
LEMMA AbandonStep ==
  ASSUME StationGood, Elsewhere, sensors \in SensorTables, ReplyTimeout \/ StationCrash
  PROVE  StationGood' /\ StationMoves
<1>1. /\ inbox' = Abandoned /\ reply' = NoReply
      /\ UNCHANGED <<file, taken, version, dropped, told, wiped>>
      /\ \/ tx = "wait" /\ tx' = "rewrite" /\ UNCHANGED <<own, left, recCfg>>
         \/ tx' = "idle" /\ left' = {} /\ recCfg' = 0 /\ own' = sensors
  BY DEF ReplyTimeout, StationCrash, CycleEnds, LoadSensors, fileVars, history
<1>2. inbox \in Seq(Messages) /\ NoReply \in Replies /\ NoReply.none
  BY DEF StationGood, StationTypeOK, Messages, NoReply, Replies
<1>3. /\ inbox' \in Seq(Messages) /\ Len(inbox') = Len(inbox)
      /\ \A i \in 1..Len(inbox) : /\ inbox'[i].pack = inbox[i].pack
                                  /\ inbox'[i].cfg = inbox[i].cfg /\ ~inbox'[i].live
      /\ inbox # <<>> => inbox' # <<>> /\ 1 \in 1..Len(inbox)
  BY <1>1, <1>2, AbandonedFacts
<1>4. StationTypeOK'
  BY <1>1, <1>2, <1>3 DEF StationGood, StationTypeOK, Messages, Replies
<1>5. LinkInv'
  BY <1>1, <1>2, <1>3 DEF StationGood, StationInv, LinkInv
<1>6. \A r \in Readings : InFlight(r)' <=> InFlight(r)
  BY <1>3 DEF InFlight
<1>7. \A r, v : (Safe(r)' <=> Safe(r)) /\ (Covered(r, v)' <=> Covered(r, v))
  BY <1>1 DEF Elsewhere, queues, tables, tableVars, Safe, Gone, Covered
<1>8. DeliveredInv' /\ ReplyInv' /\ TakenInv' /\ FreshInv' /\ OwnInv'
  BY <1>1, <1>2, <1>6, <1>7
  DEF StationGood, StationInv, DeliveredInv, Buffered, Has, ReplyInv, TakenInv, FreshInv, OwnInv, Was,
      Elsewhere, queues, tableVars
<1>9. SpanCovers'
  BY <1>1, <1>7 DEF StationGood, StationInv, SpanCovers, Covered, Elsewhere, queues, tables
<1>10. StationMoves
  BY <1>1, <1>3, <1>6 DEF StationMoves
<1> QED
  BY <1>4, <1>5, <1>8, <1>9, <1>10 DEF StationGood, StationInv

\* Files are rewritten without what was delivered, or truncated by a crash.
LEMMA RewriteStep ==
  ASSUME StationGood, Elsewhere, sensors \in SensorTables,
         Rewrite \/ StationRestart \/ \E s \in Sensors : CrashInWrite(s)
  PROVE  StationGood' /\ StationMoves
<1> USE DEF StationGood
<1>1. /\ tx \in {"idle", "rewrite"} /\ tx' = "idle"
      /\ UNCHANGED <<taken, version, inbox, reply, dropped, told>>
      /\ file' \subseteq file /\ wiped \subseteq wiped' /\ wiped' \subseteq wiped \cup file
      /\ own' \in {own, sensors} /\ left' \subseteq left /\ recCfg' \in {0, recCfg}
      /\ left' \subseteq file'
  BY DEF Rewrite, StationRestart, CrashInWrite, CycleEnds, LoadSensors, fileVars, txVars, linkVars,
     history, StationInv, LinkInv
<1>2. \A r \in file \ file' : r \in wiped' \/ (tx # "idle" /\ r \in Buffered \ left)
  BY DEF Rewrite, StationRestart, CrashInWrite, Buffered, fileVars
<1>3. reply.none /\ \A i \in 1..Len(inbox) : ~inbox[i].live
  BY <1>1 DEF StationInv, LinkInv
<1>4. StationTypeOK'
  BY <1>1 DEF StationTypeOK
<1>5. LinkInv'
  BY <1>1, <1>3 DEF LinkInv
<1>6. \A r \in Readings : InFlight(r)' <=> InFlight(r)
  BY <1>1 DEF InFlight
<1>7. /\ \A r \in Readings : Safe(r) => Safe(r)'
      /\ \A r \in Readings, v \in Versions : Covered(r, v) <=> Covered(r, v)'
  BY <1>1, SafeStays
<1>8. \A r \in Readings : r \in file \ file' => Safe(r)'
  <2> SUFFICES ASSUME NEW r \in Readings, r \in file \ file' PROVE Safe(r)'
    OBVIOUS
  <2>1. CASE r \in wiped'
    BY <2>1 DEF Safe
  <2>2. CASE tx # "idle" /\ r \in Buffered \ left
    BY <1>7, <2>2 DEF StationInv, DeliveredInv
  <2> QED
    BY <1>2, <2>1, <2>2
<1>9. DeliveredInv' /\ ReplyInv'
  BY <1>1, <1>3 DEF DeliveredInv, ReplyInv
<1>10. TakenInv' /\ FreshInv' /\ OwnInv'
  BY <1>1, <1>6, <1>7, <1>8
  DEF StationTypeOK, StationInv, TakenInv, FreshInv, OwnInv, Was, Elsewhere, queues, tableVars
<1>11. SpanCovers'
  BY <1>1 DEF StationInv, SpanCovers, Elsewhere, queues, tables
<1>12. StationMoves
  BY <1>1, <1>6 DEF StationMoves, StationTypeOK
<1> QED
  BY <1>4, <1>5, <1>9, <1>10, <1>11, <1>12 DEF StationInv

\* The station erases nothing that is not safe, whatever fails on its way.
LEMMA StationGoesOn ==
  ASSUME StationGood, Elsewhere, sensors \in SensorTables, StationNext
  PROVE  StationGood' /\ StationMoves
  BY StationWaits, AppendStep, SendStep, ReplyStep, AbandonStep, RewriteStep
  DEF StationNext, StationWorks

-----------------------------------------------------------------------------
(* Ingestion *)

NatLess == {p \in Nat \X Nat : p[1] < p[2]}

\* The order of the natural numbers, as a relation, has no infinite descent.
LEMMA NatLessIsWellFounded == IsWellFoundedOn(NatLess, Nat)
  BY NatLessThanWellFounded, Zenon DEF OpToRel, NatLess

\* Every set of natural numbers that is not empty has a least element.
LEMMA LeastNumber ==
  ASSUME NEW T \in SUBSET Nat, T # {}
  PROVE  \E x \in T : \A y \in T : x <= y
<1>1. PICK x \in T : \A y \in T : ~ (<<y, x>> \in NatLess)
  BY NatLessIsWellFounded, WFMin
<1>2. \A y \in T : ~(y < x)
  BY <1>1 DEF NatLess
<1> QED
  BY <1>2

\* A pack that keeps a reading has a first and a last one: there is a span for it.
LEMMA ThereIsASpan ==
  ASSUME NEW cfg \in Versions, NEW kept \in SUBSET Readings, kept # {}
  PROVE  /\ SpanOf(cfg, kept) # {} /\ SpanOf(cfg, kept) \subseteq Spans
         /\ \A s \in SpanOf(cfg, kept) : s.version = cfg /\ \A r \in kept : InSpan(r, s)
<1> DEFINE n == Cardinality(Readings)
           below == {n - r : r \in kept}
<1>1. n \in Nat /\ Readings = 1..n /\ kept \subseteq Nat
  BY ReadingsAssumption, FS_CardinalityType, Numbers
<1>2. PICK low \in kept : \A r \in kept : low <= r
  BY <1>1, LeastNumber
<1>3. below \in SUBSET Nat /\ below # {}
  BY <1>1
<1>4. PICK least \in below : \A x \in below : least <= x
  BY <1>3, LeastNumber
<1>5. PICK high \in kept : least = n - high
  OBVIOUS
<1>6. ASSUME NEW r \in kept PROVE r <= high
  <2>1. n - high <= n - r
    BY <1>4, <1>5
  <2> QED
    BY <1>1, <2>1
<1> DEFINE s == [version |-> cfg, first |-> low, last |-> high]
<1>7. s \in Spans
  BY <1>2 DEF Spans
<1>8. s.version = cfg /\ s.first = low /\ s.last = high
  OBVIOUS
<1> HIDE DEF s
<1>9. s \in SpanOf(cfg, kept)
  BY <1>2, <1>6, <1>7, <1>8 DEF SpanOf, InSpan
<1> QED
  BY <1>9 DEF SpanOf

\* The pack that is published: nothing while idle, else a part of the request, of
\* which the readings are safe once the span is published.
JobInv ==
  /\ phase = "idle" => accepted = {}
  /\ phase # "idle" => accepted \subseteq inbox[1].pack
  /\ phase = "span" => inbox[1].cfg # 0 /\ accepted # {} /\ \A r \in accepted : Safe(r)

\* A sensor that some refresh has seen as it is stands so in a loaded cache, and in
\* whatever a refresh under way may have read.
CacheInv ==
  \A s \in known : /\ sensors[s] # NoRow
                   /\ ownersLoaded => owners[s] = sensors[s]
                   /\ \A t \in answers : t[s] = sensors[s]

IngestionGood == IngestionTypeOK /\ JobInv /\ CacheInv

\* What a step of ingestion may do to a reading: publish one of a request.
QueuesGrow ==
  /\ UNCHANGED <<tables, tableVars>>
  /\ \A r \in Readings : readingQ'[r] >= readingQ[r]
  /\ \A s \in Spans : telemetryQ'[s] >= telemetryQ[s]
  /\ \A r \in Readings : readingQ'[r] > 0 => readingQ[r] > 0 \/ InFlight(r)
IngestionMoves ==
  /\ QueuesGrow /\ UNCHANGED stationRest
  /\ \A r \in Readings : InFlight(r)' => InFlight(r)

AllGood == StationGood /\ QueueTypeOK /\ IngestionGood

\* The requests stand, and what was safe or covered stays so.
LEMMA MovesKeep ==
  ASSUME QueueTypeOK, QueueTypeOK', IngestionMoves
  PROVE  /\ \A r \in Readings : Safe(r) => Safe(r)'
         /\ \A r \in Readings, v \in Versions : Covered(r, v) => Covered(r, v)'
  BY DEF QueueTypeOK, IngestionMoves, QueuesGrow, tables, tableVars, stationRest, history, Safe, Gone,
     Covered

\* Unless it answers, the station does not see what ingestion does, be it that its
\* requests are lost.
LEMMA Unanswered ==
  ASSUME StationGood, QueueTypeOK, QueueTypeOK', IngestionMoves, UNCHANGED reply,
         UNCHANGED inbox \/ inbox' = <<>>
  PROVE  StationGood'
<1>1. /\ inbox' \in Seq(Messages) /\ (inbox' = <<>> => Len(inbox') = 0)
      /\ UNCHANGED <<file, taken, own, tx, left, recCfg, version, dropped, told, wiped, sensors, deleted>>
  BY EmptySeq DEF QueuesGrow, tableVars, StationGood, StationTypeOK, Messages, IngestionMoves, stationRest, fileVars, txVars,
     history
<1>2. StationTypeOK' /\ LinkInv'
  BY <1>1 DEF StationGood, StationTypeOK, Messages, StationInv, LinkInv
<1>3. /\ \A r \in Readings : Safe(r) => Safe(r)'
      /\ \A r \in Readings, v \in Versions : Covered(r, v) => Covered(r, v)'
  BY MovesKeep
<1>4. /\ file \subseteq Readings /\ reply.accepted \subseteq Readings /\ recCfg \in Versions \cup {0}
      /\ told \subseteq Readings \X Versions
  BY DEF StationGood, StationTypeOK
<1>5. DeliveredInv' /\ ReplyInv' /\ TakenInv'
  BY <1>1, <1>3, <1>4 DEF StationGood, StationTypeOK, StationInv, DeliveredInv, Buffered, Has, ReplyInv,
     TakenInv
<1>6. SpanCovers'
  <2>1. \A p \in told : Covered(p[1], p[2])'
    BY <1>3, <1>4 DEF StationGood, StationInv, SpanCovers, Covered
  <2> QED
    BY <1>1, <2>1 DEF SpanCovers, Covered
<1>7. FreshInv' /\ OwnInv'
  <2>0. OwnInv'
    BY <1>1 DEF StationGood, StationInv, OwnInv, Was
  <2> SUFFICES ASSUME NEW r \in Readings, r \notin taken
               PROVE  r \notin file /\ ~InFlight(r)' /\ readingQ'[r] = 0
    BY <1>1, <2>0 DEF FreshInv
  <2>1. r \notin file /\ ~InFlight(r) /\ readingQ[r] = 0
    BY DEF StationGood, StationInv, FreshInv
  <2>2. ~InFlight(r)' /\ ~(readingQ'[r] > 0)
    BY <2>1 DEF IngestionMoves, QueuesGrow
  <2> QED
    BY <2>1, <2>2 DEF QueueTypeOK
<1> QED
  BY <1>2, <1>5, <1>6, <1>7 DEF StationGood, StationInv

\* An answer ends the job and takes the request: what it calls accepted is safe, and
\* covered by a span when the station declared a version.
LEMMA AnswerStep ==
  ASSUME StationGood, QueueTypeOK, QueueTypeOK', IngestionTypeOK, JobInv, inbox # <<>>, QueuesGrow,
         NEW ok \in BOOLEAN, Answer(ok), NEW cfg, cfg = inbox[1].cfg,
         NEW kept, kept = accepted,
         ok => \A r \in kept : Safe(r)' /\ (cfg # 0 => Covered(r, cfg)')
  PROVE  /\ StationGood' /\ IngestionMoves
         /\ phase' = "idle" /\ second' = FALSE /\ accepted' = {}
<1> USE DEF StationGood
<1> DEFINE n == Len(inbox)
<1>1. /\ inbox \in Seq(Messages) /\ n \in Nat /\ 1 \in 1..n /\ Request = inbox[1]
      /\ inbox[1] \in Messages
  <2>1. inbox \in Seq(Messages)
    BY DEF StationTypeOK, Messages
  <2> QED
    BY <2>1, InboxFacts DEF Request
<1>2. /\ inbox' = Tail(inbox) /\ UNCHANGED stationRest
      /\ phase' = "idle" /\ second' = FALSE /\ accepted' = {}
  BY DEF Answer
<1>3. /\ inbox' \in Seq(Messages) /\ Len(inbox') = n - 1
      /\ \A i \in 1..(n - 1) : i + 1 \in 1..n /\ inbox'[i] = inbox[i + 1]
  BY <1>1, <1>2, HeadTailProperties
<1>4. accepted \subseteq Readings /\ accepted \subseteq inbox[1].pack
  BY DEF IngestionTypeOK, JobInv
<1>5. \A r \in Readings : InFlight(r)' => InFlight(r)
  BY <1>1, <1>3 DEF InFlight
<1>6. IngestionMoves
  BY <1>2, <1>5 DEF IngestionMoves
<1>7. /\ \A r \in Readings : Safe(r) => Safe(r)'
      /\ \A r \in Readings, v \in Versions : Covered(r, v) => Covered(r, v)'
  BY <1>6, MovesKeep
<1>8. UNCHANGED <<file, taken, own, tx, left, recCfg, version, dropped, told, wiped, sensors, deleted>>
  BY <1>2 DEF stationRest, fileVars, txVars, history, QueuesGrow, tableVars
<1> DEFINE answer == [ok |-> ok, accepted |-> accepted, dropped |-> inbox[1].pack \ accepted,
                      none |-> FALSE]
<1>9. /\ answer \in Replies /\ ~answer.none /\ answer.accepted = accepted
      /\ answer.ok = ok /\ answer.accepted \cup answer.dropped = inbox[1].pack
  BY <1>1, <1>4 DEF Replies, Messages
<1>10. reply' = IF inbox[1].live THEN answer ELSE reply
  BY <1>1 DEF Answer
<1> HIDE DEF answer
<1>11. StationTypeOK'
  BY <1>3, <1>8, <1>9, <1>10 DEF StationTypeOK, Messages, Replies
<1>12. LinkInv'
  <2>1. CASE inbox[1].live
    <3>1. /\ tx = "wait" /\ inbox[1].pack = Pack(left)
          /\ \A j \in 1..n : inbox[j].live => 1 = j
      BY <1>1, <2>1 DEF StationInv, LinkInv
    <3>2. \A i \in 1..(n - 1) : ~inbox'[i].live
      BY <1>1, <1>3, <3>1
    <3> QED
      BY <1>3, <1>8, <1>9, <1>10, <2>1, <3>1, <3>2 DEF StationInv, LinkInv
  <2>2. CASE ~inbox[1].live
    <3>1. reply' = reply
      BY <1>10, <2>2
    <3>2. \A i \in 1..(n - 1) : inbox'[i].live =>
            /\ tx = "wait" /\ reply.none /\ inbox'[i].pack = Pack(left) /\ inbox'[i].cfg = recCfg
            /\ \A j \in 1..(n - 1) : inbox'[j].live => i = j
      <4> SUFFICES ASSUME NEW i \in 1..(n - 1), inbox'[i].live
          PROVE  /\ tx = "wait" /\ reply.none
                 /\ inbox'[i].pack = Pack(left) /\ inbox'[i].cfg = recCfg
                 /\ \A j \in 1..(n - 1) : inbox'[j].live => i = j
        OBVIOUS
      <4>1. i + 1 \in 1..n /\ inbox'[i] = inbox[i + 1] /\ inbox[i + 1].live
        BY <1>3
      <4>2. /\ tx = "wait" /\ reply.none
            /\ inbox[i + 1].pack = Pack(left) /\ inbox[i + 1].cfg = recCfg
            /\ \A j \in 1..n : inbox[j].live => i + 1 = j
        BY <4>1 DEF StationInv, LinkInv
      <4>3. ASSUME NEW j \in 1..(n - 1), inbox'[j].live PROVE i = j
        <5>1. j + 1 \in 1..n /\ inbox[j + 1].live
          BY <1>3, <4>3
        <5>2. i + 1 = j + 1
          BY <4>2, <5>1
        <5> QED
          BY <1>1, <5>2
      <4> QED
        BY <4>1, <4>2, <4>3
    <3> QED
      BY <1>3, <1>8, <3>1, <3>2 DEF StationInv, LinkInv
  <2> QED
    BY <2>1, <2>2
<1>13. file \subseteq Readings /\ reply.accepted \subseteq Readings /\ recCfg \in Versions \cup {0}
       /\ told \subseteq Readings \X Versions
  BY DEF StationTypeOK
<1>14. DeliveredInv' /\ TakenInv' /\ OwnInv'
  BY <1>7, <1>8, <1>13
  DEF StationTypeOK, StationInv, DeliveredInv, Buffered, Has, TakenInv, OwnInv, Was
<1>15. ReplyInv'
  <2>1. CASE inbox[1].live
    <3>1. cfg = recCfg'
      BY <1>1, <1>8, <2>1 DEF StationInv, LinkInv
    <3>2. reply'.accepted = kept /\ reply'.ok = ok
      BY <1>9, <1>10, <2>1
    <3> QED
      BY <3>1, <3>2 DEF ReplyInv
  <2>2. CASE ~inbox[1].live
    BY <1>7, <1>8, <1>10, <1>13, <2>2 DEF StationInv, ReplyInv
  <2> QED
    BY <2>1, <2>2
<1>16. SpanCovers'
  <2>1. \A p \in told : Covered(p[1], p[2])'
    BY <1>7, <1>13 DEF StationInv, SpanCovers, Covered
  <2> QED
    BY <1>8, <2>1 DEF SpanCovers, Covered
<1>17. FreshInv'
  <2> SUFFICES ASSUME NEW r \in Readings, r \notin taken
               PROVE  r \notin file /\ ~InFlight(r)' /\ readingQ'[r] = 0
    BY <1>8 DEF FreshInv
  <2>1. r \notin file /\ ~InFlight(r) /\ readingQ[r] = 0
    BY DEF StationInv, FreshInv
  <2>2. ~InFlight(r)' /\ ~(readingQ'[r] > 0)
    BY <1>5, <2>1 DEF QueuesGrow
  <2> QED
    BY <2>1, <2>2 DEF QueueTypeOK
<1> QED
  BY <1>2, <1>6, <1>11, <1>12, <1>14, <1>15, <1>16, <1>17 DEF StationInv

\* What is published: the readings of the pack, or its span; all of it is then queued.
LEMMA PublishStep ==
  ASSUME StationGood, QueueTypeOK, IngestionGood, phase # "idle", UNCHANGED <<tables, tableVars>>,
         NEW bodies \in SUBSET Bodies, Publish(bodies)
  PROVE  /\ QueueTypeOK' /\ QueuesGrow
         /\ phase = "readings" => \A r \in bodies : readingQ'[r] > 0
         /\ phase = "span" => \A s \in bodies : telemetryQ'[s] > 0
<1> USE DEF QueueTypeOK
<1>1. inbox # <<>> /\ accepted \subseteq Readings /\ accepted \subseteq inbox[1].pack
      /\ phase \in {"readings", "span"}
  BY DEF IngestionGood, IngestionTypeOK, JobInv, Producers
<1>2. Len(inbox) \in Nat /\ 1 \in 1..Len(inbox)
  BY <1>1, InboxFacts DEF StationGood, StationTypeOK, Messages
<1>3. \A r \in accepted : InFlight(r)
  BY <1>1, <1>2 DEF InFlight
<1>4. CASE phase = "readings"
  <2>1. /\ bodies \subseteq accepted /\ UNCHANGED telemetryQ
        /\ readingQ' = [m \in Readings |-> IF m \in bodies THEN readingQ[m] + 1 ELSE readingQ[m]]
    BY <1>4 DEF Publish, Bodies, Added
  <2> QED
    BY <1>1, <1>3, <1>4, <2>1 DEF QueuesGrow
<1>5. CASE phase = "span"
  <2>1. /\ bodies \subseteq Spans /\ UNCHANGED readingQ
        /\ telemetryQ' = [m \in Spans |-> IF m \in bodies THEN telemetryQ[m] + 1 ELSE telemetryQ[m]]
    BY <1>5 DEF Publish, Bodies, Added, SpanOf
  <2> QED
    BY <1>1, <1>5, <2>1 DEF QueuesGrow
<1> QED
  BY <1>1, <1>4, <1>5

\* The first message of the inbox, as a record.
LEMMA RequestFacts ==
  ASSUME StationGood, inbox # <<>>
  PROVE  /\ Request = inbox[1] /\ inbox[1] \in Messages /\ inbox[1].pack \subseteq Readings
         /\ inbox[1].cfg \in Versions \cup {0}
<1>1. inbox \in Seq(Messages)
  BY DEF StationGood, StationTypeOK, Messages
<1>2. Request = inbox[1] /\ inbox[1] \in Messages
  BY <1>1, InboxFacts DEF Request
<1> QED
  BY <1>2 DEF Messages

\* Steps that publish nothing and answer nothing.
LEMMA CacheStep ==
  ASSUME AllGood, UNCHANGED <<tables, tableVars>>, sensors \in SensorTables,
         HandlePack \/ Reconnect \/ RefreshFails \/ RefreshOwners
  PROVE  AllGood' /\ IngestionMoves
<1> USE DEF AllGood
<1>1. UNCHANGED stationVars /\ UNCHANGED queues
  BY DEF HandlePack, Reconnect, RefreshFails, RefreshOwners
<1>2. /\ UNCHANGED <<inbox, reply, readingQ, telemetryQ, file, taken, own, tx, left, recCfg, version,
                     dropped, told, wiped, rows, dead, spans, deadSpans, sensors, deleted>>
  BY <1>1 DEF stationVars, fileVars, txVars, linkVars, history, queues, tables, tableVars
<1>3. QueueTypeOK' /\ \A r : InFlight(r)' <=> InFlight(r)
  BY <1>2 DEF QueueTypeOK, InFlight
<1>4. IngestionMoves
  BY <1>2, <1>3 DEF IngestionMoves, QueuesGrow, QueueTypeOK, tables, tableVars, stationRest, fileVars,
     txVars, history
<1>5. StationGood'
  BY <1>2, <1>3, <1>4, Unanswered
<1>6. \A r : Safe(r)' <=> Safe(r)
  BY <1>2 DEF Safe, Gone
<1> USE DEF IngestionGood, IngestionTypeOK, JobInv, CacheInv
<1>7. CASE HandlePack
  <2>1. /\ inbox # <<>> /\ phase' = "readings" /\ second' = FALSE
        /\ accepted' \subseteq Request.pack /\ UNCHANGED <<cacheVars, up>>
    BY <1>7 DEF HandlePack
  <2>2. accepted' \subseteq inbox[1].pack /\ accepted' \subseteq Readings
    BY <2>1, RequestFacts
  <2>3. IngestionGood'
    BY <1>2, <2>1, <2>2 DEF cacheVars, Producers
  <2> QED
    BY <1>3, <1>4, <1>5, <2>3
<1>8. CASE Reconnect
  <2>1. /\ up' = [up EXCEPT ![phase] = TRUE] /\ second' = TRUE
        /\ UNCHANGED <<cacheVars, phase, accepted>>
    BY <1>8 DEF Reconnect
  <2>2. up' \in [Producers -> BOOLEAN] /\ second' \in BOOLEAN
    BY <2>1
  <2>3. IngestionGood'
    BY <1>2, <1>6, <2>1, <2>2 DEF cacheVars
  <2> QED
    BY <1>3, <1>4, <1>5, <2>3
<1>9. CASE RefreshFails \/ RefreshOwners
  <2>1. UNCHANGED <<phase, second, accepted, up>> /\ answers' = {sensors}
    BY <1>9 DEF RefreshFails, RefreshOwners, jobVars
  <2>2. /\ owners' \in SensorTables /\ answers' \subseteq SensorTables /\ known' \subseteq Sensors
        /\ ownersLoaded' \in BOOLEAN /\ CacheInv'
    <3>1. CASE RefreshFails
      BY <1>2, <2>1, <3>1 DEF RefreshFails
    <3>2. CASE RefreshOwners
      <4>1. /\ owners' \in answers
            /\ known' = known \cup {s \in Sensors : sensors[s] # NoRow /\ owners'[s] = sensors[s]}
        BY <3>2 DEF RefreshOwners
      <4>2. ownersLoaded' \in BOOLEAN
        BY <3>2 DEF RefreshOwners
      <4> QED
        BY <1>2, <2>1, <4>1, <4>2
    <3> QED
      BY <1>9, <3>1, <3>2
  <2>3. IngestionGood'
    BY <1>2, <1>6, <2>1, <2>2
  <2> QED
    BY <1>3, <1>4, <1>5, <2>3
<1> QED
  BY <1>7, <1>8, <1>9

\* The process of ingestion restarts: requests, cache and job are gone.
LEMMA IngestionRestartStep ==
  ASSUME AllGood, UNCHANGED <<tables, tableVars>>, sensors \in SensorTables, IngestionRestart
  PROVE  AllGood' /\ IngestionMoves
<1>1. /\ inbox' = <<>> /\ phase' = "idle" /\ second' \in BOOLEAN /\ accepted' = {}
      /\ owners' \in SensorTables /\ answers' = {sensors}
      /\ up' \in [Producers -> BOOLEAN]
      /\ UNCHANGED <<stationRest, reply, queues, known, sensors>>
  BY DEF IngestionRestart, NoSensors, SensorTables, tableVars
<1>2. ownersLoaded' \in BOOLEAN /\ ~ownersLoaded'
  BY DEF IngestionRestart
<1>3. QueueTypeOK'
  BY <1>1 DEF AllGood, QueueTypeOK, queues
<1>4. \A r : ~InFlight(r)'
  BY <1>1, EmptySeq DEF InFlight
<1>5. IngestionMoves
  BY <1>1, <1>4 DEF AllGood, QueueTypeOK, IngestionMoves, QueuesGrow, queues
<1>6. StationGood'
  BY <1>1, <1>3, <1>5, Unanswered DEF AllGood
<1>7. IngestionGood'
  BY <1>1, <1>2 DEF AllGood, IngestionGood, IngestionTypeOK, JobInv, CacheInv
<1> QED
  BY <1>3, <1>5, <1>6, <1>7 DEF AllGood

\* A pack that is not taken is answered so.
LEMMA RefuseStep ==
  ASSUME AllGood, UNCHANGED <<tables, tableVars>>, Unavailable \/ ReconnectFails
  PROVE  AllGood' /\ IngestionMoves
<1>1. /\ UNCHANGED <<queues, cacheVars, up>> /\ inbox # <<>>
  BY DEF AllGood, IngestionGood, IngestionTypeOK, Unavailable, ReconnectFails
<1>2. PICK ok \in BOOLEAN : ok = FALSE /\ Answer(ok)
  BY Zenon DEF Unavailable, ReconnectFails
<1>3. QueueTypeOK' /\ QueuesGrow
  BY <1>1 DEF AllGood, QueueTypeOK, QueuesGrow, queues
<1>4. /\ StationGood' /\ IngestionMoves
      /\ phase' = "idle" /\ second' = FALSE /\ accepted' = {}
  BY <1>1, <1>2, <1>3, AnswerStep DEF AllGood, IngestionGood
<1>5. IngestionGood'
  BY <1>1, <1>4
  DEF AllGood, IngestionGood, IngestionTypeOK, JobInv, CacheInv, cacheVars, tableVars
<1> QED
  BY <1>3, <1>4, <1>5 DEF AllGood

\* A batch that was not confirmed is tried once more, or refused.
LEMMA UnconfirmedStep ==
  ASSUME AllGood, UNCHANGED <<tables, tableVars>>, Unconfirmed
  PROVE  AllGood' /\ IngestionMoves
<1>1. /\ phase # "idle" /\ inbox # <<>> /\ UNCHANGED cacheVars
      /\ up' = [up EXCEPT ![phase] = FALSE]
  BY DEF AllGood, IngestionGood, IngestionTypeOK, Unconfirmed
<1>2. PICK bodies \in SUBSET Bodies : Publish(bodies)
  BY DEF Unconfirmed
<1>3. QueueTypeOK' /\ QueuesGrow
  BY <1>1, <1>2, PublishStep DEF AllGood
<1>4. up' \in [Producers -> BOOLEAN]
  BY <1>1 DEF AllGood, IngestionGood, IngestionTypeOK
<1>5. CASE UNCHANGED <<stationVars, jobVars>>
  <2>1. UNCHANGED <<inbox, reply, phase, second, accepted, stationRest>>
    BY <1>5 DEF stationVars, linkVars, jobVars, stationRest
  <2>2. IngestionMoves
    BY <1>3, <2>1 DEF IngestionMoves, InFlight
  <2>3. StationGood'
    BY <1>3, <2>1, <2>2, Unanswered DEF AllGood
  <2>4. \A r \in Readings : Safe(r) => Safe(r)'
    BY <1>3, <2>2, MovesKeep DEF AllGood
  <2>5. IngestionGood'
    BY <1>1, <1>4, <2>1, <2>4
    DEF AllGood, IngestionGood, IngestionTypeOK, JobInv, CacheInv, cacheVars, tableVars
  <2> QED
    BY <1>3, <2>2, <2>3, <2>5 DEF AllGood
<1>6. CASE ~UNCHANGED <<stationVars, jobVars>>
  <2>1. PICK ok \in BOOLEAN : ok = FALSE /\ Answer(ok)
    BY <1>6, Zenon DEF Unconfirmed
  <2>2. /\ StationGood' /\ IngestionMoves
        /\ phase' = "idle" /\ second' = FALSE /\ accepted' = {}
    BY <1>1, <1>3, <2>1, AnswerStep DEF AllGood, IngestionGood
  <2>3. IngestionGood'
    BY <1>1, <1>4, <2>2
    DEF AllGood, IngestionGood, IngestionTypeOK, JobInv, CacheInv, cacheVars, tableVars
  <2> QED
    BY <1>3, <2>2, <2>3 DEF AllGood
<1> QED
  BY <1>5, <1>6

\* A confirmed batch: the span follows the readings, the answer follows the last.
LEMMA ConfirmedStep ==
  ASSUME AllGood, UNCHANGED <<tables, tableVars>>, Confirmed
  PROVE  AllGood' /\ IngestionMoves
<1>1. /\ phase \in {"readings", "span"} /\ inbox # <<>> /\ UNCHANGED <<cacheVars, up>>
      /\ Publish(Bodies) /\ accepted \subseteq inbox[1].pack /\ accepted \subseteq Readings
  BY DEF AllGood, IngestionGood, IngestionTypeOK, JobInv, Confirmed, Producers
<1>2. /\ QueueTypeOK' /\ QueuesGrow
      /\ phase = "readings" => \A r \in Bodies : readingQ'[r] > 0
      /\ phase = "span" => \A s \in Bodies : telemetryQ'[s] > 0
  BY <1>1, PublishStep DEF AllGood
<1>3. /\ Request = inbox[1] /\ inbox[1] \in Messages /\ inbox[1].cfg \in Versions \cup {0}
  BY <1>1, RequestFacts DEF AllGood
<1>4. phase = "readings" => \A r \in accepted : readingQ'[r] > 0
  BY <1>2 DEF Bodies
<1>5. CASE phase = "readings" /\ inbox[1].cfg # 0 /\ accepted # {}
  <2>1. phase' = "span" /\ second' = FALSE /\ UNCHANGED <<stationVars, accepted>>
    BY <1>3, <1>5 DEF Confirmed
  <2>2. UNCHANGED <<inbox, reply, accepted, stationRest>>
    BY <2>1 DEF stationVars, linkVars, stationRest
  <2>3. IngestionMoves
    BY <1>2, <2>2 DEF IngestionMoves, InFlight
  <2>4. StationGood'
    BY <1>2, <2>2, <2>3, Unanswered DEF AllGood
  <2>5. \A r \in accepted : Safe(r)'
    BY <1>4, <1>5 DEF Safe
  <2>6. IngestionTypeOK' /\ CacheInv'
    BY <1>1, <2>1, <2>2
    DEF AllGood, IngestionGood, IngestionTypeOK, CacheInv, cacheVars, tableVars, Producers
  <2>7. JobInv'
    BY <1>1, <1>5, <2>1, <2>2, <2>5 DEF JobInv
  <2> QED
    BY <1>2, <2>3, <2>4, <2>6, <2>7 DEF AllGood, IngestionGood
<1>6. CASE ~(phase = "readings" /\ inbox[1].cfg # 0 /\ accepted # {})
  <2>1. PICK ok \in BOOLEAN : ok = TRUE /\ Answer(ok)
    BY <1>3, <1>6, Zenon DEF Confirmed
  <2>2. PICK cfg \in Versions \cup {0} : cfg = inbox[1].cfg
    BY <1>3
  <2>3. PICK kept \in SUBSET Readings : kept = accepted
    BY <1>1
  <2>4. ASSUME NEW r \in kept PROVE Safe(r)' /\ (cfg # 0 => Covered(r, cfg)')
    <3>1. CASE phase = "readings"
      BY <1>4, <1>6, <2>2, <2>3, <2>4, <3>1 DEF Safe
    <3>2. CASE phase = "span"
      <4>1. Safe(r) /\ cfg \in Versions /\ kept # {}
        BY <2>2, <2>3, <2>4, <3>2 DEF AllGood, IngestionGood, JobInv
      <4>2. Safe(r)'
        <5>1. \/ r \in rows \cup dead \cup dropped \cup wiped \/ readingQ[r] > 0 \/ Gone(r)
          BY <4>1 DEF Safe
        <5>2. /\ UNCHANGED <<rows, dead, dropped, wiped, deleted>> /\ readingQ'[r] >= readingQ[r]
          BY <1>2, <2>1, <2>4 DEF QueuesGrow, Answer, stationRest, history, tables, tableVars
        <5>3. readingQ[r] \in Nat /\ readingQ'[r] \in Nat
          BY <1>2, <2>4 DEF AllGood, QueueTypeOK
        <5> QED
          BY <5>1, <5>2, <5>3 DEF Safe, Gone
      <4>3. Bodies = SpanOf(cfg, kept)
        BY <1>3, <2>2, <2>3, <3>2 DEF Bodies
      <4>4. PICK s \in Spans : s \in SpanOf(cfg, kept) /\ s.version = cfg /\ InSpan(r, s)
        BY <2>4, <4>1, ThereIsASpan
      <4>5. telemetryQ'[s] > 0
        BY <1>2, <3>2, <4>3, <4>4
      <4> QED
        BY <4>2, <4>4, <4>5 DEF Covered
    <3> QED
      BY <1>1, <3>1, <3>2
  <2>5. /\ StationGood' /\ IngestionMoves
        /\ phase' = "idle" /\ second' = FALSE /\ accepted' = {}
    BY <1>1, <1>2, <2>1, <2>2, <2>3, <2>4, AnswerStep DEF AllGood, IngestionGood
  <2>6. IngestionGood'
    BY <1>1, <2>5
    DEF AllGood, IngestionGood, IngestionTypeOK, JobInv, CacheInv, cacheVars, tableVars
  <2> QED
    BY <1>2, <2>5, <2>6 DEF AllGood
<1> QED
  BY <1>5, <1>6

\* Ingestion loses nothing of a request: it publishes it, or the station keeps it.
LEMMA IngestionGoesOn ==
  ASSUME AllGood, UNCHANGED <<tables, tableVars>>, sensors \in SensorTables, IngestionNext
  PROVE  AllGood' /\ IngestionMoves
  BY CacheStep, IngestionRestartStep, RefuseStep, UnconfirmedStep, ConfirmedStep
  DEF IngestionNext, IngestionWorks

-----------------------------------------------------------------------------
(* The pipeline *)

TableGood == sensors \in SensorTables /\ deleted \subseteq Sensors
PipeInv == faults \in 0..MaxFaults /\ TableGood /\ AllGood /\ WriterGood

\* Every step is a fault that is counted, or none.
LEMMA FaultsAreCounted ==
  ASSUME faults \in 0..MaxFaults, PipeNext
  PROVE  faults' \in 0..MaxFaults
<1>1. SUFFICES Fault \/ NoFault
  BY ReadingsAssumption DEF Fault, NoFault
<1>2. StationNext => Fault \/ NoFault
  BY DEF StationNext, StationWorks, appendReading, ConfigUpdated, TransmitBegin, SendPack, SendFails,
     ReplyArrives, ReplyTimeout, Rewrite, CrashInWrite, StationCrash, StationRestart
<1>3. IngestionNext => Fault \/ NoFault
  BY DEF IngestionNext, IngestionWorks, HandlePack, Unavailable, Confirmed, Reconnect, RefreshOwners,
     RefreshFails, IngestionRestart, Unconfirmed, ReconnectFails
<1>4. WriterNext => Fault \/ NoFault
  BY DEF WriterNext, WriterWorks, waitForBroker, waitForDatabase, ConsumeReading, ConsumeSpan,
     WriteSucceeds, WriteRejected, SpanRejected, deadLetter, Settle, WriteFails, ConsumerLost,
     WriterRestart
<1>5. TableNext => Fault \/ NoFault
  BY DEF TableNext, SensorRegistered, SensorUpdated, SensorDeleted
<1> QED
  BY <1>2, <1>3, <1>4, <1>5 DEF PipeNext, StationStep, IngestionStep, WriterStep

\* A step of the station seen from the queues, ingestion and the writer.
LEMMA StationKeepsAll ==
  ASSUME PipeInv, StationStep
  PROVE  AllGood' /\ WriterGood' /\ StationMoves
<1>1. StationNext /\ Elsewhere /\ UNCHANGED <<tableVars, ingestionVars, queues, writerVars>>
  BY DEF StationStep, StationRests, Elsewhere, writerVars
<1>2. StationGood' /\ StationMoves
  BY <1>1, StationGoesOn DEF PipeInv, TableGood, AllGood
<1>3. QueueTypeOK' /\ WriterGood'
  BY <1>1 DEF PipeInv, WriterGood, QueueTypeOK, WriterTypeOK, WriterInv, Idle, Gone, queues, writerVars,
     handler, tables, tableVars
<1>4. UNCHANGED <<sensors, owners, ownersLoaded, answers, known, phase, second, accepted, up>>
  BY <1>1 DEF ingestionVars, cacheVars, jobVars, tableVars
<1>5. IngestionTypeOK' /\ CacheInv'
  BY <1>2, <1>4 DEF PipeInv, AllGood, IngestionGood, IngestionTypeOK, CacheInv, StationMoves
<1>6. \A r \in Readings : Safe(r) => Safe(r)'
  BY <1>1, <1>2, SafeStays DEF StationMoves
<1>7. JobInv'
  BY <1>2, <1>4, <1>6 DEF PipeInv, AllGood, IngestionGood, IngestionTypeOK, JobInv, StationMoves
<1> QED
  BY <1>2, <1>3, <1>5, <1>7 DEF AllGood, IngestionGood

\* A step of ingestion seen from the writer: a message it holds is still in its queue.
LEMMA IngestionKeepsAll ==
  ASSUME PipeInv, IngestionStep
  PROVE  AllGood' /\ WriterGood' /\ IngestionMoves
<1>1. IngestionNext /\ UNCHANGED writerVars /\ UNCHANGED <<tables, tableVars>>
  BY DEF IngestionStep, IngestionRests, writerVars
<1>2. AllGood' /\ IngestionMoves
  BY <1>1, IngestionGoesOn DEF PipeInv, TableGood
<1>3. UNCHANGED <<mqUp, dbDown, reading, span, outcome, rows, spans, dead, deadSpans, deleted>>
  BY <1>1 DEF writerVars, handler, tables, tableVars
<1>4. /\ QueueTypeOK /\ QueueTypeOK' /\ WriterTypeOK /\ WriterInv
      /\ \A r \in Readings : readingQ'[r] >= readingQ[r]
      /\ \A s \in Spans : telemetryQ'[s] >= telemetryQ[s]
  BY <1>2 DEF PipeInv, AllGood, WriterGood, IngestionMoves, QueuesGrow
<1>5. /\ reading # 0 => readingQ'[reading] > 0
      /\ span # NoSpan => telemetryQ'[span] > 0
  BY <1>4, Numbers DEF QueueTypeOK, WriterTypeOK
<1>6. WriterTypeOK' /\ WriterInv'
  BY <1>3, <1>4, <1>5 DEF WriterTypeOK, WriterInv, Idle, Gone
<1> QED
  BY <1>2, <1>4, <1>6 DEF WriterGood

\* A queued reading was taken, so that its sensor was there.
LEMMA QueuedWas ==
  ASSUME PipeInv
  PROVE  QueuedInv
<1> SUFFICES ASSUME NEW r \in Readings, readingQ[r] > 0
             PROVE  sensors[SensorOf[r]] # NoRow \/ Gone(r)
  BY DEF QueuedInv
<1>1. r \in taken
  BY DEF PipeInv, AllGood, StationGood, StationInv, FreshInv
<1> QED
  BY <1>1 DEF PipeInv, AllGood, StationGood, StationInv, OwnInv, Was, Gone

\* A step of the writer seen from the station: what it erased is still safe.
LEMMA WriterKeepsAll ==
  ASSUME PipeInv, WriterStep
  PROVE  AllGood' /\ WriterGood' /\ WriterKeeps
<1>1. WriterNext /\ UNCHANGED tableVars /\ UNCHANGED <<stationVars, ingestionVars>>
  BY DEF WriterStep, WriterRests
<1>2. WriterGood' /\ WriterKeeps
  BY <1>1, QueuedWas, WriterGoesOn DEF PipeInv
<1>3. UNCHANGED <<file, taken, own, tx, left, recCfg, version, inbox, reply, dropped, told, wiped, sensors,
                  deleted, owners, ownersLoaded, answers, known, phase, second, accepted, up>>
  BY <1>1 DEF stationVars, fileVars, txVars, linkVars, history, ingestionVars, cacheVars, jobVars, tableVars
<1>4. /\ \A r \in Readings : Safe(r) => Safe(r)'
      /\ \A r \in Readings, v \in Versions : Covered(r, v) => Covered(r, v)'
  BY <1>2, <1>3 DEF WriterKeeps, Recorded, Safe, Gone
<1>5. /\ StationTypeOK /\ StationInv /\ IngestionTypeOK /\ JobInv /\ CacheInv
      /\ file \subseteq Readings /\ reply.accepted \subseteq Readings
      /\ recCfg \in Versions \cup {0} /\ told \subseteq Readings \X Versions
  BY DEF PipeInv, AllGood, StationGood, StationTypeOK, IngestionGood
<1>6. StationTypeOK' /\ LinkInv' /\ IngestionTypeOK' /\ CacheInv'
  BY <1>3, <1>5 DEF StationTypeOK, StationInv, LinkInv, IngestionTypeOK, CacheInv
<1>7. DeliveredInv' /\ ReplyInv' /\ TakenInv' /\ OwnInv'
  BY <1>3, <1>4, <1>5
  DEF StationTypeOK, StationInv, DeliveredInv, Buffered, Has, ReplyInv, TakenInv, OwnInv, Was
<1>8. JobInv'
  BY <1>3, <1>4, <1>5 DEF JobInv, IngestionTypeOK
<1>9. SpanCovers'
  <2>1. \A p \in told : Covered(p[1], p[2])'
    BY <1>4, <1>5 DEF StationInv, SpanCovers, Covered
  <2> QED
    BY <1>3, <2>1 DEF SpanCovers, Covered
<1>10. FreshInv'
  <2> SUFFICES ASSUME NEW r \in Readings, r \notin taken
               PROVE  r \notin file /\ ~InFlight(r)' /\ readingQ'[r] = 0
    BY <1>3 DEF FreshInv
  <2>1. r \notin file /\ ~InFlight(r) /\ readingQ[r] = 0
    BY <1>5 DEF StationInv, FreshInv
  <2>2. ~InFlight(r)' /\ ~(readingQ'[r] > 0)
    BY <1>2, <1>3, <2>1 DEF InFlight, WriterKeeps
  <2>3. readingQ'[r] \in Nat
    BY <1>2 DEF WriterGood, QueueTypeOK
  <2> QED
    BY <2>1, <2>2, <2>3
<1> QED
  BY <1>2, <1>6, <1>7, <1>8, <1>9, <1>10 DEF AllGood, StationGood, StationInv, IngestionGood, WriterGood

\* What a change of a row may do to a reading: it goes with its sensor.
TableMoves ==
  /\ deleted \subseteq deleted' /\ rows' \subseteq rows
  /\ \A r \in rows \ rows' : Gone(r)'
  /\ UNCHANGED <<stationVars, queues, dead>>

\* A change of a row seen from everybody: no cached row of a sensor counts as seen that
\* is not as it stands.
LEMMA TableKeepsAll ==
  ASSUME PipeInv, TableNext
  PROVE  TableGood' /\ AllGood' /\ WriterGood' /\ TableMoves
<1>1. PICK s \in Sensors, row \in Rows \cup {NoRow} :
        /\ RowChanged(s, row)
        /\ row # NoRow \/ s \in deleted'
        /\ deleted \subseteq deleted' /\ deleted' \subseteq deleted \cup {s}
        /\ rows' \subseteq rows
        /\ \A r \in rows : (SensorOf[r] = s /\ s \in deleted') \/ r \in rows'
        /\ UNCHANGED <<mqUp, dbDown, handler, spans, dead, deadSpans>>
  <2>1. PICK s \in Sensors :
          \/ SensorDeleted(s)
          \/ \E row \in Rows : SensorRegistered(s, row) \/ SensorUpdated(s, row)
    BY DEF TableNext
  <2>2. CASE SensorDeleted(s)
    <3>1. /\ RowChanged(s, NoRow) /\ deleted' = deleted \cup {s}
          /\ rows' = {r \in rows : SensorOf[r] # s}
          /\ UNCHANGED <<mqUp, dbDown, handler, spans, dead, deadSpans>>
      BY <2>2 DEF SensorDeleted
    <3> QED
      BY <3>1
  <2>3. ASSUME NEW row \in Rows, SensorRegistered(s, row) \/ SensorUpdated(s, row)
        PROVE  /\ RowChanged(s, row) /\ row # NoRow
               /\ UNCHANGED <<deleted, rows, mqUp, dbDown, handler, spans, dead, deadSpans>>
    BY <2>3, ReadingsAssumption DEF SensorRegistered, SensorUpdated, writerVars, tables
  <2> QED
    BY <2>1, <2>2, <2>3
<1>2. /\ sensors' = [sensors EXCEPT ![s] = row] /\ sensors \in SensorTables
      /\ sensors' \in SensorTables /\ sensors'[s] = row
      /\ \A q \in Sensors \ {s} : sensors'[q] = sensors[q]
      /\ answers' = answers \cup {sensors'} /\ known' = known \ {s}
      /\ UNCHANGED <<stationVars, owners, ownersLoaded, jobVars, up, queues>>
  BY <1>1 DEF RowChanged, PipeInv, TableGood, SensorTables
<1> HIDE DEF SensorTables
<1>3. UNCHANGED <<file, taken, own, tx, left, recCfg, version, inbox, reply, dropped, told, wiped, readingQ,
                  telemetryQ, phase, second, accepted, reading, span, outcome>>
  BY <1>1, <1>2 DEF stationVars, fileVars, txVars, linkVars, history, jobVars, queues, handler
<1>4. /\ TableGood' /\ TableMoves
      /\ \A r : Gone(r) => Gone(r)'
      /\ \A q \in Sensors : Was(q) => Was(q)'
  <2>1. TableGood'
    BY <1>1, <1>2 DEF PipeInv, TableGood
  <2>2. TableMoves
    BY <1>1, <1>2 DEF TableMoves, Gone
  <2>3. \A r : Gone(r) => Gone(r)'
    BY <1>1 DEF Gone
  <2>4. \A q \in Sensors : Was(q) => Was(q)'
    BY <1>1, <1>2 DEF Was
  <2> QED
    BY <2>1, <2>2, <2>3, <2>4
<1>5. /\ \A r : Safe(r) => Safe(r)'
      /\ \A r, v : Covered(r, v)' <=> Covered(r, v)
      /\ \A r : InFlight(r)' <=> InFlight(r)
  <2>1. \A r : Safe(r) => Safe(r)'
    BY <1>1, <1>3, <1>4 DEF Safe, TableMoves
  <2>2. \A r, v : Covered(r, v)' <=> Covered(r, v)
    BY <1>1, <1>3 DEF Covered
  <2> QED
    BY <1>3, <2>1, <2>2 DEF InFlight
<1>6. StationTypeOK' /\ LinkInv'
  BY <1>3 DEF PipeInv, AllGood, StationGood, StationTypeOK, StationInv, LinkInv
<1>7. DeliveredInv' /\ ReplyInv' /\ TakenInv' /\ FreshInv'
  BY <1>3, <1>5 DEF PipeInv, AllGood, StationGood, StationInv, DeliveredInv, Buffered, Has, ReplyInv,
     TakenInv, FreshInv
<1>8. SpanCovers'
  BY <1>1, <1>3 DEF PipeInv, AllGood, StationGood, StationInv, SpanCovers
<1>9. OwnInv'
  BY <1>3, <1>4, ReadingsAssumption
  DEF PipeInv, AllGood, StationGood, StationTypeOK, StationInv, OwnInv
<1>10. StationGood' /\ QueueTypeOK'
  BY <1>3, <1>6, <1>7, <1>8, <1>9 DEF PipeInv, AllGood, StationGood, StationInv, QueueTypeOK
<1>11. IngestionTypeOK' /\ JobInv'
  BY <1>2, <1>3, <1>5 DEF PipeInv, AllGood, IngestionGood, IngestionTypeOK, JobInv
<1>12. CacheInv'
  BY <1>2 DEF PipeInv, AllGood, IngestionGood, IngestionTypeOK, CacheInv
<1>13. WriterGood'
  <2>1. WriterTypeOK' /\ QueueTypeOK'
    BY <1>1, <1>3, <1>10 DEF PipeInv, WriterGood, WriterTypeOK, Idle
  <2>2. WriterInv'
    BY <1>1, <1>3, <1>4 DEF PipeInv, WriterGood, WriterInv, TableMoves
  <2> QED
    BY <2>1, <2>2 DEF WriterGood
<1> QED
  BY <1>4, <1>10, <1>11, <1>12, <1>13 DEF AllGood, IngestionGood

\* Nothing is there at the start.
LEMMA PipeStarts ==
  ASSUME PipeInit
  PROVE  PipeInv
<1> USE DEF PipeInit, StationInit, IngestionInit, QueueInit, WriterInit
<1>1. inbox = <<>> /\ inbox \in Seq(Messages) /\ Len(inbox) = 0 /\ \A r : ~InFlight(r)
  BY EmptySeq DEF InFlight
<1>2. NoReply \in Replies /\ NoReply.none
  BY DEF NoReply, Replies
<1>3. StationTypeOK /\ TableGood
  BY <1>1, <1>2, AtStartAssumption DEF TableGood, StationTypeOK, Messages, Replies
<1>4. StationInv
  BY <1>1, <1>2, Numbers DEF StationInv, LinkInv, DeliveredInv, ReplyInv, SpanCovers, TakenInv, FreshInv,
     OwnInv, Was
<1>5. QueueTypeOK
  BY DEF QueueTypeOK
<1>6. IngestionGood
  BY AtStartAssumption DEF IngestionGood, IngestionTypeOK, JobInv, CacheInv, NoSensors, SensorTables
<1>7. WriterGood
  BY <1>5 DEF WriterGood, WriterTypeOK, WriterInv, Idle
<1> QED
  BY <1>3, <1>4, <1>5, <1>6, <1>7, ReadingsAssumption DEF PipeInv, AllGood, StationGood

\* The invariant of the pipeline is inductive.
LEMMA PipeGoesOn ==
  ASSUME PipeInv, PipeNext
  PROVE  PipeInv'
<1>1. faults' \in 0..MaxFaults
  BY FaultsAreCounted DEF PipeInv
<1>2. TableNext \/ UNCHANGED tableVars
  BY DEF PipeNext, StationStep, StationRests, IngestionStep, IngestionRests, WriterStep, WriterRests
<1>3. TableGood'
  BY <1>2, TableKeepsAll DEF PipeInv, TableGood, tableVars
<1> QED
  BY <1>1, <1>3, StationKeepsAll, IngestionKeepsAll, WriterKeepsAll, TableKeepsAll DEF PipeNext, PipeInv

\* Unless a variable of the pipeline changes, nothing does.
LEMMA PipeStutters ==
  ASSUME UNCHANGED pipeVars
  PROVE  /\ UNCHANGED <<faults, sensors, deleted, file, taken, own, tx, left, recCfg, version>>
         /\ UNCHANGED <<inbox, reply, dropped, told, wiped>>
         /\ UNCHANGED <<owners, ownersLoaded, answers, known, phase, second, accepted, up>>
         /\ UNCHANGED <<readingQ, telemetryQ, mqUp, dbDown, reading, span, outcome, rows, spans>>
         /\ UNCHANGED <<dead, deadSpans>>
  BY DEF pipeVars, tableVars, stationVars, fileVars, txVars, linkVars, history, ingestionVars, cacheVars, jobVars,
     queues, writerVars, handler, tables

\* The invariant holds in every state of the pipeline.
LEMMA PipeIsGood == PipeSpec => []PipeInv
<1>1. PipeInit => PipeInv
  BY PipeStarts
<1>2. PipeInv /\ [PipeNext]_pipeVars => PipeInv'
  <2>1. CASE PipeNext
    BY <2>1, PipeGoesOn
  <2>2. ASSUME PipeInv, UNCHANGED pipeVars PROVE PipeInv'
    <3> USE PipeStutters, <2>2
    <3>1. StationGood'
      BY DEF PipeInv, AllGood, StationGood, StationTypeOK, StationInv, LinkInv, DeliveredInv, Buffered,
         Has, ReplyInv, SpanCovers, TakenInv, FreshInv, OwnInv, Was, Safe, Gone, Covered, InFlight
    <3>2. IngestionGood'
      BY DEF PipeInv, AllGood, IngestionGood, IngestionTypeOK, JobInv, CacheInv, Safe, Gone
    <3>3. QueueTypeOK' /\ WriterGood' /\ faults' = faults /\ TableGood'
      BY DEF PipeInv, AllGood, QueueTypeOK, WriterGood, WriterTypeOK, WriterInv, Idle, Gone, TableGood
    <3> QED
      BY <3>1, <3>2, <3>3 DEF PipeInv, AllGood
  <2> QED
    BY <2>1, <2>2
<1> QED
  BY <1>1, <1>2, PTL DEF PipeSpec

\* Every variable of the pipeline keeps to its type: a handler that works has a request
\* or a message of its queue, and no queue goes below 0 however often a message is
\* redelivered (PipeTypeOK).
THEOREM PipeTypeCorrect == PipeSpec => []PipeTypeOK
<1>1. PipeInv => PipeTypeOK
  BY DEF PipeInv, TableGood, AllGood, StationGood, IngestionGood, WriterGood, PipeTypeOK
<1> QED
  BY <1>1, PipeIsGood, PTL

\* A reading the station erased, and had declared a configuration version for, lies in
\* the span of that version that is stored, or in one that is queued or that the database
\* rejected and the dead-letter queue has: in whatever order spans of the same version
\* are written, redelivered and rejected (SpanCovers).
THEOREM SpansCover == PipeSpec => []SpanCovers
<1>1. PipeInv => SpanCovers
  BY DEF PipeInv, AllGood, StationGood, StationInv
<1> QED
  BY <1>1, PipeIsGood, PTL

\* Each rule names a unit of the wire.
LEMMA RulesHaveUnits == \A q \in UnitRules : q.senml # ""
<1> SUFFICES ASSUME NEW q \in UnitRules PROVE q.senml # ""
  OBVIOUS
<1>1. q.senml \in {"Cel", "%RH", "/", "Pa", "lx"}
  BY SMT DEF UnitRules
<1> QED
  BY <1>1

\* A value of a sensor that has a unit arrives: a rule that converts it one way
\* converts it back.
LEMMA ValuesArrive ==
  ASSUME NEW value, NEW row, NEW unit, unit = row.unit, unit # ""
  PROVE  Arrives(value, row, unit) # {}
<1> DEFINE rules == RulesFor(unit, row.type)
           rule == CHOOSE r \in rules : TRUE
           sent == fromSensorUnit(value, unit, row.type)
<1>1. CASE rules = {}
  <2>1. sent.unit = unit
    BY <1>1 DEF fromSensorUnit
  <2>2. toSensorUnit(sent.value, unit, unit) = {sent.value}
    BY DEF toSensorUnit
  <2> QED
    BY <2>1, <2>2, Zenon DEF Arrives
<1>2. CASE rules # {}
  <2>1. rule \in rules
    BY <1>2
  <2>2. rule \in UnitRules /\ rule.sensor = unit
    BY <2>1 DEF RulesFor
  <2>3. rule.senml # ""
    BY <2>2, RulesHaveUnits
  <2>4. sent.unit = rule.senml
    BY <1>2 DEF fromSensorUnit
  <2> HIDE DEF rule, sent
  <2>5. toSensorUnit(sent.value, rule.senml, unit) # {}
    BY <2>2, <2>3 DEF toSensorUnit
  <2>6. Arrives(value, row, unit) = toSensorUnit(sent.value, sent.unit, unit)
    BY DEF Arrives, sent
  <2> QED
    BY <2>4, <2>5, <2>6
<1> QED
  BY <1>1, <1>2

\* Only a pack that is handled starts a job.
LEMMA JobsStartWithAPack ==
  ASSUME PipeNext, phase = "idle", phase' = "readings"
  PROVE  HandlePack
<1>1. IngestionStep
  BY DEF PipeNext, StationStep, StationRests, WriterStep, WriterRests, TableNext, SensorRegistered,
     SensorUpdated, SensorDeleted, RowChanged, ingestionVars, jobVars
<1> QED
  BY <1>1 DEF IngestionStep, IngestionNext, IngestionWorks, Unavailable, Confirmed, Reconnect,
     RefreshOwners, RefreshFails, IngestionRestart, Unconfirmed, ReconnectFails, Answer, jobVars

\* A pack is not stripped of a reading of a sensor whose row, as it stands, some refresh
\* has seen, and whose unit the station converted with: a refresh that fails keeps the
\* map, one that succeeds has no older row of the sensor, and after a restart no pack is
\* handled before a refresh has succeeded (KnownIsAccepted).
THEOREM KnownSensorsAccepted == PipeSpec => KnownIsAccepted
<1>1. ASSUME PipeInv, PipeNext, phase = "idle", phase' = "readings", NEW r \in Request.pack,
             Agreed(SensorOf[r])
      PROVE  r \in accepted'
  <2> DEFINE s == SensorOf[r]
             row == Request.own[s]
             unit == sensors[s].unit
  <2>1. HandlePack
    BY <1>1, JobsStartWithAPack
  <2>2. /\ ownersLoaded
        /\ accepted' = {q \in Request.pack : Accepts(SensorOf[q])}
    BY <2>1 DEF HandlePack
  <2>3. s \in known /\ unit = row.unit /\ unit # ""
    BY <1>1 DEF Agreed
  <2>4. owners[s] = sensors[s] /\ sensors[s] # NoRow
    BY <1>1, <2>2, <2>3 DEF PipeInv, AllGood, IngestionGood, CacheInv
  <2>5. \A value : Arrives(value, row, unit) # {}
    <3> HIDE DEF row, unit
    <3> QED
      BY <2>3, ValuesArrive
  <2>6. owners[s].unit = unit
    BY <2>4
  <2>7. Converts(s)
    BY <2>5, <2>6 DEF Converts
  <2>8. Accepts(SensorOf[r])
    BY <2>4, <2>7 DEF Accepts
  <2> QED
    BY <2>2, <2>8
<1>2. PipeInv /\ [PipeNext]_pipeVars =>
        [ phase = "idle" /\ phase' = "readings" =>
            \A r \in Request.pack : Agreed(SensorOf[r]) => r \in accepted' ]_pipeVars
  BY <1>1
<1> QED
  BY <1>2, PipeIsGood, PTL DEF PipeSpec, KnownIsAccepted

-----------------------------------------------------------------------------
(* The safety of ReadingStore *)

\* The station, a request or the queue has the reading.
Held(r) == r \in file \/ InFlight(r) \/ readingQ[r] > 0

\* What is still to be taken is recorded nowhere.
NewInv == \A r \in Readings \ taken : r \notin rows \cup dead \cup dropped \cup wiped
StoreInv == PipeInv /\ NewInv

\* What any step may do to a reading: no record of it is undone, but of the row of one
\* that goes with its sensor; only what is held is recorded, and only a reading that
\* was held, or is new, is held.
ReadingMoves(r) ==
  /\ Gone(r) => Gone(r)'
  /\ r \in rows => r \in rows' \/ Gone(r)'
  /\ r \in dead => r \in dead'
  /\ r \in dropped => r \in dropped'
  /\ r \in wiped => r \in wiped'
  /\ r \in rows' \cup dead' \cup dropped' \cup wiped' /\ ~Held(r)
       => /\ r \in rows' => r \in rows
          /\ r \in dead' => r \in dead
          /\ r \in dropped' => r \in dropped
          /\ r \in wiped' => r \in wiped
  /\ Held(r)' /\ ~Held(r) => r \notin taken /\ r \in taken'
  /\ r \in taken => r \in taken'

\* Each process moves a reading so.
LEMMA ReadingsMove ==
  ASSUME PipeInv, PipeInv', PipeNext, NEW r \in Readings
  PROVE  ReadingMoves(r)
<1>1. readingQ[r] \in Nat /\ readingQ'[r] \in Nat
  BY DEF PipeInv, AllGood, QueueTypeOK
<1>2. CASE StationStep
  <2>1. StationMoves /\ UNCHANGED <<readingQ, rows, dead, deleted>>
    BY <1>2, StationKeepsAll DEF StationStep, StationRests, queues, writerVars, tables, tableVars
  <2>2. Held(r)' /\ ~Held(r) => r \notin taken /\ r \in taken'
    BY <2>1 DEF StationMoves, Held
  <2> QED
    BY <2>1, <2>2 DEF StationMoves, ReadingMoves, Held, Gone
<1>3. CASE IngestionStep
  <2>1. /\ IngestionMoves /\ UNCHANGED <<rows, dead, deleted, file, taken, dropped, wiped>>
    BY <1>3, IngestionKeepsAll
    DEF IngestionStep, IngestionRests, IngestionMoves, writerVars, tables, tableVars, stationRest,
        fileVars, history
  <2>2. Held(r)' => Held(r)
    BY <2>1 DEF IngestionMoves, QueuesGrow, Held
  <2> QED
    BY <2>1, <2>2 DEF ReadingMoves, Gone
<1>4. CASE WriterStep
  <2>1. WriterKeeps /\ UNCHANGED <<file, taken, inbox, dropped, wiped>>
    BY <1>4, WriterKeepsAll
    DEF WriterStep, WriterRests, stationVars, fileVars, linkVars, history
  <2>2. Held(r)' => Held(r)
    BY <2>1 DEF WriterKeeps, Held, InFlight
  <2> QED
    BY <2>1, <2>2 DEF WriterKeeps, ReadingMoves, Held, Gone, tableVars
<1>5. CASE TableNext
  <2>1. TableMoves /\ UNCHANGED <<file, taken, inbox, dropped, wiped, readingQ>>
    BY <1>5, TableKeepsAll DEF TableMoves, stationVars, fileVars, linkVars, history, queues
  <2>2. Held(r)' <=> Held(r)
    BY <2>1 DEF Held, InFlight
  <2> QED
    BY <2>1, <2>2 DEF TableMoves, ReadingMoves, Gone
<1> QED
  BY <1>2, <1>3, <1>4, <1>5 DEF PipeNext

\* Where a reading is, by what holds it and what records it.
IsPlaced(r) ==
  /\ StateOf(r) = "deleted" <=> Gone(r)
  /\ ~Gone(r) =>
       /\ StateOf(r) = "stored" <=> r \in rows
       /\ StateOf(r) = "given" <=> r \notin rows /\ (r \in dead \/ (~Held(r) /\ r \in dropped))
       /\ StateOf(r) = "held" <=> r \notin rows \cup dead /\ Held(r)
       /\ StateOf(r) = "wiped" <=> r \notin rows \cup dead \cup dropped /\ ~Held(r) /\ r \in wiped
       /\ StateOf(r) = "none" <=> r \notin taken
       /\ StateOf(r) \in {"none", "held", "stored", "given", "wiped"}
Placed == \A r \in Readings : IsPlaced(r)

\* By the invariant no reading is nowhere.
LEMMA ReadingsArePlaced == StoreInv => Placed
<1> SUFFICES ASSUME StoreInv, NEW r \in Readings PROVE IsPlaced(r)
  BY DEF Placed
<1>1. readingQ[r] \in Nat
  BY DEF StoreInv, PipeInv, AllGood, QueueTypeOK
<1>2. r \notin taken => ~Held(r) /\ r \notin rows \cup dead \cup dropped \cup wiped
  BY <1>1 DEF StoreInv, NewInv, PipeInv, AllGood, StationGood, StationInv, FreshInv, Held
<1>3. r \in taken /\ ~Gone(r) => Held(r) \/ r \in rows \cup dead \cup dropped \cup wiped
  BY DEF StoreInv, PipeInv, AllGood, StationGood, StationInv, TakenInv, Safe, Held
<1>4. CASE Gone(r)
  BY <1>4 DEF IsPlaced, StateOf, Gone
<1>5. CASE ~Gone(r)
  BY <1>2, <1>3, <1>5 DEF IsPlaced, StateOf, Held, Gone
<1> QED
  BY <1>4, <1>5

\* A record is made of what was held only.
LEMMA NewStays ==
  ASSUME StoreInv, PipeInv', PipeNext
  PROVE  NewInv'
<1> SUFFICES ASSUME NEW r \in Readings, r \notin taken'
             PROVE  r \notin rows' \cup dead' \cup dropped' \cup wiped'
  BY DEF NewInv
<1>1. ReadingMoves(r)
  BY ReadingsMove DEF StoreInv
<1>2. r \notin taken /\ r \notin rows \cup dead \cup dropped \cup wiped
  BY <1>1 DEF ReadingMoves, StoreInv, NewInv
<1>3. ~Held(r)
  BY <1>2 DEF StoreInv, PipeInv, AllGood, QueueTypeOK, StationGood, StationInv, FreshInv, Held
<1> QED
  BY <1>1, <1>2, <1>3 DEF ReadingMoves

\* The invariant of all records is inductive.
LEMMA StoreInvStays ==
  ASSUME StoreInv, [PipeNext]_pipeVars, PipeInv'
  PROVE  StoreInv'
<1>1. CASE PipeNext
  BY <1>1, NewStays DEF StoreInv
<1>2. CASE UNCHANGED pipeVars
  BY <1>2, PipeStutters DEF StoreInv, NewInv
<1> QED
  BY <1>1, <1>2

\* Each reading moves as ReadingStore allows.  A stored one whose sensor is there was not
\* rejected: the two ways to leave the queue exclude each other.
LEMMA StoreMove ==
  ASSUME StoreInv, StoreInv', Placed, Placed', PipeNext, NEW r \in Readings
  PROVE  <<StateOf(r), StateOf(r)'>> \in Store!Moves
<1>1. ReadingMoves(r)
  BY ReadingsMove DEF StoreInv
<1>2. r \in rows' /\ r \in dead' => Gone(r)'
  BY DEF StoreInv, PipeInv, WriterGood, WriterInv
<1> DEFINE s == StateOf(r)
           t == StateOf(r)'
<1>3. /\ s = "deleted" <=> Gone(r)
      /\ ~Gone(r) =>
           /\ s = "stored" <=> r \in rows
           /\ s = "given" <=> r \notin rows /\ (r \in dead \/ (~Held(r) /\ r \in dropped))
           /\ s = "held" <=> r \notin rows \cup dead /\ Held(r)
           /\ s = "wiped" <=> r \notin rows \cup dead \cup dropped /\ ~Held(r) /\ r \in wiped
           /\ s = "none" <=> r \notin taken
           /\ s \in {"none", "held", "stored", "given", "wiped"}
  BY DEF Placed, IsPlaced
<1>4. /\ t = "deleted" <=> Gone(r)'
      /\ ~Gone(r)' =>
           /\ t = "stored" <=> r \in rows'
           /\ t = "given" <=> r \notin rows' /\ (r \in dead' \/ (~Held(r)' /\ r \in dropped'))
           /\ t = "held" <=> r \notin rows' \cup dead' /\ Held(r)'
           /\ t = "wiped" <=> r \notin rows' \cup dead' \cup dropped' /\ ~Held(r)' /\ r \in wiped'
           /\ t = "none" <=> r \notin taken'
           /\ t \in {"none", "held", "stored", "given", "wiped"}
  BY DEF Placed, IsPlaced
<1>5. r \notin taken => r \notin rows \cup dead \cup dropped \cup wiped /\ ~Held(r)
  BY DEF StoreInv, NewInv, PipeInv, AllGood, QueueTypeOK, StationGood, StationInv, FreshInv, Held
<1>6. r \in dead /\ ~Gone(r)' => r \notin rows'
  BY <1>1, <1>2 DEF ReadingMoves
<1> SUFFICES <<s, t>> \in Store!Moves
  OBVIOUS
<1> HIDE DEF s, t
<1>7. CASE Gone(r)'
  <2>1. t = "deleted" /\ s \in {"none", "held", "stored", "given", "wiped", "deleted"}
    BY <1>3, <1>4, <1>7
  <2> QED
    BY <2>1 DEF Store!Moves
<1>8. CASE ~Gone(r)' /\ s = "none"
  <2>1. t \in {"none", "held"}
    BY <1>1, <1>3, <1>4, <1>5, <1>8 DEF ReadingMoves
  <2> QED
    BY <1>8, <2>1 DEF Store!Moves
<1>9. CASE ~Gone(r)' /\ s = "held"
  <2>1. t # "none"
    BY <1>1, <1>3, <1>4, <1>8, <1>9 DEF ReadingMoves
  <2> QED
    BY <1>4, <1>9, <2>1 DEF Store!Moves
<1>10. CASE ~Gone(r)' /\ s = "stored"
  <2>1. t = "stored"
    BY <1>1, <1>3, <1>4, <1>10 DEF ReadingMoves
  <2> QED
    BY <1>10, <2>1 DEF Store!Moves
<1>11. CASE ~Gone(r)' /\ s = "given"
  <2>1. r \in taken
    BY <1>1, <1>3, <1>11 DEF ReadingMoves
  <2>2. t = "given"
    BY <1>1, <1>3, <1>4, <1>6, <1>11, <2>1 DEF ReadingMoves
  <2> QED
    BY <1>11, <2>2 DEF Store!Moves
<1>12. CASE ~Gone(r)' /\ s = "wiped"
  <2>1. r \in taken
    BY <1>1, <1>3, <1>12 DEF ReadingMoves
  <2>2. t = "wiped"
    BY <1>1, <1>3, <1>4, <1>12, <2>1 DEF ReadingMoves
  <2> QED
    BY <1>12, <2>2 DEF Store!Moves
<1>13. ~Gone(r)' => s \in {"none", "held", "stored", "given", "wiped"}
  BY <1>1, <1>3 DEF ReadingMoves
<1> QED
  BY <1>7, <1>8, <1>9, <1>10, <1>11, <1>12, <1>13

\* At the start no reading has been taken.
LEMMA StoreStarts == PipeInit => Store!StoreInit /\ StoreInv
<1> SUFFICES ASSUME PipeInit PROVE Store!StoreInit /\ StoreInv
  OBVIOUS
<1>1. StoreInv
  BY PipeStarts DEF StoreInv, NewInv, PipeInit, StationInit, WriterInit
<1>2. \A r \in Readings : r \notin taken /\ ~Gone(r)
  BY DEF PipeInit, StationInit, Gone
<1>3. \A r \in Readings : StateOf(r) = "none"
  BY <1>1, <1>2, ReadingsArePlaced DEF Placed, IsPlaced
<1> QED
  BY <1>1, <1>3 DEF Store!StoreInit

\* Every step of the pipeline is a step of ReadingStore or a stutter.
LEMMA StoreStep ==
  ASSUME StoreInv, StoreInv', Placed, Placed', [PipeNext]_pipeVars
  PROVE  [Store!StoreNext]_([r \in Readings |-> StateOf(r)])
<1>1. CASE PipeNext
  BY <1>1, StoreMove DEF Store!StoreNext
<1>2. CASE UNCHANGED pipeVars
  <2>1. \A r : StateOf(r)' = StateOf(r)
    BY <1>2, PipeStutters DEF StateOf, InFlight
  <2> QED
    BY <2>1
<1> QED
  BY <1>1, <1>2

\* No crash, lost answer, partial publish, requeue or redelivery loses a reading that was
\* taken, or takes back one that was stored or given up, unless its sensor is deleted: the pipeline implements the
\* safety of ReadingStore.
THEOREM StoreIsSafe == PipeSpec => Store!StoreSafety
<1>1. PipeInit => Store!StoreInit /\ StoreInv
  BY StoreStarts
<1>2. StoreInv /\ PipeInv' /\ [PipeNext]_pipeVars => StoreInv'
  BY StoreInvStays
<1>3. StoreInv /\ StoreInv' /\ Placed /\ Placed' /\ [PipeNext]_pipeVars
        => [Store!StoreNext]_([r \in Readings |-> StateOf(r)])
  BY StoreStep
<1> QED
  BY <1>1, <1>2, <1>3, PipeIsGood, ReadingsArePlaced, PTL DEF PipeSpec, Store!StoreSafety
=============================================================================
