------------------------------ MODULE Station -------------------------------
(***************************************************************************)
(* A station that measures and uploads, as the simulator implements it:    *)
(* one thread appends readings to files, others send what is in the files, *)
(* oldest first, in packs, each in a CoAP exchange of its own, and erase   *)
(* what was answered with 2.xx.                                            *)
(***************************************************************************)
EXTENDS Readings

VARIABLES
    file,       \* the readings in the .data files
    taken,      \* history: the readings taken
    own,        \* sensors_: the sensors table as the process read it at its start
    tx,         \* where the holder of deviceFileMutex_ in transmitNow() is
    left,       \* entries it has not delivered yet
    recCfg,     \* configuration version it declares, 0 for none
    version,    \* device_configurations.version, 0 without a row
    inbox,      \* the requests ingestion has not answered
    reply,      \* the answer under way to the station
    dropped,    \* history: readings answered 2.04 that ingestion discarded
    told,       \* history: <<reading, version>> answered 2.04 and published
    wiped       \* history: readings in a file truncated by a crash

fileVars == <<file, taken>>
txVars == <<tx, left, recCfg>>
linkVars == <<inbox, reply>>
history == <<dropped, told, wiped>>
stationVars == <<fileVars, own, txVars, version, linkVars, history>>

NoReply == [ok |-> FALSE, accepted |-> {}, dropped |-> {}, none |-> TRUE]

StationTypeOK ==
    /\ file \subseteq Readings /\ taken \subseteq Readings /\ own \in SensorTables
    /\ tx \in {"idle", "send", "wait", "rewrite"}
    /\ left \subseteq Readings
    /\ version \in Versions \cup {0} /\ recCfg \in Versions \cup {0}
    /\ inbox \in Seq([pack : SUBSET Readings, own : SensorTables, cfg : Versions \cup {0},
                      live : BOOLEAN])
    /\ reply \in [ok : BOOLEAN, accepted : SUBSET Readings, dropped : SUBSET Readings,
                  none : BOOLEAN]
    /\ dropped \subseteq Readings /\ wiped \subseteq Readings
    /\ told \subseteq Readings \X Versions

StationInit ==
    /\ file = {} /\ taken = {} /\ own = sensors
    /\ tx = "idle" /\ left = {} /\ recCfg = 0 /\ version = 0
    /\ inbox = <<>> /\ reply = NoReply
    /\ dropped = {} /\ told = {} /\ wiped = {}

Live(i) == inbox[i].live
\* The client's context is freed: an answer finds nobody.
Abandoned == [i \in 1..Len(inbox) |-> [inbox[i] EXCEPT !.live = FALSE]]

\* Of the entries sorted by time, the first PackSize.
Pack(entries) ==
    {r \in entries : Cardinality({q \in entries : q < r}) < PackSize}

-----------------------------------------------------------------------------
\* The sensors the process has, whose files it reads and writes.
Has(s) == own[s] # NoRow
Buffered == {r \in file : Has(SensorOf[r])}

\* generationLoop(): deviceFileMutex_ is held, so nobody transmits.
appendReading ==
    LET coming == {r \in Readings : Has(SensorOf[r]) /\ \A q \in taken : q < r}
    IN \E r \in coming :
         /\ tx = "idle" /\ \A q \in coming : r <= q
         /\ file' = file \cup {r} /\ taken' = taken \cup {r}
         /\ NoFault
         /\ UNCHANGED <<own, txVars, version, linkVars, history>>

\* Somebody updates the configuration of the device.
ConfigUpdated ==
    /\ version + 1 \in Versions
    /\ version' = version + 1
    /\ NoFault
    /\ UNCHANGED <<fileVars, own, txVars, linkVars, history>>

\* transmitNow(), of the loop or of a manual trigger.
TransmitBegin ==
    /\ tx = "idle" /\ Buffered # {}
    /\ tx' = "send" /\ left' = Buffered
    /\ \/ recCfg' = version /\ NoFault
       \/ recCfg' = 0 /\ version # 0 /\ Fault     \* reading the configuration failed
    /\ UNCHANGED <<fileVars, own, version, linkVars, history>>

\* buildPack(): the values were converted by the rows the process has.
SendPack ==
    /\ tx = "send"
    /\ inbox' = Append(inbox, [pack |-> Pack(left), own |-> own, cfg |-> recCfg, live |-> TRUE])
    /\ tx' = "wait"
    /\ NoFault
    /\ UNCHANGED <<fileVars, own, left, recCfg, version, reply, history>>

\* The handshake fails or the request is lost until sendConfirmable() gives up.
SendFails ==
    /\ tx = "send"
    /\ tx' = "rewrite"
    /\ Fault
    /\ UNCHANGED <<fileVars, own, left, recCfg, version, linkVars, history>>

\* A 2.xx: the pack is delivered.  Anything else ends the cycle.
ReplyArrives ==
    /\ tx = "wait" /\ ~reply.none
    /\ reply' = NoReply
    /\ IF reply.ok
       THEN /\ left' = left \ Pack(left)
            /\ tx' = IF left' = {} THEN "rewrite" ELSE "send"
            /\ dropped' = dropped \cup reply.dropped
            /\ told' = IF recCfg = 0 THEN told ELSE told \cup (reply.accepted \X {recCfg})
       ELSE /\ tx' = "rewrite"
            /\ UNCHANGED <<left, dropped, told>>
    /\ NoFault
    /\ UNCHANGED <<fileVars, own, recCfg, version, inbox, wiped>>

\* The deadline of sendConfirmable(): a fault, or the request is gone.
ReplyTimeout ==
    /\ tx = "wait"
    /\ IF reply.none /\ ~\E i \in 1..Len(inbox) : Live(i) THEN NoFault ELSE Fault
    /\ tx' = "rewrite"
    /\ inbox' = Abandoned /\ reply' = NoReply
    /\ UNCHANGED <<fileVars, own, left, recCfg, version, history>>

CycleEnds == tx' = "idle" /\ left' = {} /\ recCfg' = 0

\* The file of every sensor is rewritten with what was not delivered.
Rewrite ==
    /\ tx = "rewrite"
    /\ file' = left \cup (file \ Buffered)
    /\ CycleEnds
    /\ NoFault
    /\ UNCHANGED <<taken, own, version, linkVars, history>>

\* initialize(), when the process starts again: the sensors it has from then on.
LoadSensors == own' = sensors

\* The process dies with the file of sensor s truncated and not written yet.
CrashInWrite(s) ==
    /\ tx \in {"idle", "rewrite"} /\ Has(s) /\ Fault
    /\ \E done \in SUBSET {q \in Sensors \ {s} : Has(q)} :
        /\ tx = "idle" => done = {}
        /\ file' = {r \in file : /\ SensorOf[r] # s
                                 /\ SensorOf[r] \in done => r \in left}
    /\ wiped' = wiped \cup {r \in file : SensorOf[r] = s}
    /\ CycleEnds /\ LoadSensors
    /\ UNCHANGED <<taken, version, linkVars, dropped, told>>

StationCrash ==
    /\ tx # "idle" /\ Fault
    /\ CycleEnds /\ LoadSensors
    /\ inbox' = Abandoned /\ reply' = NoReply
    /\ UNCHANGED <<fileVars, version, history>>

\* Stopped and started between two cycles.
StationRestart ==
    /\ tx = "idle"
    /\ LoadSensors
    /\ NoFault
    /\ UNCHANGED <<fileVars, txVars, version, linkVars, history>>

StationWorks == \/ appendReading \/ TransmitBegin \/ SendPack \/ ReplyArrives
                \/ ReplyTimeout \/ Rewrite
StationNext == \/ StationWorks \/ ConfigUpdated \/ SendFails \/ StationCrash \/ StationRestart
               \/ \E s \in Sensors : CrashInWrite(s)
=============================================================================
