------------------------------ MODULE Catalog ------------------------------
(***************************************************************************)
(* farm_service and field_service over the tables farms and fields.  Each  *)
(* service has its own PostgreSQL connection and runs every statement in a *)
(* transaction of its own, so a statement is one step; what is not one     *)
(* step is field_service's check of the farm: it asks farm_service through *)
(* the gateway (FarmServiceClient::exists) and inserts afterwards.         *)
(*                                                                         *)
(* A row is "new" until its id is drawn from the sequence, then live, then *)
(* "gone"; ids are never given twice.  A live field's row is its farm.     *)
(***************************************************************************)
EXTENDS Naturals

CONSTANTS Farms,         \* farm ids the sequence may give
          Fields,        \* field ids
          FieldThreads   \* request threads of field_service

ASSUME CatalogAssumption == (Farms \cup Fields) \cap {"new", "gone"} = {}

VARIABLES farm,      \* the table farms: [Farms -> {"new", "live", "gone"}]
          field,     \* the table fields: [Fields -> Farms \cup {"new", "gone"}]
          fieldReq   \* the request each thread of field_service is working on

catalogVars == <<farm, field, fieldReq>>

Idle == [op |-> "idle", farm |-> "none", seen |-> FALSE, check |-> "none", answer |-> 0]

\* How FarmServiceClient::exists can come back: found, or not found with a status.
Checks == {"none", "found", "404", "500", "502", "503", "504"}

CatalogTypeOK ==
  /\ farm \in [Farms -> {"new", "live", "gone"}]
  /\ field \in [Fields -> Farms \cup {"new", "gone"}]
  /\ fieldReq \in [FieldThreads ->
        [op : {"idle", "list", "create"}, farm : Farms \cup {"none"}, seen : BOOLEAN,
         check : Checks, answer : {0, 200, 201, 404, 500, 502, 503, 504}]]

FieldsOf(g) == {f \in Fields : field[f] = g}
LiveFarm(g) == farm[g] = "live"
LiveField(f) == field[f] \in Farms

CatalogInit ==
  /\ farm = [g \in Farms |-> "new"]
  /\ field = [f \in Fields |-> "new"]
  /\ fieldReq = [t \in FieldThreads |-> Idle]

\* The statements that write a row of each table.
WriteFarm(g, state) == farm' = [farm EXCEPT ![g] = state]
WriteField(f, state) == field' = [field EXCEPT ![f] = state]

-----------------------------------------------------------------------------
\* farm_service.  The 400 answers change nothing and are left out.
FarmCreate(g) ==
  /\ farm[g] = "new"
  /\ WriteFarm(g, "live")
  /\ UNCHANGED <<field, fieldReq>>

\* farm.update and field.update: columns the properties do not tell apart.
FarmUpdate(g) == LiveFarm(g) /\ UNCHANGED catalogVars
FieldUpdate(f) == LiveField(f) /\ UNCHANGED catalogVars

\* farm.delete of any id answers success; the foreign keys cascade.
FarmDelete(g) ==
  /\ LiveFarm(g)
  /\ WriteFarm(g, "gone")
  /\ field' = [f \in Fields |-> IF f \in FieldsOf(g) THEN "gone" ELSE field[f]]
  /\ UNCHANGED fieldReq

\* field_service: a request that names a farm, field.list?farm_id= or field.create.
FieldAsk(t, op, g) ==
  /\ fieldReq[t].op = "idle" \/ fieldReq[t].answer # 0
  /\ fieldReq' = [fieldReq EXCEPT ![t] = [Idle EXCEPT !.op = op, !.farm = g]]
  /\ UNCHANGED <<farm, field>>

\* mutant: whatever went wrong is reported as a farm that does not exist
Validation_AnyFailure(success, status) == IF success THEN "found" ELSE "404"

\* The status goes on as it came; an invoke without one (0) is a 502.
Validation(success, status) ==
  IF success THEN "found"
  ELSE CASE status = 404 -> "404"
         [] status = 500 -> "500"
         [] status = 503 -> "503"
         [] status = 504 -> "504"
         [] status = 0 -> "502"

\* farm_service looks the farm up and its answer reaches exists.
FarmGet(t) ==
  /\ fieldReq[t].op # "idle" /\ fieldReq[t].check = "none"
  /\ fieldReq' = [fieldReq EXCEPT
        ![t].seen = LiveFarm(fieldReq[t].farm),
        ![t].check = Validation(LiveFarm(fieldReq[t].farm), 404)]
  /\ UNCHANGED <<farm, field>>

\* The invoke fails: not sent or cut off (0), not connected or no service (503),
\* no answer in time (504), or an error in farm_service (500).  farm_service may
\* or may not have looked.
FarmGetFails(t, status) ==
  /\ fieldReq[t].op # "idle" /\ fieldReq[t].check = "none"
  /\ fieldReq' = [fieldReq EXCEPT
        ![t].seen = LiveFarm(fieldReq[t].farm),
        ![t].check = Validation(FALSE, status)]
  /\ UNCHANGED <<farm, field>>

Status(check) ==
  CASE check = "404" -> 404 [] check = "500" -> 500 [] check = "502" -> 502
    [] check = "503" -> 503 [] check = "504" -> 504

FieldRefused(t) ==
  /\ fieldReq[t].answer = 0
  /\ fieldReq[t].check \notin {"none", "found"}
  /\ fieldReq' = [fieldReq EXCEPT ![t].answer = Status(fieldReq[t].check)]
  /\ UNCHANGED <<farm, field>>

FieldList(t) ==
  /\ fieldReq[t].op = "list" /\ fieldReq[t].check = "found" /\ fieldReq[t].answer = 0
  /\ fieldReq' = [fieldReq EXCEPT ![t].answer = 200]
  /\ UNCHANGED <<farm, field>>

\* The INSERT: the foreign key refuses a farm deleted since the check, and the
\* exception becomes "Internal server error".  A refused INSERT uses its id up.
FieldInsert(t, f) ==
  /\ fieldReq[t].op = "create" /\ fieldReq[t].check = "found" /\ fieldReq[t].answer = 0
  /\ field[f] = "new"
  /\ IF LiveFarm(fieldReq[t].farm)
     THEN /\ WriteField(f, fieldReq[t].farm)
          /\ fieldReq' = [fieldReq EXCEPT ![t].answer = 201]
     ELSE /\ WriteField(f, "gone")
          /\ fieldReq' = [fieldReq EXCEPT ![t].answer = 500]
  /\ UNCHANGED farm

FieldDelete(f) ==
  /\ LiveField(f)
  /\ WriteField(f, "gone")
  /\ UNCHANGED <<farm, fieldReq>>

\* The steps that take no row away; Devices adds the two deletions with their cascade.
CatalogStep ==
  \/ \E g \in Farms : FarmCreate(g) \/ FarmUpdate(g)
  \/ \E f \in Fields : FieldUpdate(f)
  \/ \E t \in FieldThreads :
       \/ \E g \in Farms, op \in {"list", "create"} : FieldAsk(t, op, g)
       \/ FarmGet(t)
       \/ \E status \in {0, 500, 503, 504} : FarmGetFails(t, status)
       \/ FieldRefused(t)
       \/ FieldList(t)
       \/ \E f \in Fields : FieldInsert(t, f)

-----------------------------------------------------------------------------
\* field_service answers 404 for a farm only if the farm was absent when it
\* asked: a farm_service that is down, slow or disconnected is never reported
\* as a farm that does not exist (FarmServiceClient.cpp, "so callers don't
\* misreport it as a 404").
NotFoundIsTrue == \A t \in FieldThreads : fieldReq[t].answer = 404 => ~fieldReq[t].seen
=============================================================================
