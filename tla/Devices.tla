------------------------------ MODULE Devices ------------------------------
(***************************************************************************)
(* device_service: devices and their PSK credentials, on one PostgreSQL    *)
(* connection that all its request threads share.                          *)
(*                                                                         *)
(* device.create opens a transaction on that connection, asks              *)
(* field_service whether the field exists, inserts the device, provisions  *)
(* its credential and commits.  A statement another thread runs meanwhile  *)
(* falls into the same transaction: it is undone when the creation rolls   *)
(* back, and when it fails it makes the whole transaction fail.            *)
(*                                                                         *)
(* Two handlers inside libpq at the same instant is a data race; of its    *)
(* outcomes the model has the refused statement (Fails) and the death of   *)
(* the process (Crash).                                                    *)
(***************************************************************************)
EXTENDS Catalog

CONSTANTS DeviceIds,      \* device ids the sequence may give
          DeviceThreads,  \* request threads of device_service
          MaxKey          \* bound: key generations of one credential

ASSUME DevicesAssumption == MaxKey \in Nat

VARIABLES base,   \* committed rows: devices JOIN device_credentials
          row,    \* the rows device_service's connection sees
          tx,     \* currentTransaction: "none", "open", or "failed" once a statement failed in it
          locks,  \* the open transaction holds row locks
          thr     \* the handler each thread is in, its next statement and its device

deviceVars == <<base, row, tx, locks, thr>>

NewRow == [in |-> "new", cred |-> "none", key |-> 0]
GoneRow == [in |-> "gone", cred |-> "none", key |-> 0]
Free == [op |-> "idle", next |-> "none", dev |-> "none", field |-> "none"]

\* The column of devices that matters, with what an absent row is.
Column == Fields \cup {"new", "gone"}
RowType == [in : Column, cred : {"none", "active", "revoked"}, key : 0..MaxKey]
Ops == {"create", "get", "update", "delete", "rotate", "revoke"}
Statements == {"none", "exists", "insert", "provision", "commit", "find", "write", "reread"}

DevicesTypeOK ==
  /\ base \in [DeviceIds -> RowType] /\ row \in [DeviceIds -> RowType]
  /\ tx \in {"none", "open", "failed"} /\ locks \in BOOLEAN
  /\ thr \in [DeviceThreads -> [op : Ops \cup {"idle"}, next : Statements,
                                dev : DeviceIds \cup {"none"}, field : Fields \cup {"none"}]]
  /\ tx # "open" => row = base /\ locks = FALSE

Exists(d) == row[d].in \in Fields
Active(d) == Exists(d) /\ row[d].cred = "active"

DevicesInit ==
  /\ base = [d \in DeviceIds |-> NewRow] /\ row = base
  /\ tx = "none" /\ locks = FALSE
  /\ thr = [t \in DeviceThreads |-> Free]

-----------------------------------------------------------------------------
\* PostgreSQLDatabase.

\* execQuery / execCommand of a statement that writes: in currentTransaction if
\* there is one, else in a transaction of its own.
Exec(new) ==
  /\ tx # "failed"
  /\ row' = new
  /\ base' = IF tx = "open" THEN base ELSE new
  /\ locks' = (tx = "open")
  /\ tx' = tx

Read == tx # "failed" /\ UNCHANGED <<base, row, tx, locks>>

\* A statement that throws aborts the transaction it ran in.
Throw == row' = base /\ locks' = FALSE /\ base' = base
         /\ tx' = IF tx = "none" THEN "none" ELSE "failed"

\* mutant: a second creation joins the transaction it finds open
MayBegin_Joins == TRUE

\* beginTransaction throws "Transaction already in progress" instead of waiting.
MayBegin == tx = "none"

\* COMMIT of a transaction that failed is a rollback.
Commit == base' = row /\ row' = row /\ tx' = "none" /\ locks' = FALSE

\* A rollback leaves the ids drawn from the sequence used.
Drawn == {thr[t].dev : t \in {u \in DeviceThreads : thr[u].op = "create"}}
Rollback ==
  /\ base' = [d \in DeviceIds |-> IF d \in Drawn THEN GoneRow ELSE base[d]]
  /\ row' = base' /\ tx' = "none" /\ locks' = FALSE

-----------------------------------------------------------------------------
\* The request handlers: one step per statement.
Done(t) == thr' = [thr EXCEPT ![t] = Free]
Then(t, statement) == thr' = [thr EXCEPT ![t].next = statement]
At(t, op, statement) == thr[t].op = op /\ thr[t].next = statement

CreateBegin(t, f) ==
  /\ thr[t] = Free
  /\ MayBegin
  /\ tx' = "open"
  /\ thr' = [thr EXCEPT ![t] = [op |-> "create", next |-> "exists", dev |-> "none", field |-> f]]
  /\ UNCHANGED <<base, row, locks>>

\* fieldValidator_.exists: field.get on the gateway.  Every failure of the
\* invoke counts as a field that does not exist.
CreateFieldFound(t) ==
  /\ At(t, "create", "exists") /\ LiveField(thr[t].field)
  /\ Then(t, "insert")
  /\ UNCHANGED <<base, row, tx, locks>>

CreateFieldNotFound(t) ==
  /\ At(t, "create", "exists")
  /\ Rollback /\ Done(t)

\* The two rows that a creation inserts.
DeviceRow(f) == [in |-> f, cred |-> "none", key |-> 0]
WithCredential(r) == [r EXCEPT !.cred = "active"]

\* INSERT INTO devices: the foreign key refuses a field deleted meanwhile.
CreateInsert(t, d) ==
  /\ At(t, "create", "insert")
  /\ row[d].in = "new" /\ base[d].in = "new"
  /\ LiveField(thr[t].field)
  /\ Exec([row EXCEPT ![d] = DeviceRow(thr[t].field)])
  /\ thr' = [thr EXCEPT ![t].next = "provision", ![t].dev = d]

\* INSERT INTO device_credentials: its foreign key refuses a device another
\* thread has deleted, and then the creation fails (CreateFails).
CreateProvision(t) ==
  /\ At(t, "create", "provision") /\ Exists(thr[t].dev)
  /\ Exec([row EXCEPT ![thr[t].dev] = WithCredential(@)])
  /\ Then(t, "commit")

CreateCommit(t) ==
  /\ At(t, "create", "commit")
  /\ Commit /\ Done(t)

\* A statement of the creation throws, or finds the transaction failed: TxGuard
\* rolls back.
CreateFails(t) ==
  /\ thr[t].op = "create" /\ thr[t].next \in {"insert", "provision", "commit"}
  /\ Rollback /\ Done(t)

\* device.get and device.list, device_credential.get_active and list_active: one read.
GetDevice(t) == thr[t] = Free /\ Read /\ UNCHANGED thr
ListDevices(t) == GetDevice(t)
GetActive(t, d) == Active(d) /\ GetDevice(t)
ListActive(t) == GetDevice(t)

\* The other handlers look the row up first and answer 404 when it is not there.
Find(t, op, d) ==
  /\ thr[t] = Free /\ op \notin {"create", "get"}
  /\ IF op \in {"rotate", "revoke"} THEN Active(d) ELSE Exists(d)
  /\ Read
  /\ thr' = [thr EXCEPT ![t] = [op |-> op, next |-> "write", dev |-> d, field |-> "none"]]

\* device.update, device.update_location: columns the properties do not tell apart.
Update(t) ==
  /\ At(t, "update", "write")
  /\ Exec(row) /\ Done(t)

Delete(t) ==
  /\ At(t, "delete", "write")
  /\ Exec([row EXCEPT ![thr[t].dev] = GoneRow])
  /\ Done(t)

\* mutant: the UPDATE trusts the look-up before it
RotatedRow_AnyStatus(d) == IF Exists(d) THEN [row[d] EXCEPT !.key = @ + 1] ELSE row[d]

\* UPDATE ... SET psk_key_enc = ... WHERE device_id = $2 AND status = 'active'
RotatedRow(d) == IF Active(d) THEN [row[d] EXCEPT !.key = @ + 1] ELSE row[d]

RotateWrite(t) ==
  /\ At(t, "rotate", "write") /\ row[thr[t].dev].key < MaxKey
  /\ Exec([row EXCEPT ![thr[t].dev] = RotatedRow(thr[t].dev)])
  /\ Then(t, "reread")

\* findActiveByDeviceId again, for the identity; then the answer.
RotateReread(t) == At(t, "rotate", "reread") /\ Read /\ Done(t)

\* UPDATE ... SET status = 'revoked' WHERE device_id = $1 AND status = 'active'
RevokedRow(d) == IF Active(d) THEN [row[d] EXCEPT !.cred = "revoked"] ELSE row[d]

Revoke(t) ==
  /\ At(t, "revoke", "write")
  /\ Exec([row EXCEPT ![thr[t].dev] = RevokedRow(thr[t].dev)])
  /\ Done(t)

\* A statement of a handler without a transaction of its own throws: 500.
Fails(t) ==
  /\ thr[t].op \notin {"idle", "create"}
  /\ Throw /\ Done(t)

\* The server closes the connection and undoes what it has open.  A later
\* statement connects again, but a creation keeps its old transaction and fails.
ConnectionLost == Throw /\ UNCHANGED thr

\* The process dies; the server rolls its transaction back.
Crash ==
  /\ Rollback
  /\ thr' = [t \in DeviceThreads |-> Free]

DeviceStep ==
  \/ \E t \in DeviceThreads :
       \/ \E f \in Fields : CreateBegin(t, f)
       \/ CreateFieldFound(t)
       \/ CreateFieldNotFound(t)
       \/ \E d \in DeviceIds : CreateInsert(t, d)
       \/ CreateProvision(t)
       \/ CreateCommit(t)
       \/ CreateFails(t)
       \/ GetDevice(t)
       \/ ListDevices(t)
       \/ \E d \in DeviceIds : GetActive(t, d)
       \/ ListActive(t)
       \/ \E op \in Ops, d \in DeviceIds : Find(t, op, d)
       \/ Update(t)
       \/ Delete(t)
       \/ RotateWrite(t)
       \/ RotateReread(t)
       \/ Revoke(t)
       \/ Fails(t)
  \/ ConnectionLost
  \/ Crash

-----------------------------------------------------------------------------
\* ON DELETE CASCADE takes the devices of a deleted field.  It waits for a
\* transaction of device_service that has locked one of the rows.
Cascade ==
  /\ locks = FALSE
  /\ base' = [d \in DeviceIds |->
                IF base[d].in \in Fields /\ field'[base[d].in] = "gone" THEN GoneRow ELSE base[d]]
  /\ row' = base'
  /\ UNCHANGED <<tx, locks, thr>>

DevInit == CatalogInit /\ DevicesInit

DevNext ==
  \/ CatalogStep /\ UNCHANGED deviceVars
  \/ DeviceStep /\ UNCHANGED catalogVars
  \/ (\E g \in Farms : FarmDelete(g)) /\ Cascade
  \/ (\E f \in Fields : FieldDelete(f)) /\ Cascade

devVars == <<catalogVars, deviceVars>>

DevSpec == DevInit /\ [][DevNext]_devVars

-----------------------------------------------------------------------------
\* A committed device has a credential: device and credential are created
\* together or not at all, whatever other handlers, failures and crashes
\* happen inside the transaction (AppDeviceService::handleCreate, TxGuard).
DeviceHasCredential == \A d \in DeviceIds : base[d].in \in Fields => base[d].cred # "none"

\* A committed revocation is final: no later step makes the credential active
\* again or gives it a new key, also when a rotation looked the credential up
\* before it was revoked.
RevokedIsFinal ==
  [][\A d \in DeviceIds :
        base[d].cred = "revoked" /\ base'[d].in \in Fields =>
          base'[d].cred = "revoked" /\ base'[d].key = base[d].key]_devVars
=============================================================================
