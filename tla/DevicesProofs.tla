--------------------------- MODULE DevicesProofs ---------------------------
(***************************************************************************)
(* Safety of device_service and field_service for every set of threads,    *)
(* ids and key bounds: devices and their credentials on a connection that  *)
(* all threads share (Devices), and the check of the farm (Catalog).       *)
(***************************************************************************)
EXTENDS Devices, TLAPS

USE DEF catalogVars, deviceVars, devVars

\* What a thread can be doing.  A creation draws its device with the INSERT.
OtherOps == {"update", "delete", "rotate", "revoke"}
Handlers ==
  {Free}
  \cup [op : {"create"}, next : {"exists", "insert"}, dev : {"none"}, field : Fields]
  \cup [op : {"create"}, next : {"provision", "commit"}, dev : DeviceIds, field : Fields]
  \cup [op : OtherOps, next : {"write", "reread"}, dev : DeviceIds, field : {"none"}]

ThreadInv == thr \in [DeviceThreads -> Handlers]

\* Of the one transaction: a creation has it to itself, as far as creations go.
Creates(t) == thr[t].op = "create"
Creating(t, d) == Creates(t) /\ thr[t].next \in {"provision", "commit"} /\ thr[t].dev = d
CreationInv ==
  /\ \A t, u \in DeviceThreads : Creates(t) /\ Creates(u) => t = u
  /\ \A t \in DeviceThreads : Creates(t) => tx # "none"

\* Of each device: only the creation under way sees a device without credential,
\* and it is not committed; what is revoked in the tables is revoked in the
\* transaction.
RowInv ==
  \A d \in DeviceIds :
    /\ base[d].in \notin Fields => base[d].cred = "none"
    /\ base[d].in \in Fields => base[d].cred # "none"
    /\ row[d].in \notin Fields => row[d].cred = "none"
    /\ row[d].in \in Fields /\ row[d].cred = "none" =>
         \E t \in DeviceThreads : Creating(t, d) /\ thr[t].next = "provision"
    /\ base[d].cred = "revoked" /\ row[d].in \in Fields =>
         row[d].cred = "revoked" /\ row[d].key = base[d].key
    /\ \A t \in DeviceThreads : Creating(t, d) => base[d].in \notin Fields

DeviceInv == DevicesTypeOK /\ ThreadInv /\ CreationInv /\ RowInv

-----------------------------------------------------------------------------
\* What a place of a handler says of the rest of it.
LEMMA HandlerPlaces ==
  ASSUME NEW h \in Handlers
  PROVE  /\ h \in [op : Ops \cup {"idle"}, next : Statements,
                    dev : DeviceIds \cup {"none"}, field : Fields \cup {"none"}]
         /\ h.op = "create" => h.field \in Fields
         /\ h.op = "create" /\ h.next \notin {"exists", "insert"} => h.dev \in DeviceIds
         /\ h.op \notin {"idle", "create"} =>
              h.op \in OtherOps /\ h.dev \in DeviceIds /\ h.field = "none"
  <1>1. CASE h = Free
    BY <1>1 DEF Free, Statements
  <1>2. CASE h \in [op : {"create"}, next : {"exists", "insert"}, dev : {"none"}, field : Fields]
    BY <1>2 DEF Ops, Statements
  <1>3. CASE h \in [op : {"create"}, next : {"provision", "commit"}, dev : DeviceIds, field : Fields]
    BY <1>3 DEF Ops, Statements
  <1>4. CASE h \in [op : OtherOps, next : {"write", "reread"}, dev : DeviceIds, field : {"none"}]
    BY <1>4 DEF Ops, OtherOps, Statements
  <1>5. QED
    BY <1>1, <1>2, <1>3, <1>4 DEF Handlers

\* Free is a handler that creates nothing.
LEMMA FreeIsIdle == Free \in Handlers /\ Free.op = "idle"
  BY DEF Free, Handlers

\* One thread goes on to another handler.
LEMMA ThreadMoves ==
  ASSUME ThreadInv, NEW t \in DeviceThreads, NEW h \in Handlers, thr' = [thr EXCEPT ![t] = h]
  PROVE  /\ ThreadInv' /\ thr'[t] = h
         /\ \A u \in DeviceThreads \ {t} : thr'[u] = thr[u]
  BY DEF ThreadInv

\* The types, when the threads have theirs.
LEMMA TypesFrom ==
  ASSUME ThreadInv', base' \in [DeviceIds -> RowType], row' \in [DeviceIds -> RowType],
         tx' \in {"none", "open", "failed"}, locks' \in BOOLEAN,
         tx' # "open" => row' = base' /\ locks' = FALSE
  PROVE  DevicesTypeOK'
  <1>1. thr' \in [DeviceThreads -> [op : Ops \cup {"idle"}, next : Statements,
                                    dev : DeviceIds \cup {"none"}, field : Fields \cup {"none"}]]
    BY HandlerPlaces DEF ThreadInv
  <1>2. QED
    BY <1>1 DEF DevicesTypeOK

\* "new" and "gone" are not fields.
LEMMA RowKinds ==
  /\ GoneRow \in RowType /\ GoneRow.in \notin Fields /\ GoneRow.cred = "none"
  /\ NewRow \in RowType /\ NewRow.in \notin Fields /\ NewRow.cred = "none"
  BY CatalogAssumption, DevicesAssumption DEF GoneRow, NewRow, RowType, Column

\* At the start no device is there and no thread at work.
LEMMA DeviceInit == DevicesInit => DeviceInv
  <1> SUFFICES ASSUME DevicesInit PROVE DeviceInv
    OBVIOUS
  <1>1. /\ base = [d \in DeviceIds |-> NewRow] /\ row = base /\ tx = "none" /\ locks = FALSE
        /\ thr = [t \in DeviceThreads |-> Free]
    BY DEF DevicesInit
  <1>2. ThreadInv /\ \A t \in DeviceThreads : ~Creates(t)
    BY <1>1, FreeIsIdle DEF ThreadInv, Creates
  <1>3. DevicesTypeOK
    <2>1. thr \in [DeviceThreads -> [op : Ops \cup {"idle"}, next : Statements,
                                     dev : DeviceIds \cup {"none"}, field : Fields \cup {"none"}]]
      BY <1>2, HandlerPlaces DEF ThreadInv
    <2>2. QED
      BY <1>1, <2>1, RowKinds DEF DevicesTypeOK
  <1>4. CreationInv
    BY <1>2 DEF CreationInv
  <1>5. RowInv
    <2>1. \A d \in DeviceIds : base[d] = NewRow /\ row[d] = NewRow
      BY <1>1
    <2>2. QED
      BY <1>2, <2>1, RowKinds DEF RowInv, Creating
  <1>6. QED
    BY <1>2, <1>3, <1>4, <1>5 DEF DeviceInv

-----------------------------------------------------------------------------
\* No thread creates after a step that leaves the tables without a transaction.
LEMMA NothingOpen ==
  ASSUME DeviceInv, ThreadInv', tx' = "none", locks' = FALSE, row' = base',
         \A t \in DeviceThreads : ~Creates(t)',
         \A d \in DeviceIds : base'[d] = base[d] \/ base'[d] = GoneRow,
         base' = [d \in DeviceIds |-> base'[d]]
  PROVE  DeviceInv'
  <1>1. \A d \in DeviceIds : base[d] \in RowType
    BY DEF DeviceInv, DevicesTypeOK
  <1>2. \A d \in DeviceIds : base'[d] \in RowType
    BY <1>1, RowKinds
  <1>3. base' \in [DeviceIds -> RowType]
    BY <1>2
  <1>4. DevicesTypeOK'
    BY <1>3, TypesFrom
  <1>5. CreationInv'
    BY DEF CreationInv
  <1>6. RowInv'
    BY RowKinds DEF DeviceInv, RowInv, Creating
  <1>7. QED
    BY <1>4, <1>5, <1>6 DEF DeviceInv

\* A rollback that ends all creations.
LEMMA RollbackStep ==
  ASSUME DeviceInv, Rollback, ThreadInv', \A t \in DeviceThreads : ~Creates(t)'
  PROVE  DeviceInv'
  <1>1. /\ base' = [d \in DeviceIds |-> IF d \in Drawn THEN GoneRow ELSE base[d]]
        /\ row' = base' /\ tx' = "none" /\ locks' = FALSE
    BY DEF Rollback
  <1>2. /\ \A d \in DeviceIds : base'[d] = base[d] \/ base'[d] = GoneRow
        /\ base' = [d \in DeviceIds |-> base'[d]]
    BY <1>1
  <1>3. QED
    BY <1>1, <1>2, NothingOpen

\* The creation that a thread leaves was the only one.
LEMMA CreationEnds ==
  ASSUME DeviceInv, NEW t \in DeviceThreads, Creates(t), Done(t)
  PROVE  ThreadInv' /\ \A u \in DeviceThreads : ~Creates(u)'
  <1>1. /\ ThreadInv' /\ thr'[t] = Free
        /\ \A u \in DeviceThreads \ {t} : thr'[u] = thr[u]
    BY FreeIsIdle, ThreadMoves DEF Done, DeviceInv
  <1>2. QED
    BY <1>1, FreeIsIdle DEF DeviceInv, CreationInv, Creates

\* The threads, when one that creates nothing goes on to something that creates nothing.
LEMMA OthersMove ==
  ASSUME ThreadInv, NEW t \in DeviceThreads, NEW h \in Handlers, thr' = [thr EXCEPT ![t] = h],
         thr[t].op # "create", h.op # "create"
  PROVE  /\ ThreadInv'
         /\ \A u \in DeviceThreads : Creates(u)' <=> Creates(u)
         /\ \A u \in DeviceThreads : Creates(u) => thr'[u] = thr[u]
  BY ThreadMoves DEF Creates

\* The tables stay, no creation moves on, and the transaction may fail.
LEMMA SameRows ==
  ASSUME DeviceInv, ThreadInv', base' = base,
         (row' = row /\ locks' = locks /\ tx' = tx) \/ Throw,
         \A u \in DeviceThreads : Creates(u)' <=> Creates(u),
         \A u \in DeviceThreads : Creates(u) => thr'[u] = thr[u]
  PROVE  DeviceInv'
  <1>0. DevicesTypeOK /\ ThreadInv /\ CreationInv /\ RowInv
    BY DEF DeviceInv
  <1>1. /\ row' = row \/ row' = base
        /\ tx' = tx \/ (tx # "none" /\ tx' = "failed")
        /\ tx' # "open" => row' = base' /\ locks' = FALSE
        /\ locks' \in BOOLEAN
    BY <1>0 DEF Throw, DevicesTypeOK
  <1>2. DevicesTypeOK'
    BY <1>0, <1>1, TypesFrom DEF DevicesTypeOK
  <1>3. CreationInv'
    BY <1>0, <1>1 DEF CreationInv
  <1>4. \A u \in DeviceThreads, d \in DeviceIds :
          /\ Creating(u, d)' <=> Creating(u, d)
          /\ Creating(u, d) => thr'[u].next = thr[u].next
    BY DEF Creating, Creates
  <1>5. RowInv'
    <2> SUFFICES ASSUME NEW d \in DeviceIds
        PROVE /\ row'[d].in \notin Fields => row'[d].cred = "none"
              /\ row'[d].in \in Fields /\ row'[d].cred = "none" =>
                   \E t \in DeviceThreads : Creating(t, d)' /\ thr'[t].next = "provision"
              /\ base[d].cred = "revoked" /\ row'[d].in \in Fields =>
                   row'[d].cred = "revoked" /\ row'[d].key = base[d].key
      BY <1>0, <1>4 DEF RowInv
    <2>1. CASE row' = row
      BY <1>0, <1>4, <2>1 DEF RowInv
    <2>2. CASE row' = base
      BY <1>0, <2>2 DEF RowInv
    <2>3. QED
      BY <1>1, <2>1, <2>2
  <1>6. QED
    BY <1>2, <1>3, <1>5 DEF DeviceInv

-----------------------------------------------------------------------------
\* What a handler that creates nothing may make of a row.
Keeps(r, s) ==
  \/ s = r
  \/ s = GoneRow
  \/ /\ r.in \in Fields /\ r.cred = "active"
     /\ s = [r EXCEPT !.key = @ + 1] \/ s = [r EXCEPT !.cred = "revoked"]

\* Such a row lost no credential, and nothing of it that was revoked.
LEMMA KeptRow ==
  ASSUME NEW r \in RowType, NEW s \in RowType, Keeps(r, s), r.in \notin Fields => r.cred = "none"
  PROVE  /\ s.in \notin Fields => s.cred = "none"
         /\ s.in \in Fields => r.in \in Fields /\ (s.cred = "none" => r.cred = "none")
         /\ s.in \in Fields /\ r.cred = "revoked" => s.cred = "revoked" /\ s.key = r.key
  <1>1. CASE s = r
    BY <1>1
  <1>2. CASE s = GoneRow
    BY <1>2, RowKinds
  <1>3. CASE /\ r.in \in Fields /\ r.cred = "active"
             /\ s = [r EXCEPT !.key = @ + 1] \/ s = [r EXCEPT !.cred = "revoked"]
    BY <1>3 DEF RowType
  <1>4. QED
    BY <1>1, <1>2, <1>3 DEF Keeps

\* A handler that creates nothing writes: inside the transaction of a creation,
\* or in one of its own.
LEMMA OthersWrite ==
  ASSUME DeviceInv, NEW t \in DeviceThreads, NEW h \in Handlers, thr' = [thr EXCEPT ![t] = h],
         thr[t].op # "create", h.op # "create",
         NEW new \in [DeviceIds -> RowType], \A d \in DeviceIds : Keeps(row[d], new[d]), Exec(new)
  PROVE  DeviceInv'
  <1>0. DevicesTypeOK /\ ThreadInv /\ CreationInv /\ RowInv
    BY DEF DeviceInv
  <1>1. /\ ThreadInv'
        /\ \A u \in DeviceThreads : Creates(u)' <=> Creates(u)
        /\ \A u \in DeviceThreads : Creates(u) => thr'[u] = thr[u]
    BY <1>0, OthersMove
  <1>2. /\ row' = new /\ tx' = tx /\ tx \in {"none", "open"}
        /\ tx = "open" => base' = base /\ locks' = TRUE
        /\ tx = "none" => base' = new /\ locks' = FALSE /\ row = base
    BY <1>0 DEF Exec, DevicesTypeOK
  <1>3. DevicesTypeOK'
    <2>1. /\ base' \in [DeviceIds -> RowType] /\ row' \in [DeviceIds -> RowType]
          /\ tx' \in {"none", "open", "failed"} /\ locks' \in BOOLEAN
          /\ tx' # "open" => row' = base' /\ locks' = FALSE
      BY <1>0, <1>2 DEF DevicesTypeOK
    <2>2. QED
      BY <1>1, <2>1, TypesFrom
  <1>4. CreationInv'
    BY <1>0, <1>1, <1>2 DEF CreationInv
  <1>5. \A u \in DeviceThreads, d \in DeviceIds :
          /\ Creating(u, d)' <=> Creating(u, d)
          /\ Creating(u, d) => thr'[u].next = thr[u].next
    BY <1>1 DEF Creating, Creates
  <1>6. \A d \in DeviceIds :
          /\ new[d].in \notin Fields => new[d].cred = "none"
          /\ new[d].in \in Fields => row[d].in \in Fields /\ (new[d].cred = "none" => row[d].cred = "none")
          /\ new[d].in \in Fields /\ row[d].cred = "revoked" => new[d].cred = "revoked" /\ new[d].key = row[d].key
    <2> TAKE d \in DeviceIds
    <2>1. row[d] \in RowType /\ new[d] \in RowType /\ Keeps(row[d], new[d])
      BY <1>0 DEF DevicesTypeOK
    <2>2. row[d].in \notin Fields => row[d].cred = "none"
      BY <1>0 DEF RowInv
    <2>3. QED
      BY <2>1, <2>2, KeptRow
  <1>7. CASE tx = "open"
    <2>1. RowInv'
      BY <1>0, <1>2, <1>5, <1>6, <1>7 DEF RowInv
    <2>2. QED
      BY <1>1, <1>3, <1>4, <2>1 DEF DeviceInv
  <1>8. CASE tx = "none"
    <2>1. \A u \in DeviceThreads, d \in DeviceIds : ~Creating(u, d) /\ ~Creating(u, d)'
      BY <1>0, <1>5, <1>8 DEF CreationInv, Creating
    <2>2. RowInv'
      BY <1>0, <1>2, <1>6, <1>8, <2>1 DEF RowInv
    <2>3. QED
      BY <1>1, <1>3, <1>4, <2>2 DEF DeviceInv
  <1>9. QED
    BY <1>2, <1>7, <1>8

\* The steps of a creation inside its transaction.
LEMMA CreationMoves ==
  ASSUME DeviceInv, NEW t \in DeviceThreads, NEW h \in Handlers, thr' = [thr EXCEPT ![t] = h],
         h.op = "create", tx' # "none", \A u \in DeviceThreads : Creates(u) => u = t
  PROVE  /\ ThreadInv' /\ CreationInv' /\ thr'[t] = h
         /\ \A u \in DeviceThreads, d \in DeviceIds : u # t => ~Creating(u, d) /\ ~Creating(u, d)'
  <1>1. /\ ThreadInv' /\ thr'[t] = h
        /\ \A u \in DeviceThreads \ {t} : thr'[u] = thr[u]
    BY ThreadMoves DEF DeviceInv
  <1>2. \A u \in DeviceThreads : Creates(u)' => u = t
    BY <1>1 DEF Creates
  <1>3. CreationInv'
    BY <1>2 DEF CreationInv
  <1>4. QED
    BY <1>1, <1>2, <1>3 DEF Creating

\* A creation opens the transaction of the connection.
LEMMA CreateBeginStep ==
  ASSUME DeviceInv, NEW t \in DeviceThreads, NEW f \in Fields, CreateBegin(t, f)
  PROVE  DeviceInv'
  <1>0. DevicesTypeOK /\ ThreadInv /\ CreationInv /\ RowInv
    BY DEF DeviceInv
  <1> DEFINE h == [op |-> "create", next |-> "exists", dev |-> "none", field |-> f]
  <1>1. /\ thr' = [thr EXCEPT ![t] = h] /\ tx = "none" /\ tx' = "open"
        /\ UNCHANGED <<base, row, locks>>
    BY DEF CreateBegin, MayBegin
  <1>2. h \in Handlers /\ h.op = "create" /\ h.next = "exists"
    BY DEF Handlers
  <1> HIDE DEF h
  <1>3. \A u \in DeviceThreads : ~Creates(u)
    BY <1>0, <1>1 DEF CreationInv
  <1>4. /\ ThreadInv' /\ CreationInv' /\ thr'[t] = h
        /\ \A u \in DeviceThreads, d \in DeviceIds : u # t => ~Creating(u, d) /\ ~Creating(u, d)'
    BY <1>1, <1>2, <1>3, CreationMoves
  <1>5. DevicesTypeOK'
    BY <1>0, <1>1, <1>4, TypesFrom DEF DevicesTypeOK
  <1>6. \A u \in DeviceThreads, d \in DeviceIds : ~Creating(u, d) /\ ~Creating(u, d)'
    BY <1>2, <1>3, <1>4 DEF Creating
  <1>7. RowInv'
    BY <1>0, <1>1, <1>6 DEF RowInv
  <1>8. QED
    BY <1>4, <1>5, <1>7 DEF DeviceInv

\* Its field was found.
LEMMA CreateFieldFoundStep ==
  ASSUME DeviceInv, NEW t \in DeviceThreads, CreateFieldFound(t)
  PROVE  DeviceInv'
  <1>0. DevicesTypeOK /\ ThreadInv /\ CreationInv /\ RowInv
    BY DEF DeviceInv
  <1> DEFINE h == [thr[t] EXCEPT !.next = "insert"]
  <1>1. /\ thr[t].op = "create" /\ thr[t].next = "exists"
        /\ UNCHANGED <<base, row, tx, locks>>
    BY DEF CreateFieldFound, At
  <1>2. thr' = [thr EXCEPT ![t] = h]
    BY DEF CreateFieldFound, Then
  <1>3. thr[t] \in [op : {"create"}, next : {"exists", "insert"}, dev : {"none"}, field : Fields]
    BY <1>0, <1>1 DEF ThreadInv, Handlers, Free, OtherOps
  <1>4. h \in Handlers /\ h.op = "create" /\ h.next = "insert"
    BY <1>3 DEF Handlers
  <1> HIDE DEF h
  <1>5. Creates(t) /\ tx' # "none" /\ \A u \in DeviceThreads : Creates(u) => u = t
    BY <1>0, <1>1 DEF CreationInv, Creates
  <1>6. /\ ThreadInv' /\ CreationInv' /\ thr'[t] = h
        /\ \A u \in DeviceThreads, d \in DeviceIds : u # t => ~Creating(u, d) /\ ~Creating(u, d)'
    BY <1>2, <1>4, <1>5, CreationMoves
  <1>7. DevicesTypeOK'
    BY <1>0, <1>1, <1>6, TypesFrom DEF DevicesTypeOK
  <1>8. \A u \in DeviceThreads, d \in DeviceIds : ~Creating(u, d) /\ ~Creating(u, d)'
    BY <1>1, <1>4, <1>6 DEF Creating
  <1>9. RowInv'
    BY <1>0, <1>1, <1>8 DEF RowInv
  <1>10. QED
    BY <1>6, <1>7, <1>9 DEF DeviceInv

\* The device is inserted, without a credential yet: its creation answers for it.
LEMMA CreateInsertStep ==
  ASSUME DeviceInv, NEW t \in DeviceThreads, NEW d \in DeviceIds, CreateInsert(t, d)
  PROVE  DeviceInv'
  <1>0. DevicesTypeOK /\ ThreadInv /\ CreationInv /\ RowInv
    BY DEF DeviceInv
  <1> DEFINE h == [[thr[t] EXCEPT !.next = "provision"] EXCEPT !.dev = d]
             r == DeviceRow(thr[t].field)
  <1>1. /\ thr[t].op = "create" /\ thr[t].next = "insert"
        /\ row[d].in = "new" /\ base[d].in = "new"
        /\ Exec([row EXCEPT ![d] = r])
    BY DEF CreateInsert, At
  <1>2. thr[t] \in [op : {"create"}, next : {"exists", "insert"}, dev : {"none"}, field : Fields]
    BY <1>0, <1>1 DEF ThreadInv, Handlers, Free, OtherOps
  <1>3. thr' = [thr EXCEPT ![t] = h]
    BY <1>0 DEF CreateInsert, ThreadInv
  <1>4. h \in Handlers /\ h.op = "create" /\ h.next = "provision" /\ h.dev = d
    BY <1>2 DEF Handlers
  <1>5. r \in RowType /\ r.in \in Fields /\ r.cred = "none"
    BY <1>2, DevicesAssumption DEF DeviceRow, RowType, Column
  <1> HIDE DEF h, r
  <1>6. Creates(t) /\ tx # "none" /\ \A u \in DeviceThreads : Creates(u) => u = t
    BY <1>0, <1>1 DEF CreationInv, Creates
  <1>7. /\ tx = "open" /\ tx' = "open" /\ base' = base /\ locks' = TRUE
        /\ row' = [row EXCEPT ![d] = r]
    BY <1>0, <1>1, <1>6 DEF Exec, DevicesTypeOK
  <1>8. /\ ThreadInv' /\ CreationInv' /\ thr'[t] = h
        /\ \A u \in DeviceThreads, e \in DeviceIds : u # t => ~Creating(u, e) /\ ~Creating(u, e)'
    BY <1>3, <1>4, <1>6, <1>7, CreationMoves
  <1>9. \A e \in DeviceIds : row'[e] = IF e = d THEN r ELSE row[e]
    BY <1>0, <1>7 DEF DevicesTypeOK
  <1>10. DevicesTypeOK'
    <2>1. row' \in [DeviceIds -> RowType]
      BY <1>0, <1>5, <1>7 DEF DevicesTypeOK
    <2>2. QED
      BY <1>0, <1>7, <1>8, <2>1, TypesFrom DEF DevicesTypeOK
  <1>11. \A u \in DeviceThreads, e \in DeviceIds :
           /\ ~Creating(u, e)
           /\ Creating(u, e)' => u = t /\ e = d
    BY <1>1, <1>4, <1>8 DEF Creating
  <1>12. Creating(t, d)' /\ thr'[t].next = "provision"
    BY <1>4, <1>8 DEF Creating, Creates
  <1>13. base[d].in \notin Fields /\ base[d].cred = "none"
    BY <1>0, <1>1, CatalogAssumption DEF RowInv
  <1>14. RowInv'
    <2> SUFFICES ASSUME NEW e \in DeviceIds
        PROVE /\ row'[e].in \notin Fields => row'[e].cred = "none"
              /\ row'[e].in \in Fields /\ row'[e].cred = "none" =>
                   \E u \in DeviceThreads : Creating(u, e)' /\ thr'[u].next = "provision"
              /\ base[e].cred = "revoked" /\ row'[e].in \in Fields =>
                   row'[e].cred = "revoked" /\ row'[e].key = base[e].key
              /\ \A u \in DeviceThreads : Creating(u, e)' => base[e].in \notin Fields
      BY <1>0, <1>7 DEF RowInv
    <2>1. CASE e = d
      BY <1>5, <1>9, <1>12, <1>13, <2>1
    <2>2. CASE e # d
      BY <1>0, <1>9, <1>11, <2>2 DEF RowInv
    <2>3. QED
      BY <2>1, <2>2
  <1>15. QED
    BY <1>8, <1>10, <1>14 DEF DeviceInv

\* The credential is inserted, in the transaction that has the device.
LEMMA CreateProvisionStep ==
  ASSUME DeviceInv, NEW t \in DeviceThreads, CreateProvision(t)
  PROVE  DeviceInv'
  <1>0. DevicesTypeOK /\ ThreadInv /\ CreationInv /\ RowInv
    BY DEF DeviceInv
  <1> DEFINE h == [thr[t] EXCEPT !.next = "commit"]
             d == thr[t].dev
             r == WithCredential(row[d])
  <1>1. /\ thr[t].op = "create" /\ thr[t].next = "provision" /\ row[d].in \in Fields
        /\ Exec([row EXCEPT ![d] = r])
    BY DEF CreateProvision, At, Exists, WithCredential
  <1>2. thr[t] \in [op : {"create"}, next : {"provision", "commit"}, dev : DeviceIds, field : Fields]
    BY <1>0, <1>1 DEF ThreadInv, Handlers, Free, OtherOps
  <1>3. thr' = [thr EXCEPT ![t] = h]
    BY <1>0 DEF CreateProvision, Then, ThreadInv
  <1>4. h \in Handlers /\ h.op = "create" /\ h.next = "commit" /\ h.dev = d /\ d \in DeviceIds
    BY <1>2 DEF Handlers
  <1>5. r \in RowType /\ r.in = row[d].in /\ r.cred = "active"
    BY <1>0, <1>4 DEF DevicesTypeOK, WithCredential, RowType
  <1>6. Creating(t, d)
    BY <1>1 DEF Creating, Creates
  <1> HIDE DEF h, d, r
  <1>7. Creates(t) /\ tx # "none" /\ \A u \in DeviceThreads : Creates(u) => u = t
    BY <1>0, <1>1 DEF CreationInv, Creates
  <1>8. /\ tx = "open" /\ tx' = "open" /\ base' = base /\ locks' = TRUE
        /\ row' = [row EXCEPT ![d] = r]
    BY <1>0, <1>1, <1>7 DEF Exec, DevicesTypeOK
  <1>9. /\ ThreadInv' /\ CreationInv' /\ thr'[t] = h
        /\ \A u \in DeviceThreads, e \in DeviceIds : u # t => ~Creating(u, e) /\ ~Creating(u, e)'
    BY <1>3, <1>4, <1>7, <1>8, CreationMoves
  <1>10. \A e \in DeviceIds : row'[e] = IF e = d THEN r ELSE row[e]
    BY <1>0, <1>8 DEF DevicesTypeOK
  <1>11. DevicesTypeOK'
    <2>1. row' \in [DeviceIds -> RowType]
      BY <1>0, <1>5, <1>8 DEF DevicesTypeOK
    <2>2. QED
      BY <1>0, <1>8, <1>9, <2>1, TypesFrom DEF DevicesTypeOK
  <1>12. \A u \in DeviceThreads, e \in DeviceIds :
           /\ Creating(u, e) => e = d
           /\ Creating(u, e)' => e = d
    BY <1>4, <1>6, <1>9 DEF Creating
  <1>13. base[d].in \notin Fields /\ base[d].cred = "none"
    BY <1>0, <1>4, <1>6 DEF RowInv
  <1>14. RowInv'
    <2> SUFFICES ASSUME NEW e \in DeviceIds
        PROVE /\ row'[e].in \notin Fields => row'[e].cred = "none"
              /\ row'[e].in \in Fields /\ row'[e].cred = "none" =>
                   \E u \in DeviceThreads : Creating(u, e)' /\ thr'[u].next = "provision"
              /\ base[e].cred = "revoked" /\ row'[e].in \in Fields =>
                   row'[e].cred = "revoked" /\ row'[e].key = base[e].key
              /\ \A u \in DeviceThreads : Creating(u, e)' => base[e].in \notin Fields
      BY <1>0, <1>8 DEF RowInv
    <2>1. CASE e = d
      BY <1>1, <1>5, <1>10, <1>13, <2>1
    <2>2. CASE e # d
      BY <1>0, <1>10, <1>12, <2>2 DEF RowInv
    <2>3. QED
      BY <2>1, <2>2
  <1>15. QED
    BY <1>9, <1>11, <1>14 DEF DeviceInv

\* What a creation commits has its credential, and nothing that was revoked is not.
LEMMA CreateCommitStep ==
  ASSUME DeviceInv, NEW t \in DeviceThreads, CreateCommit(t)
  PROVE  DeviceInv'
  <1>0. DevicesTypeOK /\ ThreadInv /\ CreationInv /\ RowInv
    BY DEF DeviceInv
  <1>1. /\ thr[t].op = "create" /\ thr[t].next = "commit" /\ Done(t)
        /\ base' = row /\ row' = row /\ tx' = "none" /\ locks' = FALSE
    BY DEF CreateCommit, At, Commit
  <1>2. ThreadInv' /\ \A u \in DeviceThreads : ~Creates(u)'
    BY <1>1, CreationEnds DEF Creates
  <1>3. \A u \in DeviceThreads : Creates(u) => thr[u].next = "commit"
    BY <1>0, <1>1 DEF CreationInv, Creates
  <1>4. DevicesTypeOK'
    BY <1>0, <1>1, <1>2, TypesFrom DEF DevicesTypeOK
  <1>5. CreationInv'
    BY <1>2 DEF CreationInv
  <1>6. RowInv'
    BY <1>0, <1>1, <1>2, <1>3 DEF RowInv, Creating
  <1>7. QED
    BY <1>2, <1>4, <1>5, <1>6 DEF DeviceInv

\* The cascade of a deletion takes rows away, from the transaction too.
LEMMA CascadeStep ==
  ASSUME DeviceInv, Cascade
  PROVE  DeviceInv'
  <1>0. DevicesTypeOK /\ ThreadInv /\ CreationInv /\ RowInv
    BY DEF DeviceInv
  <1>1. /\ base' = [d \in DeviceIds |->
                      IF base[d].in \in Fields /\ field'[base[d].in] = "gone" THEN GoneRow ELSE base[d]]
        /\ row' = base' /\ UNCHANGED <<tx, locks, thr>> /\ locks = FALSE
    BY DEF Cascade
  <1>2. \A d \in DeviceIds : base'[d] = base[d] \/ base'[d] = GoneRow
    BY <1>1
  <1>3. base' \in [DeviceIds -> RowType]
    <2>1. \A d \in DeviceIds : base[d] \in RowType
      BY <1>0 DEF DevicesTypeOK
    <2>2. QED
      BY <1>1, <2>1, RowKinds
  <1>4. ThreadInv' /\ CreationInv'
    BY <1>0, <1>1 DEF ThreadInv, CreationInv, Creates
  <1>5. DevicesTypeOK'
    BY <1>0, <1>1, <1>3, <1>4, TypesFrom DEF DevicesTypeOK
  <1>6. \A u \in DeviceThreads, d \in DeviceIds : Creating(u, d)' <=> Creating(u, d)
    BY <1>1 DEF Creating, Creates
  <1>7. RowInv'
    BY <1>0, <1>1, <1>2, <1>6, RowKinds DEF RowInv
  <1>8. QED
    BY <1>4, <1>5, <1>7 DEF DeviceInv

-----------------------------------------------------------------------------
\* The handlers that write rows of devices that were there.
LEMMA WritesKeep ==
  ASSUME DeviceInv, NEW t \in DeviceThreads, Update(t) \/ Delete(t) \/ RotateWrite(t) \/ Revoke(t)
  PROVE  \E new \in [DeviceIds -> RowType], h \in Handlers :
            /\ thr' = [thr EXCEPT ![t] = h] /\ thr[t].op # "create" /\ h.op # "create"
            /\ \A d \in DeviceIds : Keeps(row[d], new[d])
            /\ Exec(new)
  <1>0. /\ row \in [DeviceIds -> RowType] /\ thr[t] \in Handlers
        /\ ThreadInv
    BY DEF DeviceInv, DevicesTypeOK, ThreadInv
  <1>d. thr[t].op \notin {"idle", "create"} => thr[t].dev \in DeviceIds
    BY <1>0, HandlerPlaces
  <1>1. CASE Update(t)
    <2>1. Exec(row) /\ thr' = [thr EXCEPT ![t] = Free] /\ thr[t].op = "update"
      BY <1>1 DEF Update, At, Done
    <2>2. \A d \in DeviceIds : Keeps(row[d], row[d])
      BY DEF Keeps
    <2>3. QED
      BY <1>0, <2>1, <2>2, FreeIsIdle
  <1>o. ASSUME NEW s \in RowType, NEW d \in DeviceIds, Keeps(row[d], s)
        PROVE  /\ [row EXCEPT ![d] = s] \in [DeviceIds -> RowType]
               /\ \A e \in DeviceIds : Keeps(row[e], [row EXCEPT ![d] = s][e])
    <2>1. \A e \in DeviceIds : [row EXCEPT ![d] = s][e] = IF e = d THEN s ELSE row[e]
      BY <1>0
    <2>2. QED
      BY <1>0, <1>o, <2>1 DEF Keeps
  <1>2. CASE Delete(t)
    <2>1. /\ Exec([row EXCEPT ![thr[t].dev] = GoneRow])
          /\ thr' = [thr EXCEPT ![t] = Free] /\ thr[t].op = "delete"
      BY <1>2 DEF Delete, At, Done
    <2>2. Keeps(row[thr[t].dev], GoneRow) /\ GoneRow \in RowType /\ thr[t].dev \in DeviceIds
      BY <1>d, <2>1, RowKinds DEF Keeps
    <2>3. QED
      BY <1>o, <2>1, <2>2, FreeIsIdle
  <1>3. CASE RotateWrite(t)
    <2> DEFINE d == thr[t].dev
               h == [thr[t] EXCEPT !.next = "reread"]
               s == RotatedRow(d)
    <2>1. /\ Exec([row EXCEPT ![d] = s]) /\ row[d].key < MaxKey
          /\ thr[t].op = "rotate" /\ thr[t].next = "write"
      BY <1>3 DEF RotateWrite, At
    <2>2. thr' = [thr EXCEPT ![t] = h]
      BY <1>0, <1>3 DEF RotateWrite, Then, ThreadInv
    <2>3. thr[t] \in [op : OtherOps, next : {"write", "reread"}, dev : DeviceIds, field : {"none"}]
      BY <1>0, <2>1 DEF Handlers, Free
    <2>4. h \in Handlers /\ h.op # "create" /\ d \in DeviceIds
      BY <2>1, <2>3 DEF Handlers
    <2>5. row[d] \in RowType
      BY <1>0, <2>4
    <2>6. s \in RowType
      BY <2>1, <2>5, DevicesAssumption DEF RotatedRow, RowType
    <2>7. Keeps(row[d], s)
      BY DEF RotatedRow, Keeps, Active, Exists
    <2> HIDE DEF d, h, s
    <2>8. QED
      BY <1>o, <2>1, <2>2, <2>4, <2>6, <2>7
  <1>4. CASE Revoke(t)
    <2> DEFINE d == thr[t].dev
               s == RevokedRow(d)
    <2>1. /\ Exec([row EXCEPT ![d] = s]) /\ thr' = [thr EXCEPT ![t] = Free] /\ thr[t].op = "revoke"
      BY <1>4 DEF Revoke, At, Done
    <2>2. d \in DeviceIds /\ row[d] \in RowType
      BY <1>0, <1>d, <2>1
    <2>3. s \in RowType
      BY <2>2 DEF RevokedRow, RowType
    <2>4. Keeps(row[d], s)
      BY DEF RevokedRow, Keeps, Active, Exists
    <2> HIDE DEF d, s
    <2>5. QED
      BY <1>o, <2>1, <2>2, <2>3, <2>4, FreeIsIdle
  <1>5. QED
    BY <1>1, <1>2, <1>3, <1>4

\* The handlers that only look, fail, or answer.
LEMMA LooksStep ==
  ASSUME DeviceInv, NEW t \in DeviceThreads,
         \/ GetDevice(t)
         \/ \E op \in Ops, d \in DeviceIds : Find(t, op, d)
         \/ RotateReread(t)
         \/ Fails(t)
  PROVE  /\ base' = base
         /\ DeviceInv'
  <1>0. ThreadInv /\ thr[t] \in Handlers
    BY DEF DeviceInv, ThreadInv
  <1>1. CASE GetDevice(t)
    <2>1. UNCHANGED deviceVars
      BY <1>1 DEF GetDevice, Read
    <2>2. ThreadInv'
      BY <1>0, <2>1 DEF ThreadInv
    <2>3. QED
      BY <2>1, <2>2, SameRows DEF Creates
  <1>2. CASE \E op \in Ops, d \in DeviceIds : Find(t, op, d)
    <2>1. PICK op \in Ops, d \in DeviceIds : Find(t, op, d)
      BY <1>2
    <2> DEFINE h == [op |-> op, next |-> "write", dev |-> d, field |-> "none"]
    <2>2. /\ thr' = [thr EXCEPT ![t] = h] /\ thr[t].op = "idle" /\ op \in OtherOps
          /\ UNCHANGED <<base, row, tx, locks>>
      BY <2>1, FreeIsIdle DEF Find, Read, Ops, OtherOps
    <2>3. h \in Handlers /\ h.op # "create"
      BY <2>2 DEF Handlers, OtherOps
    <2> HIDE DEF h
    <2>4. /\ ThreadInv'
          /\ \A u \in DeviceThreads : Creates(u)' <=> Creates(u)
          /\ \A u \in DeviceThreads : Creates(u) => thr'[u] = thr[u]
      BY <1>0, <2>2, <2>3, OthersMove
    <2>5. QED
      BY <2>2, <2>4, SameRows
  <1>3. ASSUME thr[t].op # "create", Done(t)
        PROVE  /\ ThreadInv'
               /\ \A u \in DeviceThreads : Creates(u)' <=> Creates(u)
               /\ \A u \in DeviceThreads : Creates(u) => thr'[u] = thr[u]
    BY <1>0, <1>3, FreeIsIdle, OthersMove DEF Done
  <1>4. CASE RotateReread(t)
    <2>1. thr[t].op # "create" /\ Done(t) /\ UNCHANGED <<base, row, tx, locks>>
      BY <1>4 DEF RotateReread, Read, At
    <2>2. QED
      BY <1>3, <2>1, SameRows
  <1>5. CASE Fails(t)
    <2>1. thr[t].op # "create" /\ Done(t) /\ Throw /\ base' = base
      BY <1>5 DEF Fails, Throw
    <2>2. QED
      BY <1>3, <2>1, SameRows
  <1>6. QED
    BY <1>1, <1>2, <1>4, <1>5

\* The transaction goes with the connection, and what it wrote.
LEMMA ConnectionLostStep ==
  ASSUME DeviceInv, ConnectionLost
  PROVE  base' = base /\ DeviceInv'
  <1>1. Throw /\ base' = base /\ thr' = thr
    BY DEF ConnectionLost, Throw
  <1>2. ThreadInv'
    BY <1>1 DEF DeviceInv, ThreadInv
  <1>3. QED
    BY <1>1, <1>2, SameRows DEF Creates

\* The process dies: the threads go too.
LEMMA CrashStep ==
  ASSUME DeviceInv, Crash
  PROVE  DeviceInv'
  <1>1. Rollback /\ thr' = [t \in DeviceThreads |-> Free]
    BY DEF Crash
  <1>2. ThreadInv' /\ \A t \in DeviceThreads : ~Creates(t)'
    BY <1>1, FreeIsIdle DEF ThreadInv, Creates
  <1>3. QED
    BY <1>1, <1>2, RollbackStep

-----------------------------------------------------------------------------
\* What a step of device_service does to a committed revocation.
StaysRevoked ==
  \A d \in DeviceIds :
    base[d].cred = "revoked" /\ base'[d].in \in Fields =>
      base'[d].cred = "revoked" /\ base'[d].key = base[d].key

\* No step of the service breaks the invariant or brings a revoked credential back.
LEMMA DeviceStepInv ==
  ASSUME DeviceInv, DeviceStep
  PROVE  DeviceInv' /\ StaysRevoked
  <1>0. DevicesTypeOK /\ ThreadInv /\ CreationInv /\ RowInv
    BY DEF DeviceInv
  <1>r. Rollback => StaysRevoked
    <2>1. ASSUME Rollback
          PROVE  \A d \in DeviceIds : base'[d] = base[d] \/ base'[d] = GoneRow
      BY <2>1 DEF Rollback
    <2>2. QED
      BY <2>1, RowKinds DEF StaysRevoked
  <1>s. base' = base => StaysRevoked
    BY DEF StaysRevoked
  <1>1. ASSUME NEW t \in DeviceThreads, NEW f \in Fields, CreateBegin(t, f)
        PROVE  DeviceInv' /\ StaysRevoked
    BY <1>1, <1>s, CreateBeginStep DEF CreateBegin
  <1>2. ASSUME NEW t \in DeviceThreads, CreateFieldFound(t)
        PROVE  DeviceInv' /\ StaysRevoked
    BY <1>2, <1>s, CreateFieldFoundStep DEF CreateFieldFound
  <1>3. ASSUME NEW t \in DeviceThreads, CreateFieldNotFound(t) \/ CreateFails(t)
        PROVE  DeviceInv' /\ StaysRevoked
    <2>1. Rollback /\ Done(t) /\ Creates(t)
      BY <1>3 DEF CreateFieldNotFound, CreateFails, At, Creates
    <2>2. QED
      BY <1>r, <2>1, CreationEnds, RollbackStep
  <1>4. ASSUME NEW t \in DeviceThreads, NEW d \in DeviceIds, CreateInsert(t, d)
        PROVE  DeviceInv' /\ StaysRevoked
    <2>1. thr[t].op = "create" /\ (tx = "open" => base' = base) /\ tx # "failed"
      BY <1>4 DEF CreateInsert, At, Exec
    <2>2. base' = base
      BY <1>0, <2>1 DEF CreationInv, Creates, DevicesTypeOK
    <2>3. QED
      BY <1>4, <1>s, <2>2, CreateInsertStep
  <1>5. ASSUME NEW t \in DeviceThreads, CreateProvision(t)
        PROVE  DeviceInv' /\ StaysRevoked
    <2>1. thr[t].op = "create" /\ (tx = "open" => base' = base) /\ tx # "failed"
      BY <1>5 DEF CreateProvision, At, Exec
    <2>2. base' = base
      BY <1>0, <2>1 DEF CreationInv, Creates, DevicesTypeOK
    <2>3. QED
      BY <1>5, <1>s, <2>2, CreateProvisionStep
  <1>6. ASSUME NEW t \in DeviceThreads, CreateCommit(t)
        PROVE  DeviceInv' /\ StaysRevoked
    <2>1. base' = row
      BY <1>6 DEF CreateCommit, Commit
    <2>2. StaysRevoked
      BY <1>0, <2>1 DEF RowInv, StaysRevoked
    <2>3. QED
      BY <1>6, <2>2, CreateCommitStep
  <1>7. ASSUME NEW t \in DeviceThreads,
               \/ GetDevice(t)
               \/ \E op \in Ops, d \in DeviceIds : Find(t, op, d)
               \/ RotateReread(t)
               \/ Fails(t)
        PROVE  DeviceInv' /\ StaysRevoked
    BY <1>7, <1>s, LooksStep
  <1>8. ASSUME NEW t \in DeviceThreads, Update(t) \/ Delete(t) \/ RotateWrite(t) \/ Revoke(t)
        PROVE  DeviceInv' /\ StaysRevoked
    <2>1. PICK new \in [DeviceIds -> RowType], h \in Handlers :
            /\ thr' = [thr EXCEPT ![t] = h] /\ thr[t].op # "create" /\ h.op # "create"
            /\ \A d \in DeviceIds : Keeps(row[d], new[d])
            /\ Exec(new)
      BY <1>8, WritesKeep
    <2>2. DeviceInv'
      BY <2>1, OthersWrite
    <2>3. base' = base \/ (base' = new /\ row = base)
      BY <1>0, <2>1 DEF Exec, DevicesTypeOK
    <2>4. ASSUME base' = new, row = base, NEW d \in DeviceIds,
                 base[d].cred = "revoked", base'[d].in \in Fields
          PROVE  base'[d].cred = "revoked" /\ base'[d].key = base[d].key
      <3>1. row[d] \in RowType /\ new[d] \in RowType /\ Keeps(row[d], new[d])
        BY <1>0, <2>1 DEF DevicesTypeOK
      <3>2. row[d].in \notin Fields => row[d].cred = "none"
        BY <1>0 DEF RowInv
      <3>3. QED
        BY <2>4, <3>1, <3>2, KeptRow
    <2>5. QED
      BY <1>s, <2>2, <2>3, <2>4 DEF StaysRevoked
  <1>9. ASSUME ConnectionLost PROVE DeviceInv' /\ StaysRevoked
    BY <1>9, <1>s, ConnectionLostStep
  <1>10. ASSUME Crash PROVE DeviceInv' /\ StaysRevoked
    BY <1>10, <1>r, CrashStep DEF Crash
  <1>11. ASSUME NEW t \in DeviceThreads, NEW d \in DeviceIds, ListDevices(t) \/ GetActive(t, d) \/ ListActive(t)
         PROVE  DeviceInv' /\ StaysRevoked
    BY <1>7, <1>11 DEF ListDevices, GetActive, ListActive
  <1>12. ASSUME NEW t \in DeviceThreads, ListDevices(t) \/ ListActive(t)
         PROVE  DeviceInv' /\ StaysRevoked
    BY <1>7, <1>12 DEF ListDevices, ListActive
  <1>13. QED
    BY <1>1, <1>2, <1>3, <1>4, <1>5, <1>6, <1>7, <1>8, <1>9, <1>10, <1>11, <1>12 DEF DeviceStep

\* What a deletion of a farm or of a field does.
LEMMA CascadeKeepsRevoked ==
  ASSUME Cascade
  PROVE  StaysRevoked
  <1>1. \A d \in DeviceIds : base'[d] = base[d] \/ base'[d] = GoneRow
    BY DEF Cascade
  <1>2. QED
    BY <1>1, RowKinds DEF StaysRevoked

\* Unless a variable of the component changes, nothing does.
LEMMA DeviceUnchanged ==
  ASSUME DeviceInv, UNCHANGED deviceVars
  PROVE  DeviceInv' /\ StaysRevoked
  <1>1. ThreadInv'
    BY DEF DeviceInv, ThreadInv
  <1>2. QED
    BY <1>1, SameRows DEF Creates, StaysRevoked

\* The invariant is inductive, and no step of a behaviour revives a credential.
LEMMA DeviceInvNext == DeviceInv /\ [DevNext]_devVars => DeviceInv' /\ StaysRevoked
  <1> SUFFICES ASSUME DeviceInv, [DevNext]_devVars PROVE DeviceInv' /\ StaysRevoked
    OBVIOUS
  <1>1. DeviceStep \/ Cascade \/ UNCHANGED deviceVars
    BY DEF DevNext
  <1>2. QED
    BY <1>1, DeviceStepInv, CascadeStep, CascadeKeepsRevoked, DeviceUnchanged

\* It holds in every state of the component.
LEMMA DeviceInvariant == DevSpec => []DeviceInv
  <1>1. DevInit => DeviceInv
    BY DeviceInit DEF DevInit
  <1>2. QED
    BY <1>1, DeviceInvNext, PTL DEF DevSpec

\* Devices is type-correct: keys, statements and the rows of the transaction
\* (PostgreSQLDatabase, AppDeviceService).
THEOREM DevicesTypeCorrect == DevSpec => []DevicesTypeOK
  <1>1. DeviceInv => DevicesTypeOK
    BY DEF DeviceInv
  <1>2. QED
    BY <1>1, DeviceInvariant, PTL

\* A committed device has a credential, for every number of threads that fall
\* into the creation's transaction, fail in it or crash
\* (AppDeviceService::handleCreate, TxGuard).
THEOREM DevicesHaveCredentials == DevSpec => []DeviceHasCredential
  <1>1. DeviceInv => DeviceHasCredential
    BY DEF DeviceInv, RowInv, DeviceHasCredential
  <1>2. QED
    BY <1>1, DeviceInvariant, PTL

\* A committed revocation is final: no rotation that looked the credential up
\* before, and no transaction that began before, makes it active again or gives
\* it a new key (DeviceCredentialRepository).
THEOREM RevocationIsFinal == DevSpec => RevokedIsFinal
  <1>1. DeviceInv /\ [DevNext]_devVars =>
          [\A d \in DeviceIds :
             base[d].cred = "revoked" /\ base'[d].in \in Fields =>
               base'[d].cred = "revoked" /\ base'[d].key = base[d].key]_devVars
    BY DeviceInvNext DEF StaysRevoked
  <1>2. QED
    BY <1>1, DeviceInvariant, PTL DEF DevSpec, RevokedIsFinal

-----------------------------------------------------------------------------
\* field_service.  A check that came back 404 saw no farm, and only such a check
\* is answered 404; a request that asks names a farm.
CheckInv ==
  \A t \in FieldThreads :
    /\ fieldReq[t].check = "404" => fieldReq[t].seen = FALSE
    /\ fieldReq[t].answer = 404 => fieldReq[t].check = "404"
    /\ fieldReq[t].op # "idle" => fieldReq[t].farm \in Farms

CatalogInv == CatalogTypeOK /\ CheckInv

Answers == {0, 200, 201, 404, 500, 502, 503, 504}
Requests ==
  [op : {"idle", "list", "create"}, farm : Farms \cup {"none"}, seen : BOOLEAN,
   check : Checks, answer : Answers]

\* What setting one member of a request does.
LEMMA SeenIs ==
  ASSUME NEW q \in Requests, NEW seen \in BOOLEAN
  PROVE  /\ [q EXCEPT !.seen = seen] \in Requests
         /\ [q EXCEPT !.seen = seen].seen = seen
         /\ [q EXCEPT !.seen = seen].answer = q.answer
         /\ [q EXCEPT !.seen = seen].op = q.op
         /\ [q EXCEPT !.seen = seen].farm = q.farm
  <1>1. [q EXCEPT !.seen = seen] \in Requests
    BY DEF Requests
  <1>2. [q EXCEPT !.seen = seen].seen = seen
    BY DEF Requests
  <1>3. /\ [q EXCEPT !.seen = seen].answer = q.answer
        /\ [q EXCEPT !.seen = seen].op = q.op
        /\ [q EXCEPT !.seen = seen].farm = q.farm
    BY DEF Requests
  <1>4. QED
    BY <1>1, <1>2, <1>3

\* A request whose check has come back is otherwise the same.
LEMMA CheckIs ==
  ASSUME NEW q \in Requests, NEW check \in Checks
  PROVE  /\ [q EXCEPT !.check = check] \in Requests
         /\ [q EXCEPT !.check = check].check = check
         /\ [q EXCEPT !.check = check].seen = q.seen
         /\ [q EXCEPT !.check = check].answer = q.answer
         /\ [q EXCEPT !.check = check].op = q.op
         /\ [q EXCEPT !.check = check].farm = q.farm
  <1>1. [q EXCEPT !.check = check] \in Requests
    BY DEF Requests
  <1>2. [q EXCEPT !.check = check].seen = q.seen
    BY DEF Requests
  <1>3. /\ [q EXCEPT !.check = check].check = check
        /\ [q EXCEPT !.check = check].answer = q.answer
        /\ [q EXCEPT !.check = check].op = q.op
        /\ [q EXCEPT !.check = check].farm = q.farm
    BY DEF Requests
  <1>4. QED
    BY <1>1, <1>2, <1>3

\* One thread's request goes on.
LEMMA RequestMoves ==
  ASSUME CatalogInv, NEW t \in FieldThreads, NEW q \in Requests, fieldReq' = [fieldReq EXCEPT ![t] = q],
         q.check = "404" => q.seen = FALSE, q.answer = 404 => q.check = "404", q.op # "idle" => q.farm \in Farms,
         farm' \in [Farms -> {"new", "live", "gone"}], field' \in [Fields -> Farms \cup {"new", "gone"}]
  PROVE  CatalogInv'
  <1>1. fieldReq \in [FieldThreads -> Requests]
    BY DEF CatalogInv, CatalogTypeOK, Requests, Answers
  <1>2. fieldReq' \in [FieldThreads -> Requests]
    BY <1>1
  <1>3. \A u \in FieldThreads : fieldReq'[u] = IF u = t THEN q ELSE fieldReq[u]
    BY <1>1
  <1>4. CheckInv'
    BY <1>3 DEF CatalogInv, CheckInv
  <1>5. QED
    BY <1>2, <1>4 DEF CatalogInv, CatalogTypeOK, Requests, Answers

\* The tables change and the requests do not.
LEMMA TablesChange ==
  ASSUME CatalogInv, UNCHANGED fieldReq,
         farm' \in [Farms -> {"new", "live", "gone"}], field' \in [Fields -> Farms \cup {"new", "gone"}]
  PROVE  CatalogInv'
  BY DEF CatalogInv, CatalogTypeOK, CheckInv

\* At the start nobody asks and nothing is there.
LEMMA CatalogInitial == CatalogInit => CatalogInv
  <1> SUFFICES ASSUME CatalogInit PROVE CatalogInv
    OBVIOUS
  <1>1. \A t \in FieldThreads : fieldReq[t] = Idle
    BY DEF CatalogInit
  <1>2. /\ Idle \in Requests /\ Idle.op = "idle" /\ Idle.check = "none" /\ Idle.answer = 0
    BY DEF Idle, Requests, Answers, Checks
  <1>3. CatalogTypeOK
    BY <1>2 DEF CatalogInit, CatalogTypeOK, Requests, Answers
  <1>4. CheckInv
    BY <1>1, <1>2 DEF CheckInv
  <1>5. QED
    BY <1>3, <1>4 DEF CatalogInv

\* The two members that the check of the farm sets.
LEMMA CheckComesBack ==
  ASSUME CatalogInv, NEW t \in FieldThreads, NEW c \in Checks \ {"none"},
         c = "404" => ~LiveFarm(fieldReq[t].farm), fieldReq[t].check = "none",
         fieldReq' = [fieldReq EXCEPT ![t].seen = LiveFarm(fieldReq[t].farm), ![t].check = c],
         UNCHANGED <<farm, field>>
  PROVE  CatalogInv'
  <1>0. /\ farm \in [Farms -> {"new", "live", "gone"}]
        /\ field \in [Fields -> Farms \cup {"new", "gone"}]
        /\ fieldReq \in [FieldThreads -> Requests]
        /\ CheckInv
    BY DEF CatalogInv, CatalogTypeOK, Requests, Answers
  <1> DEFINE seen == LiveFarm(fieldReq[t].farm)
             p == [fieldReq[t] EXCEPT !.seen = seen]
             q == [p EXCEPT !.check = c]
  <1>1. seen \in BOOLEAN
    BY DEF LiveFarm
  <1>2. fieldReq' = [fieldReq EXCEPT ![t] = q]
    BY <1>0
  <1>3. c = "404" => seen = FALSE
    OBVIOUS
  <1> HIDE DEF seen
  <1>4. fieldReq[t] \in Requests
    BY <1>0
  <1>5. p \in Requests /\ p.seen = seen /\ p.answer = fieldReq[t].answer
        /\ p.op = fieldReq[t].op /\ p.farm = fieldReq[t].farm
    BY <1>1, <1>4, SeenIs, Zenon
  <1> HIDE DEF p
  <1>6. /\ q \in Requests /\ q.check = c /\ q.seen = seen
        /\ q.answer = fieldReq[t].answer /\ q.op = fieldReq[t].op /\ q.farm = fieldReq[t].farm
    BY <1>5, CheckIs, Zenon
  <1> HIDE DEF q
  <1>7. fieldReq[t].answer # 404 /\ (fieldReq[t].op # "idle" => fieldReq[t].farm \in Farms)
    BY <1>0 DEF CheckInv
  <1>8. /\ q.check = "404" => q.seen = FALSE
        /\ q.answer = 404 => q.check = "404"
        /\ q.op # "idle" => q.farm \in Farms
    BY <1>3, <1>6, <1>7, ZenonT(30)
  <1>9. QED
    BY <1>0, <1>2, <1>6, <1>8, RequestMoves, Zenon

\* A request that is answered is otherwise the same.
LEMMA AnswerIs ==
  ASSUME NEW q \in Requests, NEW a \in Answers
  PROVE  /\ [q EXCEPT !.answer = a] \in Requests
         /\ [q EXCEPT !.answer = a].answer = a
         /\ [q EXCEPT !.answer = a].seen = q.seen
         /\ [q EXCEPT !.answer = a].check = q.check
         /\ [q EXCEPT !.answer = a].op = q.op
         /\ [q EXCEPT !.answer = a].farm = q.farm
  BY DEF Requests

\* An answer leaves the rest of the request.
LEMMA AnswerGoes ==
  ASSUME CatalogInv, NEW t \in FieldThreads, NEW a \in Answers,
         a = 404 => fieldReq[t].check = "404",
         fieldReq' = [fieldReq EXCEPT ![t].answer = a],
         farm' \in [Farms -> {"new", "live", "gone"}], field' \in [Fields -> Farms \cup {"new", "gone"}]
  PROVE  CatalogInv'
  <1>0. fieldReq[t] \in Requests /\ fieldReq \in [FieldThreads -> Requests] /\ CheckInv
    BY DEF CatalogInv, CatalogTypeOK, Requests, Answers
  <1> DEFINE q == [fieldReq[t] EXCEPT !.answer = a]
  <1>1. /\ q \in Requests /\ q.answer = a /\ q.check = fieldReq[t].check
        /\ q.seen = fieldReq[t].seen /\ q.op = fieldReq[t].op /\ q.farm = fieldReq[t].farm
    BY <1>0, AnswerIs, Zenon
  <1>2. fieldReq' \in [FieldThreads -> Requests]
    BY <1>0, <1>1
  <1>3. fieldReq'[t] = q /\ \A u \in FieldThreads \ {t} : fieldReq'[u] = fieldReq[u]
    BY <1>0
  <1> HIDE DEF q
  <1>4. CheckInv'
    <2> SUFFICES ASSUME NEW u \in FieldThreads
        PROVE  /\ fieldReq'[u].check = "404" => fieldReq'[u].seen = FALSE
               /\ fieldReq'[u].answer = 404 => fieldReq'[u].check = "404"
               /\ fieldReq'[u].op # "idle" => fieldReq'[u].farm \in Farms
      BY DEF CheckInv
    <2>1. CASE u = t
      <3>1. fieldReq[t].check = "404" => fieldReq[t].seen = FALSE
        BY <1>0 DEF CheckInv
      <3>2. q.check = "404" => q.seen = FALSE
        BY <1>1, <3>1
      <3>3. q.answer = 404 => q.check = "404"
        BY <1>1
      <3>4. q.op # "idle" => q.farm \in Farms
        BY <1>0, <1>1 DEF CheckInv
      <3>5. QED
        BY <1>3, <2>1, <3>2, <3>3, <3>4, Zenon
    <2>2. CASE u # t
      BY <1>0, <1>3, <2>2 DEF CheckInv
    <2>3. QED
      BY <2>1, <2>2
  <1>5. QED
    BY <1>2, <1>4 DEF CatalogInv, CatalogTypeOK, Requests, Answers

\* The steps of a request of field_service, one by one.
LEMMA FieldAskStep ==
  ASSUME CatalogInv, NEW t \in FieldThreads, NEW g \in Farms, NEW op \in {"list", "create"},
         FieldAsk(t, op, g)
  PROVE  CatalogInv'
  <1>0. /\ farm \in [Farms -> {"new", "live", "gone"}]
        /\ field \in [Fields -> Farms \cup {"new", "gone"}]
    BY DEF CatalogInv, CatalogTypeOK
  <1> DEFINE q == [[Idle EXCEPT !.op = op] EXCEPT !.farm = g]
  <1>1. fieldReq' = [fieldReq EXCEPT ![t] = q] /\ UNCHANGED <<farm, field>>
    BY DEF FieldAsk
  <1>2. q \in Requests /\ q.check = "none" /\ q.answer = 0 /\ q.farm = g
    <2>1. Idle \in Requests /\ Idle.check = "none" /\ Idle.answer = 0
      BY DEF Idle, Requests, Answers, Checks
    <2>2. /\ q \in Requests /\ q.farm = g
          /\ q.check = Idle.check /\ q.answer = Idle.answer
      BY <2>1 DEF Requests
    <2>3. QED
      BY <2>1, <2>2
  <1> HIDE DEF q
  <1>3. q.check # "404" /\ q.answer # 404 /\ q.farm \in Farms
    BY <1>2
  <1>4. QED
    BY <1>0, <1>1, <1>2, <1>3, RequestMoves, Zenon

\* The gateway answers for the farm: a 404 says that there was none.
LEMMA FarmGetStep ==
  ASSUME CatalogInv, NEW t \in FieldThreads, FarmGet(t)
  PROVE  CatalogInv'
  <1>1. PICK c : /\ c = Validation(LiveFarm(fieldReq[t].farm), 404)
                 /\ fieldReq' = [fieldReq EXCEPT ![t].seen = LiveFarm(fieldReq[t].farm), ![t].check = c]
    BY Zenon DEF FarmGet
  <1>2. c \in Checks \ {"none"} /\ (c = "404" => ~LiveFarm(fieldReq[t].farm))
    BY <1>1 DEF Validation, Checks
  <1>3. fieldReq[t].check = "none" /\ UNCHANGED <<farm, field>>
    BY DEF FarmGet
  <1>4. QED
    BY <1>1, <1>2, <1>3, CheckComesBack, ZenonT(30)

\* The gateway fails: whatever its status, this is no 404.
LEMMA FarmGetFailsStep ==
  ASSUME CatalogInv, NEW t \in FieldThreads, NEW status \in {0, 500, 503, 504}, FarmGetFails(t, status)
  PROVE  CatalogInv'
  <1>1. PICK c : /\ c = Validation(FALSE, status)
                 /\ fieldReq' = [fieldReq EXCEPT ![t].seen = LiveFarm(fieldReq[t].farm), ![t].check = c]
    BY ZenonT(30) DEF FarmGetFails
  <1>2. c \in Checks \ {"none"} /\ c # "404"
    BY <1>1 DEF Validation, Checks
  <1>3. fieldReq[t].check = "none" /\ UNCHANGED <<farm, field>>
    BY DEF FarmGetFails
  <1>4. QED
    BY <1>1, <1>2, <1>3, CheckComesBack, ZenonT(30)

\* An answer that is 404 only after a check that said so.
LEMMA Answered ==
  ASSUME CatalogInv, NEW t \in FieldThreads,
         \E a \in Answers : /\ a = 404 => fieldReq[t].check = "404"
                            /\ fieldReq' = [fieldReq EXCEPT ![t].answer = a],
         farm' \in [Farms -> {"new", "live", "gone"}], field' \in [Fields -> Farms \cup {"new", "gone"}]
  PROVE  CatalogInv'
  BY AnswerGoes

\* The list of a farm that was found.
LEMMA FieldListStep ==
  ASSUME CatalogInv, NEW t \in FieldThreads, FieldList(t)
  PROVE  CatalogInv'
  <1>1. \E a \in Answers : /\ a = 404 => fieldReq[t].check = "404"
                           /\ fieldReq' = [fieldReq EXCEPT ![t].answer = a]
    BY DEF FieldList, Answers
  <1>2. /\ farm' \in [Farms -> {"new", "live", "gone"}]
        /\ field' \in [Fields -> Farms \cup {"new", "gone"}]
    BY DEF FieldList, CatalogInv, CatalogTypeOK
  <1>3. QED
    BY <1>1, <1>2, Answered

\* A refusal passes on what the check said.
LEMMA FieldRefusedStep ==
  ASSUME CatalogInv, NEW t \in FieldThreads, FieldRefused(t)
  PROVE  CatalogInv'
  <1>0. fieldReq[t] \in Requests
    BY DEF CatalogInv, CatalogTypeOK, Requests, Answers
  <1>1. /\ Status(fieldReq[t].check) \in Answers
        /\ Status(fieldReq[t].check) = 404 => fieldReq[t].check = "404"
    BY <1>0 DEF FieldRefused, Status, Requests, Checks, Answers
  <1>2. fieldReq' = [fieldReq EXCEPT ![t].answer = Status(fieldReq[t].check)]
    BY DEF FieldRefused
  <1>3. \E a \in Answers : /\ a = 404 => fieldReq[t].check = "404"
                           /\ fieldReq' = [fieldReq EXCEPT ![t].answer = a]
    BY <1>1, <1>2, Zenon
  <1>4. /\ farm' \in [Farms -> {"new", "live", "gone"}]
        /\ field' \in [Fields -> Farms \cup {"new", "gone"}]
    BY DEF FieldRefused, CatalogInv, CatalogTypeOK
  <1>5. QED
    BY <1>3, <1>4, Answered

\* The insert, whether or not the farm is there still.
LEMMA FieldInsertStep ==
  ASSUME CatalogInv, NEW t \in FieldThreads, NEW f \in Fields, FieldInsert(t, f)
  PROVE  CatalogInv'
  <1>0. /\ farm \in [Farms -> {"new", "live", "gone"}]
        /\ field \in [Fields -> Farms \cup {"new", "gone"}]
        /\ fieldReq[t].farm \in Farms
    BY DEF CatalogInv, CatalogTypeOK, FieldInsert, CheckInv
  <1>1. /\ farm' \in [Farms -> {"new", "live", "gone"}]
        /\ field' \in [Fields -> Farms \cup {"new", "gone"}]
    BY <1>0 DEF FieldInsert, WriteField
  <1>2. \/ fieldReq' = [fieldReq EXCEPT ![t].answer = 201]
        \/ fieldReq' = [fieldReq EXCEPT ![t].answer = 500]
    BY DEF FieldInsert
  <1>3. 201 \in Answers /\ 500 \in Answers /\ 201 # 404 /\ 500 # 404
    BY DEF Answers
  <1>4. QED
    BY <1>1, <1>2, <1>3, AnswerGoes

\* The invariant of the catalog is inductive, steps of the devices included.
LEMMA CatalogInvNext == CatalogInv /\ [DevNext]_devVars => CatalogInv'
  <1> SUFFICES ASSUME CatalogInv, [DevNext]_devVars PROVE CatalogInv'
    OBVIOUS
  <1>0. /\ farm \in [Farms -> {"new", "live", "gone"}]
        /\ field \in [Fields -> Farms \cup {"new", "gone"}]
    BY DEF CatalogInv, CatalogTypeOK
  <1>1. CASE UNCHANGED catalogVars
    BY <1>0, <1>1, TablesChange
  <1>2. ASSUME NEW g \in Farms, FarmCreate(g) \/ FarmUpdate(g) \/ FarmDelete(g)
        PROVE  CatalogInv'
    <2>1. farm' \in [Farms -> {"new", "live", "gone"}] /\ field' \in [Fields -> Farms \cup {"new", "gone"}]
      BY <1>0, <1>2 DEF FarmCreate, FarmUpdate, FarmDelete, WriteFarm
    <2>2. UNCHANGED fieldReq
      BY <1>2 DEF FarmCreate, FarmUpdate, FarmDelete
    <2>3. QED
      BY <2>1, <2>2, TablesChange
  <1>3. ASSUME NEW f \in Fields, FieldUpdate(f) \/ FieldDelete(f)
        PROVE  CatalogInv'
    <2>1. farm' \in [Farms -> {"new", "live", "gone"}] /\ field' \in [Fields -> Farms \cup {"new", "gone"}]
      BY <1>0, <1>3 DEF FieldUpdate, FieldDelete, WriteField
    <2>2. UNCHANGED fieldReq
      BY <1>3 DEF FieldUpdate, FieldDelete
    <2>3. QED
      BY <2>1, <2>2, TablesChange
  <1>4. CASE CatalogStep
    BY <1>2, <1>3, <1>4, FieldAskStep, FarmGetStep, FarmGetFailsStep, FieldRefusedStep, FieldListStep, FieldInsertStep
       DEF CatalogStep
  <1>5. QED
    BY <1>1, <1>2, <1>3, <1>4 DEF DevNext

\* Catalog is type-correct (AppFarmService, AppFieldService).
THEOREM CatalogTypeCorrect == DevSpec => []CatalogTypeOK
  <1>1. DevInit => CatalogInv
    BY CatalogInitial DEF DevInit
  <1>2. CatalogInv => CatalogTypeOK
    BY DEF CatalogInv
  <1>3. QED
    BY <1>1, <1>2, CatalogInvNext, PTL DEF DevSpec

\* field_service answers 404 for a farm only if the farm was absent when it
\* asked, for every number of threads and whatever becomes of farm_service
\* (FarmServiceClient::exists).
THEOREM NotFoundIsHonest == DevSpec => []NotFoundIsTrue
  <1>1. DevInit => CatalogInv
    BY CatalogInitial DEF DevInit
  <1>2. CatalogInv => NotFoundIsTrue
    BY DEF CatalogInv, CheckInv, NotFoundIsTrue
  <1>3. QED
    BY <1>1, <1>2, CatalogInvNext, PTL DEF DevSpec
=============================================================================
