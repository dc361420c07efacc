------------------------- MODULE RecordStore_proofs -------------------------
(***************************************************************************)
(* Proofs about RecordStore: the variables keep their sets, the table      *)
(* converges to the newest upserts, no write takes a row back in time, and *)
(* subscribers are told what the table holds, for any number of threads,   *)
(* URIs and payloads and batches of any length.                            *)
(***************************************************************************)
EXTENDS RecordStore, SequenceTheorems, TLAPS

(* A row with what has been handled for its URI: what the committed table  *)
(* and the working copy of a transaction both keep.                        *)
RowOK(row, h) ==
  /\ row \in Row /\ row.at <= MaxI64
  /\ row.state = "absent" => row.at = 0
  /\ h \in Issued
  /\ RowConverges(row, h)

RowsOK == \A u \in Uris : RowOK(rows[u], issued[u])
TxOK   == \A u \in Uris : RowOK(tx.rows[u], tx.issued[u])

(* The working copy is no older than the table, which nobody else can      *)
(* change while the mutex is held.                                         *)
TxAhead == lock # Nobody => \A u \in Uris : tx.rows[u].at >= rows[u].at

(* The inductive invariant.                                                *)
StoreInv == TypeOK /\ RowsOK /\ TxOK /\ TxAhead

-----------------------------------------------------------------------------
(* The four statements on one row.                                         *)
LEMMA AbsentOK == RowOK(Absent, NotIssued)
<1>1. Absent \in Row /\ Absent.at = 0 /\ Absent.state = "absent" /\ MaxI64 \in Nat
  BY StoreAssumption DEF Absent, Row, RowStates
<1>2. NotIssued \in Issued /\ NotIssued.upAt = 0 /\ NotIssued.upCid = NoCid
  BY DEF NotIssued, Issued
<1> QED BY <1>1, <1>2 DEF RowOK, RowConverges

(* An upsert, which never makes a row older.                               *)
LEMMA UpsertOK ==
  ASSUME NEW row, NEW h, RowOK(row, h), NEW c \in Cids, NEW t \in Times, InRange(t)
  PROVE  /\ RowOK(UpsertRow(row, c, t), IssueUpsert(h, c, t))
         /\ UpsertRow(row, c, t).at >= row.at
<1> DEFINE r == UpsertRow(row, c, t)
           g == IssueUpsert(h, c, t)
<1>1. t \in Nat /\ t <= MaxI64 /\ MaxI64 \in Nat /\ c # NoCid
  BY StoreAssumption, NoCidAssumption DEF InRange
<1>2. /\ row \in Row /\ row.at \in Nat /\ row.at <= MaxI64
      /\ row.state = "absent" => row.at = 0
      /\ h \in Issued /\ h.upAt \in Nat /\ row.at >= h.upAt
      /\ row.state = "absent" <=> h.upCid = NoCid
      /\ row.state = "live" => row.at = h.upAt /\ row.cid = h.upCid
  BY DEF RowOK, RowConverges, Row, Issued
<1>3. g \in Issued
  BY <1>1, <1>2 DEF IssueUpsert, Issued
<1>4. CASE UpsertAccepted(row, t)
  <2>1. r = Live(c, t)
    BY <1>4 DEF UpsertRow
  <2>2. /\ r \in Row /\ r.at = t /\ r.state = "live" /\ r.cid = c
    BY <1>1, <2>1 DEF Live, Row, RowStates
  <2>3. t >= row.at
    BY <1>1, <1>2, <1>4 DEF UpsertAccepted
  <2>4. g.upAt = t /\ g.upCid = c
    BY <1>1, <1>2, <2>3 DEF IssueUpsert, Issued
  <2> QED BY <1>1, <1>3, <2>2, <2>3, <2>4 DEF RowOK, RowConverges
<1>5. CASE ~UpsertAccepted(row, t)
  <2>1. r = row /\ row.state # "absent" /\ t < row.at
    BY <1>1, <1>2, <1>5 DEF UpsertRow, UpsertAccepted
  <2>2. CASE t >= h.upAt
    <3>1. g.upAt = t /\ g.upCid = c
      BY <1>2, <2>2 DEF IssueUpsert, Issued
    <3>2. row.state # "live"
      BY <1>1, <1>2, <2>1, <2>2
    <3> QED BY <1>1, <1>2, <1>3, <2>1, <3>1, <3>2 DEF RowOK, RowConverges
  <2>3. CASE ~(t >= h.upAt)
    <3>1. g = h
      BY <2>3 DEF IssueUpsert
    <3> QED BY <1>2, <2>1, <3>1
  <2> QED BY <2>2, <2>3
<1> QED BY <1>4, <1>5

(* A delete with its time.                                                 *)
LEMMA DeleteOK ==
  ASSUME NEW row, NEW h, RowOK(row, h), NEW t \in Times, InRange(t)
  PROVE  /\ RowOK(DeleteRow(row, t), IssueDelete(h, t))
         /\ DeleteRow(row, t).at >= row.at
<1> DEFINE r == DeleteRow(row, t)
           g == IssueDelete(h, t)
<1>1. t \in Nat /\ t <= MaxI64 /\ MaxI64 \in Nat
  BY StoreAssumption DEF InRange
<1>2. /\ row \in Row /\ row.at \in Nat /\ row.at <= MaxI64
      /\ row.state = "absent" => row.at = 0
      /\ h \in Issued /\ h.upAt \in Nat /\ row.at >= h.upAt
      /\ row.state = "absent" <=> h.upCid = NoCid
      /\ row.state = "live" => row.at = h.upAt /\ row.cid = h.upCid
  BY DEF RowOK, RowConverges, Row, Issued
<1>3. g \in Issued /\ g.upAt = h.upAt /\ g.upCid = h.upCid
  BY <1>1, <1>2 DEF IssueDelete, Issued
<1>4. CASE DeleteAccepted(row, t)
  <2>1. row.state = "live" /\ t >= row.at
    BY <1>4 DEF DeleteAccepted
  <2>2. r = [row EXCEPT !.state = "deleted", !.at = t]
    BY <1>4 DEF DeleteRow
  <2>3. r \in Row /\ r.state = "deleted" /\ r.at = t
    BY <1>1, <1>2, <2>2 DEF Row, RowStates
  <2> QED BY <1>1, <1>2, <1>3, <2>1, <2>3 DEF RowOK, RowConverges
<1>5. CASE ~DeleteAccepted(row, t)
  <2>1. r = row
    BY <1>5 DEF DeleteRow
  <2> QED BY <1>2, <1>3, <2>1 DEF RowOK, RowConverges
<1> QED BY <1>4, <1>5

(* A delete without a time.                                                *)
LEMMA DeleteUnversionedOK ==
  ASSUME NEW row, NEW h, RowOK(row, h), row.state = "live"
  PROVE  /\ RowOK(DeleteRowUnversioned(row), h)
         /\ DeleteRowUnversioned(row).at = row.at
<1> DEFINE r == DeleteRowUnversioned(row)
<1>1. r = [row EXCEPT !.state = "deleted"]
  BY DEF DeleteRowUnversioned
<1>2. row \in Row
  BY DEF RowOK
<1>3. r \in Row /\ r.state = "deleted" /\ r.at = row.at
  BY <1>1, <1>2 DEF Row, RowStates
<1> QED BY <1>3 DEF RowOK, RowConverges

-----------------------------------------------------------------------------
(* Notifications.                                                          *)
LEMMA NotesOK ==
  ASSUME NEW u \in Uris
  PROVE  /\ DeleteNote(u) \in Note
         /\ \A c \in Cids, t \in Times : UpsertNote(u, c, t) \in Note
BY StoreAssumption DEF DeleteNote, UpsertNote, Note

LEMMA SeenOK ==
  ASSUME NEW note \in Note
  PROVE  Seen(note) \in Row /\ note.uri \in Uris
<1>1. CASE note \in [kind : {"upsert"}, uri : Uris, cid : Cids, at : Nat]
  BY <1>1 DEF Seen, Live, Row, RowStates
<1>2. CASE note \in [kind : {"delete"}, uri : Uris]
  BY <1>2 DEF Seen, Absent, Row, RowStates
<1> QED BY <1>1, <1>2 DEF Note

LEMMA UrisOfOK ==
  ASSUME NEW notes \in Seq(Note)
  PROVE  UrisOf(notes) \subseteq Uris
<1> SUFFICES ASSUME NEW i \in DOMAIN notes PROVE notes[i].uri \in Uris
  BY DEF UrisOf
<1>1. notes[i] \in Note
  BY LenProperties, ElementOfSeq
<1> QED BY <1>1, SeenOK

(* What Owe leaves.                                                        *)
LEMMA OweOK ==
  ASSUME TypeOK, NEW w \in Writers, NEW u \in Uris, NEW note \in Note, Owe(w, u, note)
  PROVE  outbox' \in [Writers -> Seq(Note)] /\ suspect' \in SUBSET Uris
<1>1. <<note>> \in Seq(Note)
  OBVIOUS
<1>2. outbox \in [Writers -> Seq(Note)] /\ suspect \in SUBSET Uris
  BY DEF TypeOK
<1>3. outbox' = [outbox EXCEPT ![w] = <<note>>]
  BY DEF Owe
<1>4. suspect' \in {suspect \cup {u}, suspect \ {u}}
  BY DEF Owe
<1> QED BY <1>1, <1>2, <1>3, <1>4

(* An empty transaction.                                                   *)
LEMMA NoTxOK == NoTx \in Tx /\ \A u \in Uris : RowOK(NoTx.rows[u], NoTx.issued[u])
<1>1. /\ NoTx.rows = [u \in Uris |-> Absent]
      /\ NoTx.issued = [u \in Uris |-> NotIssued]
  BY DEF NoTx
<1>2. \A u \in Uris : RowOK(NoTx.rows[u], NoTx.issued[u])
  BY <1>1, AbsentOK
<1>3. Absent \in Row /\ NotIssued \in Issued
  BY AbsentOK DEF RowOK
<1>4. <<>> \in Seq(Note)
  OBVIOUS
<1>5. NoTx \in Tx
  BY <1>3, <1>4 DEF NoTx, Tx
<1> QED BY <1>2, <1>5

-----------------------------------------------------------------------------
(* The initial state.                                                      *)
LEMMA StoreInit == Init => StoreInv
<1> SUFFICES ASSUME Init PROVE StoreInv
  OBVIOUS
<1>1. Absent \in Row /\ NotIssued \in Issued /\ Absent.at = 0 /\ MaxI64 \in Nat
  BY AbsentOK, StoreAssumption DEF RowOK, Absent
<1>2. <<>> \in Seq(Note)
  OBVIOUS
<1>3. TypeOK
  BY <1>1, <1>2, NoTxOK DEF Init, TypeOK
<1>4. RowsOK
  BY AbsentOK DEF Init, RowsOK
<1>5. TxOK /\ TxAhead
  BY NoTxOK DEF Init, TxOK, TxAhead
<1> QED BY <1>3, <1>4, <1>5 DEF StoreInv

(* A step that changes the row of one URI and what was handled for it,     *)
(* while no transaction is open.                                           *)
LEMMA OneRowStep ==
  ASSUME StoreInv, lock = Nobody,
         NEW u \in Uris, NEW r, NEW h, RowOK(r, h),
         rows' = [rows EXCEPT ![u] = r], issued' = [issued EXCEPT ![u] = h],
         outbox' \in [Writers -> Seq(Note)], suspect' \in SUBSET Uris,
         UNCHANGED <<cursor, lock, tx, mirror>>
  PROVE  StoreInv'
<1>1. r \in Row /\ r.at <= MaxI64 /\ h \in Issued
  BY DEF RowOK
<1>2. TypeOK'
  BY <1>1 DEF StoreInv, TypeOK
<1>3. RowsOK'
  BY DEF StoreInv, TypeOK, RowsOK
<1>4. TxOK' /\ TxAhead'
  BY DEF StoreInv, TxOK, TxAhead
<1> QED BY <1>2, <1>3, <1>4 DEF StoreInv

LEMMA UpsertRecordStep ==
  ASSUME StoreInv, NEW w \in Writers, NEW u \in Uris, NEW c \in Cids, NEW t \in Times,
         UpsertRecord(w, u, c, t)
  PROVE  StoreInv' /\ rows'[u].at >= rows[u].at
<1>1. RowOK(rows[u], issued[u]) /\ InRange(t) /\ lock = Nobody
  BY DEF StoreInv, RowsOK, UpsertRecord, Idle
<1>2. /\ RowOK(UpsertRow(rows[u], c, t), IssueUpsert(issued[u], c, t))
      /\ UpsertRow(rows[u], c, t).at >= rows[u].at
  BY <1>1, UpsertOK
<1>3. /\ rows' = [rows EXCEPT ![u] = UpsertRow(rows[u], c, t)]
      /\ issued' = [issued EXCEPT ![u] = IssueUpsert(issued[u], c, t)]
      /\ UNCHANGED <<cursor, lock, tx, mirror>>
  BY DEF UpsertRecord
<1>4. outbox' \in [Writers -> Seq(Note)] /\ suspect' \in SUBSET Uris
  <2>1. CASE UpsertAccepted(rows[u], t)
    <3>1. Owe(w, u, UpsertNote(u, c, t)) /\ UpsertNote(u, c, t) \in Note
      BY <2>1, NotesOK DEF UpsertRecord
    <3> QED BY <3>1, OweOK DEF StoreInv
  <2>2. CASE ~UpsertAccepted(rows[u], t)
    BY <2>2 DEF UpsertRecord, StoreInv, TypeOK
  <2> QED BY <2>1, <2>2
<1>5. StoreInv'
  BY <1>1, <1>2, <1>3, <1>4, OneRowStep
<1>6. rows'[u] = UpsertRow(rows[u], c, t)
  BY <1>3 DEF StoreInv, TypeOK
<1> QED BY <1>2, <1>5, <1>6

LEMMA SoftDeleteStep ==
  ASSUME StoreInv, NEW w \in Writers, NEW u \in Uris, NEW t \in Times,
         SoftDeleteRecord(w, u, t)
  PROVE  StoreInv' /\ rows'[u].at >= rows[u].at
<1>1. RowOK(rows[u], issued[u]) /\ InRange(t) /\ lock = Nobody
  BY DEF StoreInv, RowsOK, SoftDeleteRecord, Idle
<1>2. /\ RowOK(DeleteRow(rows[u], t), IssueDelete(issued[u], t))
      /\ DeleteRow(rows[u], t).at >= rows[u].at
  BY <1>1, DeleteOK
<1>3. /\ rows' = [rows EXCEPT ![u] = DeleteRow(rows[u], t)]
      /\ issued' = [issued EXCEPT ![u] = IssueDelete(issued[u], t)]
      /\ UNCHANGED <<cursor, lock, tx, mirror>>
  BY DEF SoftDeleteRecord
<1>4. outbox' \in [Writers -> Seq(Note)] /\ suspect' \in SUBSET Uris
  <2>1. CASE DeleteAccepted(rows[u], t)
    <3>1. Owe(w, u, DeleteNote(u)) /\ DeleteNote(u) \in Note
      BY <2>1, NotesOK DEF SoftDeleteRecord
    <3> QED BY <3>1, OweOK DEF StoreInv
  <2>2. CASE ~DeleteAccepted(rows[u], t)
    BY <2>2 DEF SoftDeleteRecord, StoreInv, TypeOK
  <2> QED BY <2>1, <2>2
<1>5. StoreInv'
  BY <1>1, <1>2, <1>3, <1>4, OneRowStep
<1>6. rows'[u] = DeleteRow(rows[u], t)
  BY <1>3 DEF StoreInv, TypeOK
<1> QED BY <1>2, <1>5, <1>6

LEMMA UnversionedStep ==
  ASSUME StoreInv, NEW w \in Writers, NEW u \in Uris, SoftDeleteUnversioned(w, u)
  PROVE  StoreInv' /\ rows'[u].at = rows[u].at
<1> DEFINE r == DeleteRowUnversioned(rows[u])
<1>1. RowOK(rows[u], issued[u]) /\ lock = Nobody /\ rows[u].state = "live"
  BY DEF StoreInv, RowsOK, SoftDeleteUnversioned, Idle
<1>2. RowOK(r, issued[u]) /\ r.at = rows[u].at
  BY <1>1, DeleteUnversionedOK
<1>3. /\ rows' = [rows EXCEPT ![u] = r]
      /\ issued' = [issued EXCEPT ![u] = issued[u]]
      /\ UNCHANGED <<cursor, lock, tx, mirror>>
  BY DEF SoftDeleteUnversioned, StoreInv, TypeOK
<1>4. outbox' \in [Writers -> Seq(Note)] /\ suspect' \in SUBSET Uris
  <2>1. Owe(w, u, DeleteNote(u)) /\ DeleteNote(u) \in Note
    BY NotesOK DEF SoftDeleteUnversioned
  <2> QED BY <2>1, OweOK DEF StoreInv
<1>5. StoreInv'
  BY <1>1, <1>2, <1>3, <1>4, OneRowStep
<1>6. rows'[u] = r
  BY <1>3 DEF StoreInv, TypeOK
<1> QED BY <1>2, <1>5, <1>6

LEMMA HardDeleteStep ==
  ASSUME StoreInv, NEW w \in Writers, NEW u \in Uris, HardDeleteRecord(w, u)
  PROVE  StoreInv' /\ rows'[u].state = "absent"
<1>1. /\ rows' = [rows EXCEPT ![u] = Absent]
      /\ issued' = [issued EXCEPT ![u] = NotIssued]
      /\ lock = Nobody /\ UNCHANGED <<cursor, lock, tx, mirror>>
  BY DEF HardDeleteRecord, Idle
<1>2. outbox' \in [Writers -> Seq(Note)] /\ suspect' \in SUBSET Uris
  <2>1. Owe(w, u, DeleteNote(u)) /\ DeleteNote(u) \in Note
    BY NotesOK DEF HardDeleteRecord
  <2> QED BY <2>1, OweOK DEF StoreInv
<1>3. StoreInv'
  BY <1>1, <1>2, AbsentOK, OneRowStep
<1>4. rows'[u] = Absent
  BY <1>1 DEF StoreInv, TypeOK
<1> QED BY <1>3, <1>4 DEF Absent

-----------------------------------------------------------------------------
(* A record with new values in six of its fields; a transaction after an   *)
(* operation is one.                                                       *)
LEMMA SixFields ==
  ASSUME NEW A, NEW B, NEW C, NEW D, NEW E, NEW F, NEW G,
         NEW x \in [cursor : A, ran : B, rows : C, issued : D, upserts : E,
                    deletes : F, mixed : G],
         NEW b \in B, NEW c \in C, NEW d \in D, NEW e \in E, NEW f \in F, NEW g \in G
  PROVE  [x EXCEPT !.ran = b, !.rows = c, !.issued = d, !.upserts = e, !.deletes = f,
                   !.mixed = g]
         \in [cursor : A, ran : B, rows : C, issued : D, upserts : E, deletes : F, mixed : G]
OBVIOUS

LEMMA TxUpdated ==
  ASSUME NEW x \in Tx, NEW rs \in [Uris -> Row], NEW hs \in [Uris -> Issued],
         NEW ups \in Seq(Note), NEW dels \in Seq(Note), NEW mix \in SUBSET Uris
  PROVE  [x EXCEPT !.ran = x.ran + 1, !.rows = rs, !.issued = hs,
                   !.upserts = ups, !.deletes = dels, !.mixed = mix] \in Tx
<1>1. x.ran + 1 \in Nat
  BY DEF Tx
<1> QED BY <1>1, SixFields, x \in Tx, rs \in [Uris -> Row], hs \in [Uris -> Issued],
                ups \in Seq(Note), dels \in Seq(Note), mix \in SUBSET Uris DEF Tx

(* A step of a transaction that changes at most the row of one URI.        *)
LEMMA OneTxStep ==
  ASSUME StoreInv, NEW u \in Uris, NEW r, NEW h, RowOK(r, h), r.at >= tx.rows[u].at,
         tx' \in Tx,
         tx'.rows = [tx.rows EXCEPT ![u] = r], tx'.issued = [tx.issued EXCEPT ![u] = h],
         UNCHANGED <<rows, cursor, lock, outbox, issued, mirror, suspect>>
  PROVE  StoreInv'
<1>1. TypeOK'
  BY DEF StoreInv, TypeOK
<1>2. RowsOK'
  BY DEF StoreInv, RowsOK
<1>3. tx.rows \in [Uris -> Row] /\ tx.issued \in [Uris -> Issued] /\ rows \in [Uris -> Row]
  BY DEF StoreInv, TypeOK, Tx
<1>4. TxOK'
  BY <1>3 DEF StoreInv, TxOK
<1>5. TxAhead'
  <2> SUFFICES ASSUME lock # Nobody, NEW v \in Uris PROVE tx'.rows[v].at >= rows[v].at
    BY DEF TxAhead
  <2>1. tx.rows[v].at >= rows[v].at
    BY DEF StoreInv, TxAhead
  <2>2. tx.rows[v].at \in Nat /\ rows[v].at \in Nat /\ r.at \in Nat
    BY <1>3 DEF Row, RowOK
  <2>3. CASE v = u
    BY <1>3, <2>1, <2>2, <2>3
  <2>4. CASE v # u
    BY <1>3, <2>1, <2>4
  <2> QED BY <2>3, <2>4
<1> QED BY <1>1, <1>2, <1>4, <1>5 DEF StoreInv

LEMMA BatchUpsertStep ==
  ASSUME StoreInv, NEW u \in Uris, NEW c \in Cids, NEW t \in Times, BatchUpsert(u, c, t)
  PROVE  StoreInv'
<1> DEFINE r == UpsertRow(tx.rows[u], c, t)
           h == IssueUpsert(tx.issued[u], c, t)
<1>1. tx \in Tx /\ RowOK(tx.rows[u], tx.issued[u]) /\ InRange(t)
  BY DEF StoreInv, TypeOK, TxOK, BatchUpsert
<1>2. RowOK(r, h) /\ r.at >= tx.rows[u].at
  BY <1>1, UpsertOK
<1>3. r \in Row /\ h \in Issued
  BY <1>2 DEF RowOK
<1>4. PICK ups \in Seq(Note), mix \in SUBSET Uris :
        tx' = [tx EXCEPT !.ran = @ + 1, !.rows[u] = r, !.issued[u] = h,
                         !.upserts = ups, !.mixed = mix]
  <2> DEFINE ups == IF UpsertAccepted(tx.rows[u], t)
                    THEN Append(tx.upserts, UpsertNote(u, c, t)) ELSE tx.upserts
             mix == IF UpsertAccepted(tx.rows[u], t) /\ u \in UrisOf(tx.deletes)
                    THEN tx.mixed \cup {u} ELSE tx.mixed
  <2>1. UpsertNote(u, c, t) \in Note /\ tx.upserts \in Seq(Note) /\ tx.mixed \in SUBSET Uris
    BY <1>1, NotesOK DEF Tx
  <2>2. ups \in Seq(Note) /\ mix \in SUBSET Uris
    BY <2>1, AppendProperties
  <2>3. tx' = [tx EXCEPT !.ran = @ + 1, !.rows[u] = r, !.issued[u] = h,
                         !.upserts = ups, !.mixed = mix]
    BY DEF BatchUpsert
  <2> QED BY <2>2, <2>3
<1> HIDE DEF r, h
<1>5. tx' \in Tx
  <2>1. [tx.rows EXCEPT ![u] = r] \in [Uris -> Row]
    BY <1>1, <1>3 DEF Tx
  <2>2. [tx.issued EXCEPT ![u] = h] \in [Uris -> Issued]
    BY <1>1, <1>3 DEF Tx
  <2>3. tx' = [tx EXCEPT !.ran = tx.ran + 1, !.rows = [tx.rows EXCEPT ![u] = r],
                         !.issued = [tx.issued EXCEPT ![u] = h],
                         !.upserts = ups, !.deletes = tx.deletes, !.mixed = mix]
    BY <1>1, <1>4 DEF Tx
  <2>4. tx.upserts \in Seq(Note) /\ tx.deletes \in Seq(Note)
    BY <1>1 DEF Tx
  <2> QED BY <1>1, <2>1, <2>2, <2>3, <2>4, TxUpdated
<1>6. tx'.rows = [tx.rows EXCEPT ![u] = r] /\ tx'.issued = [tx.issued EXCEPT ![u] = h]
  BY <1>1, <1>4 DEF Tx
<1> QED BY <1>2, <1>5, <1>6, OneTxStep DEF BatchUpsert

LEMMA BatchDeleteStep ==
  ASSUME StoreInv, NEW u \in Uris, NEW t \in Times, BatchDelete(u, t)
  PROVE  StoreInv'
<1> DEFINE r == DeleteRow(tx.rows[u], t)
           h == IssueDelete(tx.issued[u], t)
<1>1. tx \in Tx /\ RowOK(tx.rows[u], tx.issued[u]) /\ InRange(t)
  BY DEF StoreInv, TypeOK, TxOK, BatchDelete
<1>2. RowOK(r, h) /\ r.at >= tx.rows[u].at
  BY <1>1, DeleteOK
<1>3. r \in Row /\ h \in Issued
  BY <1>2 DEF RowOK
<1>4. PICK dels \in Seq(Note), mix \in SUBSET Uris :
        tx' = [tx EXCEPT !.ran = @ + 1, !.rows[u] = r, !.issued[u] = h,
                         !.deletes = dels, !.mixed = mix]
  <2> DEFINE dels == IF DeleteAccepted(tx.rows[u], t)
                     THEN Append(tx.deletes, DeleteNote(u)) ELSE tx.deletes
             mix == IF DeleteAccepted(tx.rows[u], t) THEN tx.mixed \ {u} ELSE tx.mixed
  <2>1. DeleteNote(u) \in Note /\ tx.deletes \in Seq(Note) /\ tx.mixed \in SUBSET Uris
    BY <1>1, NotesOK DEF Tx
  <2>2. dels \in Seq(Note) /\ mix \in SUBSET Uris
    BY <2>1, AppendProperties
  <2>3. tx' = [tx EXCEPT !.ran = @ + 1, !.rows[u] = r, !.issued[u] = h,
                         !.deletes = dels, !.mixed = mix]
    BY DEF BatchDelete
  <2> QED BY <2>2, <2>3
<1> HIDE DEF r, h
<1>5. tx' \in Tx
  <2>1. [tx.rows EXCEPT ![u] = r] \in [Uris -> Row]
    BY <1>1, <1>3 DEF Tx
  <2>2. [tx.issued EXCEPT ![u] = h] \in [Uris -> Issued]
    BY <1>1, <1>3 DEF Tx
  <2>3. tx' = [tx EXCEPT !.ran = tx.ran + 1, !.rows = [tx.rows EXCEPT ![u] = r],
                         !.issued = [tx.issued EXCEPT ![u] = h],
                         !.upserts = tx.upserts, !.deletes = dels, !.mixed = mix]
    BY <1>1, <1>4 DEF Tx
  <2>4. tx.upserts \in Seq(Note) /\ tx.deletes \in Seq(Note)
    BY <1>1 DEF Tx
  <2> QED BY <1>1, <2>1, <2>2, <2>3, <2>4, TxUpdated
<1>6. tx'.rows = [tx.rows EXCEPT ![u] = r] /\ tx'.issued = [tx.issued EXCEPT ![u] = h]
  BY <1>1, <1>4 DEF Tx
<1> QED BY <1>2, <1>5, <1>6, OneTxStep DEF BatchDelete

LEMMA BatchSkipStep ==
  ASSUME StoreInv, NEW t \in Times, BatchSkip(t)
  PROVE  StoreInv'
<1>1. /\ tx \in Tx /\ tx' = [tx EXCEPT !.ran = @ + 1]
      /\ UNCHANGED <<rows, cursor, lock, outbox, issued, mirror, suspect>>
  BY DEF StoreInv, TypeOK, BatchSkip
<1>2. tx' \in Tx /\ tx'.rows = tx.rows /\ tx'.issued = tx.issued
  BY <1>1 DEF Tx
<1> QED BY <1>1, <1>2 DEF StoreInv, TypeOK, RowsOK, TxOK, TxAhead

-----------------------------------------------------------------------------
(* The ends of a transaction, and the calls that leave the table alone.    *)
LEMMA BeginStep ==
  ASSUME StoreInv, NEW w \in Writers, NEW c \in Cursors \cup {0}, BeginBatch(w, c)
  PROVE  StoreInv'
<1>1. /\ lock' = w
      /\ tx' = [NoTx EXCEPT !.cursor = c, !.rows = rows, !.issued = issued]
      /\ UNCHANGED <<rows, cursor, outbox, issued, mirror, suspect>>
  BY DEF BeginBatch
<1>2. rows \in [Uris -> Row] /\ issued \in [Uris -> Issued]
  BY DEF StoreInv, TypeOK
<1>3. tx' \in Tx /\ tx'.rows = rows /\ tx'.issued = issued
  BY <1>1, <1>2, NoTxOK DEF Tx
<1>4. TypeOK'
  BY <1>1, <1>3 DEF StoreInv, TypeOK
<1>5. RowsOK' /\ TxOK'
  BY <1>1, <1>3 DEF StoreInv, RowsOK, TxOK
<1>6. TxAhead'
  BY <1>1, <1>2, <1>3 DEF TxAhead, Row
<1> QED BY <1>4, <1>5, <1>6 DEF StoreInv

LEMMA CommitStep ==
  ASSUME StoreInv, CommitBatch
  PROVE  StoreInv' /\ \A u \in Uris : rows'[u].at >= rows[u].at
<1> DEFINE notes == tx.upserts \o tx.deletes
<1>1. /\ lock # Nobody /\ rows' = tx.rows /\ issued' = tx.issued
      /\ cursor' = (IF tx.cursor = 0 THEN cursor ELSE tx.cursor)
      /\ outbox' = [outbox EXCEPT ![lock] = notes]
      /\ lock' = Nobody /\ tx' = NoTx /\ mirror' = mirror
  BY DEF CommitBatch
<1>2. /\ tx \in Tx /\ outbox \in [Writers -> Seq(Note)] /\ cursor \in Cursors \cup {0}
      /\ suspect \in SUBSET Uris /\ mirror \in [Uris -> Row] /\ lock \in Writers \cup {Nobody}
  BY DEF StoreInv, TypeOK
<1>3. notes \in Seq(Note)
  BY <1>2, ConcatProperties DEF Tx
<1>4. suspect' \in SUBSET Uris
  <2>1. UrisOf(notes) \subseteq Uris
    BY <1>3, UrisOfOK
  <2>2. suspect' \subseteq suspect \cup UrisOf(notes)
    BY DEF CommitBatch
  <2> QED BY <1>2, <2>1, <2>2
<1> HIDE DEF notes
<1>5. \A u \in Uris : RowOK(rows'[u], issued'[u])
  BY <1>1 DEF StoreInv, TxOK
<1>6. TypeOK'
  <2>1. rows' \in [Uris -> Row] /\ issued' \in [Uris -> Issued] /\ cursor' \in Cursors \cup {0}
    BY <1>1, <1>2 DEF Tx
  <2>2. \A u \in Uris : rows'[u].at <= MaxI64
    BY <1>5 DEF RowOK
  <2>3. outbox' \in [Writers -> Seq(Note)]
    BY <1>1, <1>2, <1>3
  <2> QED BY <1>1, <1>2, <1>4, <2>1, <2>2, <2>3, NoTxOK DEF TypeOK
<1>7. RowsOK'
  BY <1>5 DEF RowsOK
<1>8. TxOK' /\ TxAhead'
  BY <1>1, NoTxOK DEF TxOK, TxAhead
<1>9. \A u \in Uris : rows'[u].at >= rows[u].at
  BY <1>1 DEF StoreInv, TxAhead
<1> QED BY <1>6, <1>7, <1>8, <1>9 DEF StoreInv

LEMMA AbortStep ==
  ASSUME StoreInv, AbortBatch
  PROVE  StoreInv'
<1>1. /\ lock' = Nobody /\ tx' = NoTx
      /\ UNCHANGED <<rows, cursor, outbox, issued, mirror, suspect>>
  BY DEF AbortBatch
<1>2. TypeOK' /\ RowsOK'
  BY <1>1, NoTxOK DEF StoreInv, TypeOK, RowsOK
<1>3. TxOK' /\ TxAhead'
  BY <1>1, NoTxOK DEF TxOK, TxAhead
<1> QED BY <1>2, <1>3 DEF StoreInv

LEMMA SetCursorStep ==
  ASSUME StoreInv, NEW w \in Writers, NEW c \in Cursors, SetCursor(w, c)
  PROVE  StoreInv'
BY DEF SetCursor, StoreInv, TypeOK, RowsOK, TxOK, TxAhead

LEMMA PublishStep ==
  ASSUME StoreInv, NEW w \in Writers, Publish(w)
  PROVE  StoreInv'
<1>1. /\ outbox[w] \in Seq(Note) /\ outbox[w] # <<>>
      /\ outbox \in [Writers -> Seq(Note)] /\ mirror \in [Uris -> Row]
  BY DEF StoreInv, TypeOK, Publish
<1>2. Head(outbox[w]) \in Note /\ Tail(outbox[w]) \in Seq(Note)
  BY <1>1, HeadTailProperties
<1>3. Seen(Head(outbox[w])) \in Row /\ Head(outbox[w]).uri \in Uris
  BY <1>2, SeenOK
<1>4. outbox' = [outbox EXCEPT ![w] = Tail(outbox[w])]
  BY <1>1 DEF Publish
<1>5. outbox' \in [Writers -> Seq(Note)]
  BY <1>1, <1>2, <1>4
<1>6. mirror' \in [Uris -> Row]
  BY <1>1, <1>3 DEF Publish
<1>7. UNCHANGED <<rows, cursor, lock, tx, issued, suspect>>
  BY DEF Publish
<1> QED BY <1>5, <1>6, <1>7 DEF StoreInv, TypeOK, RowsOK, TxOK, TxAhead

-----------------------------------------------------------------------------
(* What no step does to a row, in the form NoClobber has.                  *)
Forward == \A u \in Uris : rows'[u].state # "absent" => rows'[u].at >= rows[u].at

(* A step that leaves the rows of the other URIs alone.                    *)
LEMMA OneRowForward ==
  ASSUME StoreInv, NEW u \in Uris, NEW r, rows' = [rows EXCEPT ![u] = r],
         rows'[u].state = "absent" \/ rows'[u].at >= rows[u].at
  PROVE  Forward
<1>1. rows \in [Uris -> Row]
  BY DEF StoreInv, TypeOK
<1>2. \A v \in Uris : rows[v].at \in Nat
  BY <1>1 DEF Row
<1>3. \A v \in Uris \ {u} : rows'[v] = rows[v]
  BY <1>1
<1> QED BY <1>2, <1>3 DEF Forward

LEMMA SameRowsForward ==
  ASSUME StoreInv, UNCHANGED rows
  PROVE  Forward
<1>1. \A v \in Uris : rows[v].at \in Nat
  BY DEF StoreInv, TypeOK, Row
<1> QED BY <1>1 DEF Forward

(* Every step keeps the invariant and goes forward.                        *)
LEMMA StoreKept ==
  ASSUME StoreInv, [Next]_vars
  PROVE  StoreInv' /\ Forward
<1>1. ASSUME NEW w \in Writers, NEW u \in Uris, NEW c \in Cids, NEW t \in Times,
             UpsertRecord(w, u, c, t)
      PROVE  StoreInv' /\ Forward
  <2>1. StoreInv' /\ rows'[u].at >= rows[u].at
    BY <1>1, UpsertRecordStep
  <2>2. rows' = [rows EXCEPT ![u] = UpsertRow(rows[u], c, t)]
    BY <1>1 DEF UpsertRecord
  <2> QED BY <2>1, <2>2, OneRowForward
<1>2. ASSUME NEW w \in Writers, NEW u \in Uris, NEW t \in Times, SoftDeleteRecord(w, u, t)
      PROVE  StoreInv' /\ Forward
  <2>1. StoreInv' /\ rows'[u].at >= rows[u].at
    BY <1>2, SoftDeleteStep
  <2>2. rows' = [rows EXCEPT ![u] = DeleteRow(rows[u], t)]
    BY <1>2 DEF SoftDeleteRecord
  <2> QED BY <2>1, <2>2, OneRowForward
<1>3. ASSUME NEW w \in Writers, NEW u \in Uris, SoftDeleteUnversioned(w, u)
      PROVE  StoreInv' /\ Forward
  <2>1. StoreInv' /\ rows'[u].at = rows[u].at /\ rows[u].at \in Nat
    BY <1>3, UnversionedStep DEF StoreInv, TypeOK, Row
  <2>2. rows' = [rows EXCEPT ![u] = DeleteRowUnversioned(rows[u])]
    BY <1>3 DEF SoftDeleteUnversioned
  <2>3. rows'[u].at >= rows[u].at
    BY <2>1
  <2> QED BY <2>1, <2>2, <2>3, OneRowForward
<1>4. ASSUME NEW w \in Writers, NEW u \in Uris, HardDeleteRecord(w, u)
      PROVE  StoreInv' /\ Forward
  <2>1. StoreInv' /\ rows'[u].state = "absent"
    BY <1>4, HardDeleteStep
  <2>2. rows' = [rows EXCEPT ![u] = Absent]
    BY <1>4 DEF HardDeleteRecord
  <2> QED BY <2>1, <2>2, OneRowForward
<1>5. ASSUME NEW w \in Writers, NEW c \in Cursors, SetCursor(w, c)
      PROVE  StoreInv' /\ Forward
  BY <1>5, SetCursorStep, SameRowsForward DEF SetCursor
<1>6. ASSUME NEW w \in Writers, NEW c \in Cursors \cup {0}, BeginBatch(w, c)
      PROVE  StoreInv' /\ Forward
  BY <1>6, BeginStep, SameRowsForward DEF BeginBatch
<1>7. ASSUME NEW u \in Uris, NEW c \in Cids, NEW t \in Times, BatchUpsert(u, c, t)
      PROVE  StoreInv' /\ Forward
  BY <1>7, BatchUpsertStep, SameRowsForward DEF BatchUpsert
<1>8. ASSUME NEW u \in Uris, NEW t \in Times, BatchDelete(u, t)
      PROVE  StoreInv' /\ Forward
  BY <1>8, BatchDeleteStep, SameRowsForward DEF BatchDelete
<1>9. ASSUME NEW t \in Times, BatchSkip(t)
      PROVE  StoreInv' /\ Forward
  BY <1>9, BatchSkipStep, SameRowsForward DEF BatchSkip
<1>10. CASE CommitBatch
  BY <1>10, CommitStep DEF Forward
<1>11. CASE AbortBatch
  BY <1>11, AbortStep, SameRowsForward DEF AbortBatch
<1>12. ASSUME NEW w \in Writers, Publish(w)
       PROVE  StoreInv' /\ Forward
  BY <1>12, PublishStep, SameRowsForward DEF Publish
<1>13. CASE UNCHANGED vars
  <2>1. UNCHANGED rows /\ StoreInv'
    BY <1>13 DEF vars, StoreInv, TypeOK, RowsOK, TxOK, TxAhead
  <2> QED BY <2>1, SameRowsForward
<1> QED
  BY <1>1, <1>2, <1>3, <1>4, <1>5, <1>6, <1>7, <1>8, <1>9, <1>10, <1>11, <1>12, <1>13
  DEF Next

(* StoreInv is an invariant.                                               *)
LEMMA StoreInvariance == Spec => []StoreInv
<1>1. StoreInv /\ [Next]_vars => StoreInv'
  BY StoreKept
<1> QED BY <1>1, StoreInit, PTL DEF Spec

-----------------------------------------------------------------------------
(* What is owed to the subscribers.  The last notification about u in      *)
(* notes, if there is one, leaves its reader with the row.                 *)
IsLast(notes, u, i) ==
  /\ i \in DOMAIN notes /\ notes[i].uri = u
  /\ \A j \in DOMAIN notes : j > i => notes[j].uri # u

LastSays(notes, u, row) == \A i \in DOMAIN notes : IsLast(notes, u, i) => Agrees(Seen(notes[i]), row)

(* A URI that is not suspect: one thread at most owes anything about it,   *)
(* what it owes ends with the row, and once it is sent the mirror has it.  *)
Told(u) ==
  /\ \A v, w \in Writers : u \in UrisOf(outbox[v]) /\ u \in UrisOf(outbox[w]) => v = w
  /\ \A w \in Writers : LastSays(outbox[w], u, rows[u])
  /\ u \notin Owed => Agrees(mirror[u], rows[u])

(* The same of what a transaction has collected for its working copy,      *)
(* where the deletes will be sent after the upserts.                       *)
TxTold(u) ==
  /\ u \in UrisOf(tx.deletes) \ tx.mixed => ~Visible(tx.rows[u])
  /\ u \notin UrisOf(tx.deletes) => LastSays(tx.upserts, u, tx.rows[u])
  /\ u \notin UrisOf(tx.deletes) \cup UrisOf(tx.upserts) => tx.rows[u] = rows[u]

OnlyDeletes(notes) == \A i \in DOMAIN notes : notes[i].kind = "delete"

AllTold   == \A u \in Uris \ suspect : Told(u)
BatchTold == lock # Nobody => /\ outbox[lock] = <<>> /\ OnlyDeletes(tx.deletes)
                              /\ \A u \in Uris : TxTold(u)

(* What MirrorAgrees needs besides StoreInv.                               *)
ToldInv == AllTold /\ BatchTold

LEMMA NothingSaid ==
  ASSUME NEW notes, NEW u, u \notin UrisOf(notes)
  PROVE  \A row : LastSays(notes, u, row)
BY DEF UrisOf, LastSays, IsLast

LEMMA EmptySaid == UrisOf(<<>>) = {}
BY DEF UrisOf

LEMMA OneSaid ==
  ASSUME NEW note
  PROVE  /\ UrisOf(<<note>>) = {note.uri}
         /\ \A u, row : Agrees(Seen(note), row) => LastSays(<<note>>, u, row)
BY DEF UrisOf, LastSays, IsLast

LEMMA SaidAfterAppend ==
  ASSUME NEW s \in Seq(Note), NEW n \in Note
  PROVE  /\ UrisOf(Append(s, n)) = UrisOf(s) \cup {n.uri}
         /\ \A u, row : LastSays(s, u, row) /\ n.uri # u => LastSays(Append(s, n), u, row)
         /\ \A row : Agrees(Seen(n), row) => LastSays(Append(s, n), n.uri, row)
<1> DEFINE t == Append(s, n)
           k == Len(s)
<1>1. /\ k \in Nat /\ DOMAIN s = 1..k /\ DOMAIN t = 1..(k + 1)
      /\ \A i \in 1..k : t[i] = s[i]
      /\ t[k + 1] = n
  BY AppendProperties, LenProperties
<1>2. \A i \in DOMAIN t : i \in DOMAIN s \/ i = k + 1
  BY <1>1
<1>3. DOMAIN s \subseteq DOMAIN t /\ k + 1 \in DOMAIN t
  BY <1>1
<1>4. \A i \in DOMAIN s : k + 1 > i
  BY <1>1
<1> HIDE DEF t, k
<1>5. UrisOf(t) = UrisOf(s) \cup {n.uri}
  BY <1>1, <1>2, <1>3 DEF UrisOf
<1>6. ASSUME NEW u, NEW row, LastSays(s, u, row), n.uri # u
      PROVE  LastSays(t, u, row)
  <2> SUFFICES ASSUME NEW i \in DOMAIN t, IsLast(t, u, i) PROVE Agrees(Seen(t[i]), row)
    BY DEF LastSays
  <2>1. i \in DOMAIN s /\ t[i] = s[i]
    BY <1>1, <1>2, <1>6 DEF IsLast
  <2>2. IsLast(s, u, i)
    BY <1>1, <1>3, <2>1 DEF IsLast
  <2> QED BY <1>6, <2>1, <2>2 DEF LastSays
<1>7. ASSUME NEW row, Agrees(Seen(n), row)
      PROVE  LastSays(t, n.uri, row)
  <2> SUFFICES ASSUME NEW i \in DOMAIN t, IsLast(t, n.uri, i) PROVE Agrees(Seen(t[i]), row)
    BY DEF LastSays
  <2>1. i = k + 1
    BY <1>1, <1>2, <1>3, <1>4 DEF IsLast
  <2> QED BY <1>1, <1>7, <2>1
<1> QED BY <1>5, <1>6, <1>7 DEF t

LEMMA SaidAfterConcat ==
  ASSUME NEW s \in Seq(Note), NEW t \in Seq(Note)
  PROVE  /\ UrisOf(s \o t) = UrisOf(s) \cup UrisOf(t)
         /\ \A u, row : LastSays(s, u, row) /\ u \notin UrisOf(t) => LastSays(s \o t, u, row)
         /\ \A u, row : LastSays(t, u, row) /\ u \in UrisOf(t) => LastSays(s \o t, u, row)
<1> DEFINE st == s \o t
           k == Len(s)
           l == Len(t)
<1>1. /\ k \in Nat /\ l \in Nat /\ DOMAIN s = 1..k /\ DOMAIN t = 1..l /\ DOMAIN st = 1..(k + l)
      /\ \A i \in 1..k : st[i] = s[i]
  BY ConcatProperties, LenProperties
<1>2. \A i \in 1..l : st[k + i] = t[i] /\ k + i \in DOMAIN st
  BY <1>1, ConcatProperties
<1>3. \A i \in DOMAIN st : i \in 1..k \/ \E j \in 1..l : i = k + j
  <2> SUFFICES ASSUME NEW i \in DOMAIN st, i \notin 1..k PROVE \E j \in 1..l : i = k + j
    OBVIOUS
  <2>1. i - k \in 1..l /\ i = k + (i - k)
    BY <1>1
  <2> QED BY <2>1
<1>4. DOMAIN s \subseteq DOMAIN st
  BY <1>1
<1> HIDE DEF st, k, l
<1>5. UrisOf(st) = UrisOf(s) \cup UrisOf(t)
  <2>1. UrisOf(st) \subseteq UrisOf(s) \cup UrisOf(t)
    <3> SUFFICES ASSUME NEW i \in DOMAIN st PROVE st[i].uri \in UrisOf(s) \cup UrisOf(t)
      BY DEF UrisOf
    <3>1. CASE i \in 1..k
      BY <1>1, <3>1 DEF UrisOf
    <3>2. CASE i \notin 1..k
      <4>1. PICK j \in 1..l : i = k + j
        BY <1>3, <3>2
      <4> QED BY <1>1, <1>2, <4>1 DEF UrisOf
    <3> QED BY <3>1, <3>2
  <2>2. UrisOf(s) \subseteq UrisOf(st)
    BY <1>1, <1>4 DEF UrisOf
  <2>3. UrisOf(t) \subseteq UrisOf(st)
    <3> SUFFICES ASSUME NEW i \in DOMAIN t PROVE t[i].uri \in UrisOf(st)
      BY DEF UrisOf
    <3>1. st[k + i] = t[i] /\ k + i \in DOMAIN st
      BY <1>1, <1>2
    <3> QED BY <3>1 DEF UrisOf
  <2> QED BY <2>1, <2>2, <2>3
<1>6. ASSUME NEW u, NEW row, LastSays(s, u, row), u \notin UrisOf(t)
      PROVE  LastSays(st, u, row)
  <2> SUFFICES ASSUME NEW i \in DOMAIN st, IsLast(st, u, i) PROVE Agrees(Seen(st[i]), row)
    BY DEF LastSays
  <2>1. i \in DOMAIN s /\ st[i] = s[i]
    <3>1. ASSUME NEW j \in 1..l, i = k + j PROVE FALSE
      BY <1>1, <1>2, <1>6, <3>1 DEF IsLast, UrisOf
    <3> QED BY <1>1, <1>3, <3>1
  <2>2. IsLast(s, u, i)
    BY <1>1, <1>4, <2>1 DEF IsLast
  <2> QED BY <1>6, <2>1, <2>2 DEF LastSays
<1>7. ASSUME NEW u, NEW row, LastSays(t, u, row), u \in UrisOf(t)
      PROVE  LastSays(st, u, row)
  <2> SUFFICES ASSUME NEW i \in DOMAIN st, IsLast(st, u, i) PROVE Agrees(Seen(st[i]), row)
    BY DEF LastSays
  <2>1. PICK m \in 1..l : t[m].uri = u
    BY <1>1, <1>7 DEF UrisOf
  <2>2. i \notin 1..k
    <3>1. st[k + m].uri = u /\ k + m \in DOMAIN st
      BY <1>2, <2>1
    <3>2. ~(k + m > i)
      BY <3>1 DEF IsLast
    <3> QED BY <1>1, <3>2
  <2>3. PICK j \in 1..l : i = k + j
    BY <1>3, <2>2
  <2>4. st[i] = t[j] /\ j \in DOMAIN t
    BY <1>1, <1>2, <2>3
  <2>5. \A n \in DOMAIN t : n > j => t[n].uri # u
    <3> SUFFICES ASSUME NEW n \in DOMAIN t, n > j PROVE t[n].uri # u
      OBVIOUS
    <3>1. k + n > i
      BY <1>1, <2>3
    <3>2. st[k + n] = t[n] /\ k + n \in DOMAIN st
      BY <1>1, <1>2
    <3> QED BY <3>1, <3>2 DEF IsLast
  <2>6. IsLast(t, u, j)
    BY <2>4, <2>5 DEF IsLast
  <2> QED BY <1>7, <2>4, <2>6 DEF LastSays
<1> QED BY <1>5, <1>6, <1>7 DEF st

LEMMA SaidAfterTail ==
  ASSUME NEW s \in Seq(Note), s # <<>>
  PROVE  /\ UrisOf(s) = UrisOf(Tail(s)) \cup {Head(s).uri}
         /\ \A u, row : LastSays(s, u, row) => LastSays(Tail(s), u, row)
         /\ \A row : LastSays(s, Head(s).uri, row) /\ Head(s).uri \notin UrisOf(Tail(s))
                       => Agrees(Seen(Head(s)), row)
<1> DEFINE t == Tail(s)
           k == Len(s)
<1>1. /\ k \in Nat /\ k > 0 /\ DOMAIN s = 1..k /\ DOMAIN t = 1..(k - 1)
      /\ \A i \in 1..(k - 1) : t[i] = s[i + 1]
      /\ Head(s) = s[1]
  BY HeadTailProperties, LenProperties, EmptySeq
<1>2. \A i \in DOMAIN s : i = 1 \/ \E j \in DOMAIN t : i = j + 1
  <2> SUFFICES ASSUME NEW i \in DOMAIN s, i # 1 PROVE \E j \in DOMAIN t : i = j + 1
    OBVIOUS
  <2>1. i - 1 \in 1..(k - 1) /\ i = (i - 1) + 1
    BY <1>1
  <2> QED BY <1>1, <2>1
<1>3. \A j \in DOMAIN t : j + 1 \in DOMAIN s /\ t[j] = s[j + 1] /\ j + 1 > 1
  BY <1>1
<1>4. 1 \in DOMAIN s
  BY <1>1
<1>h. Head(s) = s[1] /\ \A i \in DOMAIN s : i \in Nat
  BY <1>1
<1>d. \A j \in DOMAIN t : j \in Nat
  BY <1>1
<1> HIDE DEF t, k
<1>5. UrisOf(s) = UrisOf(t) \cup {Head(s).uri}
  <2>1. UrisOf(s) \subseteq UrisOf(t) \cup {Head(s).uri}
    BY <1>2, <1>3, <1>h DEF UrisOf
  <2>2. UrisOf(t) \subseteq UrisOf(s)
    <3> SUFFICES ASSUME NEW j \in DOMAIN t PROVE t[j].uri \in UrisOf(s)
      BY DEF UrisOf
    <3> QED BY <1>3 DEF UrisOf
  <2> QED BY <1>4, <1>h, <2>1, <2>2 DEF UrisOf
<1>6. ASSUME NEW u, NEW row, LastSays(s, u, row)
      PROVE  LastSays(t, u, row)
  <2> SUFFICES ASSUME NEW j \in DOMAIN t, IsLast(t, u, j) PROVE Agrees(Seen(t[j]), row)
    BY DEF LastSays
  <2>1. j + 1 \in DOMAIN s /\ t[j] = s[j + 1]
    BY <1>3
  <2>2. \A i \in DOMAIN s : i > j + 1 => s[i].uri # u
    <3> SUFFICES ASSUME NEW i \in DOMAIN s, i > j + 1 PROVE s[i].uri # u
      OBVIOUS
    <3>1. i # 1
      BY <1>d
    <3>2. PICK n \in DOMAIN t : i = n + 1
      BY <1>2, <3>1
    <3>3. n > j
      BY <1>d, <3>2
    <3>4. t[n].uri # u
      BY <3>3 DEF IsLast
    <3> QED BY <1>3, <3>2, <3>4
  <2>3. IsLast(s, u, j + 1)
    BY <2>1, <2>2 DEF IsLast
  <2> QED BY <1>6, <2>1, <2>3 DEF LastSays
<1>7. ASSUME NEW row, LastSays(s, Head(s).uri, row), Head(s).uri \notin UrisOf(t)
      PROVE  Agrees(Seen(Head(s)), row)
  <2>1. \A i \in DOMAIN s : i > 1 => s[i].uri # Head(s).uri
    <3> SUFFICES ASSUME NEW i \in DOMAIN s, i > 1 PROVE s[i].uri # Head(s).uri
      OBVIOUS
    <3>1. PICK n \in DOMAIN t : i = n + 1
      BY <1>2
    <3> QED BY <1>3, <1>7, <3>1 DEF UrisOf
  <2>2. IsLast(s, Head(s).uri, 1)
    BY <1>4, <1>h, <2>1 DEF IsLast
  <2> QED BY <1>4, <1>7, <1>h, <2>2 DEF LastSays
<1> QED BY <1>5, <1>6, <1>7 DEF t

-----------------------------------------------------------------------------
(* Nothing happens to a URI: its row, its place in the mirror and what is  *)
(* owed about it stay, up to what other URIs the notifications are about.  *)
LEMMA SameTold ==
  ASSUME NEW x \in Uris, Told(x), rows'[x] = rows[x], mirror'[x] = mirror[x],
         \A w \in Writers : /\ x \in UrisOf(outbox'[w]) <=> x \in UrisOf(outbox[w])
                            /\ LastSays(outbox'[w], x, rows[x])
  PROVE  Told(x)'
<1>1. x \in Owed' <=> x \in Owed
  BY DEF Owed
<1>2. \A v, w \in Writers : x \in UrisOf(outbox'[v]) /\ x \in UrisOf(outbox'[w]) => v = w
  BY DEF Told
<1>3. \A w \in Writers : LastSays(outbox'[w], x, rows'[x])
  OBVIOUS
<1>4. x \notin Owed' => Agrees(mirror'[x], rows'[x])
  BY <1>1 DEF Told
<1> QED BY <1>2, <1>3, <1>4 DEF Told

(* A step that leaves the table, the mirror and what is owed alone, outside *)
(* of a transaction or at its start.                                       *)
LEMMA QuietTold ==
  ASSUME AllTold, UNCHANGED <<rows, outbox, mirror, suspect>>
  PROVE  AllTold'
BY DEF AllTold, Told, Owed

(* The row of u changes and w owes a note that says what it is now.        *)
LEMMA OweTold ==
  ASSUME StoreInv, ToldInv, NEW w \in Writers, NEW u \in Uris, NEW r, NEW note \in Note,
         note.uri = u, Agrees(Seen(note), r), Idle(w), Owe(w, u, note),
         rows' = [rows EXCEPT ![u] = r], UNCHANGED <<lock, tx, mirror>>
  PROVE  ToldInv'
<1>1. /\ outbox \in [Writers -> Seq(Note)] /\ rows \in [Uris -> Row]
      /\ outbox[w] = <<>> /\ lock = Nobody
  BY DEF StoreInv, TypeOK, Idle
<1>2. /\ outbox'[w] = <<note>>
      /\ \A v \in Writers \ {w} : outbox'[v] = outbox[v]
  BY <1>1 DEF Owe
<1>3. rows'[u] = r /\ \A x \in Uris \ {u} : rows'[x] = rows[x]
  BY <1>1
<1>4. UrisOf(outbox'[w]) = {u} /\ UrisOf(outbox[w]) = {}
  BY <1>1, <1>2, OneSaid, EmptySaid
<1>5. ASSUME NEW x \in Uris \ suspect', x # u
      PROVE  Told(x)'
  <2>1. x \notin suspect
    BY <1>5 DEF Owe
  <2>2. Told(x)
    BY <2>1 DEF ToldInv, AllTold
  <2>3. ASSUME NEW v \in Writers
        PROVE  /\ x \in UrisOf(outbox'[v]) <=> x \in UrisOf(outbox[v])
               /\ LastSays(outbox'[v], x, rows[x])
    <3>1. CASE v = w
      BY <1>4, <1>5, <3>1, NothingSaid
    <3>2. CASE v # w
      BY <1>2, <2>2, <3>2 DEF Told
    <3> QED BY <3>1, <3>2
  <2> QED BY <1>3, <1>5, <2>2, <2>3, SameTold
<1>6. ASSUME u \notin suspect'
      PROVE  Told(u)'
  <2>1. \A v \in Writers \ {w} : u \notin UrisOf(outbox[v])
    BY <1>6 DEF Owe
  <2>2. \A v \in Writers \ {w} : u \notin UrisOf(outbox'[v])
    BY <1>2, <2>1
  <2>3. \A v \in Writers : LastSays(outbox'[v], u, rows'[u])
    <3> SUFFICES ASSUME NEW v \in Writers PROVE LastSays(outbox'[v], u, rows'[u])
      OBVIOUS
    <3>1. CASE v = w
      BY <1>2, <1>3, <3>1, OneSaid
    <3>2. CASE v # w
      BY <2>2, <3>2, NothingSaid
    <3> QED BY <3>1, <3>2
  <2>4. u \in Owed'
    BY <1>4 DEF Owed
  <2> QED BY <2>2, <2>3, <2>4 DEF Told
<1>7. AllTold'
  BY <1>5, <1>6 DEF AllTold
<1>8. BatchTold'
  BY <1>1 DEF BatchTold
<1> QED BY <1>7, <1>8 DEF ToldInv

(* The rows the accepted statements leave are what their notes say.        *)
LEMMA NotesSayRows ==
  ASSUME NEW u \in Uris, NEW row
  PROVE  /\ \A c \in Cids, t \in Times :
              /\ UpsertNote(u, c, t).uri = u
              /\ Seen(UpsertNote(u, c, t)) = Live(c, t)
              /\ UpsertAccepted(row, t) => Agrees(Live(c, t), UpsertRow(row, c, t))
              /\ ~UpsertAccepted(row, t) => UpsertRow(row, c, t) = row
         /\ DeleteNote(u).uri = u /\ Seen(DeleteNote(u)) = Absent
         /\ Agrees(Absent, Absent)
<1>1. \A c \in Cids, t \in Times :
        /\ UpsertNote(u, c, t).uri = u
        /\ Seen(UpsertNote(u, c, t)) = Live(c, t)
  BY DEF UpsertNote, Seen
<1>2. DeleteNote(u).uri = u /\ Seen(DeleteNote(u)) = Absent
  BY DEF DeleteNote, Seen
<1>3. \A c \in Cids, t \in Times :
        /\ UpsertAccepted(row, t) => Agrees(Live(c, t), UpsertRow(row, c, t))
        /\ ~UpsertAccepted(row, t) => UpsertRow(row, c, t) = row
  BY DEF UpsertRow, Agrees, Visible, Live
<1> QED BY <1>1, <1>2, <1>3 DEF Agrees

LEMMA DeletesHide ==
  ASSUME NEW row \in Row, NEW t \in Times
  PROVE  /\ DeleteAccepted(row, t) => ~Visible(DeleteRow(row, t))
         /\ ~DeleteAccepted(row, t) => DeleteRow(row, t) = row
         /\ ~Visible(DeleteRowUnversioned(row))
         /\ \A r : ~Visible(r) => Agrees(Absent, r)
<1>1. DeleteAccepted(row, t) => ~Visible(DeleteRow(row, t))
  BY DEF DeleteRow, Visible, Row
<1>2. ~DeleteAccepted(row, t) => DeleteRow(row, t) = row
  BY DEF DeleteRow
<1>3. ~Visible(DeleteRowUnversioned(row))
  BY DEF DeleteRowUnversioned, Visible, Row
<1> QED BY <1>1, <1>2, <1>3 DEF Agrees

LEMMA UpsertTold ==
  ASSUME StoreInv, ToldInv, NEW w \in Writers, NEW u \in Uris, NEW c \in Cids, NEW t \in Times,
         UpsertRecord(w, u, c, t)
  PROVE  ToldInv'
<1> DEFINE r == UpsertRow(rows[u], c, t)
<1>1. /\ Idle(w) /\ rows' = [rows EXCEPT ![u] = r] /\ UNCHANGED <<lock, tx, mirror>>
      /\ rows \in [Uris -> Row]
  BY DEF UpsertRecord, StoreInv, TypeOK
<1>2. CASE UpsertAccepted(rows[u], t)
  <2>1. Owe(w, u, UpsertNote(u, c, t)) /\ UpsertNote(u, c, t) \in Note
    BY <1>2, NotesOK DEF UpsertRecord
  <2>2. UpsertNote(u, c, t).uri = u /\ Agrees(Seen(UpsertNote(u, c, t)), r)
    BY <1>2, NotesSayRows
  <2> QED BY <1>1, <2>1, <2>2, OweTold
<1>3. CASE ~UpsertAccepted(rows[u], t)
  <2>1. r = rows[u] /\ UNCHANGED <<outbox, suspect>>
    BY <1>3, NotesSayRows DEF UpsertRecord
  <2>2. UNCHANGED rows
    BY <1>1, <2>1
  <2>3. lock' = Nobody
    BY <1>1 DEF Idle
  <2> QED BY <1>1, <2>1, <2>2, <2>3, QuietTold DEF ToldInv, BatchTold
<1> QED BY <1>2, <1>3

LEMMA SoftDeleteTold ==
  ASSUME StoreInv, ToldInv, NEW w \in Writers, NEW u \in Uris, NEW t \in Times,
         SoftDeleteRecord(w, u, t)
  PROVE  ToldInv'
<1> DEFINE r == DeleteRow(rows[u], t)
<1>1. /\ Idle(w) /\ rows' = [rows EXCEPT ![u] = r] /\ UNCHANGED <<lock, tx, mirror>>
      /\ rows \in [Uris -> Row]
  BY DEF SoftDeleteRecord, StoreInv, TypeOK
<1>2. CASE DeleteAccepted(rows[u], t)
  <2>1. Owe(w, u, DeleteNote(u)) /\ DeleteNote(u) \in Note
    BY <1>2, NotesOK DEF SoftDeleteRecord
  <2>2. ~Visible(r)
    BY <1>1, <1>2, DeletesHide
  <2>3. DeleteNote(u).uri = u /\ Agrees(Seen(DeleteNote(u)), r)
    BY <2>2, NotesSayRows DEF Agrees
  <2> QED BY <1>1, <2>1, <2>3, OweTold
<1>3. CASE ~DeleteAccepted(rows[u], t)
  <2>1. r = rows[u] /\ UNCHANGED <<outbox, suspect>>
    BY <1>1, <1>3, DeletesHide DEF SoftDeleteRecord
  <2>2. UNCHANGED rows
    BY <1>1, <2>1
  <2>3. lock' = Nobody
    BY <1>1 DEF Idle
  <2> QED BY <1>1, <2>1, <2>2, <2>3, QuietTold DEF ToldInv, BatchTold
<1> QED BY <1>2, <1>3

LEMMA UnversionedTold ==
  ASSUME StoreInv, ToldInv, NEW w \in Writers, NEW u \in Uris, SoftDeleteUnversioned(w, u)
  PROVE  ToldInv'
<1> DEFINE r == DeleteRowUnversioned(rows[u])
<1>1. /\ Idle(w) /\ rows' = [rows EXCEPT ![u] = r] /\ UNCHANGED <<lock, tx, mirror>>
      /\ rows[u] \in Row
      /\ Owe(w, u, DeleteNote(u)) /\ DeleteNote(u) \in Note
  BY NotesOK DEF SoftDeleteUnversioned, StoreInv, TypeOK
<1>2. ~Visible(r)
  BY <1>1 DEF DeleteRowUnversioned, Visible, Row
<1>3. DeleteNote(u).uri = u /\ Agrees(Seen(DeleteNote(u)), r)
  BY <1>2, NotesSayRows DEF Agrees
<1> QED BY <1>1, <1>3, OweTold

LEMMA HardDeleteTold ==
  ASSUME StoreInv, ToldInv, NEW w \in Writers, NEW u \in Uris, HardDeleteRecord(w, u)
  PROVE  ToldInv'
<1>1. /\ Idle(w) /\ rows' = [rows EXCEPT ![u] = Absent] /\ UNCHANGED <<lock, tx, mirror>>
      /\ Owe(w, u, DeleteNote(u)) /\ DeleteNote(u) \in Note
  BY NotesOK DEF HardDeleteRecord
<1>2. DeleteNote(u).uri = u /\ Agrees(Seen(DeleteNote(u)), Absent)
  BY NotesSayRows
<1> QED BY <1>1, <1>2, OweTold

-----------------------------------------------------------------------------
(* A statement of a transaction changes at most the working copy of u and  *)
(* what the transaction has collected about it.                            *)
LEMMA TxStepTold ==
  ASSUME StoreInv, ToldInv, lock # Nobody, NEW u \in Uris,
         UNCHANGED <<rows, lock, outbox, mirror, suspect>>,
         tx' \in Tx, OnlyDeletes(tx'.deletes), TxTold(u)',
         \A x \in Uris \ {u} :
           /\ tx'.rows[x] = tx.rows[x] /\ (x \in tx'.mixed <=> x \in tx.mixed)
           /\ x \in UrisOf(tx'.deletes) <=> x \in UrisOf(tx.deletes)
           /\ x \in UrisOf(tx'.upserts) <=> x \in UrisOf(tx.upserts)
           /\ LastSays(tx.upserts, x, tx.rows[x]) => LastSays(tx'.upserts, x, tx.rows[x])
  PROVE  ToldInv'
<1>1. AllTold'
  BY QuietTold DEF ToldInv
<1>2. outbox'[lock'] = <<>>
  BY DEF ToldInv, BatchTold
<1>3. ASSUME NEW x \in Uris \ {u}
      PROVE  TxTold(x)'
  <2>1. TxTold(x)
    BY DEF ToldInv, BatchTold
  <2> QED BY <2>1 DEF TxTold
<1>4. BatchTold'
  BY <1>2, <1>3 DEF BatchTold
<1> QED BY <1>1, <1>4 DEF ToldInv

LEMMA BatchUpsertTold ==
  ASSUME StoreInv, StoreInv', ToldInv, NEW u \in Uris, NEW c \in Cids, NEW t \in Times,
         BatchUpsert(u, c, t)
  PROVE  ToldInv'
<1> DEFINE r == UpsertRow(tx.rows[u], c, t)
           note == UpsertNote(u, c, t)
           ok == UpsertAccepted(tx.rows[u], t)
<1>1. /\ tx \in Tx /\ tx' \in Tx /\ lock # Nobody
      /\ UNCHANGED <<rows, lock, outbox, mirror, suspect>>
  BY DEF StoreInv, TypeOK, BatchUpsert, InBatch
<1>2. /\ tx.rows \in [Uris -> Row] /\ tx.upserts \in Seq(Note) /\ tx.deletes \in Seq(Note)
      /\ note \in Note /\ note.uri = u /\ Seen(note) = Live(c, t)
  BY <1>1, NotesOK, NotesSayRows DEF Tx
<1>3. /\ tx'.rows = [tx.rows EXCEPT ![u] = r]
      /\ tx'.deletes = tx.deletes
      /\ tx'.upserts = (IF ok THEN Append(tx.upserts, note) ELSE tx.upserts)
      /\ tx'.mixed = (IF ok /\ u \in UrisOf(tx.deletes) THEN tx.mixed \cup {u} ELSE tx.mixed)
  BY <1>1 DEF Tx, BatchUpsert
<1>4. /\ ok => Agrees(Live(c, t), r)
      /\ ~ok => r = tx.rows[u]
  BY NotesSayRows
<1>5. OnlyDeletes(tx.deletes) /\ TxTold(u)
  BY <1>1 DEF ToldInv, BatchTold
<1> HIDE DEF r, note, ok
<1>6. tx'.rows[u] = r /\ \A x \in Uris \ {u} : tx'.rows[x] = tx.rows[x]
  BY <1>2, <1>3
<1>7. /\ UrisOf(Append(tx.upserts, note)) = UrisOf(tx.upserts) \cup {u}
      /\ \A x, row : LastSays(tx.upserts, x, row) /\ u # x => LastSays(Append(tx.upserts, note), x, row)
      /\ \A row : Agrees(Live(c, t), row) => LastSays(Append(tx.upserts, note), u, row)
  BY <1>2, SaidAfterAppend
<1>8. TxTold(u)'
  <2>1. CASE ok
    <3>1. u \notin UrisOf(tx'.deletes) \ tx'.mixed
      BY <1>3, <2>1
    <3>2. LastSays(tx'.upserts, u, tx'.rows[u])
      BY <1>3, <1>4, <1>6, <1>7, <2>1
    <3>3. u \in UrisOf(tx'.upserts)
      BY <1>3, <1>7, <2>1
    <3> QED BY <3>1, <3>2, <3>3 DEF TxTold
  <2>2. CASE ~ok
    <3>1. /\ tx'.rows[u] = tx.rows[u] /\ tx'.upserts = tx.upserts /\ tx'.deletes = tx.deletes
          /\ tx'.mixed = tx.mixed
      BY <1>3, <1>4, <1>6, <2>2
    <3> QED BY <1>1, <1>5, <3>1 DEF TxTold
  <2> QED BY <2>1, <2>2
<1>9. ASSUME NEW x \in Uris \ {u}
      PROVE  /\ tx'.rows[x] = tx.rows[x] /\ (x \in tx'.mixed <=> x \in tx.mixed)
             /\ x \in UrisOf(tx'.deletes) <=> x \in UrisOf(tx.deletes)
             /\ x \in UrisOf(tx'.upserts) <=> x \in UrisOf(tx.upserts)
             /\ LastSays(tx.upserts, x, tx.rows[x]) => LastSays(tx'.upserts, x, tx.rows[x])
  BY <1>3, <1>6, <1>7, <1>9
<1> QED BY <1>1, <1>3, <1>5, <1>8, <1>9, TxStepTold

LEMMA BatchDeleteTold ==
  ASSUME StoreInv, StoreInv', ToldInv, NEW u \in Uris, NEW t \in Times, BatchDelete(u, t)
  PROVE  ToldInv'
<1> DEFINE r == DeleteRow(tx.rows[u], t)
           note == DeleteNote(u)
           ok == DeleteAccepted(tx.rows[u], t)
<1>1. /\ tx \in Tx /\ tx' \in Tx /\ lock # Nobody
      /\ UNCHANGED <<rows, lock, outbox, mirror, suspect>>
  BY DEF StoreInv, TypeOK, BatchDelete, InBatch
<1>2. /\ tx.rows \in [Uris -> Row] /\ tx.upserts \in Seq(Note) /\ tx.deletes \in Seq(Note)
      /\ note \in Note /\ note.uri = u /\ note.kind = "delete"
  BY <1>1, NotesOK, NotesSayRows DEF Tx, DeleteNote
<1>3. /\ tx'.rows = [tx.rows EXCEPT ![u] = r]
      /\ tx'.upserts = tx.upserts
      /\ tx'.deletes = (IF ok THEN Append(tx.deletes, note) ELSE tx.deletes)
      /\ tx'.mixed = (IF ok THEN tx.mixed \ {u} ELSE tx.mixed)
  BY <1>1 DEF Tx, BatchDelete
<1>4. /\ ok => ~Visible(r)
      /\ ~ok => r = tx.rows[u]
  BY <1>2, DeletesHide
<1>5. OnlyDeletes(tx.deletes) /\ TxTold(u)
  BY <1>1 DEF ToldInv, BatchTold
<1> HIDE DEF r, note, ok
<1>6. tx'.rows[u] = r /\ \A x \in Uris \ {u} : tx'.rows[x] = tx.rows[x]
  BY <1>2, <1>3
<1>7. UrisOf(Append(tx.deletes, note)) = UrisOf(tx.deletes) \cup {u}
  BY <1>2, SaidAfterAppend
<1>8. TxTold(u)'
  <2>1. CASE ok
    <3>1. u \in UrisOf(tx'.deletes) /\ ~Visible(tx'.rows[u])
      BY <1>3, <1>4, <1>6, <1>7, <2>1
    <3> QED BY <3>1 DEF TxTold
  <2>2. CASE ~ok
    <3>1. /\ tx'.rows[u] = tx.rows[u] /\ tx'.upserts = tx.upserts /\ tx'.deletes = tx.deletes
          /\ tx'.mixed = tx.mixed
      BY <1>3, <1>4, <1>6, <2>2
    <3> QED BY <1>1, <1>5, <3>1 DEF TxTold
  <2> QED BY <2>1, <2>2
<1>9. OnlyDeletes(tx'.deletes)
  <2>1. OnlyDeletes(Append(tx.deletes, note))
    <3>1. /\ Len(tx.deletes) \in Nat /\ DOMAIN tx.deletes = 1..Len(tx.deletes)
          /\ DOMAIN Append(tx.deletes, note) = 1..(Len(tx.deletes) + 1)
          /\ \A i \in 1..Len(tx.deletes) : Append(tx.deletes, note)[i] = tx.deletes[i]
          /\ Append(tx.deletes, note)[Len(tx.deletes) + 1] = note
      BY <1>2, AppendProperties, LenProperties
    <3>2. \A i \in 1..(Len(tx.deletes) + 1) : i \in 1..Len(tx.deletes) \/ i = Len(tx.deletes) + 1
      BY <3>1
    <3> QED BY <1>2, <1>5, <3>1, <3>2 DEF OnlyDeletes
  <2> QED BY <1>3, <1>5, <2>1
<1>10. ASSUME NEW x \in Uris \ {u}
      PROVE  /\ tx'.rows[x] = tx.rows[x] /\ (x \in tx'.mixed <=> x \in tx.mixed)
             /\ x \in UrisOf(tx'.deletes) <=> x \in UrisOf(tx.deletes)
             /\ x \in UrisOf(tx'.upserts) <=> x \in UrisOf(tx.upserts)
             /\ LastSays(tx.upserts, x, tx.rows[x]) => LastSays(tx'.upserts, x, tx.rows[x])
  BY <1>3, <1>6, <1>7, <1>10
<1> QED BY <1>1, <1>8, <1>9, <1>10, TxStepTold

LEMMA BatchSkipTold ==
  ASSUME StoreInv, ToldInv, NEW t \in Times, BatchSkip(t)
  PROVE  ToldInv'
<1>1. /\ tx \in Tx /\ tx' = [tx EXCEPT !.ran = @ + 1]
      /\ UNCHANGED <<rows, lock, outbox, mirror, suspect>>
  BY DEF StoreInv, TypeOK, BatchSkip
<1>2. /\ tx'.rows = tx.rows /\ tx'.upserts = tx.upserts /\ tx'.deletes = tx.deletes
      /\ tx'.mixed = tx.mixed
  BY <1>1 DEF Tx
<1>3. AllTold'
  BY <1>1, QuietTold DEF ToldInv
<1>4. BatchTold'
  BY <1>1, <1>2 DEF ToldInv, BatchTold, TxTold
<1> QED BY <1>3, <1>4 DEF ToldInv

LEMMA BeginTold ==
  ASSUME StoreInv, ToldInv, NEW w \in Writers, NEW c \in Cursors \cup {0}, BeginBatch(w, c)
  PROVE  ToldInv'
<1>1. /\ lock' = w /\ outbox[w] = <<>>
      /\ tx' = [NoTx EXCEPT !.cursor = c, !.rows = rows, !.issued = issued]
      /\ UNCHANGED <<rows, outbox, mirror, suspect>>
  BY DEF BeginBatch, Idle
<1>2. tx'.rows = rows /\ tx'.upserts = <<>> /\ tx'.deletes = <<>>
  BY <1>1 DEF NoTx
<1>3. AllTold'
  BY <1>1, QuietTold DEF ToldInv
<1>4. OnlyDeletes(<<>>)
  BY DEF OnlyDeletes
<1>5. ASSUME NEW x \in Uris
      PROVE  TxTold(x)'
  <2>1. x \notin UrisOf(tx'.deletes) /\ LastSays(tx'.upserts, x, tx'.rows[x])
    BY <1>2, EmptySaid, NothingSaid
  <2> QED BY <1>1, <1>2, <2>1 DEF TxTold
<1>6. BatchTold'
  BY <1>1, <1>2, <1>4, <1>5 DEF BatchTold
<1> QED BY <1>3, <1>6 DEF ToldInv

LEMMA CommitTold ==
  ASSUME StoreInv, ToldInv, CommitBatch
  PROVE  ToldInv'
<1> DEFINE notes == tx.upserts \o tx.deletes
           owner == lock
           overlap == UNION {UrisOf(outbox[v]) : v \in Writers \ {owner}}
<1>1. /\ lock # Nobody /\ rows' = tx.rows
      /\ outbox' = [outbox EXCEPT ![owner] = notes]
      /\ lock' = Nobody /\ mirror' = mirror
      /\ suspect' = (suspect \ UrisOf(notes)) \cup (UrisOf(notes) \cap (overlap \cup tx.mixed))
  BY DEF CommitBatch
<1>2. /\ tx \in Tx /\ outbox \in [Writers -> Seq(Note)] /\ owner \in Writers
      /\ tx.upserts \in Seq(Note) /\ tx.deletes \in Seq(Note)
  BY <1>1 DEF StoreInv, TypeOK, Tx
<1>3. outbox'[owner] = notes /\ \A v \in Writers \ {owner} : outbox'[v] = outbox[v]
  BY <1>1, <1>2
<1>4. outbox[owner] = <<>> /\ OnlyDeletes(tx.deletes) /\ \A u \in Uris : TxTold(u)
  BY <1>1 DEF ToldInv, BatchTold
<1>5. /\ UrisOf(notes) = UrisOf(tx.upserts) \cup UrisOf(tx.deletes)
      /\ \A u, row : LastSays(tx.upserts, u, row) /\ u \notin UrisOf(tx.deletes)
                       => LastSays(notes, u, row)
      /\ \A u, row : LastSays(tx.deletes, u, row) /\ u \in UrisOf(tx.deletes)
                       => LastSays(notes, u, row)
  BY <1>2, SaidAfterConcat
<1> HIDE DEF notes
<1>6. ASSUME NEW u \in Uris \ suspect', u \notin UrisOf(notes)
      PROVE  Told(u)'
  <2>1. u \notin suspect
    BY <1>1, <1>6
  <2>2. Told(u)
    BY <2>1 DEF ToldInv, AllTold
  <2>3. rows'[u] = rows[u]
    BY <1>1, <1>4, <1>5, <1>6 DEF TxTold
  <2>4. ASSUME NEW v \in Writers
        PROVE  /\ u \in UrisOf(outbox'[v]) <=> u \in UrisOf(outbox[v])
               /\ LastSays(outbox'[v], u, rows[u])
    <3>1. CASE v = owner
      BY <1>3, <1>4, <1>6, <3>1, NothingSaid, EmptySaid
    <3>2. CASE v # owner
      BY <1>3, <2>2, <3>2 DEF Told
    <3> QED BY <3>1, <3>2
  <2> QED BY <1>1, <2>2, <2>3, <2>4, SameTold
<1>7. ASSUME NEW u \in Uris \ suspect', u \in UrisOf(notes)
      PROVE  Told(u)'
  <2>1. u \notin overlap /\ u \notin tx.mixed
    BY <1>1, <1>7
  <2>2. \A v \in Writers \ {owner} : u \notin UrisOf(outbox'[v])
    BY <1>3, <2>1
  <2>3. LastSays(notes, u, rows'[u])
    <3>1. CASE u \in UrisOf(tx.deletes)
      <4>1. ~Visible(rows'[u])
        BY <1>1, <1>4, <2>1, <3>1 DEF TxTold
      <4>2. \A i \in DOMAIN tx.deletes : Agrees(Seen(tx.deletes[i]), rows'[u])
        BY <1>4, <4>1 DEF OnlyDeletes, Seen, Agrees
      <4>3. LastSays(tx.deletes, u, rows'[u])
        BY <4>2 DEF LastSays
      <4> QED BY <1>5, <3>1, <4>3
    <3>2. CASE u \notin UrisOf(tx.deletes)
      BY <1>1, <1>4, <1>5, <3>2 DEF TxTold
    <3> QED BY <3>1, <3>2
  <2>4. \A v \in Writers : LastSays(outbox'[v], u, rows'[u])
    <3> SUFFICES ASSUME NEW v \in Writers PROVE LastSays(outbox'[v], u, rows'[u])
      OBVIOUS
    <3>1. CASE v = owner
      BY <1>3, <2>3, <3>1
    <3>2. CASE v # owner
      BY <2>2, <3>2, NothingSaid
    <3> QED BY <3>1, <3>2
  <2>5. u \in Owed'
    BY <1>2, <1>3, <1>7 DEF Owed
  <2> QED BY <2>2, <2>4, <2>5 DEF Told
<1>8. AllTold'
  BY <1>6, <1>7 DEF AllTold
<1>9. BatchTold'
  BY <1>1 DEF BatchTold
<1> QED BY <1>8, <1>9 DEF ToldInv

LEMMA PublishTold ==
  ASSUME StoreInv, ToldInv, NEW w \in Writers, Publish(w)
  PROVE  ToldInv'
<1> DEFINE h == Head(outbox[w])
<1>1. /\ outbox \in [Writers -> Seq(Note)] /\ mirror \in [Uris -> Row]
      /\ outbox[w] \in Seq(Note) /\ outbox[w] # <<>>
      /\ mirror' = [mirror EXCEPT ![h.uri] = Seen(h)]
      /\ outbox' = [outbox EXCEPT ![w] = Tail(outbox[w])]
      /\ UNCHANGED <<rows, lock, tx, suspect>>
  BY DEF StoreInv, TypeOK, Publish
<1>2. h.uri \in Uris
  BY <1>1, HeadTailProperties, SeenOK
<1>3. outbox'[w] = Tail(outbox[w]) /\ \A v \in Writers \ {w} : outbox'[v] = outbox[v]
  BY <1>1
<1>4. mirror'[h.uri] = Seen(h) /\ \A x \in Uris \ {h.uri} : mirror'[x] = mirror[x]
  BY <1>1, <1>2
<1>5. /\ UrisOf(outbox[w]) = UrisOf(outbox'[w]) \cup {h.uri}
      /\ \A u, row : LastSays(outbox[w], u, row) => LastSays(outbox'[w], u, row)
      /\ \A row : LastSays(outbox[w], h.uri, row) /\ h.uri \notin UrisOf(outbox'[w])
                    => Agrees(Seen(h), row)
  BY <1>1, <1>3, SaidAfterTail
<1> HIDE DEF h
<1>6. ASSUME NEW x \in Uris \ suspect, x # h.uri
      PROVE  Told(x)'
  <2>1. Told(x)
    BY DEF ToldInv, AllTold
  <2>2. ASSUME NEW v \in Writers
        PROVE  /\ x \in UrisOf(outbox'[v]) <=> x \in UrisOf(outbox[v])
               /\ LastSays(outbox'[v], x, rows[x])
    <3>1. CASE v = w
      BY <1>5, <1>6, <2>1, <3>1 DEF Told
    <3>2. CASE v # w
      BY <1>3, <2>1, <3>2 DEF Told
    <3> QED BY <3>1, <3>2
  <2> QED BY <1>1, <1>4, <1>6, <2>1, <2>2, SameTold
<1>7. ASSUME NEW x \in Uris \ suspect, x = h.uri
      PROVE  Told(x)'
  <2>1. Told(x)
    BY DEF ToldInv, AllTold
  <2>2. \A v \in Writers \ {w} : x \notin UrisOf(outbox[v])
    BY <1>5, <1>7, <2>1 DEF Told
  <2>3. \A v \in Writers \ {w} : x \notin UrisOf(outbox'[v])
    BY <1>3, <2>2
  <2>4. \A v \in Writers : LastSays(outbox'[v], x, rows[x])
    BY <1>3, <1>5, <2>1 DEF Told
  <2>5. x \notin Owed' => Agrees(mirror'[x], rows[x])
    BY <1>4, <1>5, <1>7, <2>1 DEF Told, Owed
  <2> QED BY <1>1, <2>3, <2>4, <2>5 DEF Told
<1>8. AllTold'
  BY <1>1, <1>6, <1>7 DEF AllTold
<1>9. BatchTold'
  <2>1. ASSUME lock # Nobody
        PROVE  /\ outbox'[lock] = <<>> /\ OnlyDeletes(tx.deletes)
               /\ \A u \in Uris : TxTold(u)
    <3>1. outbox[lock] = <<>> /\ OnlyDeletes(tx.deletes) /\ \A u \in Uris : TxTold(u)
      BY <2>1 DEF ToldInv, BatchTold
    <3>2. lock \in Writers \ {w}
      BY <1>1, <2>1, <3>1 DEF StoreInv, TypeOK
    <3> QED BY <1>3, <3>1, <3>2
  <2>2. (\A u \in Uris : TxTold(u)) => (\A u \in Uris : TxTold(u))'
    BY <1>1 DEF TxTold
  <2> QED BY <1>1, <2>1, <2>2 DEF BatchTold
<1> QED BY <1>8, <1>9 DEF ToldInv

LEMMA ToldInit == Init => ToldInv
<1> SUFFICES ASSUME Init PROVE ToldInv
  OBVIOUS
<1>1. ASSUME NEW u \in Uris
      PROVE  Told(u)
  <2>1. \A w \in Writers : UrisOf(outbox[w]) = {}
    BY EmptySaid DEF Init
  <2>2. \A w \in Writers : LastSays(outbox[w], u, rows[u])
    BY <2>1, NothingSaid
  <2>3. Agrees(mirror[u], rows[u])
    BY DEF Init, Agrees
  <2> QED BY <2>1, <2>2, <2>3 DEF Told
<1>2. BatchTold
  BY DEF Init, BatchTold
<1> QED BY <1>1, <1>2 DEF ToldInv, AllTold

(* Every step keeps it.                                                    *)
LEMMA ToldKept ==
  ASSUME StoreInv, StoreInv', ToldInv, [Next]_vars
  PROVE  ToldInv'
<1>1. ASSUME NEW w \in Writers, NEW c \in Cursors, SetCursor(w, c)
      PROVE  ToldInv'
  <2>1. /\ lock' = Nobody /\ UNCHANGED <<rows, outbox, mirror, suspect>>
    BY <1>1 DEF SetCursor, Idle
  <2> QED BY <2>1, QuietTold DEF ToldInv, BatchTold
<1>2. CASE AbortBatch
  <2>1. /\ lock' = Nobody /\ UNCHANGED <<rows, outbox, mirror, suspect>>
    BY <1>2 DEF AbortBatch
  <2> QED BY <2>1, QuietTold DEF ToldInv, BatchTold
<1>3. CASE UNCHANGED vars
  BY <1>3 DEF vars, ToldInv, AllTold, BatchTold, Told, TxTold, Owed
<1> QED
  BY <1>1, <1>2, <1>3, UpsertTold, SoftDeleteTold, UnversionedTold, HardDeleteTold, BeginTold,
     BatchUpsertTold, BatchDeleteTold, BatchSkipTold, CommitTold, PublishTold
  DEF Next

LEMMA ToldInvariance == Spec => [](StoreInv /\ ToldInv)
<1>1. StoreInv /\ ToldInv /\ [Next]_vars => StoreInv' /\ ToldInv'
  BY StoreKept, ToldKept
<1> QED BY <1>1, StoreInit, ToldInit, PTL DEF Spec

-----------------------------------------------------------------------------
(* The store's variables keep their sets whatever threads interleave, and  *)
(* no time outside SQLite's INTEGER reaches the table.                     *)
THEOREM StoreTypeCorrect == Spec => []TypeOK
<1>1. StoreInv => TypeOK
  BY DEF StoreInv
<1> QED BY <1>1, StoreInvariance, PTL

(* Last writer wins: after any interleaving of upserts, deletes and        *)
(* batches, committed or rolled back, every row is its newest upsert, or a *)
(* tombstone no older than it.                                             *)
THEOREM StoreConverges == Spec => []LwwConverges
<1>1. StoreInv => LwwConverges
  BY DEF StoreInv, RowsOK, RowOK, LwwConverges
<1> QED BY <1>1, StoreInvariance, PTL

(* No call and no transaction makes a row older, short of a hard delete.   *)
THEOREM StoreNeverClobbers == Spec => NoClobber
<1>1. StoreInv /\ [Next]_vars => Forward
  BY StoreKept
<1>2. Forward =>
        [\A u \in Uris : rows'[u].state # "absent" => rows'[u].at >= rows[u].at]_vars
  BY DEF Forward
<1> QED BY <1>1, <1>2, StoreInvariance, PTL DEF Spec, NoClobber

(* A subscriber that misses nothing agrees with get_record on every URI    *)
(* for which nothing is owed any more, short of two threads that owed      *)
(* notifications about it at once or a batch that upserted it after        *)
(* deleting it: whatever single calls and batches interleaved, and however *)
(* late each thread sent what it owed.                                     *)
THEOREM StoreMirrored == Spec => []MirrorAgrees
<1>1. StoreInv /\ ToldInv => MirrorAgrees
  BY DEF ToldInv, AllTold, Told, MirrorAgrees
<1> QED BY <1>1, ToldInvariance, PTL
=============================================================================
