----------------------------- MODULE RecordStore -----------------------------
(***************************************************************************)
(* The record store of src/src/index/store.rs: the rows of "records", the  *)
(* cursor of "_skybase_meta", the connection mutex, and the change         *)
(* notifications each caller sends to the broadcast bus after it has       *)
(* released the mutex.                                                     *)
(*                                                                         *)
(* Callers are threads sharing one store.  A single-row call is one step,  *)
(* for the mutex covers its only statement; a batch holds the mutex over   *)
(* a transaction of several statements, so it is one step per statement    *)
(* and a commit or a rollback.  Sending a notification is a step of its    *)
(* own, for no lock covers it.                                             *)
(*                                                                         *)
(* "issued", "mirror" and "suspect" are observations: nothing reads them.  *)
(***************************************************************************)
EXTENDS RecordRows, Sequences, FiniteSets

CONSTANTS
  Uris,       \* record URIs
  Writers,    \* threads that call the store
  Nobody,     \* the mutex is free
  Times,      \* indexed_at values of the callers (microseconds)
  MaxI64,     \* largest time SQLite's INTEGER column takes
  Cursors,    \* cursor values of batches and set_cursor calls
  MaxBatch    \* bound on the operations of a batch

ASSUME StoreAssumption ==
  /\ Nobody \notin Writers
  /\ Times \subseteq Nat
  /\ Cursors \subseteq Nat \ {0}
  /\ MaxI64 \in Nat
  /\ MaxBatch \in Nat

VARIABLES
  rows,       \* the committed table: URI -> row
  cursor,     \* the persisted cursor, 0 when there is none
  lock,       \* the thread inside a transaction, or Nobody
  tx,         \* its uncommitted work
  outbox,     \* thread -> notifications it has still to send
  issued,     \* URI -> newest upsert and delete handled since the row was
              \* last removed by hard_delete_record
  mirror,     \* URI -> what a subscriber that misses nothing believes
  suspect     \* URIs whose last notifications may be out of order

vars == <<rows, cursor, lock, tx, outbox, issued, mirror, suspect>>

-----------------------------------------------------------------------------
(* Notifications: an upsert carries the row, a delete only its identity.   *)
Note == [kind : {"upsert"}, uri : Uris, cid : Cids, at : Nat]
        \cup [kind : {"delete"}, uri : Uris]

UpsertNote(u, c, t) == [kind |-> "upsert", uri |-> u, cid |-> c, at |-> t]
DeleteNote(u)       == [kind |-> "delete", uri |-> u]

UrisOf(notes) == {notes[i].uri : i \in DOMAIN notes}

(* A subscriber's view of one URI after a notification about it.           *)
Seen(note) == IF note.kind = "upsert" THEN Live(note.cid, note.at) ELSE Absent

Agrees(seen, row) == IF Visible(row) THEN seen = row ELSE seen = Absent

(* Newest upsert (the last one handled among equal times) and newest       *)
(* delete handled for a URI.                                               *)
Issued    == [upAt : Nat, upCid : Cids \cup {NoCid}, delAt : Nat]
NotIssued == [upAt |-> 0, upCid |-> NoCid, delAt |-> 0]

IssueUpsert(h, c, t) ==
  IF t >= h.upAt THEN [h EXCEPT !.upAt = t, !.upCid = c] ELSE h
IssueDelete(h, t) == IF t > h.delAt THEN [h EXCEPT !.delAt = t] ELSE h

-----------------------------------------------------------------------------
(* The transaction's working copy, the operations it has run, and the      *)
(* notifications it has collected, upserts and deletes apart.              *)
Tx == [cursor : Cursors \cup {0}, ran : Nat,
       rows : [Uris -> Row], issued : [Uris -> Issued],
       upserts : Seq(Note), deletes : Seq(Note), mixed : SUBSET Uris]

NoTx == [cursor |-> 0, ran |-> 0,
         rows |-> [u \in Uris |-> Absent], issued |-> [u \in Uris |-> NotIssued],
         upserts |-> <<>>, deletes |-> <<>>, mixed |-> {}]

(* i64::try_from(indexed_at), and a faulty variant without the check.      *)
InRangeUnchecked(t) == TRUE
InRange(t) == t <= MaxI64

Init ==
  /\ rows = [u \in Uris |-> Absent]
  /\ cursor = 0
  /\ lock = Nobody
  /\ tx = NoTx
  /\ outbox = [w \in Writers |-> <<>>]
  /\ issued = [u \in Uris |-> NotIssued]
  /\ mirror = [u \in Uris |-> Absent]
  /\ suspect = {}

-----------------------------------------------------------------------------
(* A thread starts a call only when it has sent what its last call had to  *)
(* send, and gets the mutex only when nobody is inside a transaction.      *)
Idle(w) == outbox[w] = <<>> /\ lock = Nobody

(* The row of u changed and w owes the note: the order of the notes about  *)
(* u is the order of the writes unless another thread still owes one.      *)
Owe(w, u, note) ==
  /\ outbox' = [outbox EXCEPT ![w] = <<note>>]
  /\ suspect' = IF \E v \in Writers \ {w} : u \in UrisOf(outbox[v])
                THEN suspect \cup {u} ELSE suspect \ {u}

(* upsert_record.  A time out of range is an error with no effect.         *)
UpsertRecord(w, u, c, t) ==
  /\ Idle(w)
  /\ InRange(t)
  /\ rows' = [rows EXCEPT ![u] = UpsertRow(@, c, t)]
  /\ issued' = [issued EXCEPT ![u] = IssueUpsert(@, c, t)]
  /\ IF UpsertAccepted(rows[u], t) THEN Owe(w, u, UpsertNote(u, c, t))
                                   ELSE UNCHANGED <<outbox, suspect>>
  /\ UNCHANGED <<cursor, lock, tx, mirror>>

(* soft_delete_record.                                                     *)
SoftDeleteRecord(w, u, t) ==
  /\ Idle(w)
  /\ InRange(t)
  /\ rows' = [rows EXCEPT ![u] = DeleteRow(@, t)]
  /\ issued' = [issued EXCEPT ![u] = IssueDelete(@, t)]
  /\ IF DeleteAccepted(rows[u], t) THEN Owe(w, u, DeleteNote(u))
                                   ELSE UNCHANGED <<outbox, suspect>>
  /\ UNCHANGED <<cursor, lock, tx, mirror>>

(* soft_delete_record_unversioned: Ok(false) with no effect unless live.   *)
SoftDeleteUnversioned(w, u) ==
  /\ Idle(w)
  /\ rows[u].state = "live"
  /\ rows' = [rows EXCEPT ![u] = DeleteRowUnversioned(@)]
  /\ Owe(w, u, DeleteNote(u))
  /\ UNCHANGED <<cursor, lock, tx, issued, mirror>>

(* hard_delete_record: the row goes, tombstone or not, and with it the     *)
(* time that later writes are compared with.                               *)
HardDeleteRecord(w, u) ==
  /\ Idle(w)
  /\ rows[u].state # "absent"
  /\ rows' = [rows EXCEPT ![u] = Absent]
  /\ issued' = [issued EXCEPT ![u] = NotIssued]
  /\ Owe(w, u, DeleteNote(u))
  /\ UNCHANGED <<cursor, lock, tx, mirror>>

(* set_cursor: an unconditional overwrite.                                 *)
SetCursor(w, c) ==
  /\ Idle(w)
  /\ cursor' = c
  /\ UNCHANGED <<rows, lock, tx, outbox, issued, mirror, suspect>>

-----------------------------------------------------------------------------
(* apply_operations_batch.  The operations are chosen as the loop reaches  *)
(* them, so the batches of upsert_records_batch (upserts in range only)    *)
(* and of soft_delete_records_batch (deletes only) are among these; both   *)
(* go through this call without a cursor, c = 0.                           *)
BeginBatch(w, c) ==
  /\ Idle(w)
  /\ lock' = w
  /\ tx' = [NoTx EXCEPT !.cursor = c, !.rows = rows, !.issued = issued]
  /\ UNCHANGED <<rows, cursor, outbox, issued, mirror, suspect>>

InBatch == lock # Nobody /\ tx.ran < MaxBatch

BatchUpsert(u, c, t) ==
  /\ InBatch
  /\ InRange(t)
  /\ tx' = [tx EXCEPT
       !.ran = @ + 1,
       !.rows[u] = UpsertRow(@, c, t),
       !.issued[u] = IssueUpsert(@, c, t),
       !.upserts = IF UpsertAccepted(tx.rows[u], t)
                   THEN Append(@, UpsertNote(u, c, t)) ELSE @,
       !.mixed = IF UpsertAccepted(tx.rows[u], t) /\ u \in UrisOf(tx.deletes)
                 THEN @ \cup {u} ELSE @]
  /\ UNCHANGED <<rows, cursor, lock, outbox, issued, mirror, suspect>>

BatchDelete(u, t) ==
  /\ InBatch
  /\ InRange(t)
  /\ tx' = [tx EXCEPT
       !.ran = @ + 1,
       !.rows[u] = DeleteRow(@, t),
       !.issued[u] = IssueDelete(@, t),
       !.deletes = IF DeleteAccepted(tx.rows[u], t) THEN Append(@, DeleteNote(u)) ELSE @,
       !.mixed = IF DeleteAccepted(tx.rows[u], t) THEN @ \ {u} ELSE @]
  /\ UNCHANGED <<rows, cursor, lock, outbox, issued, mirror, suspect>>

(* An operation whose time is out of range is counted and skipped.         *)
BatchSkip(t) ==
  /\ InBatch
  /\ ~InRange(t)
  /\ tx' = [tx EXCEPT !.ran = @ + 1]
  /\ UNCHANGED <<rows, cursor, lock, outbox, issued, mirror, suspect>>

(* The cursor is written and the transaction committed; the mutex goes,    *)
(* and all upserts are owed before all deletes.                            *)
CommitBatch ==
  LET notes   == tx.upserts \o tx.deletes
      overlap == UNION {UrisOf(outbox[v]) : v \in Writers \ {lock}}
      bad     == UrisOf(notes) \cap (overlap \cup tx.mixed)
  IN /\ lock # Nobody
     /\ tx.ran > 0 \/ tx.cursor # 0
     /\ rows' = tx.rows
     /\ issued' = tx.issued
     /\ cursor' = IF tx.cursor = 0 THEN cursor ELSE tx.cursor
     /\ outbox' = [outbox EXCEPT ![lock] = notes]
     /\ suspect' = (suspect \ UrisOf(notes)) \cup bad
     /\ lock' = Nobody
     /\ tx' = NoTx
     /\ UNCHANGED mirror

(* A faulty variant of AbortBatch: what was collected is sent although the *)
(* transaction was rolled back.                                            *)
AbortBatchNotifies ==
  /\ lock # Nobody
  /\ lock' = Nobody
  /\ tx' = NoTx
  /\ outbox' = [outbox EXCEPT ![lock] = tx.upserts \o tx.deletes]
  /\ UNCHANGED <<rows, cursor, issued, mirror, suspect>>

(* Any statement fails: the transaction is rolled back, nothing is sent.   *)
AbortBatch ==
  /\ lock # Nobody
  /\ lock' = Nobody
  /\ tx' = NoTx
  /\ UNCHANGED <<rows, cursor, outbox, issued, mirror, suspect>>

-----------------------------------------------------------------------------
(* publish_upsert / publish_delete, one notification at a time.            *)
Publish(w) ==
  /\ outbox[w] # <<>>
  /\ mirror' = [mirror EXCEPT ![Head(outbox[w]).uri] = Seen(Head(outbox[w]))]
  /\ outbox' = [outbox EXCEPT ![w] = Tail(@)]
  /\ UNCHANGED <<rows, cursor, lock, tx, issued, suspect>>

Next ==
  \/ \E w \in Writers, u \in Uris, c \in Cids, t \in Times : UpsertRecord(w, u, c, t)
  \/ \E w \in Writers, u \in Uris, t \in Times : SoftDeleteRecord(w, u, t)
  \/ \E w \in Writers, u \in Uris : SoftDeleteUnversioned(w, u)
  \/ \E w \in Writers, u \in Uris : HardDeleteRecord(w, u)
  \/ \E w \in Writers, c \in Cursors : SetCursor(w, c)
  \/ \E w \in Writers, c \in Cursors \cup {0} : BeginBatch(w, c)
  \/ \E u \in Uris, c \in Cids, t \in Times : BatchUpsert(u, c, t)
  \/ \E u \in Uris, t \in Times : BatchDelete(u, t)
  \/ \E t \in Times : BatchSkip(t)
  \/ CommitBatch
  \/ AbortBatch
  \/ \E w \in Writers : Publish(w)

Spec == Init /\ [][Next]_vars

-----------------------------------------------------------------------------
(* Every variable stays in its set, and no time the INTEGER column cannot  *)
(* take reaches the table.                                                 *)
TypeOK ==
  /\ rows \in [Uris -> Row] /\ \A u \in Uris : rows[u].at <= MaxI64
  /\ cursor \in Cursors \cup {0}
  /\ lock \in Writers \cup {Nobody}
  /\ tx \in Tx
  /\ outbox \in [Writers -> Seq(Note)]
  /\ issued \in [Uris -> Issued]
  /\ mirror \in [Uris -> Row]
  /\ suspect \in SUBSET Uris

(* What a row is worth against what has been handled for its URI: there is *)
(* a row exactly when an upsert has been handled, a live row is the newest *)
(* upsert, and a tombstone is no older than it.                            *)
RowConverges(row, h) ==
  /\ row.state = "absent" <=> h.upCid = NoCid
  /\ row.state = "live" => row.at = h.upAt /\ row.cid = h.upCid
  /\ row.at >= h.upAt

(* Last writer wins: whatever the order in which threads and batches       *)
(* brought the upserts of a URI, the table holds the newest of them (the   *)
(* ON CONFLICT condition of the three upsert statements).                  *)
LwwConverges == \A u \in Uris : RowConverges(rows[u], issued[u])

(* No write takes a row back in time: short of a hard delete, the row a    *)
(* call or a whole transaction leaves is at least as new as the one it     *)
(* found, so an older upsert never overwrites a newer row and never brings *)
(* a deleted row back.                                                     *)
NoClobber ==
  [][\A u \in Uris : rows'[u].state # "absent" => rows'[u].at >= rows[u].at]_vars

Owed == UNION {UrisOf(outbox[w]) : w \in Writers}

(* A subscriber that loses no notification and folds them by URI agrees    *)
(* with get_record on every URI for which nothing is still owed, as long   *)
(* as no two threads owed notifications about it at once and no batch      *)
(* upserted it after deleting it.                                          *)
MirrorAgrees == \A u \in Uris \ (suspect \cup Owed) : Agrees(mirror[u], rows[u])

-----------------------------------------------------------------------------
(* Claims of the documentation that the code does not keep.                *)

(* README.md:200, a soft-delete barrier that keeps deleted records from    *)
(* resurrecting: no live row is older than a delete handled for its URI.   *)
DeleteBarrier == \A u \in Uris : Visible(rows[u]) => rows[u].at >= issued[u].delAt

(* store.rs:338, a batch is applied in exact arrival order: once all is    *)
(* sent, a subscriber that misses nothing agrees with the table.           *)
BatchNotifiesInOrder == Owed = {} => \A u \in Uris : Agrees(mirror[u], rows[u])
=============================================================================
