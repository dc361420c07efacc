----------------------------- MODULE RecordRows -----------------------------
(***************************************************************************)
(* One row of the SQLite table "records" and the conditional statements    *)
(* the store runs on it.  Every write path of src/src/index/store.rs is    *)
(* one of these four statements, applied to the row of one URI while the   *)
(* connection mutex is held.                                               *)
(*                                                                         *)
(* A row keeps what the conditions look at: whether the row is there and   *)
(* whether it is marked deleted, its indexed_at, and a token for the       *)
(* payload (cid, record_json and the other columns are written together).  *)
(***************************************************************************)
EXTENDS Integers

CONSTANTS Cids,    \* payload tokens
          NoCid    \* the payload of a row that is not there

ASSUME NoCidAssumption == NoCid \notin Cids

RowStates == {"absent", "live", "deleted"}

Row == [state : RowStates, at : Nat, cid : Cids \cup {NoCid}]

Absent == [state |-> "absent", at |-> 0, cid |-> NoCid]

Live(c, t) == [state |-> "live", at |-> t, cid |-> c]

-----------------------------------------------------------------------------
(* Faulty variants of UpsertAccepted that the runs catch: a tie goes to    *)
(* the old row; the WHERE clause is missing.                               *)
UpsertAcceptedStrict(row, t) == row.state = "absent" \/ t > row.at
UpsertAcceptedAlways(row, t) == TRUE

(* INSERT ... ON CONFLICT(uri) DO UPDATE ... WHERE excluded.indexed_at >=  *)
(* records.indexed_at: a new row always goes in, an existing one (live or  *)
(* tombstone) is overwritten unless it is newer.                           *)
UpsertAccepted(row, t) == row.state = "absent" \/ t >= row.at

UpsertRow(row, c, t) == IF UpsertAccepted(row, t) THEN Live(c, t) ELSE row

(* UPDATE ... SET is_deleted = 1, indexed_at = ?2 WHERE ?2 >= indexed_at   *)
(* AND is_deleted = 0: no tombstone for a URI with no row, and a tombstone *)
(* keeps the time of the delete that made it.                              *)
DeleteAccepted(row, t) == row.state = "live" /\ t >= row.at

DeleteRow(row, t) ==
  IF DeleteAccepted(row, t) THEN [row EXCEPT !.state = "deleted", !.at = t] ELSE row

(* The unversioned variant has neither the time condition nor the time.    *)
DeleteRowUnversioned(row) ==
  IF row.state = "live" THEN [row EXCEPT !.state = "deleted"] ELSE row

(* What get_record shows: the row unless it is absent or a tombstone.      *)
Visible(row) == row.state = "live"
=============================================================================
