--------------------------- MODULE JetstreamFrames ---------------------------
(***************************************************************************)
(* The frame parser of src/src/ingest/events.rs.  A frame is what the      *)
(* parser's branches tell apart:                                           *)
(*   json     the text is JSON of the expected shape                       *)
(*   stamp    time_us is missing or 0, sound, or years in the future       *)
(*   kind     the kind field is "commit", something else, or missing       *)
(*   did      the did is missing or blank, malformed, or valid             *)
(*   commit   the commit payload is missing, names a malformed collection  *)
(*            or rkey, or is fine                                          *)
(*   op       the operation is create, update or delete in any case, or    *)
(*            something else                                               *)
(***************************************************************************)
EXTENDS Naturals

Frame == [json : BOOLEAN,
          stamp : {"none", "sound", "far"},
          kind : {"commit", "other", "none"},
          did : {"none", "bad", "good"},
          commit : {"none", "bad", "good"},
          op : {"known", "unknown"}]

Parsed == {"discarded", "heartbeat", "other", "commit"}

(* A frame whose commit cannot be used still tells the time.               *)
Salvaged(f) == IF f.stamp = "sound" THEN "heartbeat" ELSE "discarded"

(* CommitOperation::from_str_loose and the validity of the parts.          *)
UsableCommit(f) ==
  /\ f.did = "good"
  /\ f.commit = "good"
  /\ f.op = "known"

(* parse_jetstream_frame, its checks in their order.                       *)
ParseFrame(f) ==
  IF ~f.json \/ f.stamp = "far" THEN "discarded"
  ELSE IF f.kind = "commit" THEN
    IF UsableCommit(f) THEN "commit" ELSE Salvaged(f)
  ELSE IF f.stamp = "none" THEN "discarded"
  ELSE IF f.kind = "none" THEN "heartbeat" ELSE "other"
=============================================================================
