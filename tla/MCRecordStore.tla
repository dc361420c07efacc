---------------------------- MODULE MCRecordStore ----------------------------
(* Instances of RecordStore for TLC.  URIs, payloads and threads are       *)
(* interchangeable: no action and no property tells two of them apart.     *)
EXTENDS RecordStore, TLC

Symmetry == Permutations(Uris) \cup Permutations(Cids) \cup Permutations(Writers)
=============================================================================
