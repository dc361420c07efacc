--------------------------- MODULE MCTidGenerator ---------------------------
(* Instances of TidGenerator for TLC.                                      *)
EXTENDS TidGenerator, TLC

Symmetry == Permutations(Threads)
=============================================================================
