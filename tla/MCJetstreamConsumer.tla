------------------------- MODULE MCJetstreamConsumer -------------------------
(* Instances of JetstreamConsumer for TLC.  The URIs are interchangeable.  *)
EXTENDS JetstreamConsumer

Symmetry == Permutations(Uris)
=============================================================================
