--------------------------- MODULE MCStateEngine ---------------------------
(* Instances of StateEngine for TLC.                                       *)
EXTENDS StateEngine, TLC

Symmetry == Permutations(Host) \cup Permutations(Url)
=============================================================================
