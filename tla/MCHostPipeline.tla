-------------------------- MODULE MCHostPipeline --------------------------
(* Instances of HostPipeline for TLC.                                      *)
EXTENDS HostPipeline, TLC

EmptyDb == {[h \in Host |-> NoRecord]}

Symmetry == Permutations(Worker)
=============================================================================
