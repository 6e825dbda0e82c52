--------------------------- MODULE MCDnsResolver ---------------------------
(* Instances of DnsResolver for TLC.                                       *)
EXTENDS DnsResolver, TLC

(* A cache without records                                                 *)
EmptyDb == {[h \in Host |-> NoRecord]}

Symmetry == Permutations(Worker) \cup Permutations(Host)
=============================================================================
