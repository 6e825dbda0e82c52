-------------------------------- MODULE Ranks --------------------------------
(***************************************************************************)
(* The elements of a finite set in an order: the one at place k has k - 1  *)
(* elements before it. The order is a set of pairs, so that theorems can   *)
(* be stated about any of them. And the elements of a sequence that are in *)
(* a set.                                                                  *)
(***************************************************************************)
EXTENDS Integers, FiniteSets

Preceding(S, order, x) == {y \in S : <<y, x>> \in order}

Ranked(S, order) ==
  [k \in 1 .. Cardinality(S) |-> CHOOSE x \in S : Cardinality(Preceding(S, order, x)) = k - 1]

Ascending(S) == {p \in S \X S : p[1] < p[2]}

Selected(s, T) ==
  LET kept == {i \in DOMAIN s : s[i] \in T}
      at   == Ranked(kept, Ascending(kept))
  IN  [k \in 1 .. Cardinality(kept) |-> s[at[k]]]
=============================================================================
