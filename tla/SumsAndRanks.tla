----------------------------- MODULE SumsAndRanks -----------------------------
(***************************************************************************)
(* Sums of the values of a function over a finite set (SumFunctionOnSet):  *)
(* the sum over one more element is one more term, whatever element the    *)
(* definition picks first. Induction is by a smallest counterexample.      *)
(* The elements of a finite set in an order (Ranked): each has one place.  *)
(* Those of a sequence that are in a set (Selected) keep their order.      *)
(***************************************************************************)
EXTENDS Integers, Sequences, Ranks, Functions, FiniteSetTheorems, WellFoundedInduction, TLAPS

(* Numbers have a least one.                                               *)
LEMMA Smallest ==
  ASSUME NEW N \in SUBSET Nat, N # {}
  PROVE  \E n \in N : \A m \in N : n <= m
<1>1. PICK n \in N : \A m \in N : ~(<<m, n>> \in OpToRel(<, Nat))
  BY WFMin, NatLessThanWellFounded
<1>2. \A m \in N : ~(m < n)
  BY <1>1 DEF OpToRel
<1>. QED
  BY <1>2

(* A set that has 0 and the successor of each of its numbers has them all. *)
LEMMA AllNumbers ==
  ASSUME NEW N, 0 \in N, \A n \in Nat : n \in N => n + 1 \in N
  PROVE  Nat \subseteq N
<1>. SUFFICES ASSUME Nat \ N # {}  PROVE FALSE
  OBVIOUS
<1>1. PICK n \in Nat \ N : \A m \in Nat \ N : n <= m
  BY Smallest
<1>2. n - 1 \in Nat /\ n - 1 \in N
  BY <1>1
<1>3. (n - 1) + 1 \in N
  BY <1>2
<1>. QED
  BY <1>1, <1>3

(* A set that has the empty set, and each set of its members with one more *)
(* element of S, has S.                                                    *)
LEMMA AllElements ==
  ASSUME NEW S, IsFiniteSet(S), NEW G, {} \in G,
         \A T \in SUBSET S, x \in S : T \in G /\ x \notin T => T \cup {x} \in G
  PROVE  S \in G
<1>. DEFINE N == {n \in Nat : \A T \in SUBSET S : Cardinality(T) = n => T \in G}
<1>1. \A T \in SUBSET S : IsFiniteSet(T) /\ Cardinality(T) \in Nat
  BY FS_Subset, FS_CardinalityType
<1>2. 0 \in N
  BY <1>1, FS_EmptySet
<1>3. ASSUME NEW n \in Nat, n \in N  PROVE n + 1 \in N
  <2>1. ASSUME NEW T \in SUBSET S, Cardinality(T) = n + 1  PROVE T \in G
    <3>1. Cardinality({}) = 0 /\ n + 1 # 0 /\ (n + 1) - 1 = n
      BY FS_EmptySet
    <3>2. PICK x : x \in T
      BY <2>1, <3>1
    <3>3. Cardinality(T \ {x}) = n
      <4>1. Cardinality(T \ {x}) = Cardinality(T) - 1
        BY <1>1, <2>1, <3>2, FS_RemoveElement
      <4>. QED
        BY <2>1, <3>1, <4>1
    <3>4. T \ {x} \in G
      BY <1>3, <2>1, <3>3
    <3>5. (T \ {x}) \cup {x} = T
      BY <3>2
    <3>6. (T \ {x}) \cup {x} \in G
      BY <3>2, <3>4
    <3>. QED
      BY <3>5, <3>6, Zenon
  <2>. QED
    BY <2>1
<1>4. Nat \subseteq N
  <2>. HIDE DEF N
  <2>. QED
    BY <1>2, <1>3, AllNumbers
<1>. QED
  BY <1>1, <1>4

-----------------------------------------------------------------------------
(* What SumFunctionOnSet chooses                                           *)

PickedOf(s) == CHOOSE x \in s : TRUE

SumStep(g, f, s) == IF s = {} THEN 0 ELSE f[PickedOf(s)] + g[s \ {PickedOf(s)}]

SumsOver(g, f, D) == g = [s \in D |-> SumStep(g, f, s)]

(* Sets of at most n elements of S *)
SetsUpTo(n, S) == {s \in SUBSET S : IsFiniteSet(s) /\ Cardinality(s) <= n}

(* The definition, with names for its parts.                               *)
LEMMA SumIs ==
  ASSUME NEW f, NEW S
  PROVE  SumFunctionOnSet(f, S) = (CHOOSE g : SumsOver(g, f, SUBSET S))[S]
BY DEF SumFunctionOnSet, FoldFunctionOnSet, MapThenFoldSet, SumsOver, SumStep, PickedOf

(* A set without the element that is picked has one element less.          *)
LEMMA Rest ==
  ASSUME NEW n \in Nat, NEW S, NEW s \in SetsUpTo(n + 1, S), s # {}
  PROVE  PickedOf(s) \in s /\ s \ {PickedOf(s)} \in SetsUpTo(n, S)
<1>1. PickedOf(s) \in s
  BY DEF PickedOf
<1>2. IsFiniteSet(s) /\ Cardinality(s) <= n + 1 /\ Cardinality(s) \in Nat /\ s \in SUBSET S
  BY FS_CardinalityType DEF SetsUpTo
<1>3. IsFiniteSet(s \ {PickedOf(s)}) /\ Cardinality(s \ {PickedOf(s)}) = Cardinality(s) - 1
  BY <1>1, <1>2, FS_RemoveElement
<1>. QED
  BY <1>1, <1>2, <1>3 DEF SetsUpTo

(* There is a function as the definition chooses it: it is built from      *)
(* the sums over smaller sets.                                             *)
LEMMA SumsExist ==
  ASSUME NEW f, NEW S, IsFiniteSet(S)
  PROVE  \E g : SumsOver(g, f, SUBSET S)
<1>. DEFINE N == {n \in Nat : \E g : SumsOver(g, f, SetsUpTo(n, S))}
<1>1. 0 \in N
  <2>. DEFINE g == [s \in SetsUpTo(0, S) |-> 0]
  <2>1. \A s \in SetsUpTo(0, S) : s = {}
    BY FS_CardinalityType, FS_EmptySet DEF SetsUpTo
  <2>2. \A s \in SetsUpTo(0, S) : SumStep(g, f, s) = 0
    BY <2>1 DEF SumStep
  <2>3. SumsOver(g, f, SetsUpTo(0, S))
    BY <2>2 DEF SumsOver
  <2>. QED
    BY <2>3
<1>2. ASSUME NEW n \in Nat, n \in N  PROVE n + 1 \in N
  <2>1. PICK g : SumsOver(g, f, SetsUpTo(n, S))
    BY <1>2
  <2>. DEFINE h == [s \in SetsUpTo(n + 1, S) |-> SumStep(g, f, s)]
  <2>2. \A s \in SetsUpTo(n, S) : s \in SetsUpTo(n + 1, S) /\ g[s] = SumStep(g, f, s)
    BY <2>1, FS_CardinalityType DEF SumsOver, SetsUpTo
  <2>3. \A s \in SetsUpTo(n, S) : h[s] = g[s]
    BY <2>2
  <2>4. ASSUME NEW s \in SetsUpTo(n + 1, S)  PROVE SumStep(h, f, s) = SumStep(g, f, s)
    <3>. HIDE DEF h
    <3>1. s # {} => h[s \ {PickedOf(s)}] = g[s \ {PickedOf(s)}]
      BY <2>3, Rest
    <3>. QED
      BY <3>1 DEF SumStep
  <2>5. SumsOver(h, f, SetsUpTo(n + 1, S))
    BY <2>4 DEF SumsOver
  <2>. QED
    BY <2>5
<1>3. Nat \subseteq N
  <2>. HIDE DEF N
  <2>. QED
    BY <1>1, <1>2, AllNumbers
<1>4. Cardinality(S) \in Nat /\ SetsUpTo(Cardinality(S), S) = SUBSET S
  BY FS_CardinalityType, FS_Subset DEF SetsUpTo
<1>5. \E g : SumsOver(g, f, SetsUpTo(Cardinality(S), S))
  BY <1>3, <1>4
<1>. QED
  BY <1>4, <1>5

(* Any element of a set may be the first term of its sum.                  *)
FitsSums(g, f, D) ==
  \A s \in D : g[s] \in Int /\ \A x \in s : g[s] = f[x] + g[s \ {x}]

(* If any element may be first in sets of n elements, then in those of     *)
(* n + 1: the first two elements of the sum change places.                 *)
LEMMA SumsStep ==
  ASSUME NEW f, NEW S, IsFiniteSet(S), \A x \in S : f[x] \in Int,
         NEW g, SumsOver(g, f, SUBSET S), NEW n \in Nat, FitsSums(g, f, SetsUpTo(n, S))
  PROVE  FitsSums(g, f, SetsUpTo(n + 1, S))
<1>. SUFFICES ASSUME NEW s \in SetsUpTo(n + 1, S)
     PROVE  g[s] \in Int /\ \A x \in s : g[s] = f[x] + g[s \ {x}]
  BY DEF FitsSums
<1>. DEFINE p == PickedOf(s)
<1>1. s \in SUBSET S /\ IsFiniteSet(s) /\ Cardinality(s) \in Nat /\ Cardinality(s) <= n + 1
  BY FS_CardinalityType DEF SetsUpTo
<1>2. g[s] = SumStep(g, f, s)
  BY <1>1 DEF SumsOver
<1>3. CASE s = {}
  BY <1>2, <1>3 DEF SumStep
<1>4. CASE s # {}
  <2>1. p \in s /\ s \ {p} \in SetsUpTo(n, S) /\ g[s] = f[p] + g[s \ {p}]
    BY <1>2, <1>4, Rest DEF SumStep
  <2>. HIDE DEF p
  <2>2. g[s] \in Int /\ f[p] \in Int /\ g[s \ {p}] \in Int
    BY <1>1, <2>1 DEF FitsSums
  <2>3. ASSUME NEW x \in s  PROVE g[s] = f[x] + g[s \ {x}]
    <3>1. CASE x = p
      BY <2>1, <3>1
    <3>2. CASE x # p
      <4>1. (s \ {x}) \in SetsUpTo(n, S)
        <5>1. IsFiniteSet(s \ {x}) /\ Cardinality(s \ {x}) = Cardinality(s) - 1
          BY <1>1, FS_RemoveElement
        <5>. QED
          BY <1>1, <5>1 DEF SetsUpTo
      <4>2. x \in s \ {p} /\ p \in s \ {x} /\ (s \ {p}) \ {x} = (s \ {x}) \ {p}
        BY <2>1, <3>2
      <4>3. g[s \ {p}] = f[x] + g[(s \ {p}) \ {x}]
        BY <2>1, <4>2 DEF FitsSums
      <4>4. g[s \ {x}] = f[p] + g[(s \ {x}) \ {p}] /\ g[s \ {x}] \in Int
        BY <4>1, <4>2 DEF FitsSums
      <4>5. f[x] \in Int
        BY <1>1
      <4>6. g[(s \ {x}) \ {p}] = g[(s \ {p}) \ {x}]
        BY <4>2, Zenon
      <4>7. (s \ {p}) \ {x} \in SetsUpTo(n, S)
        <5>1. IsFiniteSet(s \ {p}) /\ s \ {p} \in SUBSET S /\ Cardinality(s \ {p}) <= n
              /\ Cardinality(s \ {p}) \in Nat
          BY <2>1, FS_CardinalityType DEF SetsUpTo
        <5>2. IsFiniteSet((s \ {p}) \ {x}) /\ Cardinality((s \ {p}) \ {x}) = Cardinality(s \ {p}) - 1
          BY <4>2, <5>1, FS_RemoveElement
        <5>. QED
          BY <5>1, <5>2 DEF SetsUpTo
      <4>8. g[(s \ {p}) \ {x}] \in Int
        BY <4>7 DEF FitsSums
      <4>. QED
        BY <2>1, <2>2, <4>3, <4>4, <4>5, <4>6, <4>8
    <3>. QED
      BY <3>1, <3>2
  <2>. QED
    BY <2>2, <2>3
<1>. QED
  BY <1>3, <1>4

(* Any element may be first in all sets.                                   *)
LEMMA SumsFit ==
  ASSUME NEW f, NEW S, IsFiniteSet(S), \A x \in S : f[x] \in Int,
         NEW g, SumsOver(g, f, SUBSET S)
  PROVE  FitsSums(g, f, SUBSET S)
<1>. DEFINE N == {n \in Nat : FitsSums(g, f, SetsUpTo(n, S))}
<1>1. 0 \in N
  <2>1. ASSUME NEW t \in SetsUpTo(0, S)  PROVE g[t] \in Int /\ t = {}
    <3>1. t = {}
      BY FS_CardinalityType, FS_EmptySet DEF SetsUpTo
    <3>. QED
      BY <3>1 DEF SumsOver, SumStep
  <2>. QED
    BY <2>1 DEF FitsSums
<1>2. \A n \in Nat : n \in N => n + 1 \in N
  BY SumsStep
<1>3. Nat \subseteq N
  <2>. HIDE DEF N
  <2>. QED
    BY <1>1, <1>2, AllNumbers
<1>4. Cardinality(S) \in Nat /\ SetsUpTo(Cardinality(S), S) = SUBSET S
  BY FS_CardinalityType, FS_Subset DEF SetsUpTo
<1>. QED
  BY <1>3, <1>4

(* Sums over a set depend on the values for its elements only.             *)
LEMMA SumsAgree ==
  ASSUME NEW f, NEW S, IsFiniteSet(S), \A x \in S : f[x] \in Int,
         NEW h, NEW R, IsFiniteSet(R), \A x \in R : h[x] \in Int,
         NEW g, SumsOver(g, f, SUBSET S), NEW k, SumsOver(k, h, SUBSET R),
         NEW T, T \subseteq S, T \subseteq R, \A x \in T : f[x] = h[x]
  PROVE  g[T] = k[T]
<1>. DEFINE G == {t \in SUBSET T : g[t] = k[t]}
<1>1. {} \in G
  <2>1. g[{}] = 0 /\ k[{}] = 0
    BY DEF SumsOver, SumStep
  <2>. QED
    BY <2>1
<1>2. ASSUME NEW t \in SUBSET T, NEW x \in T, t \in G, x \notin t  PROVE t \cup {x} \in G
  <2>1. FitsSums(g, f, SUBSET S) /\ FitsSums(k, h, SUBSET R)
    BY SumsFit
  <2>2. (t \cup {x}) \ {x} = t
    BY <1>2
  <2>3. g[t \cup {x}] = f[x] + g[t]
    <3>1. t \cup {x} \in SUBSET S /\ x \in t \cup {x}
      OBVIOUS
    <3>2. g[t \cup {x}] = f[x] + g[(t \cup {x}) \ {x}]
      BY <2>1, <3>1 DEF FitsSums
    <3>. QED
      BY <2>2, <3>2, Zenon
  <2>4. k[t \cup {x}] = h[x] + k[t]
    <3>1. t \cup {x} \in SUBSET R /\ x \in t \cup {x}
      OBVIOUS
    <3>2. k[t \cup {x}] = h[x] + k[(t \cup {x}) \ {x}]
      BY <2>1, <3>1 DEF FitsSums
    <3>. QED
      BY <2>2, <3>2, Zenon
  <2>5. g[t] = k[t] /\ f[x] = h[x]
    BY <1>2
  <2>. QED
    BY <2>3, <2>4, <2>5
<1>3. IsFiniteSet(T)
  BY FS_Subset
<1>4. T \in G
  <2>. HIDE DEF G
  <2>. QED
    BY <1>1, <1>2, <1>3, AllElements
<1>. QED
  BY <1>4

-----------------------------------------------------------------------------
(* Sums                                                                    *)

(* The sum over S is the value at S of such a function.                    *)
LEMMA SumExists ==
  ASSUME NEW f, NEW S, IsFiniteSet(S)
  PROVE  \E g : SumsOver(g, f, SUBSET S) /\ SumFunctionOnSet(f, S) = g[S]
<1>. DEFINE g == CHOOSE g : SumsOver(g, f, SUBSET S)
<1>1. SumsOver(g, f, SUBSET S)
  BY SumsExist
<1>. QED
  BY <1>1, SumIs

(* No terms, no sum.                                                       *)
LEMMA SumEmpty == ASSUME NEW f PROVE SumFunctionOnSet(f, {}) = 0
<1>1. PICK g : SumsOver(g, f, SUBSET {}) /\ SumFunctionOnSet(f, {}) = g[{}]
  BY SumExists, FS_EmptySet
<1>. QED
  BY <1>1 DEF SumsOver, SumStep

(* Integers have an integer sum.                                           *)
LEMMA SumType ==
  ASSUME NEW f, NEW S, IsFiniteSet(S), \A x \in S : f[x] \in Int
  PROVE  SumFunctionOnSet(f, S) \in Int
<1>1. PICK g : SumsOver(g, f, SUBSET S) /\ SumFunctionOnSet(f, S) = g[S]
  BY SumExists
<1>2. FitsSums(g, f, SUBSET S)
  BY <1>1, SumsFit
<1>. QED
  BY <1>1, <1>2 DEF FitsSums

(* Equal terms, equal sums.                                                *)
LEMMA SumSame ==
  ASSUME NEW f, NEW h, NEW S, IsFiniteSet(S), \A x \in S : f[x] \in Int /\ h[x] = f[x]
  PROVE  SumFunctionOnSet(h, S) = SumFunctionOnSet(f, S)
<1>1. PICK g : SumsOver(g, f, SUBSET S) /\ SumFunctionOnSet(f, S) = g[S]
  BY SumExists
<1>2. PICK k : SumsOver(k, h, SUBSET S) /\ SumFunctionOnSet(h, S) = k[S]
  BY SumExists
<1>3. g[S] = k[S]
  BY <1>1, <1>2, SumsAgree
<1>. QED
  BY <1>1, <1>2, <1>3

(* One more element.                                                       *)
LEMMA SumAdd ==
  ASSUME NEW f, NEW S, IsFiniteSet(S), NEW x, x \notin S, \A y \in S \cup {x} : f[y] \in Int
  PROVE  SumFunctionOnSet(f, S \cup {x}) = f[x] + SumFunctionOnSet(f, S)
<1>. DEFINE T == S \cup {x}
<1>0. IsFiniteSet(T)
  BY FS_AddElement
<1>1. PICK g : SumsOver(g, f, SUBSET S) /\ SumFunctionOnSet(f, S) = g[S]
  BY SumExists
<1>2. PICK k : SumsOver(k, f, SUBSET T) /\ SumFunctionOnSet(f, T) = k[T]
  BY <1>0, SumExists
<1>3. g[S] = k[S]
  <2>1. S \subseteq T /\ \A y \in T : f[y] \in Int
    OBVIOUS
  <2>. HIDE DEF T
  <2>. QED
    BY <1>0, <1>1, <1>2, <2>1, SumsAgree
<1>4. k[T] = f[x] + k[T \ {x}]
  <2>1. x \in T /\ T \in SUBSET T /\ \A y \in T : f[y] \in Int
    OBVIOUS
  <2>. HIDE DEF T
  <2>2. FitsSums(k, f, SUBSET T)
    BY <1>0, <1>2, <2>1, SumsFit
  <2>. QED
    BY <2>1, <2>2 DEF FitsSums
<1>5. T \ {x} = S
  OBVIOUS
<1>6. k[T \ {x}] = k[S]
  BY <1>5, Zenon
<1>. QED
  BY <1>1, <1>2, <1>3, <1>4, <1>6

(* Two sums are added term by term.                                        *)
LEMMA SumPlus ==
  ASSUME NEW f, NEW h, NEW k, NEW S, IsFiniteSet(S),
         \A x \in S : f[x] \in Int /\ h[x] \in Int /\ k[x] = f[x] + h[x]
  PROVE  SumFunctionOnSet(k, S) = SumFunctionOnSet(f, S) + SumFunctionOnSet(h, S)
<1>. DEFINE Same(T) == SumFunctionOnSet(k, T) = SumFunctionOnSet(f, T) + SumFunctionOnSet(h, T)
            G == {T \in SUBSET S : Same(T)}
<1>1. {} \in G
  BY SumEmpty
<1>2. ASSUME NEW T \in SUBSET S, NEW x \in S, T \in G, x \notin T  PROVE T \cup {x} \in G
  <2>1. IsFiniteSet(T)
    BY FS_Subset
  <2>2. Same(T)
    BY <1>2
  <2>3. \A y \in T \cup {x} : f[y] \in Int /\ h[y] \in Int /\ k[y] \in Int
    OBVIOUS
  <2>4. SumFunctionOnSet(f, T \cup {x}) = f[x] + SumFunctionOnSet(f, T)
    BY <1>2, <2>1, <2>3, SumAdd
  <2>5. SumFunctionOnSet(h, T \cup {x}) = h[x] + SumFunctionOnSet(h, T)
    BY <1>2, <2>1, <2>3, SumAdd
  <2>6. SumFunctionOnSet(k, T \cup {x}) = k[x] + SumFunctionOnSet(k, T)
    BY <1>2, <2>1, <2>3, SumAdd
  <2>7. SumFunctionOnSet(f, T) \in Int /\ SumFunctionOnSet(h, T) \in Int
    BY <2>1, <2>3, SumType
  <2>8. k[x] = f[x] + h[x] /\ f[x] \in Int /\ h[x] \in Int
    OBVIOUS
  <2>9. Same(T \cup {x})
    BY <2>2, <2>4, <2>5, <2>6, <2>7, <2>8
  <2>. QED
    BY <2>9
<1>3. S \in G
  <2>. HIDE DEF G
  <2>. QED
    BY <1>1, <1>2, AllElements
<1>. QED
  BY <1>3

(* Non-negative terms: so is their sum.                                    *)
LEMMA SumNat ==
  ASSUME NEW f, NEW S, IsFiniteSet(S), \A x \in S : f[x] \in Nat
  PROVE  SumFunctionOnSet(f, S) \in Nat
<1>. DEFINE G == {T \in SUBSET S : SumFunctionOnSet(f, T) \in Nat}
<1>1. {} \in G
  BY SumEmpty
<1>2. ASSUME NEW T \in SUBSET S, NEW x \in S, T \in G, x \notin T  PROVE T \cup {x} \in G
  <2>1. IsFiniteSet(T)
    BY FS_Subset
  <2>2. SumFunctionOnSet(f, T \cup {x}) = f[x] + SumFunctionOnSet(f, T)
    BY <1>2, <2>1, SumAdd
  <2>. QED
    BY <1>2, <2>2
<1>3. S \in G
  <2>. HIDE DEF G
  <2>. QED
    BY <1>1, <1>2, AllElements
<1>. QED
  BY <1>3

(* Terms that are all zero.                                                *)
LEMMA SumZero ==
  ASSUME NEW f, NEW S, IsFiniteSet(S), \A x \in S : f[x] = 0
  PROVE  SumFunctionOnSet(f, S) = 0
<1>. DEFINE G == {T \in SUBSET S : SumFunctionOnSet(f, T) = 0}
<1>1. {} \in G
  BY SumEmpty
<1>2. ASSUME NEW T \in SUBSET S, NEW x \in S, T \in G, x \notin T  PROVE T \cup {x} \in G
  <2>1. IsFiniteSet(T) /\ \A y \in T \cup {x} : f[y] \in Int
    BY FS_Subset
  <2>2. SumFunctionOnSet(f, T \cup {x}) = f[x] + SumFunctionOnSet(f, T)
    BY <1>2, <2>1, SumAdd
  <2>. QED
    BY <1>2, <2>2
<1>3. S \in G
  <2>. HIDE DEF G
  <2>. QED
    BY <1>1, <1>2, AllElements
<1>. QED
  BY <1>3

(* One value changes.                                                      *)
LEMMA SumChange ==
  ASSUME NEW f, NEW h, NEW S, IsFiniteSet(S), NEW x \in S,
         \A y \in S : f[y] \in Int /\ h[y] \in Int /\ (y # x => h[y] = f[y])
  PROVE  SumFunctionOnSet(h, S) = SumFunctionOnSet(f, S) + h[x] - f[x]
<1>. DEFINE T == S \ {x}
<1>1. IsFiniteSet(T) /\ x \notin T /\ T \cup {x} = S
  BY FS_Subset
<1>2. \A y \in T : f[y] \in Int /\ h[y] = f[y]
  OBVIOUS
<1>3. \A y \in T \cup {x} : f[y] \in Int /\ h[y] \in Int
  OBVIOUS
<1>. HIDE DEF T
<1>4. SumFunctionOnSet(h, T) = SumFunctionOnSet(f, T)
  BY <1>1, <1>2, SumSame
<1>5. SumFunctionOnSet(h, T \cup {x}) = h[x] + SumFunctionOnSet(h, T)
  BY <1>1, <1>3, SumAdd
<1>6. SumFunctionOnSet(f, T \cup {x}) = f[x] + SumFunctionOnSet(f, T)
  BY <1>1, <1>3, SumAdd
<1>7. SumFunctionOnSet(f, T) \in Int /\ f[x] \in Int /\ h[x] \in Int
  BY <1>1, <1>2, SumType
<1>8. SumFunctionOnSet(h, T \cup {x}) = SumFunctionOnSet(h, S)
      /\ SumFunctionOnSet(f, T \cup {x}) = SumFunctionOnSet(f, S)
  BY <1>1, Zenon
<1>. QED
  BY <1>4, <1>5, <1>6, <1>7, <1>8

(* Indicator: the sum counts.                                              *)
LEMMA SumCounts ==
  ASSUME NEW f, NEW S, IsFiniteSet(S), NEW A,
         \A x \in S : f[x] = IF x \in A THEN 1 ELSE 0
  PROVE  SumFunctionOnSet(f, S) = Cardinality({x \in S : x \in A})
<1>. DEFINE In(T) == {x \in T : x \in A}
            G == {T \in SUBSET S : SumFunctionOnSet(f, T) = Cardinality(In(T))}
<1>1. {} \in G
  <2>1. In({}) = {}
    OBVIOUS
  <2>. QED
    BY <2>1, SumEmpty, FS_EmptySet
<1>2. ASSUME NEW T \in SUBSET S, NEW x \in S, T \in G, x \notin T  PROVE T \cup {x} \in G
  <2>1. IsFiniteSet(T) /\ IsFiniteSet(In(T)) /\ \A y \in T \cup {x} : f[y] \in Int
    BY FS_Subset
  <2>2. SumFunctionOnSet(f, T \cup {x}) = f[x] + SumFunctionOnSet(f, T)
    BY <1>2, <2>1, SumAdd
  <2>3. Cardinality(In(T)) \in Nat
    BY <2>1, FS_CardinalityType
  <2>4. CASE x \in A
    <3>1. In(T \cup {x}) = In(T) \cup {x} /\ x \notin In(T)
      BY <1>2, <2>4
    <3>2. Cardinality(In(T) \cup {x}) = Cardinality(In(T)) + 1
      BY <2>1, <3>1, FS_AddElement
    <3>3. Cardinality(In(T \cup {x})) = Cardinality(In(T) \cup {x})
      BY <3>1, Zenon
    <3>. QED
      BY <1>2, <2>2, <2>3, <2>4, <3>2, <3>3
  <2>5. CASE x \notin A
    <3>1. In(T \cup {x}) = In(T)
      BY <2>5
    <3>2. Cardinality(In(T \cup {x})) = Cardinality(In(T))
      BY <3>1, Zenon
    <3>. QED
      BY <1>2, <2>2, <2>3, <2>5, <3>2
  <2>. QED
    BY <2>4, <2>5
<1>3. S \in G
  <2>. HIDE DEF G
  <2>. QED
    BY <1>1, <1>2, AllElements
<1>. QED
  BY <1>3

(* Elements counted by their values: each one once.                        *)
LEMMA SumPartition ==
  ASSUME NEW S, IsFiniteSet(S), NEW A, IsFiniteSet(A), NEW f
  PROVE  SumFunctionOnSet([a \in A |-> Cardinality({s \in S : f[s] = a})], A)
           = Cardinality({s \in S : f[s] \in A})
<1>. DEFINE With(T, a) == {s \in T : f[s] = a}
            In(T) == {s \in T : f[s] \in A}
            F(T) == [a \in A |-> Cardinality(With(T, a))]
            G == {T \in SUBSET S : SumFunctionOnSet(F(T), A) = Cardinality(In(T))}
<1>1. ASSUME NEW T \in SUBSET S
      PROVE  /\ IsFiniteSet(T) /\ IsFiniteSet(In(T)) /\ Cardinality(In(T)) \in Nat
             /\ \A a \in A : IsFiniteSet(With(T, a)) /\ F(T)[a] \in Nat
  <2>1. IsFiniteSet(T)
    BY FS_Subset
  <2>2. IsFiniteSet(In(T)) /\ \A a \in A : IsFiniteSet(With(T, a))
    BY <2>1, FS_Subset
  <2>. QED
    BY <2>1, <2>2, FS_CardinalityType
<1>2. {} \in G
  <2>1. \A a \in A : F({})[a] = 0
    <3>1. \A a \in A : With({}, a) = {}
      OBVIOUS
    <3>. QED
      BY <3>1, FS_EmptySet
  <2>2. In({}) = {}
    OBVIOUS
  <2>3. SumFunctionOnSet(F({}), A) = 0
    <3>. HIDE DEF F
    <3>. QED
      BY <2>1, SumZero
  <2>. QED
    BY <2>2, <2>3, FS_EmptySet
<1>3. ASSUME NEW T \in SUBSET S, NEW x \in S, T \in G, x \notin T  PROVE T \cup {x} \in G
  <2>. DEFINE U == T \cup {x}
  <2>1. U \in SUBSET S
    OBVIOUS
  <2>2. \A a \in A : F(T)[a] \in Int /\ F(U)[a] \in Int
    BY <1>1, <2>1
  <2>3. \A a \in A : a # f[x] => F(U)[a] = F(T)[a]
    <3>1. \A a \in A : a # f[x] => With(U, a) = With(T, a)
      OBVIOUS
    <3>. QED
      BY <3>1
  <2>4. CASE f[x] \in A
    <3>1. F(U)[f[x]] = F(T)[f[x]] + 1
      <4>1. With(U, f[x]) = With(T, f[x]) \cup {x} /\ x \notin With(T, f[x])
        BY <1>3
      <4>2. Cardinality(With(T, f[x]) \cup {x}) = Cardinality(With(T, f[x])) + 1
        BY <1>1, <2>4, <4>1, FS_AddElement
      <4>3. Cardinality(With(U, f[x])) = Cardinality(With(T, f[x]) \cup {x})
        BY <4>1, Zenon
      <4>. QED
        BY <2>4, <4>2, <4>3
    <3>2. Cardinality(In(U)) = Cardinality(In(T)) + 1
      <4>1. In(U) = In(T) \cup {x} /\ x \notin In(T)
        BY <1>3, <2>4
      <4>2. Cardinality(In(T) \cup {x}) = Cardinality(In(T)) + 1
        BY <1>1, <4>1, FS_AddElement
      <4>3. Cardinality(In(U)) = Cardinality(In(T) \cup {x})
        BY <4>1, Zenon
      <4>. QED
        BY <4>2, <4>3
    <3>3. SumFunctionOnSet(F(U), A) = SumFunctionOnSet(F(T), A) + F(U)[f[x]] - F(T)[f[x]]
      <4>. HIDE DEF F, U
      <4>. QED
        BY <2>2, <2>3, <2>4, SumChange
    <3>4. SumFunctionOnSet(F(T), A) = Cardinality(In(T)) /\ Cardinality(In(T)) \in Nat
          /\ F(T)[f[x]] \in Int
      BY <1>1, <1>3, <2>2, <2>4
    <3>. HIDE DEF F, In
    <3>5. SumFunctionOnSet(F(U), A) = Cardinality(In(U))
      BY <3>1, <3>2, <3>3, <3>4
    <3>. QED
      BY <2>1, <3>5
  <2>5. CASE f[x] \notin A
    <3>1. In(U) = In(T)
      BY <2>5
    <3>2. \A a \in A : F(T)[a] \in Int /\ F(U)[a] = F(T)[a]
      BY <2>2, <2>3, <2>5
    <3>3. SumFunctionOnSet(F(U), A) = SumFunctionOnSet(F(T), A)
      <4>. HIDE DEF F, U
      <4>. QED
        BY <3>2, SumSame
    <3>4. SumFunctionOnSet(F(T), A) = Cardinality(In(T))
      BY <1>3
    <3>5. SumFunctionOnSet(F(U), A) = Cardinality(In(U))
      BY <3>1, <3>3, <3>4, Zenon
    <3>. QED
      BY <2>1, <3>5
  <2>. QED
    BY <2>4, <2>5
<1>4. S \in G
  <2>. HIDE DEF G
  <2>. QED
    BY <1>2, <1>3, AllElements
<1>. QED
  BY <1>4

(* No term is greater: nor is the sum.                                     *)
LEMMA SumAtMost ==
  ASSUME NEW f, NEW h, NEW S, IsFiniteSet(S),
         \A x \in S : f[x] \in Int /\ h[x] \in Int /\ f[x] <= h[x]
  PROVE  SumFunctionOnSet(f, S) <= SumFunctionOnSet(h, S)
<1>. DEFINE k == [x \in S |-> h[x] - f[x]]
<1>1. \A x \in S : k[x] \in Nat /\ k[x] \in Int /\ h[x] = f[x] + k[x]
  OBVIOUS
<1>. HIDE DEF k
<1>2. SumFunctionOnSet(h, S) = SumFunctionOnSet(f, S) + SumFunctionOnSet(k, S)
  BY <1>1, SumPlus
<1>3. SumFunctionOnSet(k, S) \in Nat /\ SumFunctionOnSet(f, S) \in Int
  BY <1>1, SumNat, SumType
<1>. QED
  BY <1>2, <1>3

(* A sum over a part of a set is one over the set, with no other terms.    *)
LEMMA SumOfPart ==
  ASSUME NEW f, NEW h, NEW S, IsFiniteSet(S), NEW A \in SUBSET S,
         \A x \in S : h[x] = IF x \in A THEN f[x] ELSE 0, \A x \in A : f[x] \in Int
  PROVE  SumFunctionOnSet(h, S) = SumFunctionOnSet(f, A)
<1>. DEFINE G == {T \in SUBSET S : SumFunctionOnSet(h, T) = SumFunctionOnSet(f, T \cap A)}
<1>1. {} \in G
  <2>1. {} \cap A = {}
    OBVIOUS
  <2>2. SumFunctionOnSet(f, {} \cap A) = SumFunctionOnSet(f, {})
    BY <2>1, Zenon
  <2>. QED
    BY <2>2, SumEmpty
<1>2. ASSUME NEW T \in SUBSET S, NEW x \in S, T \in G, x \notin T  PROVE T \cup {x} \in G
  <2>1. IsFiniteSet(T) /\ IsFiniteSet(T \cap A)
    BY FS_Subset
  <2>2. \A y \in T \cup {x} : h[y] \in Int
    OBVIOUS
  <2>3. SumFunctionOnSet(h, T \cup {x}) = h[x] + SumFunctionOnSet(h, T)
    BY <1>2, <2>1, <2>2, SumAdd
  <2>4. SumFunctionOnSet(h, T) = SumFunctionOnSet(f, T \cap A) /\ SumFunctionOnSet(h, T) \in Int
    BY <1>2, <2>1, <2>2, SumType
  <2>5. SumFunctionOnSet(h, T \cup {x}) = SumFunctionOnSet(f, (T \cup {x}) \cap A)
    <3>1. CASE x \in A
      <4>1. (T \cup {x}) \cap A = (T \cap A) \cup {x} /\ x \notin T \cap A
            /\ \A y \in (T \cap A) \cup {x} : f[y] \in Int
        BY <1>2, <3>1
      <4>2. SumFunctionOnSet(f, (T \cap A) \cup {x}) = f[x] + SumFunctionOnSet(f, T \cap A)
        BY <2>1, <4>1, SumAdd
      <4>3. SumFunctionOnSet(f, (T \cup {x}) \cap A) = SumFunctionOnSet(f, (T \cap A) \cup {x})
        BY <4>1, Zenon
      <4>4. h[x] = f[x]
        BY <3>1
      <4>. QED
        BY <2>3, <2>4, <4>2, <4>3, <4>4
    <3>2. CASE x \notin A
      <4>1. (T \cup {x}) \cap A = T \cap A
        BY <3>2
      <4>2. SumFunctionOnSet(f, (T \cup {x}) \cap A) = SumFunctionOnSet(f, T \cap A)
        BY <4>1, Zenon
      <4>3. h[x] = 0
        BY <3>2
      <4>. QED
        BY <2>3, <2>4, <4>2, <4>3
    <3>. QED
      BY <3>1, <3>2
  <2>. QED
    BY <2>5
<1>3. S \in G
  <2>. HIDE DEF G
  <2>. QED
    BY <1>1, <1>2, AllElements
<1>4. S \cap A = A
  OBVIOUS
<1>5. SumFunctionOnSet(f, S \cap A) = SumFunctionOnSet(f, A)
  BY <1>4, Zenon
<1>. QED
  BY <1>3, <1>5

-----------------------------------------------------------------------------
(* Ranks                                                                   *)

StrictOrder(S, order) ==
  /\ \A x, y \in S : x = y \/ <<x, y>> \in order \/ <<y, x>> \in order
  /\ \A x, y \in S : <<x, y>> \in order => x # y /\ <<y, x>> \notin order
  /\ \A x, y, z \in S : <<x, y>> \in order /\ <<y, z>> \in order => <<x, z>> \in order

Rank(S, order, x) == Cardinality(Preceding(S, order, x)) + 1

(* What comes before an element is fewer than all, and than what comes     *)
(* before any later one.                                                   *)
LEMMA RanksAscend ==
  ASSUME NEW S, IsFiniteSet(S), NEW order, StrictOrder(S, order)
  PROVE  /\ \A x \in S : Rank(S, order, x) \in 1 .. Cardinality(S)
         /\ \A x, y \in S : <<x, y>> \in order => Rank(S, order, x) < Rank(S, order, y)
<1>1. \A x \in S : IsFiniteSet(Preceding(S, order, x)) /\ Preceding(S, order, x) \subseteq S
  BY FS_Subset DEF Preceding
<1>2. Cardinality(S) \in Nat /\ \A x \in S : Cardinality(Preceding(S, order, x)) \in Nat
  BY <1>1, FS_CardinalityType
<1>3. ASSUME NEW x \in S  PROVE Rank(S, order, x) \in 1 .. Cardinality(S)
  <2>1. x \notin Preceding(S, order, x)
    BY DEF Preceding, StrictOrder
  <2>2. Cardinality(Preceding(S, order, x)) <= Cardinality(S)
        /\ Cardinality(S) # Cardinality(Preceding(S, order, x))
    BY <1>1, <2>1, FS_Subset
  <2>. QED
    BY <1>2, <2>2 DEF Rank
<1>4. ASSUME NEW x \in S, NEW y \in S, <<x, y>> \in order
      PROVE  Rank(S, order, x) < Rank(S, order, y)
  <2>1. Preceding(S, order, x) \subseteq Preceding(S, order, y)
    BY <1>4 DEF Preceding, StrictOrder
  <2>2. x \in Preceding(S, order, y) /\ x \notin Preceding(S, order, x)
    BY <1>4 DEF Preceding, StrictOrder
  <2>3. Cardinality(Preceding(S, order, x)) <= Cardinality(Preceding(S, order, y))
        /\ Cardinality(Preceding(S, order, y)) # Cardinality(Preceding(S, order, x))
    BY <1>1, <2>1, <2>2, FS_Subset
  <2>. QED
    BY <1>2, <2>3 DEF Rank
<1>. QED
  BY <1>3, <1>4

(* Every place is taken, by one element, and earlier elements have earlier *)
(* places.                                                                 *)
LEMMA RankedIs ==
  ASSUME NEW S, IsFiniteSet(S), NEW order, StrictOrder(S, order)
  PROVE  /\ Cardinality(S) \in Nat
         /\ Ranked(S, order) \in [1 .. Cardinality(S) -> S]
         /\ \A x \in S : \E k \in 1 .. Cardinality(S) : Ranked(S, order)[k] = x
         /\ \A i, j \in 1 .. Cardinality(S) :
              /\ i < j <=> <<Ranked(S, order)[i], Ranked(S, order)[j]>> \in order
              /\ Ranked(S, order)[i] = Ranked(S, order)[j] => i = j
<1>. DEFINE n == Cardinality(S)
            rank == [x \in S |-> Rank(S, order, x)]
            place == Ranked(S, order)
<1>1. n \in Nat /\ IsFiniteSet(1 .. n) /\ Cardinality(1 .. n) = n
  BY FS_CardinalityType, FS_Interval
<1>2. rank \in [S -> 1 .. n] /\ \A x, y \in S : <<x, y>> \in order => rank[x] < rank[y]
  BY RanksAscend
<1>3. \A x, y \in S : rank[x] = rank[y] => x = y
  <2>. HIDE DEF rank
  <2>1. ASSUME NEW x \in S, NEW y \in S, rank[x] = rank[y]  PROVE x = y
    <3>1. rank[x] \in Int /\ rank[y] \in Int
      BY <1>1, <1>2
    <3>2. <<x, y>> \notin order /\ <<y, x>> \notin order
      BY <1>2, <2>1, <3>1
    <3>. QED
      BY <3>2 DEF StrictOrder
  <2>. QED
    BY <2>1
<1>4. \A k \in 1 .. n : \E x \in S : rank[x] = k
  <2>. HIDE DEF rank, n
  <2>1. rank \in Injection(S, 1 .. n)
    BY <1>2, <1>3 DEF Injection, IsInjective
  <2>2. Cardinality(S) = Cardinality(1 .. n)
    BY <1>1 DEF n
  <2>3. rank \in Surjection(S, 1 .. n)
    BY <1>1, <2>1, <2>2, FS_Injection
  <2>. QED
    BY <2>3 DEF Surjection
<1>5. \A k \in 1 .. n : place[k] \in S /\ rank[place[k]] = k
  <2>1. ASSUME NEW k \in 1 .. n  PROVE place[k] \in S /\ rank[place[k]] = k
    <3>1. \A x \in S : Cardinality(Preceding(S, order, x)) \in Nat
      BY FS_Subset, FS_CardinalityType DEF Preceding
    <3>2. \A x \in S : rank[x] = k <=> Cardinality(Preceding(S, order, x)) = k - 1
      BY <1>1, <3>1 DEF Rank
    <3>3. \E x \in S : Cardinality(Preceding(S, order, x)) = k - 1
      BY <1>4, <3>2
    <3>4. place[k] = CHOOSE x \in S : Cardinality(Preceding(S, order, x)) = k - 1
      BY DEF Ranked
    <3>5. place[k] \in S /\ Cardinality(Preceding(S, order, place[k])) = k - 1
      <4>. HIDE DEF place
      <4>. QED
        BY <3>3, <3>4
    <3>. HIDE DEF place, rank
    <3>. QED
      BY <3>2, <3>5
  <2>. QED
    BY <2>1
<1>6. place \in [1 .. n -> S]
  <2>1. place = [k \in 1 .. n |-> place[k]]
    BY DEF Ranked
  <2>. HIDE DEF place, rank
  <2>. QED
    BY <1>5, <2>1
<1>. HIDE DEF place, rank
<1>7. \A x \in S : rank[x] \in 1 .. n /\ place[rank[x]] = x
  BY <1>2, <1>3, <1>5
<1>8. ASSUME NEW i \in 1 .. n, NEW j \in 1 .. n
      PROVE  (i < j <=> <<place[i], place[j]>> \in order) /\ (place[i] = place[j] => i = j)
  <2>1. place[i] \in S /\ place[j] \in S /\ rank[place[i]] = i /\ rank[place[j]] = j
    BY <1>5
  <2>2. <<place[i], place[j]>> \in order => i < j
    BY <1>2, <2>1
  <2>3. <<place[j], place[i]>> \in order => j < i
    BY <1>2, <2>1
  <2>4. place[i] = place[j] => i = j
    BY <2>1
  <2>5. place[i] = place[j] \/ <<place[i], place[j]>> \in order \/ <<place[j], place[i]>> \in order
    BY <2>1 DEF StrictOrder
  <2>. QED
    BY <1>1, <2>2, <2>3, <2>4, <2>5
<1>. QED
  BY <1>1, <1>6, <1>7, <1>8 DEF place, n

(* Numbers in their order.                                                 *)
LEMMA AscendingIsStrict ==
  ASSUME NEW S \in SUBSET Int
  PROVE  StrictOrder(S, Ascending(S))
BY DEF StrictOrder, Ascending

(* t has the elements of s that are in T, in their order: a says where     *)
(* they are.                                                               *)
PicksFrom(t, s, T, a) ==
  /\ a \in [1 .. Len(t) -> 1 .. Len(s)]
  /\ \A i, j \in 1 .. Len(t) : i < j => a[i] < a[j]
  /\ \A i \in 1 .. Len(s) : s[i] \in T <=> \E k \in 1 .. Len(t) : a[k] = i
  /\ \A k \in 1 .. Len(t) : t[k] = s[a[k]]

LEMMA SelectedIs ==
  ASSUME NEW S, NEW s \in Seq(S), NEW T
  PROVE  Selected(s, T) \in Seq(S \cap T) /\ \E a : PicksFrom(Selected(s, T), s, T, a)
<1>. DEFINE kept == {i \in DOMAIN s : s[i] \in T}
            at == Ranked(kept, Ascending(kept))
<1>1. PICK n \in Nat : n = Len(s)
  OBVIOUS
<1>2. DOMAIN s = 1 .. n
  BY <1>1
<1>3. kept \in SUBSET (1 .. n) /\ IsFiniteSet(kept)
  <2>1. kept \in SUBSET (1 .. n)
    BY <1>2
  <2>2. IsFiniteSet(1 .. n)
    BY FS_Interval
  <2>. QED
    BY <2>1, <2>2, FS_Subset
<1>4. StrictOrder(kept, Ascending(kept))
  BY <1>3, AscendingIsStrict
<1>5. PICK c : c = Cardinality(kept)
  OBVIOUS
<1>6. PICK a : a = at
  OBVIOUS
<1>. HIDE DEF at
<1>7. /\ c \in Nat /\ a \in [1 .. c -> kept]
      /\ \A x \in kept : \E k \in 1 .. c : a[k] = x
      /\ \A i, j \in 1 .. c : i < j <=> <<a[i], a[j]>> \in Ascending(kept)
  <2>. HIDE DEF kept
  <2>1. PICK o : o = Ascending(kept)
    OBVIOUS
  <2>2. a = Ranked(kept, o) /\ StrictOrder(kept, o)
    BY <1>4, <1>6, <2>1 DEF at
  <2>. QED
    BY <1>3, <1>5, <2>1, <2>2, RankedIs
<1>8. PICK t : t = Selected(s, T)
  OBVIOUS
<1>9. t = [k \in 1 .. c |-> s[a[k]]]
  BY <1>5, <1>6, <1>8 DEF Selected, at
<1>10. \A x : x \in kept <=> x \in 1 .. n /\ s[x] \in T
  BY <1>2
<1>. HIDE DEF kept
<1>11. \A k \in 1 .. c : a[k] \in 1 .. n /\ s[a[k]] \in T /\ s[a[k]] \in S
  BY <1>1, <1>7, <1>10
<1>12. t \in Seq(S \cap T) /\ Len(t) = c /\ \A k \in 1 .. c : t[k] = s[a[k]]
  BY <1>7, <1>9, <1>11
<1>13. \A i, j \in 1 .. c : i < j => a[i] < a[j]
  BY <1>7 DEF Ascending
<1>14. a \in [1 .. c -> 1 .. n]
  BY <1>7, <1>11
<1>15. \A i \in 1 .. n : s[i] \in T <=> \E k \in 1 .. c : a[k] = i
  BY <1>7, <1>10
<1>16. PicksFrom(t, s, T, a)
  BY <1>1, <1>12, <1>13, <1>14, <1>15 DEF PicksFrom
<1>. QED
  BY <1>8, <1>12, <1>16
=============================================================================
