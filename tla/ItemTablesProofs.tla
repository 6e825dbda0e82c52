-------------------------- MODULE ItemTablesProofs --------------------------
(***************************************************************************)
(* Theorems about ItemTables: the totals add up, one page is one URL, and  *)
(* what is to be ignored is not counted. No step depends on which records  *)
(* and configurations there are.                                           *)
(***************************************************************************)
EXTENDS ItemTables, SumsAndRanks

-----------------------------------------------------------------------------
(* Nodes and the put_ functions                                            *)

NodeType == [count : Nat, visits : Nat]

IsNodes(nodes) ==
  /\ nodes = [k \in DOMAIN nodes |-> nodes[k]]
  /\ IsFiniteSet(DOMAIN nodes)
  /\ \A k \in DOMAIN nodes : nodes[k] \in NodeType

IsTables(T) ==
  /\ T = [t \in Table |-> [f \in Flag |-> T[t][f]]]
  /\ \A t \in Table, f \in Flag : IsNodes(T[t][f])

IsCounts(st) ==
  /\ st = [tables |-> st.tables, new |-> st.new]
  /\ IsTables(st.tables)
  /\ st.new \in [Table -> [Flag -> BOOLEAN]]

(* A put_ function leaves nodes.                                           *)
LEMMA AfterType ==
  ASSUME NEW nodes, IsNodes(nodes), NEW p
  PROVE  IsNodes(After(nodes, p)) /\ DOMAIN After(nodes, p) = DOMAIN nodes \cup {p.key}
<1>1. CASE p.key \in DOMAIN nodes
  <2>. DEFINE v == IF p.visit THEN 1 ELSE 0
              node == [count |-> nodes[p.key].count + 1, visits |-> nodes[p.key].visits + v]
  <2>1. After(nodes, p) = [nodes EXCEPT ![p.key] = node]
    BY <1>1 DEF After
  <2>2. node \in NodeType
    BY <1>1 DEF IsNodes, NodeType
  <2>. HIDE DEF node
  <2>. QED
    BY <1>1, <2>1, <2>2 DEF IsNodes
<1>2. CASE p.key \notin DOMAIN nodes
  <2>. DEFINE v == IF p.visit THEN 1 ELSE 0
              node == [count |-> 1, visits |-> IF p.table = "agent" THEN 1 ELSE v]
  <2>1. After(nodes, p) =
          [k \in DOMAIN nodes \cup {p.key} |-> IF k = p.key THEN node ELSE nodes[k]]
    BY <1>2 DEF After
  <2>2. node \in NodeType
    BY DEF NodeType
  <2>3. IsFiniteSet(DOMAIN nodes \cup {p.key})
    BY FS_AddElement DEF IsNodes
  <2>. HIDE DEF node
  <2>. QED
    BY <2>1, <2>2, <2>3 DEF IsNodes
<1>. QED
  BY <1>1, <1>2

Hits(p, t, f) == p.table = t /\ p.flag = f

(* It changes one table, and says whether the node is new.                 *)
LEMMA PutOne ==
  ASSUME NEW st, IsCounts(st), NEW p, p.table \in Table, p.flag \in Flag
  PROVE  /\ IsCounts(WithPut(st, p))
         /\ \A t \in Table, f \in Flag :
              /\ Hits(p, t, f) =>
                   /\ WithPut(st, p).tables[t][f] = After(st.tables[t][f], p)
                   /\ WithPut(st, p).new[t][f] = (p.key \notin DOMAIN st.tables[t][f])
              /\ ~Hits(p, t, f) =>
                   /\ WithPut(st, p).tables[t][f] = st.tables[t][f]
                   /\ WithPut(st, p).new[t][f] = st.new[t][f]
<1>. DEFINE T == WithPut(st, p).tables
            N == WithPut(st, p).new
            is_new == p.key \notin DOMAIN st.tables[p.table][p.flag]
            after == After(st.tables[p.table][p.flag], p)
<1>1. /\ T = [st.tables EXCEPT ![p.table][p.flag] = after]
      /\ N = [st.new EXCEPT ![p.table][p.flag] = is_new]
      /\ WithPut(st, p) = [tables |-> T, new |-> N]
  BY DEF WithPut, NewOf
<1>2. IsNodes(after) /\ is_new \in BOOLEAN
  BY AfterType DEF IsCounts, IsTables
<1>. HIDE DEF T, N, is_new, after
<1>3. \A t \in Table, f \in Flag :
        /\ T[t][f] = IF Hits(p, t, f) THEN after ELSE st.tables[t][f]
        /\ N[t][f] = IF Hits(p, t, f) THEN is_new ELSE st.new[t][f]
  BY <1>1 DEF Hits, IsCounts, IsTables
<1>4. IsTables(T)
  <2>1. T = [t \in Table |-> [f \in Flag |-> T[t][f]]]
    BY <1>1 DEF IsCounts, IsTables
  <2>2. \A t \in Table, f \in Flag : IsNodes(T[t][f])
    BY <1>2, <1>3 DEF IsCounts, IsTables
  <2>. QED
    BY <2>1, <2>2 DEF IsTables
<1>5. N \in [Table -> [Flag -> BOOLEAN]]
  BY <1>1, <1>2 DEF IsCounts
<1>6. IsCounts(WithPut(st, p))
  BY <1>1, <1>4, <1>5 DEF IsCounts
<1>7. \A t \in Table, f \in Flag : Hits(p, t, f) =>
        after = After(st.tables[t][f], p) /\ is_new = (p.key \notin DOMAIN st.tables[t][f])
  BY DEF Hits, after, is_new
<1>. QED
  BY <1>3, <1>6, <1>7 DEF T, N

-----------------------------------------------------------------------------
(* Counted: the fold over the nodes of a record                            *)

PutStep(g, s, D) == IF D = {} THEN Uncounted ELSE WithPut(g[D \ {Max(D)}], s[Max(D)])

PutsOver(g, s, E) == g = [D \in E |-> PutStep(g, s, D)]

Parts(n, s) == {D \in SUBSET DOMAIN s : IsFiniteSet(D) /\ Cardinality(D) <= n}

(* The definition, with names for its parts.                               *)
LEMMA CountedIs ==
  ASSUME NEW s
  PROVE  Counted(s) = (CHOOSE g : PutsOver(g, s, SUBSET DOMAIN s))[DOMAIN s]
BY DEF Counted, FoldLeft, MapThenFoldSet, PutsOver, PutStep

(* A finite set of numbers has a greatest one.                             *)
LEMMA MaxIs ==
  ASSUME NEW D \in SUBSET Nat, IsFiniteSet(D), D # {}
  PROVE  Max(D) \in D /\ \A y \in D : Max(D) >= y
<1>. DEFINE rank == Ranked(D, Ascending(D))
            n == Cardinality(D)
<1>1. StrictOrder(D, Ascending(D))
  BY AscendingIsStrict
<1>2. /\ n \in Nat /\ rank \in [1 .. n -> D]
      /\ \A x \in D : \E k \in 1 .. n : rank[k] = x
      /\ \A i, j \in 1 .. n : i < j <=> <<rank[i], rank[j]>> \in Ascending(D)
  BY <1>1, RankedIs
<1>. HIDE DEF n, rank
<1>3. PICK x \in D : TRUE
  OBVIOUS
<1>4. PICK k \in 1 .. n : rank[k] = x
  BY <1>2
<1>5. n \in 1 .. n /\ rank[n] \in D
  BY <1>2, <1>4
<1>6. \A y \in D : rank[n] >= y
  <2>1. ASSUME NEW y \in D  PROVE rank[n] >= y
    <3>1. PICK j \in 1 .. n : rank[j] = y
      BY <1>2
    <3>2. j = n \/ j < n
      BY <1>2
    <3>3. CASE j = n
      BY <1>5, <3>1, <3>3
    <3>4. CASE j < n
      <4>1. <<rank[j], rank[n]>> \in Ascending(D)
        BY <1>2, <1>5, <3>4
      <4>2. rank[j] < rank[n]
        BY <4>1 DEF Ascending
      <4>3. rank[n] \in Nat /\ y \in Nat
        BY <1>5
      <4>. QED
        BY <3>1, <4>2, <4>3
    <3>. QED
      BY <3>2, <3>3, <3>4
  <2>. QED
    BY <2>1
<1>7. \E m \in D : \A y \in D : m >= y
  BY <1>5, <1>6
<1>. QED
  BY <1>7 DEF Max

(* Without its greatest number a part is smaller.                          *)
LEMMA PartRest ==
  ASSUME NEW n \in Nat, NEW s, DOMAIN s \subseteq Nat, NEW D \in Parts(n + 1, s), D # {}
  PROVE  D \ {Max(D)} \in Parts(n, s)
<1>1. IsFiniteSet(D) /\ D \subseteq DOMAIN s /\ Cardinality(D) <= n + 1 /\ Cardinality(D) \in Nat
  BY FS_CardinalityType DEF Parts
<1>2. Max(D) \in D
  BY <1>1, MaxIs
<1>3. IsFiniteSet(D \ {Max(D)}) /\ Cardinality(D \ {Max(D)}) = Cardinality(D) - 1
  BY <1>1, <1>2, FS_RemoveElement
<1>. QED
  BY <1>1, <1>3 DEF Parts

(* There is a function as the fold chooses it.                             *)
LEMMA PutsExist ==
  ASSUME NEW s, DOMAIN s \subseteq Nat, IsFiniteSet(DOMAIN s)
  PROVE  \E g : PutsOver(g, s, SUBSET DOMAIN s)
<1>. DEFINE N == {n \in Nat : \E g : PutsOver(g, s, Parts(n, s))}
<1>1. 0 \in N
  <2>. DEFINE g == [D \in Parts(0, s) |-> Uncounted]
  <2>1. \A D \in Parts(0, s) : D = {}
    BY FS_CardinalityType, FS_EmptySet DEF Parts
  <2>2. \A D \in Parts(0, s) : PutStep(g, s, D) = Uncounted
    BY <2>1 DEF PutStep
  <2>3. PutsOver(g, s, Parts(0, s))
    BY <2>2 DEF PutsOver
  <2>. QED
    BY <2>3
<1>2. ASSUME NEW n \in Nat, n \in N  PROVE n + 1 \in N
  <2>1. PICK g : PutsOver(g, s, Parts(n, s))
    BY <1>2
  <2>. DEFINE h == [D \in Parts(n + 1, s) |-> PutStep(g, s, D)]
  <2>2. \A D \in Parts(n, s) : D \in Parts(n + 1, s) /\ g[D] = PutStep(g, s, D)
    BY <2>1, FS_CardinalityType DEF PutsOver, Parts
  <2>3. \A D \in Parts(n, s) : h[D] = g[D]
    BY <2>2
  <2>4. ASSUME NEW D \in Parts(n + 1, s)  PROVE PutStep(h, s, D) = PutStep(g, s, D)
    <3>. HIDE DEF h
    <3>1. D # {} => h[D \ {Max(D)}] = g[D \ {Max(D)}]
      BY <2>3, PartRest
    <3>. QED
      BY <3>1 DEF PutStep
  <2>5. PutsOver(h, s, Parts(n + 1, s))
    BY <2>4 DEF PutsOver
  <2>. QED
    BY <2>5
<1>3. Nat \subseteq N
  <2>. HIDE DEF N
  <2>. QED
    BY <1>1, <1>2, AllNumbers
<1>4. Cardinality(DOMAIN s) \in Nat /\ Parts(Cardinality(DOMAIN s), s) = SUBSET DOMAIN s
  BY FS_CardinalityType, FS_Subset DEF Parts
<1>5. \E g : PutsOver(g, s, Parts(Cardinality(DOMAIN s), s))
  BY <1>3, <1>4
<1>. QED
  BY <1>4, <1>5

IsPuts(s) ==
  /\ Len(s) \in Nat /\ DOMAIN s = 1 .. Len(s)
  /\ \A i \in 1 .. Len(s) : s[i].table \in Table /\ s[i].flag \in Flag

(* The first n nodes: a table that none of them is in stays as it was, one *)
(* that one of them is in has that one more.                               *)
CountedTo(st, s, n) ==
  /\ IsCounts(st)
  /\ \A t \in Table, f \in Flag :
       (\A j \in 1 .. n : ~Hits(s[j], t, f)) =>
          st.tables[t][f] = tables[t][f] /\ st.new[t][f] = FALSE
  /\ \A t \in Table, f \in Flag : \A i \in 1 .. n :
       (Hits(s[i], t, f) /\ \A j \in 1 .. n : Hits(s[j], t, f) => j = i) =>
          /\ st.tables[t][f] = After(tables[t][f], s[i])
          /\ st.new[t][f] = (s[i].key \notin DOMAIN tables[t][f])

(* One more node.                                                          *)
LEMMA CountedStep ==
  ASSUME NEW s, IsPuts(s), NEW n \in Nat, n + 1 \in 1 .. Len(s),
         NEW st, CountedTo(st, s, n)
  PROVE  CountedTo(WithPut(st, s[n + 1]), s, n + 1)
<1>. DEFINE p == s[n + 1]
            st2 == WithPut(st, p)
<1>0. \A j \in 1 .. n : j \in 1 .. n + 1 /\ j # n + 1
  OBVIOUS
<1>00. \A j \in 1 .. n + 1 : j \in 1 .. n \/ j = n + 1
  OBVIOUS
<1>000. n + 1 \in 1 .. n + 1
  OBVIOUS
<1>1. IsCounts(st) /\ p.table \in Table /\ p.flag \in Flag
  BY DEF CountedTo, IsPuts
<1>2. /\ IsCounts(st2)
      /\ \A t \in Table, f \in Flag :
           /\ Hits(p, t, f) =>
                /\ st2.tables[t][f] = After(st.tables[t][f], p)
                /\ st2.new[t][f] = (p.key \notin DOMAIN st.tables[t][f])
           /\ ~Hits(p, t, f) =>
                /\ st2.tables[t][f] = st.tables[t][f]
                /\ st2.new[t][f] = st.new[t][f]
  BY <1>1, PutOne
<1>. HIDE DEF st2
<1>3. ASSUME NEW t \in Table, NEW f \in Flag, \A j \in 1 .. n + 1 : ~Hits(s[j], t, f)
      PROVE  st2.tables[t][f] = tables[t][f] /\ st2.new[t][f] = FALSE
  <2>1. ~Hits(p, t, f) /\ \A j \in 1 .. n : ~Hits(s[j], t, f)
    BY <1>0, <1>000, <1>3
  <2>2. st.tables[t][f] = tables[t][f] /\ st.new[t][f] = FALSE
    BY <2>1 DEF CountedTo
  <2>. QED
    BY <1>2, <2>1, <2>2
<1>4. ASSUME NEW t \in Table, NEW f \in Flag, NEW i \in 1 .. n + 1, Hits(s[i], t, f),
             \A j \in 1 .. n + 1 : Hits(s[j], t, f) => j = i
      PROVE  /\ st2.tables[t][f] = After(tables[t][f], s[i])
             /\ st2.new[t][f] = (s[i].key \notin DOMAIN tables[t][f])
  <2>1. CASE i = n + 1
    <3>1. \A j \in 1 .. n : ~Hits(s[j], t, f)
      BY <1>0, <1>4, <2>1
    <3>2. st.tables[t][f] = tables[t][f]
      BY <3>1 DEF CountedTo
    <3>3. Hits(p, t, f)
      BY <1>4, <2>1
    <3>. QED
      BY <1>2, <2>1, <3>2, <3>3
  <2>2. CASE i # n + 1
    <3>1. i \in 1 .. n /\ (\A j \in 1 .. n : Hits(s[j], t, f) => j = i)
      BY <1>0, <1>00, <1>4, <2>2
    <3>2. /\ st.tables[t][f] = After(tables[t][f], s[i])
          /\ st.new[t][f] = (s[i].key \notin DOMAIN tables[t][f])
      BY <1>4, <3>1 DEF CountedTo
    <3>3. ~Hits(p, t, f)
      BY <1>000, <1>4, <2>2
    <3>. QED
      BY <1>2, <3>2, <3>3
  <2>. QED
    BY <2>1, <2>2
<1>5. CountedTo(st2, s, n + 1)
  BY <1>2, <1>3, <1>4 DEF CountedTo
<1>. QED
  BY <1>5 DEF st2, p

(* All nodes of a record.                                                  *)
LEMMA CountedAll ==
  ASSUME NEW s, IsPuts(s), IsTables(tables)
  PROVE  CountedTo(Counted(s), s, Len(s))
<1>. DEFINE D == DOMAIN s
<1>1. Len(s) \in Nat /\ D = 1 .. Len(s) /\ D \subseteq Nat /\ IsFiniteSet(D)
  BY FS_Interval DEF IsPuts
<1>2. PICK g : PutsOver(g, s, SUBSET D) /\ Counted(s) = g[D]
  <2>1. \E g : PutsOver(g, s, SUBSET D)
    BY <1>1, PutsExist
  <2>. QED
    BY <2>1, CountedIs
<1>. DEFINE N == {n \in Nat : n \in 0 .. Len(s) => CountedTo(g[1 .. n], s, n)}
<1>3. 0 \in N
  <2>1. 1 .. 0 = {} /\ {} \in SUBSET D
    OBVIOUS
  <2>2. g[{}] = Uncounted
    BY <1>2, <2>1 DEF PutsOver, PutStep
  <2>3. IsCounts(Uncounted)
    BY DEF IsCounts, Uncounted
  <2>4. CountedTo(Uncounted, s, 0)
    BY <2>1, <2>3 DEF CountedTo, Uncounted
  <2>. QED
    BY <2>1, <2>2, <2>4
<1>4. ASSUME NEW n \in Nat, n \in N  PROVE n + 1 \in N
  <2>1. SUFFICES ASSUME n + 1 \in 0 .. Len(s)  PROVE CountedTo(g[1 .. n + 1], s, n + 1)
    OBVIOUS
  <2>2. n \in 0 .. Len(s) /\ n + 1 \in 1 .. Len(s) /\ 1 .. n + 1 \in SUBSET D /\ 1 .. n + 1 # {}
        /\ 1 .. n + 1 \in SUBSET Nat /\ IsFiniteSet(1 .. n + 1)
    <3>1. n \in 0 .. Len(s) /\ n + 1 \in 1 .. Len(s)
      BY <1>1, <2>1
    <3>2. 1 .. n + 1 \in SUBSET D /\ 1 .. n + 1 \in SUBSET Nat /\ n + 1 \in 1 .. n + 1
      BY <1>1, <3>1
    <3>3. IsFiniteSet(1 .. n + 1)
      BY <1>1, <3>2, FS_Subset
    <3>. QED
      BY <3>1, <3>2, <3>3
  <2>3. Max(1 .. n + 1) = n + 1
    <3>1. Max(1 .. n + 1) \in 1 .. n + 1 /\ Max(1 .. n + 1) >= n + 1
      BY <2>2, MaxIs
    <3>. QED
      BY <3>1
  <2>4. (1 .. n + 1) \ {n + 1} = 1 .. n
    OBVIOUS
  <2>5. g[1 .. n + 1] = PutStep(g, s, 1 .. n + 1)
    BY <1>2, <2>2 DEF PutsOver
  <2>6. g[1 .. n + 1] = WithPut(g[1 .. n], s[n + 1])
    BY <2>2, <2>3, <2>4, <2>5 DEF PutStep
  <2>7. CountedTo(g[1 .. n], s, n)
    BY <1>4, <2>2
  <2>8. CountedTo(WithPut(g[1 .. n], s[n + 1]), s, n + 1)
    BY <2>2, <2>7, CountedStep
  <2>. QED
    BY <2>6, <2>8
<1>5. Nat \subseteq N
  <2>. HIDE DEF N
  <2>. QED
    BY <1>3, <1>4, AllNumbers
<1>6. CountedTo(g[1 .. Len(s)], s, Len(s))
  BY <1>1, <1>5
<1>. QED
  BY <1>1, <1>2, <1>6

-----------------------------------------------------------------------------
(* Which tables the nodes of a record are in                               *)

PutType(K) == [table : Table, flag : Flag, key : K, visit : BOOLEAN]

Never(s, t, f) == \A i \in DOMAIN s : ~Hits(s[i], t, f)

Once(s, t, f, p) ==
  /\ Hits(p, t, f)
  /\ \E i \in DOMAIN s : s[i] = p /\ \A j \in DOMAIN s : Hits(s[j], t, f) => j = i

AtMostOnce(s, t, f) == Never(s, t, f) \/ \E p : Once(s, t, f, p)

(* Sequences of nodes are what the fold is about.                          *)
LEMMA PutsType ==
  ASSUME NEW K, NEW s \in Seq(PutType(K))
  PROVE  IsPuts(s)
<1>1. \A p \in PutType(K) : p.table \in Table /\ p.flag \in Flag
  BY DEF PutType
<1>2. Len(s) \in Nat /\ DOMAIN s = 1 .. Len(s) /\ \A i \in 1 .. Len(s) : s[i] \in PutType(K)
  OBVIOUS
<1>. QED
  BY <1>1, <1>2 DEF IsPuts

(* Two sequences, one after the other.                                     *)
LEMMA Joined ==
  ASSUME NEW P, NEW s \in Seq(P), NEW u \in Seq(P), NEW t, NEW f
  PROVE  /\ s \o u \in Seq(P)
         /\ Never(s, t, f) /\ Never(u, t, f) => Never(s \o u, t, f)
         /\ \A p : Once(s, t, f, p) /\ Never(u, t, f) => Once(s \o u, t, f, p)
         /\ \A p : Never(s, t, f) /\ Once(u, t, f, p) => Once(s \o u, t, f, p)
<1>1. /\ s \o u \in Seq(P) /\ Len(s) \in Nat /\ Len(u) \in Nat
      /\ DOMAIN s = 1 .. Len(s) /\ DOMAIN u = 1 .. Len(u)
      /\ DOMAIN (s \o u) = 1 .. Len(s) + Len(u)
      /\ \A i \in 1 .. Len(s) : (s \o u)[i] = s[i]
  OBVIOUS
<1>2. \A i \in 1 .. Len(u) : Len(s) + i \in DOMAIN (s \o u) /\ (s \o u)[Len(s) + i] = u[i]
  OBVIOUS
<1>. DEFINE w == s \o u
            m == Len(s)
            n == Len(u)
<1>3. \A k \in 1 .. m + n : k \in 1 .. m \/ (k - m \in 1 .. n /\ m + (k - m) = k)
  BY <1>1
<1>. HIDE DEF w
<1>4. /\ DOMAIN w = 1 .. m + n
      /\ \A i \in 1 .. m : i \in DOMAIN w /\ w[i] = s[i]
      /\ \A i \in 1 .. n : m + i \in DOMAIN w /\ w[m + i] = u[i]
  BY <1>1, <1>2 DEF w
<1>. HIDE DEF m, n
<1>5. /\ m \in Nat /\ n \in Nat /\ DOMAIN s = 1 .. m /\ DOMAIN u = 1 .. n
      /\ \A k \in DOMAIN w : \/ k \in 1 .. m /\ w[k] = s[k]
                             \/ k - m \in 1 .. n /\ w[k] = u[k - m] /\ m + (k - m) = k
  <2>1. m \in Nat /\ n \in Nat /\ DOMAIN s = 1 .. m /\ DOMAIN u = 1 .. n
    BY <1>1 DEF m, n
  <2>2. ASSUME NEW k \in DOMAIN w
        PROVE  \/ k \in 1 .. m /\ w[k] = s[k]
               \/ k - m \in 1 .. n /\ w[k] = u[k - m] /\ m + (k - m) = k
    <3>1. k \in 1 .. m \/ (k - m \in 1 .. n /\ m + (k - m) = k)
      BY <1>3, <1>4
    <3>2. CASE k \in 1 .. m
      BY <1>4, <3>2
    <3>3. CASE k - m \in 1 .. n /\ m + (k - m) = k
      <4>1. w[m + (k - m)] = u[k - m]
        BY <1>4, <3>3
      <4>. QED
        BY <3>3, <4>1
    <3>. QED
      BY <3>1, <3>2, <3>3
  <2>. QED
    BY <2>1, <2>2
<1>6. Never(s, t, f) /\ Never(u, t, f) => Never(w, t, f)
  BY <1>5 DEF Never
<1>7. ASSUME NEW p, Once(s, t, f, p), Never(u, t, f)  PROVE Once(w, t, f, p)
  <2>1. PICK i \in 1 .. m : s[i] = p /\ \A j \in 1 .. m : Hits(s[j], t, f) => j = i
    BY <1>5, <1>7 DEF Once
  <2>2. i \in DOMAIN w /\ w[i] = p
    BY <1>4, <2>1
  <2>3. \A k \in DOMAIN w : Hits(w[k], t, f) => k = i
    BY <1>5, <1>7, <2>1 DEF Never
  <2>. QED
    BY <1>7, <2>2, <2>3 DEF Once
<1>8. ASSUME NEW p, Never(s, t, f), Once(u, t, f, p)  PROVE Once(w, t, f, p)
  <2>1. PICK i \in 1 .. n : u[i] = p /\ \A j \in 1 .. n : Hits(u[j], t, f) => j = i
    BY <1>5, <1>8 DEF Once
  <2>2. m + i \in DOMAIN w /\ w[m + i] = p
    BY <1>4, <2>1
  <2>3. \A k \in DOMAIN w : Hits(w[k], t, f) => k = m + i
    <3>1. ASSUME NEW k \in DOMAIN w, Hits(w[k], t, f)  PROVE k = m + i
      <4>1. ~(k \in 1 .. m /\ w[k] = s[k])
        BY <1>5, <1>8, <3>1 DEF Never
      <4>2. k - m \in 1 .. n /\ w[k] = u[k - m] /\ m + (k - m) = k
        BY <1>5, <4>1
      <4>3. k - m = i
        BY <2>1, <3>1, <4>2
      <4>. QED
        BY <4>2, <4>3
    <3>. QED
      BY <3>1
  <2>. QED
    BY <1>8, <2>2, <2>3 DEF Once
<1>. QED
  BY <1>1, <1>6, <1>7, <1>8 DEF w

(* One node, or none.                                                      *)
LEMMA IfIs ==
  ASSUME NEW P, NEW p \in P, NEW c \in BOOLEAN, NEW t, NEW f
  PROVE  /\ If(c, p) \in Seq(P)
         /\ c /\ Hits(p, t, f) => Once(If(c, p), t, f, p)
         /\ ~c \/ ~Hits(p, t, f) => Never(If(c, p), t, f)
<1>1. CASE c
  <2>1. If(c, p) = <<p>> /\ <<p>> \in Seq(P) /\ DOMAIN <<p>> = {1} /\ <<p>>[1] = p
    BY <1>1 DEF If
  <2>2. Hits(p, t, f) => Once(<<p>>, t, f, p)
    BY <2>1 DEF Once
  <2>3. ~Hits(p, t, f) => Never(<<p>>, t, f)
    BY <2>1 DEF Never
  <2>. QED
    BY <1>1, <2>1, <2>2, <2>3
<1>2. CASE ~c
  <2>1. If(c, p) = <<>> /\ <<>> \in Seq(P) /\ DOMAIN <<>> = {}
    BY <1>2 DEF If
  <2>. QED
    BY <1>2, <2>1 DEF Never
<1>. QED
  BY <1>1, <1>2

(* Sequences joined to w: at most one of them may have a node of a table.  *)
Row(w, s, n, t, f) ==
  /\ (\A i \in 1 .. n : Never(s[i], t, f)) => Never(w, t, f)
  /\ \A k \in 1 .. n : \A p :
       Once(s[k], t, f, p) /\ (\A i \in 1 .. n : i # k => Never(s[i], t, f)) => Once(w, t, f, p)

(* One more sequence.                                                      *)
LEMMA RowStep ==
  ASSUME NEW P, NEW s, NEW n \in Nat, s[n + 1] \in Seq(P), NEW w \in Seq(P), NEW t, NEW f,
         Row(w, s, n, t, f)
  PROVE  Row(w \o s[n + 1], s, n + 1, t, f)
<1>1. /\ \A i \in 1 .. n : i \in 1 .. n + 1 /\ i # n + 1
      /\ n + 1 \in 1 .. n + 1 /\ \A i \in 1 .. n + 1 : i \in 1 .. n \/ i = n + 1
  OBVIOUS
<1>. DEFINE u == s[n + 1]
            v == w \o u
<1>2. /\ Never(w, t, f) /\ Never(u, t, f) => Never(v, t, f)
      /\ \A p : Once(w, t, f, p) /\ Never(u, t, f) => Once(v, t, f, p)
      /\ \A p : Never(w, t, f) /\ Once(u, t, f, p) => Once(v, t, f, p)
  BY Joined
<1>. HIDE DEF v
<1>3. ASSUME \A i \in 1 .. n + 1 : Never(s[i], t, f)  PROVE Never(v, t, f)
  BY <1>1, <1>2, <1>3 DEF Row
<1>4. ASSUME NEW k \in 1 .. n + 1, NEW p, Once(s[k], t, f, p),
             \A i \in 1 .. n + 1 : i # k => Never(s[i], t, f)
      PROVE  Once(v, t, f, p)
  <2>1. CASE k = n + 1
    <3>1. Never(w, t, f)
      BY <1>1, <1>4, <2>1 DEF Row
    <3>. QED
      BY <1>2, <1>4, <2>1, <3>1
  <2>2. CASE k # n + 1
    <3>1. k \in 1 .. n /\ Never(u, t, f) /\ \A i \in 1 .. n : i # k => Never(s[i], t, f)
      BY <1>1, <1>4, <2>2
    <3>2. Once(w, t, f, p)
      BY <1>4, <3>1 DEF Row
    <3>. QED
      BY <1>2, <3>1, <3>2
  <2>. QED
    BY <2>1, <2>2
<1>5. Row(v, s, n + 1, t, f)
  BY <1>3, <1>4 DEF Row
<1>. QED
  BY <1>5 DEF v

(* The nodes and the groups of a record are six each.                      *)
Six(c, p) ==
  If(c[1], p[1]) \o If(c[2], p[2]) \o If(c[3], p[3])
  \o If(c[4], p[4]) \o If(c[5], p[5]) \o If(c[6], p[6])

(* A table has the one that is to be put there.                            *)
LEMMA SixOnce ==
  ASSUME NEW P, NEW p \in [1 .. 6 -> P], NEW c \in [1 .. 6 -> BOOLEAN]
  PROVE  /\ Six(c, p) \in Seq(P)
         /\ \A t, f :
              /\ (\A i \in 1 .. 6 : ~(c[i] /\ Hits(p[i], t, f))) => Never(Six(c, p), t, f)
              /\ \A k \in 1 .. 6 :
                   (/\ c[k] /\ Hits(p[k], t, f)
                    /\ \A i \in 1 .. 6 : i # k => ~(c[i] /\ Hits(p[i], t, f)))
                   => Once(Six(c, p), t, f, p[k])
<1>. DEFINE s == [i \in 1 .. 6 |-> If(c[i], p[i])]
            w1 == s[1]
            w2 == w1 \o s[2]
            w3 == w2 \o s[3]
            w4 == w3 \o s[4]
            w5 == w4 \o s[5]
            w6 == w5 \o s[6]
<1>1. Six(c, p) = w6
  BY DEF Six
<1>2. \A i \in 1 .. 6 : /\ s[i] \in Seq(P)
                        /\ \A t, f : /\ c[i] /\ Hits(p[i], t, f) => Once(s[i], t, f, p[i])
                                     /\ ~(c[i] /\ Hits(p[i], t, f)) => Never(s[i], t, f)
  <2>1. ASSUME NEW i \in 1 .. 6, NEW t, NEW f
        PROVE  /\ s[i] \in Seq(P)
               /\ c[i] /\ Hits(p[i], t, f) => Once(s[i], t, f, p[i])
               /\ ~(c[i] /\ Hits(p[i], t, f)) => Never(s[i], t, f)
    <3>1. p[i] \in P /\ c[i] \in BOOLEAN /\ s[i] = If(c[i], p[i])
      OBVIOUS
    <3>. HIDE DEF s
    <3>. QED
      BY <3>1, IfIs
  <2>. HIDE DEF s
  <2>. QED
    BY <2>1
<1>. HIDE DEF s
<1>3. s[1] \in Seq(P) /\ s[2] \in Seq(P) /\ s[3] \in Seq(P)
      /\ s[4] \in Seq(P) /\ s[5] \in Seq(P) /\ s[6] \in Seq(P)
  BY <1>2
<1>4. w1 \in Seq(P) /\ w2 \in Seq(P) /\ w3 \in Seq(P) /\ w4 \in Seq(P) /\ w5 \in Seq(P)
      /\ w6 \in Seq(P)
  BY <1>3
<1>5. ASSUME NEW t, NEW f  PROVE Row(w6, s, 6, t, f)
  <2>. HIDE DEF w2, w3, w4, w5, w6
  <2>1. Row(w1, s, 1, t, f)
    <3>1. 1 .. 1 = {1}
      OBVIOUS
    <3>. QED
      BY <3>1 DEF Row
  <2>2. Row(w2, s, 2, t, f)
    <3>1. Row(w1 \o s[1 + 1], s, 1 + 1, t, f)
      BY <1>3, <1>4, <2>1, RowStep
    <3>. QED
      BY <3>1 DEF w2
  <2>3. Row(w3, s, 3, t, f)
    <3>1. Row(w2 \o s[2 + 1], s, 2 + 1, t, f)
      BY <1>3, <1>4, <2>2, RowStep
    <3>. QED
      BY <3>1 DEF w3
  <2>4. Row(w4, s, 4, t, f)
    <3>1. Row(w3 \o s[3 + 1], s, 3 + 1, t, f)
      BY <1>3, <1>4, <2>3, RowStep
    <3>. QED
      BY <3>1 DEF w4
  <2>5. Row(w5, s, 5, t, f)
    <3>1. Row(w4 \o s[4 + 1], s, 4 + 1, t, f)
      BY <1>3, <1>4, <2>4, RowStep
    <3>. QED
      BY <3>1 DEF w5
  <2>6. Row(w5 \o s[5 + 1], s, 5 + 1, t, f)
    BY <1>3, <1>4, <2>5, RowStep
  <2>. QED
    BY <2>6 DEF w6
<1>. HIDE DEF w6
<1>. QED
  BY <1>1, <1>2, <1>4, <1>5 DEF Row

-----------------------------------------------------------------------------
(* The nodes and groups of a record                                        *)

UrlPut(r, c) == Put("url", "REG", Url(Aliased(r.url), Filtered(r.args)), c.entry)
SearchPut(r, c) == Put("search", "REG", Search(r).terms, c.newvisit)

Searching(r) == "search" \in cfg.reports /\ Search(r).terms # <<>>

NodePuts(r, c) ==
  <<UrlPut(r, c),
    Put("user", "REG", r.user, FALSE),
    Put("err", "REG", <<r.method, Aliased(r.url), r.status>>, FALSE),
    Put("ref", "REG", r.refer, c.newvisit),
    Put("agent", "REG", Mangled(r.agent), c.newvisit),
    SearchPut(r, c)>>

NodeConditions(r, c) ==
  <<GoodUrl(r),
    GoodUrl(r) /\ r.user # "",
    HttpError(r) /\ "err" \in cfg.reports /\ r.method # "" /\ Aliased(r.url) # "",
    "ref" \in cfg.reports /\ r.refer # "" /\ ~c.spammer /\ ~PartialReferrer(r),
    "agent" \in cfg.reports /\ Mangled(r.agent) # "",
    Searching(r)>>

GroupPuts(r, c) ==
  <<Put("url", "GRP", cfg.group_urls[Aliased(r.url)], FALSE),
    Put("url", "GRP", cfg.url_domains[Aliased(r.url)], FALSE),
    Put("ref", "GRP", cfg.group_refs[r.refer], c.newvisit),
    Put("agent", "GRP", cfg.group_agents[Mangled(r.agent)], c.newvisit),
    Put("agent", "GRP", cfg.robots[r.agent], c.newvisit),
    Put("user", "GRP", cfg.group_users[r.user], FALSE)>>

GroupConditions(r, c) ==
  <<Aliased(r.url) \in DOMAIN cfg.group_urls,
    Proxy /\ Aliased(r.url) \in DOMAIN cfg.url_domains,
    r.refer \in DOMAIN cfg.group_refs,
    Mangled(r.agent) \in DOMAIN cfg.group_agents,
    (c.robot /\ RobotAgent(r) /\ cfg.group_robots) /\ r.agent \in DOMAIN cfg.robots,
    r.user \in DOMAIN cfg.group_users>>

IsContext(c) == c.entry \in BOOLEAN /\ c.newvisit \in BOOLEAN

(* They are what NodesOf and GroupsOf put.                                 *)
LEMMA PutsAreSix ==
  ASSUME NEW r, NEW c
  PROVE  /\ NodesOf(r, c) = Six(NodeConditions(r, c), NodePuts(r, c))
         /\ GroupsOf(r, c) = Six(GroupConditions(r, c), GroupPuts(r, c))
<1>1. NodesOf(r, c) = Six(NodeConditions(r, c), NodePuts(r, c))
  BY DEF NodesOf, Six, NodeConditions, NodePuts, UrlPut, SearchPut, Searching
<1>2. GroupsOf(r, c) = Six(GroupConditions(r, c), GroupPuts(r, c))
  <2>1. \A a, b, p : If(a /\ b, p) = IF a THEN If(b, p) ELSE <<>>
    BY DEF If
  <2>. DEFINE p == GroupPuts(r, c)
  <2>2. /\ If(Proxy /\ Aliased(r.url) \in DOMAIN cfg.url_domains, p[2])
             = IF Proxy THEN If(Aliased(r.url) \in DOMAIN cfg.url_domains, p[2]) ELSE <<>>
        /\ If((c.robot /\ RobotAgent(r) /\ cfg.group_robots) /\ r.agent \in DOMAIN cfg.robots, p[5])
             = IF c.robot /\ RobotAgent(r) /\ cfg.group_robots
               THEN If(r.agent \in DOMAIN cfg.robots, p[5]) ELSE <<>>
    BY <2>1
  <2>. QED
    BY <2>2 DEF GroupsOf, Six, GroupConditions, GroupPuts
<1>. QED
  BY <1>1, <1>2

(* Six things of a kind.                                                   *)
LEMMA SixType ==
  ASSUME NEW S, NEW a \in S, NEW b \in S, NEW c \in S, NEW d \in S, NEW e \in S, NEW g \in S
  PROVE  <<a, b, c, d, e, g>> \in [1 .. 6 -> S]
<1>1. 1 .. 6 = {1, 2, 3, 4, 5, 6}
  OBVIOUS
<1>. QED
  BY <1>1

(* Where they are put.                                                     *)
LEMMA PutsAre ==
  ASSUME NEW r, NEW c, IsContext(c)
  PROVE  /\ \A i \in 1 .. 6 : NodePuts(r, c)[i].flag = "REG" /\ GroupPuts(r, c)[i].flag = "GRP"
         /\ LET p == NodePuts(r, c)
                q == GroupPuts(r, c)
            IN  /\ p[1].table = "url" /\ p[2].table = "user" /\ p[3].table = "err"
                /\ p[4].table = "ref" /\ p[5].table = "agent" /\ p[6].table = "search"
                /\ q[1].table = "url" /\ q[2].table = "url" /\ q[3].table = "ref"
                /\ q[4].table = "agent" /\ q[5].table = "agent" /\ q[6].table = "user"
         /\ \E K : /\ NodePuts(r, c) \in [1 .. 6 -> PutType(K)]
                   /\ GroupPuts(r, c) \in [1 .. 6 -> PutType(K)]
         /\ NodeConditions(r, c) \in [1 .. 6 -> BOOLEAN]
         /\ GroupConditions(r, c) \in [1 .. 6 -> BOOLEAN]
<1>. DEFINE p == NodePuts(r, c)
            q == GroupPuts(r, c)
            K == {p[i].key : i \in 1 .. 6} \cup {q[i].key : i \in 1 .. 6}
            P == PutType(K)
<1>0. \A t \in Table, f \in Flag, k \in K, v \in BOOLEAN : Put(t, f, k, v) \in P
  <2>. HIDE DEF K
  <2>. QED
    BY DEF PutType, Put
<1>1. 1 .. 6 = {1, 2, 3, 4, 5, 6}
  OBVIOUS
<1>2. \A i \in 1 .. 6 : p[i].key \in K /\ q[i].key \in K
  OBVIOUS
<1>3. /\ "url" \in Table /\ "user" \in Table /\ "err" \in Table /\ "ref" \in Table
      /\ "agent" \in Table /\ "search" \in Table /\ "REG" \in Flag /\ "GRP" \in Flag
      /\ c.entry \in BOOLEAN /\ c.newvisit \in BOOLEAN /\ FALSE \in BOOLEAN
  BY DEF Table, Flag, IsContext
<1>. HIDE DEF K, P
<1>4. /\ p[1] = Put("url", "REG", p[1].key, c.entry)
      /\ p[2] = Put("user", "REG", p[2].key, FALSE)
      /\ p[3] = Put("err", "REG", p[3].key, FALSE)
      /\ p[4] = Put("ref", "REG", p[4].key, c.newvisit)
      /\ p[5] = Put("agent", "REG", p[5].key, c.newvisit)
      /\ p[6] = Put("search", "REG", p[6].key, c.newvisit)
  BY DEF NodePuts, UrlPut, SearchPut, Put
<1>5. /\ q[1] = Put("url", "GRP", q[1].key, FALSE)
      /\ q[2] = Put("url", "GRP", q[2].key, FALSE)
      /\ q[3] = Put("ref", "GRP", q[3].key, c.newvisit)
      /\ q[4] = Put("agent", "GRP", q[4].key, c.newvisit)
      /\ q[5] = Put("agent", "GRP", q[5].key, c.newvisit)
      /\ q[6] = Put("user", "GRP", q[6].key, FALSE)
  BY DEF GroupPuts, Put
<1>6. /\ p = <<p[1], p[2], p[3], p[4], p[5], p[6]>>
      /\ q = <<q[1], q[2], q[3], q[4], q[5], q[6]>>
  BY DEF NodePuts, GroupPuts
<1>. HIDE DEF p, q
<1>7. p[1] \in P /\ p[2] \in P /\ p[3] \in P /\ p[4] \in P /\ p[5] \in P /\ p[6] \in P
  <2>1. p[1].key \in K /\ p[2].key \in K /\ p[3].key \in K /\ p[4].key \in K /\ p[5].key \in K /\ p[6].key \in K
    BY <1>1, <1>2
  <2>2. p[1] \in P
    BY <1>0, <1>3, <1>4, <2>1, Zenon
  <2>3. p[2] \in P
    BY <1>0, <1>3, <1>4, <2>1, Zenon
  <2>4. p[3] \in P
    BY <1>0, <1>3, <1>4, <2>1, Zenon
  <2>5. p[4] \in P
    BY <1>0, <1>3, <1>4, <2>1, Zenon
  <2>6. p[5] \in P
    BY <1>0, <1>3, <1>4, <2>1, Zenon
  <2>7. p[6] \in P
    BY <1>0, <1>3, <1>4, <2>1, Zenon
  <2>. QED
    BY <2>2, <2>3, <2>4, <2>5, <2>6, <2>7
<1>8. q[1] \in P /\ q[2] \in P /\ q[3] \in P /\ q[4] \in P /\ q[5] \in P /\ q[6] \in P
  <2>1. q[1].key \in K /\ q[2].key \in K /\ q[3].key \in K /\ q[4].key \in K /\ q[5].key \in K /\ q[6].key \in K
    BY <1>1, <1>2
  <2>2. q[1] \in P
    BY <1>0, <1>3, <1>5, <2>1, Zenon
  <2>3. q[2] \in P
    BY <1>0, <1>3, <1>5, <2>1, Zenon
  <2>4. q[3] \in P
    BY <1>0, <1>3, <1>5, <2>1, Zenon
  <2>5. q[4] \in P
    BY <1>0, <1>3, <1>5, <2>1, Zenon
  <2>6. q[5] \in P
    BY <1>0, <1>3, <1>5, <2>1, Zenon
  <2>7. q[6] \in P
    BY <1>0, <1>3, <1>5, <2>1, Zenon
  <2>. QED
    BY <2>2, <2>3, <2>4, <2>5, <2>6, <2>7
<1>9. p \in [1 .. 6 -> P] /\ q \in [1 .. 6 -> P]
  <2>1. <<p[1], p[2], p[3], p[4], p[5], p[6]>> \in [1 .. 6 -> P]
    BY <1>7, SixType
  <2>2. <<q[1], q[2], q[3], q[4], q[5], q[6]>> \in [1 .. 6 -> P]
    BY <1>8, SixType
  <2>. QED
    BY <1>6, <2>1, <2>2
<1>10. /\ p[1].table = "url" /\ p[2].table = "user" /\ p[3].table = "err"
       /\ p[4].table = "ref" /\ p[5].table = "agent" /\ p[6].table = "search"
       /\ q[1].table = "url" /\ q[2].table = "url" /\ q[3].table = "ref"
       /\ q[4].table = "agent" /\ q[5].table = "agent" /\ q[6].table = "user"
  BY <1>4, <1>5 DEF Put
<1>11. \A i \in 1 .. 6 : p[i].flag = "REG" /\ q[i].flag = "GRP"
  <2>1. /\ p[1].flag = "REG" /\ p[2].flag = "REG" /\ p[3].flag = "REG"
        /\ p[4].flag = "REG" /\ p[5].flag = "REG" /\ p[6].flag = "REG"
        /\ q[1].flag = "GRP" /\ q[2].flag = "GRP" /\ q[3].flag = "GRP"
        /\ q[4].flag = "GRP" /\ q[5].flag = "GRP" /\ q[6].flag = "GRP"
    BY <1>4, <1>5 DEF Put
  <2>. QED
    BY <1>1, <2>1
<1>12. NodeConditions(r, c) \in [1 .. 6 -> BOOLEAN]
  <2>1. GoodUrl(r) \in BOOLEAN /\ Searching(r) \in BOOLEAN
    BY DEF GoodUrl, Searching
  <2>. QED
    BY <2>1, SixType DEF NodeConditions
<1>13. GroupConditions(r, c) \in [1 .. 6 -> BOOLEAN]
  <2>. DEFINE a == Aliased(r.url) \in DOMAIN cfg.group_urls
              b == Proxy /\ Aliased(r.url) \in DOMAIN cfg.url_domains
              d == r.refer \in DOMAIN cfg.group_refs
              e == Mangled(r.agent) \in DOMAIN cfg.group_agents
              g == (c.robot /\ RobotAgent(r) /\ cfg.group_robots)
                   /\ r.agent \in DOMAIN cfg.robots
              h == r.user \in DOMAIN cfg.group_users
  <2>1. /\ a \in BOOLEAN /\ b \in BOOLEAN /\ d \in BOOLEAN
        /\ e \in BOOLEAN /\ g \in BOOLEAN /\ h \in BOOLEAN
    OBVIOUS
  <2>2. GroupConditions(r, c) = <<a, b, d, e, g, h>>
    BY DEF GroupConditions
  <2>. HIDE DEF a, b, d, e, g, h
  <2>3. <<a, b, d, e, g, h>> \in [1 .. 6 -> BOOLEAN]
    BY <2>1, SixType
  <2>. QED
    BY <2>2, <2>3
<1>. QED
  BY <1>9, <1>10, <1>11, <1>12, <1>13 DEF p, q, P

(* No record is in two groups of a kind: of URLs and of the domains of a   *)
(* proxy's URLs, or of user agents and of robots.                          *)
InOneGroup(r) ==
  /\ ~(Proxy /\ Aliased(r.url) \in DOMAIN cfg.group_urls \cap DOMAIN cfg.url_domains)
  /\ ~(RobotAgent(r) /\ cfg.group_robots /\ Mangled(r.agent) \in DOMAIN cfg.group_agents)

(* A table has at most one node of a record; and a group, if it is in one. *)
LEMMA RecordPuts ==
  ASSUME NEW r, NEW c, IsContext(c), NEW s, s = NodesOf(r, c) \o GroupsOf(r, c)
  PROVE  /\ IsPuts(s)
         /\ \A t \in Table : AtMostOnce(s, t, "REG")
         /\ GoodUrl(r) => Once(s, "url", "REG", UrlPut(r, c))
         /\ ~GoodUrl(r) => Never(s, "url", "REG")
         /\ Searching(r) => Once(s, "search", "REG", SearchPut(r, c))
         /\ ~Searching(r) => Never(s, "search", "REG")
         /\ InOneGroup(r) => \A t \in Table : AtMostOnce(s, t, "GRP")
<1>. DEFINE a == NodeConditions(r, c)
            b == GroupConditions(r, c)
            p == NodePuts(r, c)
            q == GroupPuts(r, c)
<1>1. PICK K : p \in [1 .. 6 -> PutType(K)] /\ q \in [1 .. 6 -> PutType(K)]
  BY PutsAre
<1>. DEFINE P == PutType(K)
<1>2. /\ \A i \in 1 .. 6 : p[i].flag = "REG" /\ q[i].flag = "GRP"
      /\ p[1].table = "url" /\ p[2].table = "user" /\ p[3].table = "err"
      /\ p[4].table = "ref" /\ p[5].table = "agent" /\ p[6].table = "search"
      /\ q[1].table = "url" /\ q[2].table = "url" /\ q[3].table = "ref"
      /\ q[4].table = "agent" /\ q[5].table = "agent" /\ q[6].table = "user"
      /\ a \in [1 .. 6 -> BOOLEAN] /\ b \in [1 .. 6 -> BOOLEAN]
  BY PutsAre
<1>. DEFINE u == Six(a, p)
            v == Six(b, q)
<1>3. s = u \o v
  BY PutsAreSix
<1>4. a[1] = GoodUrl(r) /\ a[6] = Searching(r) /\ p[1] = UrlPut(r, c) /\ p[6] = SearchPut(r, c)
  BY DEF NodeConditions, NodePuts
<1>5. InOneGroup(r) => ~(b[1] /\ b[2]) /\ ~(b[4] /\ b[5])
  BY DEF GroupConditions, InOneGroup
<1>. HIDE DEF a, b, p, q, P, u, v
<1>6. /\ u \in Seq(P)
      /\ \A t, f :
           /\ (\A i \in 1 .. 6 : ~(a[i] /\ Hits(p[i], t, f))) => Never(u, t, f)
           /\ \A k \in 1 .. 6 :
                (/\ a[k] /\ Hits(p[k], t, f)
                 /\ \A i \in 1 .. 6 : i # k => ~(a[i] /\ Hits(p[i], t, f)))
                => Once(u, t, f, p[k])
  BY <1>1, <1>2, SixOnce DEF u, P
<1>7. /\ v \in Seq(P)
      /\ \A t, f :
           /\ (\A i \in 1 .. 6 : ~(b[i] /\ Hits(q[i], t, f))) => Never(v, t, f)
           /\ \A k \in 1 .. 6 :
                (/\ b[k] /\ Hits(q[k], t, f)
                 /\ \A i \in 1 .. 6 : i # k => ~(b[i] /\ Hits(q[i], t, f)))
                => Once(v, t, f, q[k])
  BY <1>1, <1>2, SixOnce DEF v, P
<1>8. IsPuts(s)
  <2>1. s \in Seq(P)
    BY <1>3, <1>6, <1>7
  <2>. QED
    BY <2>1, PutsType DEF P
<1>9. \A t, f : /\ Never(u, t, f) /\ Never(v, t, f) => Never(s, t, f)
                /\ \A x : Once(u, t, f, x) /\ Never(v, t, f) => Once(s, t, f, x)
                /\ \A x : Never(u, t, f) /\ Once(v, t, f, x) => Once(s, t, f, x)
  BY <1>3, <1>6, <1>7, Joined
<1>10. \A t : Never(v, t, "REG") /\ Never(u, t, "GRP")
  <2>1. \A t : \A i \in 1 .. 6 : ~Hits(p[i], t, "GRP") /\ ~Hits(q[i], t, "REG")
    BY <1>2 DEF Hits
  <2>. QED
    BY <1>6, <1>7, <2>1
<1>11. \A i, j \in 1 .. 6 : i # j => p[i].table # p[j].table
  <2>1. 1 .. 6 = {1, 2, 3, 4, 5, 6}
    OBVIOUS
  <2>. QED
    BY <1>2, <2>1
<1>12. \A k \in 1 .. 6 : LET t == p[k].table
                         IN  /\ a[k] => Once(s, t, "REG", p[k])
                             /\ ~a[k] => Never(s, t, "REG")
  <2>1. ASSUME NEW k \in 1 .. 6, NEW t, t = p[k].table
        PROVE  /\ a[k] => Once(s, t, "REG", p[k])
               /\ ~a[k] => Never(s, t, "REG")
    <3>1. Hits(p[k], t, "REG") /\ \A i \in 1 .. 6 : i # k => ~Hits(p[i], t, "REG")
      BY <1>2, <1>11, <2>1 DEF Hits
    <3>2. a[k] => Once(u, t, "REG", p[k])
      BY <1>6, <3>1
    <3>3. ~a[k] => Never(u, t, "REG")
      BY <1>6, <3>1
    <3>. QED
      BY <1>9, <1>10, <3>2, <3>3
  <2>. QED
    BY <2>1
<1>13. p[1].table = "url" /\ p[6].table = "search"
       /\ \A t \in Table : \E k \in 1 .. 6 : p[k].table = t
  <2>1. /\ p[1].table = "url" /\ p[2].table = "user" /\ p[3].table = "err"
        /\ p[4].table = "ref" /\ p[5].table = "agent" /\ p[6].table = "search"
    BY <1>2
  <2>. QED
    BY <2>1 DEF Table
<1>14. ASSUME NEW t \in Table  PROVE AtMostOnce(s, t, "REG")
  BY <1>12, <1>13 DEF AtMostOnce
<1>15. ASSUME InOneGroup(r), NEW t \in Table  PROVE AtMostOnce(s, t, "GRP")
  <2>1. CASE \A i \in 1 .. 6 : ~(b[i] /\ Hits(q[i], t, "GRP"))
    BY <1>7, <1>9, <1>10, <2>1 DEF AtMostOnce
  <2>2. CASE \E i \in 1 .. 6 : b[i] /\ Hits(q[i], t, "GRP")
    <3>1. PICK k \in 1 .. 6 : b[k] /\ Hits(q[k], t, "GRP")
      BY <2>2
    <3>2. \A i \in 1 .. 6 : i # k => ~(b[i] /\ Hits(q[i], t, "GRP"))
      <4>1. /\ q[1].table = "url" /\ q[2].table = "url" /\ q[3].table = "ref"
            /\ q[4].table = "agent" /\ q[5].table = "agent" /\ q[6].table = "user"
            /\ 1 .. 6 = {1, 2, 3, 4, 5, 6}
        BY <1>2
      <4>2. ~(b[1] /\ b[2]) /\ ~(b[4] /\ b[5])
        BY <1>5, <1>15
      <4>. QED
        BY <3>1, <4>1, <4>2 DEF Hits
    <3>3. Once(v, t, "GRP", q[k])
      BY <1>7, <3>1, <3>2
    <3>. QED
      BY <1>9, <1>10, <3>3 DEF AtMostOnce
  <2>. QED
    BY <2>1, <2>2
<1>. QED
  BY <1>4, <1>8, <1>12, <1>13, <1>14, <1>15

(* What the nodes of a record do to a table.                               *)
LEMMA CountedOnce ==
  ASSUME NEW s, IsPuts(s), IsTables(tables), NEW t \in Table, NEW f \in Flag
  PROVE  /\ IsCounts(Counted(s))
         /\ Never(s, t, f) => /\ Counted(s).tables[t][f] = tables[t][f]
                              /\ Counted(s).new[t][f] = FALSE
         /\ \A p : Once(s, t, f, p) =>
              /\ Counted(s).tables[t][f] = After(tables[t][f], p)
              /\ Counted(s).new[t][f] = (p.key \notin DOMAIN tables[t][f])
<1>1. CountedTo(Counted(s), s, Len(s)) /\ DOMAIN s = 1 .. Len(s)
  BY CountedAll DEF IsPuts
<1>2. IsCounts(Counted(s))
  BY <1>1 DEF CountedTo
<1>3. ASSUME Never(s, t, f)
      PROVE  Counted(s).tables[t][f] = tables[t][f] /\ Counted(s).new[t][f] = FALSE
  BY <1>1, <1>3 DEF CountedTo, Never
<1>4. ASSUME NEW p, Once(s, t, f, p)
      PROVE  /\ Counted(s).tables[t][f] = After(tables[t][f], p)
             /\ Counted(s).new[t][f] = (p.key \notin DOMAIN tables[t][f])
  <2>1. PICK i \in 1 .. Len(s) :
          s[i] = p /\ Hits(p, t, f) /\ \A j \in 1 .. Len(s) : Hits(s[j], t, f) => j = i
    BY <1>1, <1>4 DEF Once
  <2>. QED
    BY <1>1, <2>1 DEF CountedTo
<1>. QED
  BY <1>2, <1>3, <1>4

(* No node of a record is in a table.                                      *)
LEMMA CountedNone ==
  ASSUME NEW s, IsPuts(s), IsTables(tables), NEW t \in Table, NEW f \in Flag, Never(s, t, f)
  PROVE  Counted(s).tables[t][f] = tables[t][f] /\ Counted(s).new[t][f] = FALSE
BY CountedOnce

(* One is.                                                                 *)
LEMMA CountedThis ==
  ASSUME NEW s, IsPuts(s), IsTables(tables), NEW t \in Table, NEW f \in Flag,
         NEW p, Once(s, t, f, p)
  PROVE  /\ Counted(s).tables[t][f] = After(tables[t][f], p)
         /\ Counted(s).new[t][f] = (p.key \notin DOMAIN tables[t][f])
BY CountedOnce

-----------------------------------------------------------------------------
(* Sums over the nodes of a table                                          *)

(* One value is added or changes.                                          *)
LEMMA SumAfter ==
  ASSUME NEW f, IsFiniteSet(DOMAIN f), NEW k, NEW g, DOMAIN g = DOMAIN f \cup {k},
         \A x \in DOMAIN f : f[x] \in Int, \A x \in DOMAIN g : g[x] \in Int,
         \A x \in DOMAIN f : x # k => g[x] = f[x]
  PROVE  SumFunction(g) = SumFunction(f) + g[k] - (IF k \in DOMAIN f THEN f[k] ELSE 0)
<1>. DEFINE D == DOMAIN f
<1>1. SumFunction(f) = SumFunctionOnSet(f, D) /\ SumFunction(g) = SumFunctionOnSet(g, D \cup {k})
  BY DEF SumFunction
<1>. HIDE DEF D
<1>2. CASE k \in D
  <2>1. D \cup {k} = D
    BY <1>2
  <2>2. SumFunctionOnSet(g, D) = SumFunctionOnSet(f, D) + g[k] - f[k]
    BY <1>2, SumChange DEF D
  <2>. QED
    BY <1>1, <1>2, <2>1, <2>2 DEF D
<1>3. CASE k \notin D
  <2>1. IsFiniteSet(D) /\ \A y \in D \cup {k} : g[y] \in Int
    BY DEF D
  <2>2. SumFunctionOnSet(g, D \cup {k}) = g[k] + SumFunctionOnSet(g, D)
    BY <1>3, <2>1, SumAdd
  <2>3. SumFunctionOnSet(g, D) = SumFunctionOnSet(f, D)
    <3>1. \A x \in D : f[x] \in Int /\ g[x] = f[x]
      BY <1>3 DEF D
    <3>. QED
      BY <2>1, <3>1, SumSame
  <2>4. SumFunctionOnSet(g, D) \in Int /\ g[k] \in Int
    BY <2>1, SumType
  <2>. QED
    BY <1>1, <1>3, <2>2, <2>3, <2>4 DEF D
<1>. QED
  BY <1>2, <1>3

(* A put_ function adds one hit.                                           *)
LEMMA CountsAfter ==
  ASSUME NEW nodes, IsNodes(nodes), NEW p
  PROVE  Counts(nodes) \in Int /\ Counts(After(nodes, p)) = Counts(nodes) + 1
<1>. DEFINE after == After(nodes, p)
            f == [k \in DOMAIN nodes |-> nodes[k].count]
            g == [k \in DOMAIN after |-> after[k].count]
<1>1. IsNodes(after) /\ DOMAIN after = DOMAIN nodes \cup {p.key}
  BY AfterType
<1>2. /\ \A k \in DOMAIN nodes : k # p.key => after[k] = nodes[k]
      /\ p.key \in DOMAIN nodes => after[p.key].count = nodes[p.key].count + 1
      /\ p.key \notin DOMAIN nodes => after[p.key].count = 1
  BY DEF After
<1>. HIDE DEF after
<1>3. /\ IsFiniteSet(DOMAIN f) /\ DOMAIN g = DOMAIN f \cup {p.key}
      /\ \A k \in DOMAIN f : f[k] \in Int
      /\ \A k \in DOMAIN g : g[k] \in Int
      /\ \A k \in DOMAIN f : k # p.key => g[k] = f[k]
  BY <1>1, <1>2 DEF IsNodes, NodeType
<1>4. p.key \in DOMAIN g /\ g[p.key] = IF p.key \in DOMAIN f THEN f[p.key] + 1 ELSE 1
  BY <1>1, <1>2
<1>5. Counts(nodes) = SumFunction(f) /\ Counts(after) = SumFunction(g)
  BY DEF Counts
<1>. HIDE DEF f, g
<1>6. SumFunction(g) = SumFunction(f) + g[p.key] - (IF p.key \in DOMAIN f THEN f[p.key] ELSE 0)
  BY <1>3, SumAfter
<1>7. SumFunction(f) \in Int
  BY <1>3, SumType DEF SumFunction
<1>8. Counts(after) = Counts(nodes) + 1
  BY <1>3, <1>4, <1>5, <1>6, <1>7
<1>. QED
  BY <1>5, <1>7, <1>8 DEF after

Visited(nodes) == {k \in DOMAIN nodes : nodes[k].visits > 0}

(* It adds a visit, if there is one, and a node that was not visited.      *)
LEMMA VisitsAfter ==
  ASSUME NEW nodes, IsNodes(nodes), NEW p, p.table # "agent"
  PROVE  /\ Visits(nodes) \in Int /\ Cardinality(Visited(nodes)) \in Nat
         /\ Visits(After(nodes, p)) = Visits(nodes) + (IF p.visit THEN 1 ELSE 0)
         /\ Cardinality(Visited(After(nodes, p))) = Cardinality(Visited(nodes))
              + (IF p.visit /\ (p.key \in DOMAIN nodes => nodes[p.key].visits = 0)
                 THEN 1 ELSE 0)
<1>. DEFINE after == After(nodes, p)
            v == IF p.visit THEN 1 ELSE 0
            f == [k \in DOMAIN nodes |-> nodes[k].visits]
            g == [k \in DOMAIN after |-> after[k].visits]
<1>1. IsNodes(after) /\ DOMAIN after = DOMAIN nodes \cup {p.key}
  BY AfterType
<1>2. /\ \A k \in DOMAIN nodes : k # p.key => after[k] = nodes[k]
      /\ p.key \in DOMAIN nodes => after[p.key].visits = nodes[p.key].visits + v
      /\ p.key \notin DOMAIN nodes => after[p.key].visits = v
  BY DEF After
<1>. HIDE DEF after
<1>0. v \in {0, 1} /\ (v = 1 <=> p.visit)
  OBVIOUS
<1>. HIDE DEF v
<1>3. /\ IsFiniteSet(DOMAIN f) /\ DOMAIN g = DOMAIN f \cup {p.key}
      /\ \A k \in DOMAIN f : f[k] \in Nat /\ f[k] \in Int
      /\ \A k \in DOMAIN g : g[k] \in Int
      /\ \A k \in DOMAIN f : k # p.key => g[k] = f[k]
  BY <1>1, <1>2 DEF IsNodes, NodeType
<1>4. p.key \in DOMAIN g /\ g[p.key] = IF p.key \in DOMAIN f THEN f[p.key] + v ELSE v
  BY <1>1, <1>2
<1>5. Visits(nodes) = SumFunction(f) /\ Visits(after) = SumFunction(g)
  BY DEF Visits
<1>6. /\ Visited(nodes) = {k \in DOMAIN f : f[k] > 0}
      /\ Visited(after) = {k \in DOMAIN g : g[k] > 0}
      /\ p.key \in DOMAIN nodes <=> p.key \in DOMAIN f
      /\ p.key \in DOMAIN nodes => nodes[p.key].visits = f[p.key]
  BY DEF Visited
<1>. HIDE DEF f, g
<1>7. SumFunction(g) = SumFunction(f) + g[p.key] - (IF p.key \in DOMAIN f THEN f[p.key] ELSE 0)
  BY <1>3, SumAfter
<1>8. SumFunction(f) \in Int
  BY <1>3, SumType DEF SumFunction
<1>9. Visits(after) = Visits(nodes) + v
  BY <1>0, <1>3, <1>4, <1>5, <1>7, <1>8
<1>10. IsFiniteSet(Visited(nodes)) /\ Cardinality(Visited(nodes)) \in Nat
  BY <1>3, <1>6, FS_Subset, FS_CardinalityType
<1>11. CASE v = 1 /\ (p.key \in DOMAIN f => f[p.key] = 0)
  <2>1. Visited(after) = Visited(nodes) \cup {p.key} /\ p.key \notin Visited(nodes)
    BY <1>3, <1>4, <1>6, <1>11
  <2>2. Cardinality(Visited(nodes) \cup {p.key}) = Cardinality(Visited(nodes)) + 1
    BY <1>10, <2>1, FS_AddElement
  <2>3. Cardinality(Visited(after)) = Cardinality(Visited(nodes)) + 1
    BY <2>1, <2>2
  <2>. QED
    BY <1>0, <1>5, <1>6, <1>8, <1>9, <1>10, <1>11, <2>3 DEF after, v
<1>12. CASE ~(v = 1 /\ (p.key \in DOMAIN f => f[p.key] = 0))
  <2>1. Visited(after) = Visited(nodes)
    BY <1>0, <1>3, <1>4, <1>6, <1>12
  <2>2. ~(p.visit /\ (p.key \in DOMAIN nodes => nodes[p.key].visits = 0))
    BY <1>0, <1>6, <1>12
  <2>3. Cardinality(Visited(after)) = Cardinality(Visited(nodes)) + 0
    BY <1>10, <2>1
  <2>. QED
    BY <1>5, <1>8, <1>9, <1>10, <2>2, <2>3 DEF after, v
<1>. QED
  BY <1>11, <1>12

-----------------------------------------------------------------------------
(* The totals                                                              *)

TotalsInv ==
  /\ IsTables(tables) /\ totals.t_hit \in Nat
  /\ NodesCounted("REG") /\ EntriesCounted /\ SearchesCounted

(* Nothing was counted.                                                    *)
LEMMA NothingCounted ==
  /\ IsTables(NoNodes)
  /\ \A t \in Table, f \in Flag : NoTotals.nodes[t][f] = Cardinality(DOMAIN NoNodes[t][f])
  /\ NoTotals.t_hit = 0 /\ NoTotals.t_entry = 0 /\ NoTotals.t_entry = Visits(NoNodes.url.REG)
  /\ NoTotals.u_entry = Cardinality(Visited(NoNodes.url.REG))
  /\ NoTotals.t_srchits = Counts(NoNodes.search.REG)
<1>1. \A t \in Table, f \in Flag : NoNodes[t][f] = <<>> /\ NoTotals.nodes[t][f] = 0
  BY DEF NoNodes, NoTotals
<1>2. DOMAIN <<>> = {} /\ IsFiniteSet({}) /\ Cardinality({}) = 0
  BY FS_EmptySet
<1>3. IsTables(NoNodes)
  <2>1. IsNodes(<<>>)
    BY <1>2 DEF IsNodes
  <2>2. NoNodes = [t \in Table |-> [f \in Flag |-> NoNodes[t][f]]]
    BY DEF NoNodes
  <2>. QED
    BY <1>1, <2>1, <2>2 DEF IsTables
<1>4. \A t \in Table, f \in Flag : NoTotals.nodes[t][f] = Cardinality(DOMAIN NoNodes[t][f])
  BY <1>1, <1>2
<1>5. NoNodes.url.REG = <<>> /\ NoNodes.search.REG = <<>>
  BY <1>1 DEF Table, Flag
<1>6. Visits(<<>>) = 0 /\ Counts(<<>>) = 0
  BY <1>2, SumEmpty DEF Visits, Counts, SumFunction
<1>7. Visited(<<>>) = {}
  BY <1>2 DEF Visited
<1>. QED
  BY <1>2, <1>3, <1>4, <1>5, <1>6, <1>7 DEF NoTotals

(* A new node is counted, one that was found is not: of the tables that    *)
(* have at most one node of a record.                                      *)
LEMMA NodesStay ==
  ASSUME NEW s, IsPuts(s), IsTables(tables), NEW t \in Table, NEW f \in Flag, AtMostOnce(s, t, f)
  PROVE  /\ Cardinality(DOMAIN tables[t][f]) \in Nat
         /\ Counted(s).new[t][f] =>
              Cardinality(DOMAIN Counted(s).tables[t][f]) = Cardinality(DOMAIN tables[t][f]) + 1
         /\ ~Counted(s).new[t][f] =>
              Cardinality(DOMAIN Counted(s).tables[t][f]) = Cardinality(DOMAIN tables[t][f])
<1>2. IsNodes(tables[t][f]) /\ IsFiniteSet(DOMAIN tables[t][f])
      /\ Cardinality(DOMAIN tables[t][f]) \in Nat
  BY FS_CardinalityType DEF IsTables, IsNodes
<1>3. CASE Never(s, t, f)
  <2>1. Counted(s).tables[t][f] = tables[t][f] /\ Counted(s).new[t][f] = FALSE
    BY <1>3, CountedNone
  <2>. QED
    BY <1>2, <2>1
<1>4. CASE \E p : Once(s, t, f, p)
  <2>1. PICK p : Once(s, t, f, p)
    BY <1>4
  <2>. DEFINE D == DOMAIN tables[t][f]
              E == DOMAIN Counted(s).tables[t][f]
              is_new == Counted(s).new[t][f]
  <2>2. /\ Counted(s).tables[t][f] = After(tables[t][f], p)
        /\ is_new = (p.key \notin D)
    BY <2>1, CountedThis
  <2>3. E = D \cup {p.key}
    BY <1>2, <2>2, AfterType
  <2>4. IsFiniteSet(D) /\ Cardinality(D) \in Nat
    BY <1>2
  <2>. HIDE DEF D, E, is_new
  <2>5. is_new => Cardinality(E) = Cardinality(D) + 1
    BY <2>2, <2>3, <2>4, FS_AddElement
  <2>6. ~is_new => E = D
    BY <2>2, <2>3
  <2>. QED
    BY <2>4, <2>5, <2>6 DEF D, E, is_new
<1>. QED
  BY <1>3, <1>4 DEF AtMostOnce

(* A record is counted.                                                    *)
LEMMA RecordStays ==
  ASSUME TotalsInv, NEW r, NEW new_visit \in BOOLEAN, NEW spammers,
         Count(r, new_visit, spammers)
  PROVE  TotalsInv' /\ (NodesCounted("GRP") /\ InOneGroup(r) => NodesCounted("GRP")')
<1>0. PICK c : c = Context(r, new_visit, spammers)
  OBVIOUS
<1>00. PICK s : s = NodesOf(r, c) \o GroupsOf(r, c)
  OBVIOUS
<1>. DEFINE done == Counted(s)
            url == Url(Aliased(r.url), Filtered(r.args))
            entries == tables.url.REG
            is_new_entry == c.entry /\ (url \in DOMAIN entries => entries[url].visits = 0)
<1>1. IsContext(c) /\ (c.entry => GoodUrl(r))
  BY <1>0 DEF IsContext, Context
<1>2. /\ tables' = done.tables
      /\ totals' =
           [t_hit |-> totals.t_hit + 1,
            t_entry |-> totals.t_entry + (IF c.entry THEN 1 ELSE 0),
            u_entry |-> totals.u_entry + (IF is_new_entry THEN 1 ELSE 0),
            t_srchits |-> totals.t_srchits + (IF Searching(r) THEN 1 ELSE 0),
            nodes |-> [t \in Table |-> [f \in Flag |->
                         totals.nodes[t][f] + (IF done.new[t][f] THEN 1 ELSE 0)]]]
  BY <1>0, <1>00 DEF Count, Searching
<1>3. /\ UrlPut(r, c).key = url /\ UrlPut(r, c).visit = c.entry /\ UrlPut(r, c).table = "url"
      /\ SearchPut(r, c).table = "search"
  BY DEF UrlPut, SearchPut, Put
<1>4. IsTables(tables) /\ IsNodes(entries) /\ IsNodes(tables.search.REG) /\ totals.t_hit \in Nat
  BY DEF TotalsInv, IsTables, Table, Flag
<1>5. "url" \in Table /\ "search" \in Table /\ "REG" \in Flag /\ "GRP" \in Flag
  BY DEF Table, Flag
<1>. HIDE DEF is_new_entry, url, entries
<1>6. /\ IsPuts(s)
      /\ \A t \in Table : AtMostOnce(s, t, "REG")
      /\ GoodUrl(r) => Once(s, "url", "REG", UrlPut(r, c))
      /\ ~GoodUrl(r) => Never(s, "url", "REG")
      /\ Searching(r) => Once(s, "search", "REG", SearchPut(r, c))
      /\ ~Searching(r) => Never(s, "search", "REG")
      /\ InOneGroup(r) => \A t \in Table : AtMostOnce(s, t, "GRP")
  BY <1>00, <1>1, RecordPuts
<1>7. ASSUME NEW t \in Table, NEW f \in Flag, AtMostOnce(s, t, f)
      PROVE  /\ Cardinality(DOMAIN tables[t][f]) \in Nat
             /\ done.new[t][f] =>
                  Cardinality(DOMAIN done.tables[t][f]) = Cardinality(DOMAIN tables[t][f]) + 1
             /\ ~done.new[t][f] =>
                  Cardinality(DOMAIN done.tables[t][f]) = Cardinality(DOMAIN tables[t][f])
  BY <1>4, <1>6, <1>7, NodesStay
<1>8. IsTables(done.tables)
  BY <1>4, <1>5, <1>6, CountedOnce DEF IsCounts
<1>9. /\ GoodUrl(r) => done.tables.url.REG = After(entries, UrlPut(r, c))
      /\ ~GoodUrl(r) => done.tables.url.REG = entries
  <2>1. ASSUME GoodUrl(r)  PROVE done.tables["url"]["REG"] = After(tables["url"]["REG"], UrlPut(r, c))
    BY <1>4, <1>5, <1>6, <2>1, CountedThis
  <2>2. ASSUME ~GoodUrl(r)  PROVE done.tables["url"]["REG"] = tables["url"]["REG"]
    BY <1>4, <1>5, <1>6, <2>2, CountedNone
  <2>. HIDE DEF done
  <2>. QED
    BY <2>1, <2>2 DEF entries
<1>10. /\ Searching(r) => done.tables.search.REG = After(tables.search.REG, SearchPut(r, c))
       /\ ~Searching(r) => done.tables.search.REG = tables.search.REG
  <2>1. ASSUME Searching(r)  PROVE done.tables["search"]["REG"] = After(tables["search"]["REG"], SearchPut(r, c))
    BY <1>4, <1>5, <1>6, <2>1, CountedThis
  <2>2. ASSUME ~Searching(r)  PROVE done.tables["search"]["REG"] = tables["search"]["REG"]
    BY <1>4, <1>5, <1>6, <2>2, CountedNone
  <2>. HIDE DEF done
  <2>. QED
    BY <2>1, <2>2
<1>. HIDE DEF done
<1>11. NodesCounted("REG")'
  <2>1. \A t \in Table : totals.nodes[t]["REG"] = Cardinality(DOMAIN tables[t]["REG"])
    BY DEF TotalsInv, NodesCounted
  <2>2. \A t \in Table : totals'.nodes[t]["REG"] = Cardinality(DOMAIN tables'[t]["REG"])
    BY <1>2, <1>5, <1>6, <1>7, <2>1
  <2>. QED
    BY <2>2 DEF NodesCounted
<1>12. ASSUME NodesCounted("GRP"), InOneGroup(r)  PROVE NodesCounted("GRP")'
  <2>1. \A t \in Table : totals.nodes[t]["GRP"] = Cardinality(DOMAIN tables[t]["GRP"])
    BY <1>12 DEF NodesCounted
  <2>2. \A t \in Table : totals'.nodes[t]["GRP"] = Cardinality(DOMAIN tables'[t]["GRP"])
    BY <1>2, <1>5, <1>6, <1>7, <1>12, <2>1
  <2>. QED
    BY <2>2 DEF NodesCounted
<1>13. EntriesCounted'
  <2>1. /\ totals.t_entry = Visits(entries) /\ totals.u_entry = Cardinality(Visited(entries))
        /\ totals.t_entry <= totals.t_hit
    BY DEF TotalsInv, EntriesCounted, Visited, entries
  <2>2. UrlPut(r, c).table # "agent"
    BY <1>3
  <2>3. /\ Visits(entries) \in Int /\ Cardinality(Visited(entries)) \in Nat
        /\ Visits(After(entries, UrlPut(r, c)))
             = Visits(entries) + (IF UrlPut(r, c).visit THEN 1 ELSE 0)
        /\ Cardinality(Visited(After(entries, UrlPut(r, c)))) = Cardinality(Visited(entries))
             + (IF UrlPut(r, c).visit
                   /\ (UrlPut(r, c).key \in DOMAIN entries => entries[UrlPut(r, c).key].visits = 0)
                THEN 1 ELSE 0)
    BY <1>4, <2>2, VisitsAfter
  <2>4. /\ totals'.t_entry = totals.t_entry + (IF c.entry THEN 1 ELSE 0)
        /\ totals'.u_entry = totals.u_entry + (IF is_new_entry THEN 1 ELSE 0)
        /\ totals'.t_hit = totals.t_hit + 1 /\ tables'.url.REG = done.tables.url.REG
    BY <1>2
  <2>5. CASE GoodUrl(r)
    <3>1. tables'.url.REG = After(entries, UrlPut(r, c))
      BY <1>9, <2>4, <2>5
    <3>2. totals'.t_entry = Visits(tables'.url.REG)
      BY <1>3, <2>1, <2>3, <2>4, <3>1
    <3>3. totals'.u_entry = Cardinality(Visited(tables'.url.REG))
      BY <1>3, <2>1, <2>3, <2>4, <3>1 DEF is_new_entry
    <3>4. totals'.t_entry <= totals'.t_hit
      BY <1>4, <2>1, <2>3, <2>4
    <3>. QED
      BY <3>2, <3>3, <3>4 DEF EntriesCounted, Visited
  <2>6. CASE ~GoodUrl(r)
    <3>1. tables'.url.REG = entries /\ ~c.entry /\ ~is_new_entry
      BY <1>1, <1>9, <2>4, <2>6 DEF is_new_entry
    <3>2. totals'.t_entry = Visits(tables'.url.REG)
      BY <2>1, <2>3, <2>4, <3>1
    <3>3. totals'.u_entry = Cardinality(Visited(tables'.url.REG))
      BY <2>1, <2>3, <2>4, <3>1
    <3>4. totals'.t_entry <= totals'.t_hit
      BY <1>4, <2>1, <2>3, <2>4
    <3>. QED
      BY <3>2, <3>3, <3>4 DEF EntriesCounted, Visited
  <2>. QED
    BY <2>5, <2>6
<1>14. SearchesCounted'
  <2>1. totals.t_srchits = Counts(tables.search.REG)
    BY DEF TotalsInv, SearchesCounted
  <2>2. /\ Counts(tables.search.REG) \in Int
        /\ Counts(After(tables.search.REG, SearchPut(r, c))) = Counts(tables.search.REG) + 1
    BY <1>4, CountsAfter
  <2>3. totals'.t_srchits = totals.t_srchits + (IF Searching(r) THEN 1 ELSE 0)
        /\ tables'.search.REG = done.tables.search.REG
    BY <1>2
  <2>4. totals'.t_srchits = Counts(tables'.search.REG)
    BY <1>10, <2>1, <2>2, <2>3
  <2>. QED
    BY <2>4 DEF SearchesCounted
<1>15. IsTables(tables)' /\ totals'.t_hit \in Nat
  <2>1. IsTables(tables')
    BY <1>2, <1>8
  <2>. QED
    BY <1>2, <1>4, <2>1 DEF IsTables
<1>. QED
  BY <1>11, <1>12, <1>13, <1>14, <1>15 DEF TotalsInv

GroupsCounted == NodesCounted("GRP") /\ \A r \in Records : InOneGroup(r)

(* The first state: nothing was counted.                                   *)
LEMMA TotalsInit == Init => TotalsInv /\ NodesCounted("GRP")
BY NothingCounted DEF Init, TotalsInv, NodesCounted, EntriesCounted, SearchesCounted, Visited,
                      Table, Flag

(* Every step leaves the totals right.                                     *)
LEMMA TotalsNext ==
  ASSUME TotalsInv, [Next]_vars
  PROVE  TotalsInv' /\ (GroupsCounted => NodesCounted("GRP")')
<1>1. ASSUME UNCHANGED <<tables, totals>>
      PROVE  TotalsInv' /\ (NodesCounted("GRP") => NodesCounted("GRP")')
  BY <1>1 DEF TotalsInv, IsTables, NodesCounted, EntriesCounted, SearchesCounted
<1>2. CASE ReadRecord
  <2>0. PICK r \in Records, over \in BOOLEAN :
          \E spammers :
            IF Ignored(r) THEN UNCHANGED <<hosts, active, tables, totals>>
            ELSE Count(r, over \/ r.host \notin active, spammers)
    BY <1>2 DEF ReadRecord
  <2>1. PICK spammers :
          IF Ignored(r) THEN UNCHANGED <<hosts, active, tables, totals>>
          ELSE Count(r, over \/ r.host \notin active, spammers)
    BY <2>0
  <2>2. CASE Ignored(r)
    BY <1>1, <2>1, <2>2 DEF GroupsCounted
  <2>3. CASE ~Ignored(r)
    <3>1. Count(r, over \/ r.host \notin active, spammers)
      BY <2>1, <2>3
    <3>2. TotalsInv' /\ (NodesCounted("GRP") /\ InOneGroup(r) => NodesCounted("GRP")')
      <4>1. PICK new_visit \in BOOLEAN : new_visit = (over \/ r.host \notin active)
        OBVIOUS
      <4>2. Count(r, new_visit, spammers)
        BY <3>1, <4>1
      <4>. QED
        BY <4>2, RecordStays
    <3>. QED
      BY <3>2 DEF GroupsCounted
  <2>. QED
    BY <2>2, <2>3
<1>3. CASE NewMonth
  BY <1>3, NothingCounted DEF NewMonth, TotalsInv, NodesCounted, EntriesCounted, SearchesCounted,
                              Visited, IsTables, Table, Flag
<1>4. CASE Restart
  BY <1>1, <1>4 DEF Restart, GroupsCounted
<1>5. CASE Done \/ UNCHANGED vars
  BY <1>1, <1>5 DEF Done, vars, GroupsCounted
<1>. QED
  BY <1>2, <1>3, <1>4, <1>5 DEF Next

(* A node is counted when it is added and never when it was found, entry   *)
(* URLs, visits that were entered and hits from search engines add up      *)
(* (put_unode and so on, update_hourly): whatever the records, lists,      *)
(* months and restarts are.                                                *)
THEOREM TotalsCounted ==
  Spec => [](NodesCounted("REG") /\ EntriesCounted /\ SearchesCounted)
<1>1. TotalsInv /\ [Next]_vars => TotalsInv'
  BY TotalsNext
<1>2. TotalsInv => NodesCounted("REG") /\ EntriesCounted /\ SearchesCounted
  BY DEF TotalsInv
<1>. QED
  BY <1>1, <1>2, TotalsInit, PTL DEF Spec

(* Groups add up too if no record is in two groups of a kind: newugrp and  *)
(* newagrp tell of the last one only.                                      *)
THEOREM TablesAddUpAlways ==
  Spec /\ [](\A r \in Records : InOneGroup(r)) => []TablesAddUp
<1>1. TotalsInv /\ [Next]_vars => TotalsInv'
  BY TotalsNext
<1>2. TotalsInv /\ [Next]_vars /\ GroupsCounted => NodesCounted("GRP")'
  BY TotalsNext
<1>3. NodesCounted("GRP") /\ (\A r \in Records : InOneGroup(r)) => GroupsCounted
  BY DEF GroupsCounted
<1>4. TotalsInv /\ NodesCounted("GRP") => TablesAddUp
  BY DEF TotalsInv, TablesAddUp
<1>. QED
  BY <1>1, <1>2, <1>3, <1>4, TotalsInit, PTL DEF Spec

-----------------------------------------------------------------------------
(* Arguments: those that are kept, and their order                         *)

IsArgs(args) ==
  /\ Len(args) \in Nat /\ DOMAIN args = 1 .. Len(args)
  /\ \A i \in DOMAIN args : args[i].name \in ToSet(NameOrder)

(* b has some elements of a, each at most once.                            *)
Picks(a, b, p) ==
  /\ p \in [DOMAIN b -> DOMAIN a] /\ IsPermutation(p)
  /\ b = [k \in DOMAIN b |-> a[p[k]]]

(* Arguments of a record.                                                  *)
LEMMA RecordArgs == ASSUME NEW r \in Records PROVE IsArgs(r.args)
<1>1. r.args \in Seq(ToSet(r.args)) /\ \A a \in ToSet(r.args) : a.name \in ToSet(NameOrder)
  BY ItemAssumption
<1>2. \A i \in DOMAIN r.args : r.args[i] \in ToSet(r.args)
  BY DEF ToSet
<1>. QED
  BY <1>1, <1>2 DEF IsArgs

(* What is chosen at its place in an order is there.                       *)
LEMMA PositionIs ==
  ASSUME NEW name \in ToSet(NameOrder)
  PROVE  /\ Position(NameOrder, name) \in Int
         /\ NameOrder[Position(NameOrder, name)] = name
<1>1. PICK i \in DOMAIN NameOrder : NameOrder[i] = name
  BY DEF ToSet
<1>2. Position(NameOrder, name) \in DOMAIN NameOrder
      /\ NameOrder[Position(NameOrder, name)] = name
  BY <1>1 DEF Position
<1>3. DOMAIN NameOrder \subseteq Int
  <2>1. NameOrder \in Seq(STRING)
    BY ItemAssumption
  <2>. QED
    BY <2>1
<1>. QED
  BY <1>2, <1>3

(* filter_srchargs keeps each argument that is to be kept, once.           *)
LEMMA KeptArgsAre ==
  ASSUME NEW args, IsArgs(args)
  PROVE  /\ IsArgs(KeptArgs(args))
         /\ \E p : Picks(args, KeptArgs(args), p)
         /\ \A k \in DOMAIN KeptArgs(args) : Kept(KeptArgs(args)[k])
         /\ \A i \in DOMAIN args : Kept(args[i]) =>
              \E k \in DOMAIN KeptArgs(args) : KeptArgs(args)[k] = args[i]
<1>. DEFINE kept == {i \in DOMAIN args : Kept(args[i])}
            place == Ranked(kept, Ascending(kept))
            m == Cardinality(kept)
            b == KeptArgs(args)
<1>1. IsFiniteSet(kept) /\ kept \subseteq DOMAIN args /\ kept \in SUBSET Int
  <2>1. IsFiniteSet(DOMAIN args) /\ DOMAIN args \subseteq Int
    BY FS_Interval DEF IsArgs
  <2>2. kept \in SUBSET DOMAIN args
    OBVIOUS
  <2>. HIDE DEF kept
  <2>. QED
    BY <2>1, <2>2, FS_Subset
<1>2. \A i \in DOMAIN args : i \in kept <=> Kept(args[i])
  OBVIOUS
<1>3. b = [k \in DOMAIN place |-> args[place[k]]]
  BY DEF KeptArgs
<1>. HIDE DEF kept, b
<1>4. /\ m \in Nat /\ place \in [1 .. m -> kept]
      /\ \A x \in kept : \E k \in 1 .. m : place[k] = x
      /\ \A i, j \in 1 .. m : place[i] = place[j] => i = j
  <2>1. StrictOrder(kept, Ascending(kept))
    BY <1>1, AscendingIsStrict
  <2>2. /\ m \in Nat /\ place \in [1 .. m -> kept]
        /\ \A x \in kept : \E k \in 1 .. m : place[k] = x
        /\ \A i, j \in 1 .. m : /\ i < j <=> <<place[i], place[j]>> \in Ascending(kept)
                                /\ place[i] = place[j] => i = j
    BY <1>1, <2>1, RankedIs
  <2>. HIDE DEF place, m
  <2>. QED
    BY <2>2
<1>. HIDE DEF place, m
<1>5. DOMAIN b = 1 .. m /\ \A k \in 1 .. m : place[k] \in kept /\ b[k] = args[place[k]]
  BY <1>3, <1>4
<1>6. Picks(args, b, place)
  <2>1. place \in [DOMAIN b -> DOMAIN args] /\ DOMAIN place = 1 .. m
    BY <1>1, <1>4, <1>5
  <2>2. IsPermutation(place)
    BY <1>4, <2>1 DEF IsPermutation
  <2>3. b = [k \in DOMAIN b |-> args[place[k]]]
    BY <1>3, <1>5, <2>1
  <2>. QED
    BY <2>1, <2>2, <2>3 DEF Picks
<1>7. IsArgs(b)
  <2>1. b = [k \in 1 .. m |-> b[k]]
    BY <1>3, <1>5
  <2>2. b \in Seq({b[k] : k \in 1 .. m})
    BY <1>4, <2>1
  <2>3. Len(b) \in Nat /\ DOMAIN b = 1 .. Len(b)
    BY <2>2
  <2>4. \A k \in DOMAIN b : b[k].name \in ToSet(NameOrder)
    BY <1>1, <1>5 DEF IsArgs
  <2>. QED
    BY <2>3, <2>4 DEF IsArgs
<1>8. \A k \in DOMAIN b : Kept(b[k])
  BY <1>1, <1>2, <1>5
<1>9. \A i \in DOMAIN args : Kept(args[i]) => \E k \in DOMAIN b : b[k] = args[i]
  BY <1>2, <1>4, <1>5
<1>. QED
  BY <1>6, <1>7, <1>8, <1>9 DEF b

(* There is a permutation that sorts arguments.                            *)
LEMMA SortExists ==
  ASSUME NEW args, IsArgs(args)
  PROVE  \E p \in [DOMAIN args -> DOMAIN args] : IsPermutation(p) /\ Sorted(Permuted(args, p))
<1>. DEFINE n == Len(args)
            S == DOMAIN args
            pos(i) == Position(NameOrder, args[i].name)
            order == {x \in S \X S : pos(x[1]) < pos(x[2])
                                     \/ (pos(x[1]) = pos(x[2]) /\ x[1] < x[2])}
            place == Ranked(S, order)
<1>1. n \in Nat /\ S = 1 .. n /\ IsFiniteSet(S) /\ Cardinality(S) = n
  BY FS_Interval DEF IsArgs
<1>2. \A i \in S : pos(i) \in Int /\ i \in Int
  BY <1>1, PositionIs DEF IsArgs
<1>. HIDE DEF pos
<1>3. \A i, j \in S : <<i, j>> \in order <=> pos(i) < pos(j) \/ (pos(i) = pos(j) /\ i < j)
  OBVIOUS
<1>. HIDE DEF S, n, order
<1>4. StrictOrder(S, order)
  BY <1>2, <1>3 DEF StrictOrder
<1>5. /\ place \in [1 .. Cardinality(S) -> S]
      /\ \A i, j \in 1 .. Cardinality(S) :
           /\ i < j <=> <<place[i], place[j]>> \in order
           /\ place[i] = place[j] => i = j
  BY <1>1, <1>4, RankedIs
<1>. HIDE DEF place
<1>6. place \in [S -> S] /\ IsPermutation(place)
  BY <1>1, <1>5 DEF IsPermutation
<1>7. Sorted(Permuted(args, place))
  <2>1. ASSUME NEW i \in S, NEW j \in S, i < j  PROVE pos(place[i]) <= pos(place[j])
    <3>1. place[i] \in S /\ place[j] \in S /\ <<place[i], place[j]>> \in order
      BY <1>1, <1>5, <2>1
    <3>. QED
      BY <1>2, <1>3, <3>1
  <2>2. Permuted(args, place) = [i \in S |-> args[place[i]]]
    BY DEF Permuted, S
  <2>. QED
    BY <2>1, <2>2 DEF Sorted, pos
<1>. QED
  BY <1>6, <1>7 DEF S

(* qsort: the same arguments, by their names.                              *)
LEMMA ByNameIs ==
  ASSUME NEW args, IsArgs(args)
  PROVE  /\ IsArgs(ByName(args)) /\ Sorted(ByName(args))
         /\ \E p : Picks(args, ByName(args), p)
         /\ \A i \in DOMAIN args : \E k \in DOMAIN ByName(args) : ByName(args)[k] = args[i]
<1>. DEFINE p == CHOOSE p \in [DOMAIN args -> DOMAIN args] :
                   IsPermutation(p) /\ Sorted(Permuted(args, p))
            b == ByName(args)
<1>1. p \in [DOMAIN args -> DOMAIN args] /\ IsPermutation(p) /\ Sorted(Permuted(args, p))
  BY SortExists
<1>2. b = Permuted(args, p)
  BY DEF ByName
<1>. HIDE DEF p, b
<1>3. b = [i \in DOMAIN args |-> args[p[i]]] /\ DOMAIN b = DOMAIN args
  BY <1>2 DEF Permuted
<1>4. Picks(args, b, p)
  BY <1>1, <1>3 DEF Picks
<1>5. IsArgs(b)
  <2>1. Len(args) \in Nat /\ b = [i \in 1 .. Len(args) |-> b[i]]
    BY <1>3 DEF IsArgs
  <2>2. b \in Seq({b[k] : k \in 1 .. Len(args)})
    BY <2>1
  <2>3. Len(b) \in Nat /\ DOMAIN b = 1 .. Len(b)
    BY <2>2
  <2>4. \A k \in DOMAIN b : b[k].name \in ToSet(NameOrder)
    BY <1>1, <1>3 DEF IsArgs
  <2>. QED
    BY <2>3, <2>4 DEF IsArgs
<1>6. ASSUME NEW i \in DOMAIN args  PROVE \E k \in DOMAIN b : b[k] = args[i]
  <2>1. IsFiniteSet(DOMAIN args)
    BY FS_Interval DEF IsArgs
  <2>2. p \in Injection(DOMAIN args, DOMAIN args)
    BY <1>1 DEF Injection, IsInjective, IsPermutation
  <2>3. p \in Surjection(DOMAIN args, DOMAIN args)
    BY <2>1, <2>2, FS_Injection
  <2>4. PICK k \in DOMAIN args : p[k] = i
    BY <2>3 DEF Surjection
  <2>. QED
    BY <1>3, <2>4
<1>. QED
  BY <1>1, <1>2, <1>4, <1>5, <1>6 DEF b

(* Names of arguments that are sorted and differ are in strict order.      *)
LEMMA SortedStrictly ==
  ASSUME NEW args, IsArgs(args), Sorted(args),
         \A i, j \in DOMAIN args : i # j => args[i].name # args[j].name
  PROVE  \A i, j \in DOMAIN args :
           i < j => Position(NameOrder, args[i].name) < Position(NameOrder, args[j].name)
<1>. SUFFICES ASSUME NEW i \in DOMAIN args, NEW j \in DOMAIN args, i < j
     PROVE  Position(NameOrder, args[i].name) < Position(NameOrder, args[j].name)
  OBVIOUS
<1>. DEFINE x == Position(NameOrder, args[i].name)
            y == Position(NameOrder, args[j].name)
<1>1. x \in Int /\ y \in Int /\ NameOrder[x] = args[i].name /\ NameOrder[y] = args[j].name
  BY PositionIs DEF IsArgs
<1>2. x <= y
  BY DEF Sorted
<1>3. i \in Int /\ j \in Int
  BY DEF IsArgs
<1>4. x # y
  BY <1>1, <1>3
<1>. QED
  BY <1>1, <1>2, <1>4

SameTexts(a, b) ==
  /\ \A i \in DOMAIN a : \E j \in DOMAIN b : a[i].text = b[j].text
  /\ \A j \in DOMAIN b : \E i \in DOMAIN a : a[i].text = b[j].text

(* Arguments with the same texts, in strict order, are the same: the first *)
(* that differ would each have to come later in the other.                 *)
LEMMA SameOrder ==
  ASSUME NEW a, IsArgs(a), NEW b, IsArgs(b), Len(a) = Len(b), SameTexts(a, b),
         \A i \in DOMAIN a, j \in DOMAIN b : a[i].text = b[j].text => a[i] = b[j],
         \A i, j \in DOMAIN a :
           i < j => Position(NameOrder, a[i].name) < Position(NameOrder, a[j].name),
         \A i, j \in DOMAIN b :
           i < j => Position(NameOrder, b[i].name) < Position(NameOrder, b[j].name)
  PROVE  \A i \in DOMAIN a : a[i].text = b[i].text
<1>. DEFINE n == Len(a)
            D == {i \in 1 .. n : a[i].text # b[i].text}
            pa(i) == Position(NameOrder, a[i].name)
            pb(i) == Position(NameOrder, b[i].name)
<1>1. n \in Nat /\ DOMAIN a = 1 .. n /\ DOMAIN b = 1 .. n
  BY DEF IsArgs
<1>2. \A i \in 1 .. n : pa(i) \in Int /\ pb(i) \in Int
  BY <1>1, PositionIs DEF IsArgs
<1>. SUFFICES ASSUME D # {}  PROVE FALSE
  BY <1>1
<1>3. PICK i \in D : \A j \in D : i <= j
  <2>1. D \in SUBSET Nat
    BY <1>1
  <2>. HIDE DEF D
  <2>. QED
    BY <2>1, Smallest
<1>4. i \in 1 .. n /\ a[i].text # b[i].text /\ \A j \in 1 .. n : j < i => a[j].text = b[j].text
  BY <1>1, <1>3
<1>5. PICK j \in 1 .. n : a[i].text = b[j].text /\ a[i] = b[j]
  BY <1>1, <1>4 DEF SameTexts
<1>6. PICK k \in 1 .. n : a[k].text = b[i].text /\ a[k] = b[i]
  <2>1. PICK k \in DOMAIN a : a[k].text = b[i].text
    BY <1>1, <1>4 DEF SameTexts
  <2>2. i \in DOMAIN b
    BY <1>1, <1>4
  <2>3. a[k] = b[i]
    BY <2>1, <2>2
  <2>. QED
    BY <1>1, <2>1, <2>3
<1>. HIDE DEF D, n
<1>7. pa(i) = pb(j) /\ pa(k) = pb(i)
  BY <1>5, <1>6
<1>8. \A x, y \in 1 .. n : x < y => pa(x) < pa(y) /\ pb(x) < pb(y)
  BY <1>1
<1>9. ~(j < i)
  <2>1. SUFFICES ASSUME j < i  PROVE FALSE
    OBVIOUS
  <2>2. a[j].text = b[j].text
    BY <1>4, <1>5, <2>1
  <2>3. a[j] = b[j]
    BY <1>1, <1>5, <2>2
  <2>4. pa(j) = pa(i)
    BY <1>5, <2>3
  <2>5. pa(j) < pa(i)
    BY <1>4, <1>5, <1>8, <2>1
  <2>. QED
    BY <1>2, <1>4, <1>5, <2>4, <2>5
<1>10. ~(k < i)
  <2>1. SUFFICES ASSUME k < i  PROVE FALSE
    OBVIOUS
  <2>2. a[k].text = b[k].text
    BY <1>4, <1>6, <2>1
  <2>3. a[k] = b[k]
    BY <1>1, <1>6, <2>2
  <2>4. pb(k) = pb(i)
    BY <1>6, <2>3
  <2>5. pb(k) < pb(i)
    BY <1>4, <1>6, <1>8, <2>1
  <2>. QED
    BY <1>2, <1>4, <1>6, <2>4, <2>5
<1>11. i # j /\ i # k /\ i \in Int /\ j \in Int /\ k \in Int
  BY <1>1, <1>4, <1>5, <1>6
<1>12. i < j /\ i < k
  BY <1>9, <1>10, <1>11
<1>13. pb(i) < pb(j) /\ pa(i) < pa(k)
  BY <1>4, <1>5, <1>6, <1>8, <1>12
<1>14. pa(i) \in Int /\ pb(i) \in Int
  BY <1>2, <1>4
<1>. HIDE DEF pa, pb
<1>. QED
  BY <1>7, <1>13, <1>14

-----------------------------------------------------------------------------
(* One page is one URL                                                     *)

UrlsInv ==
  /\ IsTables(tables)
  /\ \A u \in DOMAIN tables.url.REG :
       \E r \in Records : u = Url(Aliased(r.url), Filtered(r.args))

(* Some arguments of a record, each at most once, and sorted.              *)
SortedArgs(a, args) ==
  /\ IsArgs(a) /\ Sorted(a)
  /\ \A i \in DOMAIN a : a[i] \in ToSet(args)
  /\ \A i, j \in DOMAIN a : i # j =>
       \E x, y \in DOMAIN args : x # y /\ args[x] = a[i] /\ args[y] = a[j]

(* Such are the arguments of a URL in the table.                           *)
LEMMA UrlArgs ==
  ASSUME NEW r \in Records, cfg.sort_srch_args
  PROVE  SortedArgs(Filtered(r.args), r.args)
<1>. DEFINE a == Filtered(r.args)
            kept == KeptArgs(r.args)
<1>1. a = ByName(kept)
  BY DEF Filtered, NotFiltered
<1>2. IsArgs(r.args)
  BY RecordArgs
<1>3. IsArgs(kept) /\ \E p : Picks(r.args, kept, p)
  BY <1>2, KeptArgsAre
<1>. HIDE DEF kept, a
<1>4. IsArgs(a) /\ Sorted(a) /\ \E p : Picks(kept, a, p)
  BY <1>1, <1>3, ByNameIs
<1>5. PICK p : Picks(r.args, kept, p)
  BY <1>3
<1>6. PICK q : Picks(kept, a, q)
  BY <1>4
<1>7. \A i \in DOMAIN a : q[i] \in DOMAIN kept /\ p[q[i]] \in DOMAIN r.args /\ a[i] = r.args[p[q[i]]]
  BY <1>5, <1>6 DEF Picks
<1>8. \A i, j \in DOMAIN a : i # j => p[q[i]] # p[q[j]]
  <2>1. DOMAIN q = DOMAIN a /\ DOMAIN p = DOMAIN kept
    BY <1>5, <1>6 DEF Picks
  <2>2. \A i, j \in DOMAIN a : i # j => q[i] # q[j]
    BY <1>6, <2>1 DEF Picks, IsPermutation
  <2>3. \A i, j \in DOMAIN kept : i # j => p[i] # p[j]
    BY <1>5, <2>1 DEF Picks, IsPermutation
  <2>. QED
    BY <1>7, <2>2, <2>3
<1>9. \A i \in DOMAIN a : a[i] \in ToSet(r.args)
  BY <1>7 DEF ToSet
<1>10. \A i, j \in DOMAIN a : i # j =>
         \E x, y \in DOMAIN r.args : x # y /\ r.args[x] = a[i] /\ r.args[y] = a[j]
  BY <1>7, <1>8
<1>. QED
  BY <1>4, <1>9, <1>10 DEF SortedArgs, a

(* Two URLs with one path and the same arguments are the same.             *)
LEMMA SameUrl ==
  ASSUME cfg.sort_srch_args, NEW r \in Records, NEW s \in Records, NEW path, NEW u, NEW v,
         u = Url(path, Filtered(r.args)), v = Url(path, Filtered(s.args)),
         ToSet(u.args) = ToSet(v.args), Len(u.args) = Len(v.args), ~RepeatsName(u)
  PROVE  u = v
<1>1. PICK a : a = Filtered(r.args)
  OBVIOUS
<1>2. PICK b : b = Filtered(s.args)
  OBVIOUS
<1>3. /\ IsArgs(a) /\ Sorted(a) /\ \A i \in DOMAIN a : a[i] \in ToSet(r.args)
      /\ \A i, j \in DOMAIN a : i # j =>
           \E x, y \in DOMAIN r.args : x # y /\ r.args[x] = a[i] /\ r.args[y] = a[j]
  <2>1. SortedArgs(Filtered(r.args), r.args)
    BY UrlArgs
  <2>2. SortedArgs(a, r.args)
    BY <1>1, <2>1
  <2>. QED
    BY <2>2 DEF SortedArgs
<1>4. /\ IsArgs(b) /\ Sorted(b) /\ \A i \in DOMAIN b : b[i] \in ToSet(s.args)
      /\ \A i, j \in DOMAIN b : i # j =>
           \E x, y \in DOMAIN s.args : x # y /\ s.args[x] = b[i] /\ s.args[y] = b[j]
  <2>1. SortedArgs(Filtered(s.args), s.args)
    BY UrlArgs
  <2>2. SortedArgs(b, s.args)
    BY <1>2, <2>1
  <2>. QED
    BY <2>2 DEF SortedArgs
<1>5. /\ u = [path |-> path, args |-> [i \in DOMAIN a |-> a[i].text]]
      /\ v = [path |-> path, args |-> [i \in DOMAIN b |-> b[i].text]]
  BY <1>1, <1>2 DEF Url
<1>6. DOMAIN a = 1 .. Len(a) /\ DOMAIN b = 1 .. Len(b) /\ Len(a) \in Nat /\ Len(b) \in Nat
  BY <1>3, <1>4 DEF IsArgs
<1>7. Len(a) = Len(b)
  <2>1. ASSUME NEW c, Len(c) \in Nat, DOMAIN c = 1 .. Len(c),
               NEW w, w = [i \in DOMAIN c |-> c[i].text]
        PROVE  Len(w) = Len(c)
    <3>1. w \in Seq({c[i].text : i \in 1 .. Len(c)}) /\ DOMAIN w = 1 .. Len(c)
      BY <2>1
    <3>. QED
      BY <2>1, <3>1
  <2>2. Len(u.args) = Len(a) /\ Len(v.args) = Len(b)
    BY <1>5, <1>6, <2>1
  <2>. QED
    BY <2>2
<1>8. \A i \in DOMAIN a : a[i].text \in ToSet(u.args)
  BY <1>5 DEF ToSet
<1>9. \A i \in DOMAIN b : b[i].text \in ToSet(u.args)
  <2>1. \A i \in DOMAIN b : b[i].text \in ToSet(v.args)
    BY <1>5 DEF ToSet
  <2>. QED
    BY <2>1
<1>10. SameTexts(a, b)
  <2>1. \A x \in ToSet(u.args) : \E i \in DOMAIN a : x = a[i].text
    BY <1>5 DEF ToSet
  <2>2. \A x \in ToSet(v.args) : \E i \in DOMAIN b : x = b[i].text
    BY <1>5 DEF ToSet
  <2>. QED
    BY <1>8, <1>9, <2>1, <2>2 DEF SameTexts
<1>11. \A i \in DOMAIN a, j \in DOMAIN b : a[i].text = b[j].text => a[i] = b[j]
  BY <1>3, <1>4, ItemAssumption
<1>12. \A i, j \in DOMAIN a : i # j => a[i].name # a[j].name
  BY <1>3, <1>8 DEF RepeatsName
<1>13. \A i, j \in DOMAIN b : i # j => b[i].name # b[j].name
  BY <1>4, <1>9 DEF RepeatsName
<1>14. \A i, j \in DOMAIN a :
         i < j => Position(NameOrder, a[i].name) < Position(NameOrder, a[j].name)
  BY <1>3, <1>12, SortedStrictly
<1>15. \A i, j \in DOMAIN b :
         i < j => Position(NameOrder, b[i].name) < Position(NameOrder, b[j].name)
  BY <1>4, <1>13, SortedStrictly
<1>16. \A i \in DOMAIN a : a[i].text = b[i].text
  BY <1>3, <1>4, <1>7, <1>10, <1>11, <1>14, <1>15, SameOrder
<1>. QED
  BY <1>5, <1>6, <1>7, <1>16

(* A record adds its own URL only.                                         *)
LEMMA RecordUrls ==
  ASSUME IsTables(tables), NEW r, NEW new_visit \in BOOLEAN, NEW spammers,
         Count(r, new_visit, spammers)
  PROVE  /\ IsTables(tables')
         /\ \A u \in DOMAIN tables'.url.REG :
              u \in DOMAIN tables.url.REG \/ u = Url(Aliased(r.url), Filtered(r.args))
<1>0. PICK c : c = Context(r, new_visit, spammers)
  OBVIOUS
<1>00. PICK s : s = NodesOf(r, c) \o GroupsOf(r, c)
  OBVIOUS
<1>1. IsContext(c)
  BY <1>0 DEF IsContext, Context
<1>2. tables' = Counted(s).tables
  BY <1>0, <1>00 DEF Count
<1>3. UrlPut(r, c).key = Url(Aliased(r.url), Filtered(r.args))
  BY DEF UrlPut, Put
<1>4. /\ IsPuts(s)
      /\ GoodUrl(r) => Once(s, "url", "REG", UrlPut(r, c))
      /\ ~GoodUrl(r) => Never(s, "url", "REG")
  BY <1>00, <1>1, RecordPuts
<1>5. "url" \in Table /\ "REG" \in Flag
  BY DEF Table, Flag
<1>6. IsTables(Counted(s).tables)
  BY <1>4, <1>5, CountedOnce DEF IsCounts
<1>7. ASSUME GoodUrl(r)
      PROVE  Counted(s).tables["url"]["REG"] = After(tables["url"]["REG"], UrlPut(r, c))
  BY <1>4, <1>5, <1>7, CountedThis
<1>8. ASSUME ~GoodUrl(r)  PROVE Counted(s).tables["url"]["REG"] = tables["url"]["REG"]
  BY <1>4, <1>5, <1>8, CountedNone
<1>9. DOMAIN After(tables["url"]["REG"], UrlPut(r, c))
        = DOMAIN tables["url"]["REG"] \cup {UrlPut(r, c).key}
  BY <1>5, AfterType DEF IsTables
<1>. QED
  BY <1>2, <1>3, <1>6, <1>7, <1>8, <1>9

(* Every URL of the table is that of a record.                             *)
LEMMA UrlsNext ==
  ASSUME UrlsInv, [Next]_vars
  PROVE  UrlsInv'
<1>1. cfg' = cfg
  <2>1. CASE ReadRecord
    BY <2>1 DEF ReadRecord
  <2>2. CASE NewMonth \/ Restart \/ Done \/ UNCHANGED vars
    BY <2>2 DEF NewMonth, Restart, Done, vars
  <2>. QED
    BY <2>1, <2>2 DEF Next
<1>2. \A r : Aliased(r.url)' = Aliased(r.url)
  BY <1>1 DEF Aliased
<1>3. \A r : Filtered(r.args)' = Filtered(r.args)
  <2>1. \A a : Kept(a)' = Kept(a)
    BY <1>1 DEF Kept, InList
  <2>2. \A a : KeptArgs(a)' = KeptArgs(a)
    BY <2>1 DEF KeptArgs
  <2>. QED
    BY <1>1, <2>2 DEF Filtered, NotFiltered
<1>4. ASSUME IsTables(tables'),
             \A u \in DOMAIN tables'.url.REG :
               \E r \in Records : u = Url(Aliased(r.url), Filtered(r.args))
      PROVE  UrlsInv'
  BY <1>2, <1>3, <1>4 DEF UrlsInv, IsTables
<1>5. ASSUME UNCHANGED tables  PROVE UrlsInv'
  BY <1>4, <1>5 DEF UrlsInv
<1>6. CASE ReadRecord
  <2>0. PICK r \in Records, over \in BOOLEAN :
          \E spammers :
            IF Ignored(r) THEN UNCHANGED <<hosts, active, tables, totals>>
            ELSE Count(r, over \/ r.host \notin active, spammers)
    BY <1>6 DEF ReadRecord
  <2>1. PICK spammers :
          IF Ignored(r) THEN UNCHANGED <<hosts, active, tables, totals>>
          ELSE Count(r, over \/ r.host \notin active, spammers)
    BY <2>0
  <2>2. CASE Ignored(r)
    BY <1>5, <2>1, <2>2
  <2>3. CASE ~Ignored(r)
    <3>1. PICK new_visit \in BOOLEAN : new_visit = (over \/ r.host \notin active)
      OBVIOUS
    <3>2. Count(r, new_visit, spammers)
      BY <2>1, <2>3, <3>1
    <3>3. /\ IsTables(tables')
          /\ \A u \in DOMAIN tables'.url.REG :
               u \in DOMAIN tables.url.REG \/ u = Url(Aliased(r.url), Filtered(r.args))
      BY <3>2, RecordUrls DEF UrlsInv
    <3>. QED
      BY <1>4, <3>3 DEF UrlsInv
  <2>. QED
    BY <2>2, <2>3
<1>7. CASE NewMonth
  <2>1. IsTables(tables') /\ tables'.url.REG = <<>>
    BY <1>7, NothingCounted DEF NewMonth, NoNodes, Table, Flag
  <2>. QED
    BY <1>4, <2>1
<1>8. CASE Restart \/ Done \/ UNCHANGED vars
  BY <1>5, <1>8 DEF Restart, Done, vars
<1>. QED
  BY <1>6, <1>7, <1>8 DEF Next

(* One page is one URL: with sorted arguments no two URLs have one path    *)
(* and the same arguments, unless arguments repeat a name, which qsort     *)
(* leaves in any order (filter_srchargs).                                  *)
THEOREM SameUrlOnceAlways == Spec => []SameUrlOnce
<1>1. Init => UrlsInv
  <2>1. Init => IsTables(tables) /\ tables.url.REG = <<>>
    BY NothingCounted DEF Init, NoNodes, Table, Flag
  <2>. QED
    BY <2>1 DEF UrlsInv
<1>2. UrlsInv /\ [Next]_vars => UrlsInv'
  BY UrlsNext
<1>3. UrlsInv => SameUrlOnce
  <2>. SUFFICES ASSUME UrlsInv, NEW u \in DOMAIN tables.url.REG, NEW v \in DOMAIN tables.url.REG,
                       cfg.sort_srch_args, u.path = v.path,
                       ToSet(u.args) = ToSet(v.args), Len(u.args) = Len(v.args), ~RepeatsName(u)
       PROVE  u = v
    BY DEF SameUrlOnce
  <2>1. PICK r \in Records : u = Url(Aliased(r.url), Filtered(r.args))
    BY DEF UrlsInv
  <2>2. PICK s \in Records : v = Url(Aliased(s.url), Filtered(s.args))
    BY DEF UrlsInv
  <2>3. Aliased(r.url) = u.path /\ Aliased(s.url) = u.path
    BY <2>1, <2>2 DEF Url
  <2>. QED
    BY <2>1, <2>2, <2>3, SameUrl
<1>. QED
  BY <1>1, <1>2, <1>3, PTL DEF Spec

-----------------------------------------------------------------------------
(* std::lower_bound                                                        *)

Less(args, key, i) == Position(TextOrder, args[i].text) < Position(TextOrder, key)

SearchStep(g, args, key, len) ==
  [first \in 1 .. Len(args) + 1 - len |->
     IF len = 0 THEN first
     ELSE IF Less(args, key, first + len \div 2)
          THEN g[len - len \div 2 - 1][first + len \div 2 + 1]
          ELSE g[len \div 2][first]]

SearchesUpTo(g, args, key, n) == g = [len \in 0 .. n |-> SearchStep(g, args, key, len)]

(* The definition, with names for its parts.                               *)
LEMMA LowerBoundDef ==
  ASSUME NEW args, NEW key
  PROVE  LowerBound(args, key)
           = (CHOOSE g : SearchesUpTo(g, args, key, Len(args)))[Len(args)][1]
BY DEF LowerBound, SearchesUpTo, SearchStep, Less

(* Half of a length is shorter.                                            *)
LEMMA Half ==
  ASSUME NEW len \in Nat, len # 0
  PROVE  len \div 2 \in Nat /\ len \div 2 < len
OBVIOUS

SameUpTo(g, h, n) == \A k \in 0 .. n : h[k] = g[k]

(* A step looks at shorter parts only.                                     *)
LEMMA SearchStepSame ==
  ASSUME NEW args, NEW key, NEW g, NEW h, NEW n \in Nat, SameUpTo(g, h, n),
         NEW len \in 0 .. n + 1
  PROVE  SearchStep(h, args, key, len) = SearchStep(g, args, key, len)
<1>1. CASE len = 0
  BY <1>1 DEF SearchStep
<1>2. CASE len # 0
  <2>1. len \div 2 \in 0 .. n /\ len - len \div 2 - 1 \in 0 .. n
    BY <1>2, Half
  <2>2. h[len \div 2] = g[len \div 2] /\ h[len - len \div 2 - 1] = g[len - len \div 2 - 1]
    BY <2>1 DEF SameUpTo
  <2>. QED
    BY <2>2, Zenon DEF SearchStep
<1>. QED
  BY <1>1, <1>2

(* There is a function as the definition chooses it.                       *)
LEMMA SearchExists ==
  ASSUME NEW args, NEW key, NEW m \in Nat
  PROVE  \E g : SearchesUpTo(g, args, key, m)
<1>. DEFINE N == {n \in Nat : \E g : SearchesUpTo(g, args, key, n)}
<1>1. 0 \in N
  <2>. DEFINE g == [len \in 0 .. 0 |-> [first \in 1 .. Len(args) + 1 - len |-> first]]
  <2>1. SearchesUpTo(g, args, key, 0)
    BY DEF SearchesUpTo, SearchStep
  <2>. QED
    BY <2>1
<1>2. ASSUME NEW n \in Nat, n \in N  PROVE n + 1 \in N
  <2>1. PICK g : SearchesUpTo(g, args, key, n)
    BY <1>2
  <2>. DEFINE h == [len \in 0 .. n + 1 |-> SearchStep(g, args, key, len)]
  <2>2. SameUpTo(g, h, n)
    BY <2>1 DEF SearchesUpTo, SameUpTo
  <2>3. ASSUME NEW len \in 0 .. n + 1
        PROVE  SearchStep(h, args, key, len) = SearchStep(g, args, key, len)
    <3>. HIDE DEF h
    <3>. QED
      BY <2>2, SearchStepSame
  <2>4. SearchesUpTo(h, args, key, n + 1)
    BY <2>3 DEF SearchesUpTo
  <2>. QED
    BY <2>4
<1>3. Nat \subseteq N
  <2>. HIDE DEF N
  <2>. QED
    BY <1>1, <1>2, AllNumbers
<1>. QED
  BY <1>3

(* The arguments before some place are less than the key and those from    *)
(* there on are not: that place is found.                                  *)
LEMMA LowerBoundIs ==
  ASSUME NEW args, Len(args) \in Nat, NEW key, NEW cut \in 1 .. Len(args) + 1,
         \A i \in 1 .. Len(args) : Less(args, key, i) <=> i < cut
  PROVE  LowerBound(args, key) = cut
<1>. DEFINE m == Len(args)
<1>1. PICK g : SearchesUpTo(g, args, key, m) /\ LowerBound(args, key) = g[m][1]
  <2>1. \E g : SearchesUpTo(g, args, key, m)
    BY SearchExists
  <2>. QED
    BY <2>1, LowerBoundDef
<1>2. \A len \in 0 .. m : g[len] = SearchStep(g, args, key, len)
  BY <1>1 DEF SearchesUpTo
<1>. HIDE DEF m
<1>3. m \in Nat /\ cut \in 1 .. m + 1 /\ \A i \in 1 .. m : Less(args, key, i) <=> i < cut
  BY DEF m
<1>. DEFINE Right(len) ==
              \A first \in 1 .. m + 1 - len :
                first <= cut /\ cut <= first + len => g[len][first] = cut
            N == {n \in Nat : \A len \in 0 .. m : len <= n => Right(len)}
<1>4. Right(0)
  <2>1. ASSUME NEW first \in 1 .. m + 1 - 0, first <= cut, cut <= first + 0
        PROVE  g[0][first] = cut
    <3>1. g[0][first] = first
      <4>1. g[0] = SearchStep(g, args, key, 0)
        BY <1>2, <1>3
      <4>2. first \in 1 .. Len(args) + 1 - 0
        BY DEF m
      <4>3. SearchStep(g, args, key, 0)[first] = first
        BY <4>2 DEF SearchStep
      <4>. QED
        BY <4>1, <4>3
    <3>. QED
      BY <1>3, <2>1, <3>1
  <2>. QED
    BY <2>1
<1>5. 0 \in N
  BY <1>4
<1>6. ASSUME NEW n \in Nat, n \in N  PROVE n + 1 \in N
  <2>. SUFFICES ASSUME NEW len \in 0 .. m, len <= n + 1, NEW first \in 1 .. m + 1 - len,
                       first <= cut, cut <= first + len
       PROVE  g[len][first] = cut
    OBVIOUS
  <2>1. CASE len = 0
    BY <1>4, <2>1
  <2>2. CASE len # 0
    <3>. DEFINE half == len \div 2
                mid == first + half
    <3>1. half \in Nat /\ half < len
      BY <2>2, Half
    <3>. HIDE DEF half
    <3>2. /\ mid \in 1 .. m /\ mid + 1 \in 1 .. m + 1 - (len - half - 1)
          /\ first \in 1 .. m + 1 - half
          /\ half \in 0 .. m /\ half <= n
          /\ len - half - 1 \in 0 .. m /\ len - half - 1 <= n
      BY <1>3, <3>1
    <3>3. g[len][first] = IF Less(args, key, mid) THEN g[len - half - 1][mid + 1] ELSE g[half][first]
      BY <1>2, <2>2 DEF SearchStep, half, m
    <3>4. Right(half) /\ Right(len - half - 1)
      BY <1>6, <3>2
    <3>5. CASE mid < cut
      <4>1. mid + 1 <= cut /\ cut <= (mid + 1) + (len - half - 1)
        BY <1>3, <3>1, <3>2, <3>5
      <4>2. g[len - half - 1][mid + 1] = cut
        BY <3>2, <3>4, <4>1
      <4>. QED
        BY <1>3, <3>2, <3>3, <3>5, <4>2
    <3>6. CASE ~(mid < cut)
      <4>1. cut <= first + half
        BY <1>3, <3>1, <3>2, <3>6
      <4>2. g[half][first] = cut
        BY <3>2, <3>4, <4>1
      <4>. QED
        BY <1>3, <3>2, <3>3, <3>6, <4>2
    <3>. QED
      BY <3>5, <3>6
  <2>. QED
    BY <2>1, <2>2
<1>7. Nat \subseteq N
  <2>. HIDE DEF N
  <2>. QED
    BY <1>5, <1>6, AllNumbers
<1>8. Right(m)
  BY <1>3, <1>7
<1>9. 1 \in 1 .. m + 1 - m /\ 1 <= cut /\ cut <= 1 + m
  BY <1>3
<1>. QED
  BY <1>1, <1>8, <1>9

-----------------------------------------------------------------------------
(* What is ignored                                                         *)

NamePos(name) == Position(NameOrder, name)

(* By its text an argument of a record is less than the key of a pattern   *)
(* exactly if its name is less than that of the pattern.                   *)
Fits(p, args) ==
  \A i \in DOMAIN args :
    Position(TextOrder, args[i].text) < Position(TextOrder, p.key)
      <=> NamePos(args[i].name) < NamePos(p.name)

FitsIfValue(p, args) == p.value # "" => Fits(p, args)

(* An argument has the name of a pattern and its value, if it has one.     *)
Matches(a, p) == a.name = p.name /\ p.value \in {"", a.value}

(* Numbers in ascending order are less than a given one up to some place.  *)
LEMMA CutExists ==
  ASSUME NEW m \in Nat, NEW pos, \A i \in 1 .. m : pos[i] \in Int,
         \A i, j \in 1 .. m : i < j => pos[i] <= pos[j], NEW t \in Int
  PROVE  \E cut \in 1 .. m + 1 : \A i \in 1 .. m : pos[i] < t <=> i < cut
<1>1. PICK E : E = {i \in 1 .. m + 1 : i = m + 1 \/ (i \in 1 .. m /\ ~(pos[i] < t))}
  OBVIOUS
<1>2. E \in SUBSET Nat /\ m + 1 \in E
  BY <1>1
<1>3. PICK cut \in E : \A i \in E : cut <= i
  BY <1>2, Smallest
<1>4. cut \in 1 .. m + 1 /\ (cut = m + 1 \/ ~(pos[cut] < t))
  BY <1>1, <1>3
<1>5. ASSUME NEW i \in 1 .. m  PROVE pos[i] < t <=> i < cut
  <2>1. CASE i < cut
    <3>1. i \notin E
      BY <1>3, <1>4, <2>1
    <3>. QED
      BY <1>1, <2>1, <3>1
  <2>2. CASE ~(i < cut)
    <3>1. cut \in 1 .. m /\ (cut < i \/ cut = i) /\ ~(pos[cut] < t)
      BY <1>4, <2>2
    <3>2. pos[cut] <= pos[i] /\ pos[cut] \in Int /\ pos[i] \in Int
      BY <3>1
    <3>. QED
      BY <2>2, <3>1, <3>2
  <2>. QED
    BY <2>1, <2>2
<1>. QED
  BY <1>4, <1>5

(* From that place on there is nothing but the number up to where it is.   *)
LEMMA CutPlace ==
  ASSUME NEW m \in Nat, NEW pos, \A i \in 1 .. m : pos[i] \in Int,
         \A i, j \in 1 .. m : i < j => pos[i] <= pos[j], NEW t \in Int,
         NEW cut \in 1 .. m + 1, \A i \in 1 .. m : pos[i] < t <=> i < cut,
         NEW i \in 1 .. m, pos[i] = t
  PROVE  i \in cut .. m /\ \A j \in cut .. i : j \in 1 .. m /\ pos[j] = t
<1>1. i \in cut .. m
  OBVIOUS
<1>2. ASSUME NEW j \in cut .. i  PROVE j \in 1 .. m /\ pos[j] = t
  <2>1. j \in 1 .. m /\ ~(j < cut) /\ (j < i \/ j = i)
    BY <1>1
  <2>2. ~(pos[j] < t) /\ pos[j] \in Int
    BY <2>1
  <2>3. pos[j] <= t
    BY <2>1, <2>2
  <2>. QED
    BY <2>1, <2>2, <2>3
<1>. QED
  BY <1>1, <1>2

(* check_ignore_url_list finds an argument of sorted ones if there is one. *)
LEMMA HasArgumentIs ==
  ASSUME NEW args, IsArgs(args), Sorted(args), NEW p, p.name \in ToSet(NameOrder),
         FitsIfValue(p, args)
  PROVE  HasArgument(args, p) <=> \E i \in DOMAIN args : Matches(args[i], p)
<1>1. Len(args) \in Nat /\ DOMAIN args = 1 .. Len(args)
  BY DEF IsArgs
<1>2. CASE p.value = ""
  BY <1>2 DEF HasArgument, Matches
<1>3. CASE p.value # ""
  <2>0. PICK m \in Nat : m = Len(args)
    BY <1>1
  <2>1. PICK pos : pos = [i \in 1 .. m |-> NamePos(args[i].name)]
    OBVIOUS
  <2>2. PICK t : t = NamePos(p.name)
    OBVIOUS
  <2>3. t \in Int /\ NameOrder[t] = p.name
    BY <2>2, PositionIs DEF NamePos
  <2>4. \A i \in 1 .. m : pos[i] \in Int /\ NameOrder[pos[i]] = args[i].name
    <3>1. \A i \in 1 .. m : args[i].name \in ToSet(NameOrder)
      BY <1>1, <2>0 DEF IsArgs
    <3>. QED
      BY <2>1, <3>1, PositionIs DEF NamePos
  <2>30. t \in Int
    BY <2>3
  <2>40. \A i \in 1 .. m : pos[i] \in Int
    BY <2>4
  <2>5. \A i, j \in 1 .. m : i < j => pos[i] <= pos[j]
    BY <1>1, <2>0, <2>1 DEF Sorted, NamePos
  <2>6. \A i \in 1 .. m : Less(args, p.key, i) <=> pos[i] < t
    BY <1>1, <1>3, <2>0, <2>1, <2>2 DEF FitsIfValue, Fits, Less
  <2>7. PICK cut \in 1 .. m + 1 : \A i \in 1 .. m : pos[i] < t <=> i < cut
    BY <2>3, <2>4, <2>5, CutExists
  <2>8. LowerBound(args, p.key) = cut
    <3>1. cut \in 1 .. Len(args) + 1 /\ \A i \in 1 .. Len(args) : Less(args, p.key, i) <=> i < cut
      BY <2>0, <2>6, <2>7
    <3>. QED
      BY <1>1, <3>1, LowerBoundIs
  <2>9. HasArgument(args, p) <=>
          \E i \in cut .. m : (\A j \in cut .. i : args[j].name = p.name) /\ args[i].value = p.value
    BY <1>3, <2>0, <2>8 DEF HasArgument
  <2>10. ASSUME HasArgument(args, p)  PROVE \E i \in DOMAIN args : Matches(args[i], p)
    <3>1. PICK i \in cut .. m : (\A j \in cut .. i : args[j].name = p.name) /\ args[i].value = p.value
      BY <2>9, <2>10
    <3>2. i \in cut .. i /\ i \in 1 .. m
      OBVIOUS
    <3>3. args[i].name = p.name
      BY <3>1, <3>2
    <3>. QED
      BY <1>1, <2>0, <3>1, <3>2, <3>3 DEF Matches
  <2>11. ASSUME NEW i \in 1 .. m, args[i].name = p.name, args[i].value = p.value
         PROVE  HasArgument(args, p)
    <3>1. pos[i] = t
      BY <2>1, <2>2, <2>11
    <3>2. i \in cut .. m /\ \A j \in cut .. i : j \in 1 .. m /\ pos[j] = t
      BY <2>5, <2>7, <2>30, <2>40, <3>1, CutPlace
    <3>3. \A j \in 1 .. m : pos[j] = t => args[j].name = p.name
      BY <2>3, <2>4
    <3>. QED
      BY <2>9, <2>11, <3>2, <3>3
  <2>12. \A i \in DOMAIN args : Matches(args[i], p) =>
            i \in 1 .. m /\ args[i].name = p.name /\ args[i].value = p.value
    BY <1>1, <1>3, <2>0 DEF Matches
  <2>. QED
    BY <2>10, <2>11, <2>12
<1>. QED
  BY <1>2, <1>3

(* The list of ignored URLs can be searched by the text of arguments: they *)
(* are filtered if it names any, and their texts are in the order of their *)
(* names, as far as a pattern can tell.                                    *)
ListsFit ==
  \A i \in DOMAIN cfg.ignored_urls :
    LET p == cfg.ignored_urls[i]
    IN  /\ NotFiltered => p.name = ""
        /\ p.name # "" /\ p.value # "" => \A r \in Records : Fits(p, r.args)

IsSorting(args, b) ==
  /\ IsArgs(b) /\ Sorted(b)
  /\ \A k \in DOMAIN b : \E j \in DOMAIN args : Kept(args[j]) /\ b[k] = args[j]
  /\ \A j \in DOMAIN args : Kept(args[j]) => \E k \in DOMAIN b : b[k] = args[j]

(* The copy that is searched has the arguments that are kept, sorted.      *)
LEMMA SrArgsAre ==
  ASSUME NEW args, IsArgs(args), NEW b, b = ByName(KeptArgs(args))
  PROVE  IsSorting(args, b)
<1>1. PICK a : a = KeptArgs(args)
  OBVIOUS
<1>2. IsArgs(a)
  BY <1>1, KeptArgsAre
<1>3. PICK p : Picks(args, a, p)
  BY <1>1, KeptArgsAre
<1>4. \A k \in DOMAIN a : Kept(a[k])
  BY <1>1, KeptArgsAre
<1>5. \A i \in DOMAIN args : Kept(args[i]) => \E k \in DOMAIN a : a[k] = args[i]
  BY <1>1, KeptArgsAre
<1>6. IsArgs(b) /\ Sorted(b)
  BY <1>1, <1>2, ByNameIs
<1>7. PICK q : Picks(a, b, q)
  BY <1>1, <1>2, ByNameIs
<1>8. \A i \in DOMAIN a : \E k \in DOMAIN b : b[k] = a[i]
  BY <1>1, <1>2, ByNameIs
<1>9. ASSUME NEW k \in DOMAIN b  PROVE \E j \in DOMAIN args : Kept(args[j]) /\ b[k] = args[j]
  <2>1. q[k] \in DOMAIN a /\ b[k] = a[q[k]]
    BY <1>7 DEF Picks
  <2>2. p[q[k]] \in DOMAIN args /\ a[q[k]] = args[p[q[k]]]
    BY <1>3, <2>1 DEF Picks
  <2>3. Kept(a[q[k]])
    BY <1>4, <2>1
  <2>4. Kept(args[p[q[k]]])
    BY <2>2, <2>3
  <2>. QED
    BY <2>1, <2>2, <2>4
<1>. QED
  BY <1>5, <1>6, <1>8, <1>9 DEF IsSorting

(* Nothing is in the empty sequence.                                       *)
LEMMA NothingIn == DOMAIN <<>> = {}
OBVIOUS

(* A pattern of the list matches the sorted copy of a record's arguments   *)
(* exactly if it matches one that the record keeps.                        *)
LEMMA PatternIs ==
  ASSUME NEW r \in Records, cfg \in Configs, ListsFit, NEW i \in DOMAIN cfg.ignored_urls,
         NEW p, p = cfg.ignored_urls[i], p.name # ""
  PROVE  (SrArgs(r.args) # <<>> /\ HasArgument(SrArgs(r.args), p))
           <=> \E j \in DOMAIN r.args : Kept(r.args[j]) /\ Matches(r.args[j], p)
<1>1. PICK args : args = r.args
  OBVIOUS
<1>2. PICK b : b = ByName(KeptArgs(args))
  OBVIOUS
<1>3. SrArgs(r.args) = b
  <2>1. ~NotFiltered /\ ~(\A k \in DOMAIN cfg.ignored_urls : cfg.ignored_urls[k].name = "")
    BY DEF ListsFit
  <2>. QED
    BY <1>1, <1>2, <2>1 DEF SrArgs
<1>4. IsArgs(args)
  BY <1>1, RecordArgs
<1>5. IsSorting(args, b)
  BY <1>2, <1>4, SrArgsAre
<1>6. p.name \in ToSet(NameOrder)
  BY ItemAssumption
<1>7. FitsIfValue(p, b)
  <2>1. SUFFICES ASSUME p.value # ""  PROVE Fits(p, b)
    BY DEF FitsIfValue
  <2>2. Fits(p, args)
    BY <1>1, <2>1 DEF ListsFit
  <2>. QED
    BY <1>5, <2>2 DEF Fits, IsSorting
<1>8. HasArgument(b, p) <=> \E k \in DOMAIN b : Matches(b[k], p)
  BY <1>5, <1>6, <1>7, HasArgumentIs DEF IsSorting
<1>9. DOMAIN <<>> = {}
  BY NothingIn
<1>10. (b # <<>> /\ HasArgument(b, p)) <=> \E k \in DOMAIN b : Matches(b[k], p)
  BY <1>8, <1>9
<1>11. (\E k \in DOMAIN b : Matches(b[k], p))
         <=> \E j \in DOMAIN args : Kept(args[j]) /\ Matches(args[j], p)
  BY <1>5 DEF IsSorting
<1>. QED
  BY <1>1, <1>3, <1>10, <1>11 DEF IsSorting

(* proc_logfile ignores what the configuration asks to leave out.          *)
LEMMA IgnoredIs ==
  ASSUME NEW r \in Records, cfg \in Configs, ListsFit
  PROVE  Ignored(r) <=> Unwanted(r)
<1>1. PICK F : F = Found(cfg.ignored_urls, Aliased(r.url))
  OBVIOUS
<1>2. F \subseteq DOMAIN cfg.ignored_urls
  BY <1>1 DEF Found
<1>. DEFINE Wants(i) == \E j \in DOMAIN r.args :
                          /\ Kept(r.args[j]) /\ r.args[j].name = cfg.ignored_urls[i].name
                          /\ cfg.ignored_urls[i].value \in {"", r.args[j].value}
            Has(i) == SrArgs(r.args) # <<>> /\ HasArgument(SrArgs(r.args), cfg.ignored_urls[i])
<1>3. ASSUME NEW i \in F, cfg.ignored_urls[i].name # ""  PROVE Has(i) <=> Wants(i)
  <2>1. PICK p : p = cfg.ignored_urls[i]
    OBVIOUS
  <2>2. i \in DOMAIN cfg.ignored_urls /\ p.name # ""
    BY <1>2, <1>3, <2>1
  <2>3. Has(i) <=> \E j \in DOMAIN r.args : Kept(r.args[j]) /\ Matches(r.args[j], p)
    BY <2>1, <2>2, PatternIs
  <2>. QED
    BY <2>1, <2>3 DEF Matches
<1>4. UrlIgnored(Aliased(r.url), SrArgs(r.args))
        <=> \E i \in F : cfg.ignored_urls[i].name = "" \/ Has(i)
  BY <1>1 DEF UrlIgnored
<1>. DEFINE HitUrl == \E i \in F : cfg.ignored_urls[i].name = "" \/ Wants(i)
<1>5. UrlIgnored(Aliased(r.url), SrArgs(r.args)) <=> HitUrl
  <2>. HIDE DEF Has, Wants
  <2>. QED
    BY <1>3, <1>4
<1>6. Unwanted(r) <=>
        /\ ~Included(r)
        /\ \/ r.host \in cfg.ignored_hosts \/ r.agent \in cfg.ignored_agents
           \/ r.refer \in cfg.ignored_refs \/ r.user \in cfg.ignored_users
           \/ cfg.ignore_robots /\ RobotAgent(r)
           \/ HitUrl
  BY <1>1, Zenon DEF Unwanted
<1>. HIDE DEF HitUrl
<1>. QED
  BY <1>5, <1>6 DEF Ignored, IgnoredAnyway

(* A record that the configuration asks to leave out changes nothing that  *)
(* is reported, and every other one is a hit, if the lists can be searched *)
(* by text (the ignore block of proc_logfile, check_ignore_url_list).      *)
THEOREM IgnoredNeverCounted == Spec /\ []ListsFit => IgnoredNotCounted
<1>1. Init => cfg \in Configs
  BY DEF Init
<1>2. cfg \in Configs /\ [Next]_vars => (cfg \in Configs)'
  BY DEF Next, ReadRecord, NewMonth, Restart, Done, vars
<1>3. cfg \in Configs /\ ListsFit /\ [Next]_vars => [IgnoredOrCounted]_vars
  <2>. SUFFICES ASSUME cfg \in Configs, ListsFit, [Next]_vars  PROVE IgnoredOrCounted \/ UNCHANGED vars
    OBVIOUS
  <2>1. CASE ReadRecord
    <3>0. PICK r \in Records, over \in BOOLEAN :
            /\ rec' = r
            /\ \E spammers :
                 IF Ignored(r) THEN UNCHANGED <<hosts, active, tables, totals>>
                 ELSE Count(r, over \/ r.host \notin active, spammers)
      BY <2>1 DEF ReadRecord
    <3>1. PICK spammers :
            /\ rec' = r
            /\ IF Ignored(r) THEN UNCHANGED <<hosts, active, tables, totals>>
               ELSE Count(r, over \/ r.host \notin active, spammers)
      BY <3>0
    <3>2. Ignored(r) <=> Unwanted(rec')
      <4>1. Ignored(r) <=> Unwanted(r)
        BY IgnoredIs
      <4>. QED
        BY <3>1, <4>1
    <3>3. ASSUME NEW v, Count(r, v, spammers)  PROVE totals'.t_hit = totals.t_hit + 1
      BY <3>3 DEF Count
    <3>. QED
      BY <3>1, <3>2, <3>3 DEF IgnoredOrCounted
  <2>2. CASE NewMonth \/ Restart \/ Done \/ UNCHANGED vars
    BY <2>2 DEF NewMonth, Restart, Done, vars, IgnoredOrCounted
  <2>. QED
    BY <2>1, <2>2 DEF Next
<1>. QED
  BY <1>1, <1>2, <1>3, PTL DEF Spec, IgnoredNotCounted
=============================================================================
