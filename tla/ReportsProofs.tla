---------------------------- MODULE ReportsProofs ----------------------------
(***************************************************************************)
(* Theorems about the reports of any month, for any configuration. Of the  *)
(* HTML report: a table shows the top of its list, links and anchors lead  *)
(* somewhere, and every visible item is found. Of all engines: the files   *)
(* that they write have the same items, days and well-formed texts.        *)
(***************************************************************************)
EXTENDS Reports, SumsAndRanks

-----------------------------------------------------------------------------
(* Lists and their tops                                                    *)

(* s has all elements of S, in the given order.                            *)
Whole(s, S, order) ==
  /\ s \in Seq(S) /\ IsFiniteSet(S) /\ Len(s) = Cardinality(S)
  /\ \A x \in S : \E i \in 1 .. Len(s) : s[i] = x
  /\ \A i, j \in 1 .. Len(s) : i < j => <<s[i], s[j]>> \in order

(* s has the first n of them.                                              *)
TopOf(s, S, order, n) ==
  /\ s \in Seq(S) /\ Len(s) <= n
  /\ \A i, j \in 1 .. Len(s) : i < j => <<s[i], s[j]>> \in order
  /\ \A x \in S : \/ \E i \in 1 .. Len(s) : s[i] = x
                  \/ \A i \in 1 .. Len(s) : <<s[i], x>> \in order
  /\ Len(s) < n \/ Cardinality(S) <= n => \A x \in S : \E i \in 1 .. Len(s) : s[i] = x
  /\ n > 0 => (s = <<>> <=> S = {})

(* Ranked makes such a list.                                               *)
LEMMA WholeRanked ==
  ASSUME NEW S, IsFiniteSet(S), NEW order, StrictOrder(S, order)
  PROVE  Whole(Ranked(S, order), S, order)
<1>1. PICK s : s = Ranked(S, order)
  OBVIOUS
<1>2. PICK m : m = Cardinality(S)
  OBVIOUS
<1>3. /\ m \in Nat /\ s \in [1 .. m -> S]
      /\ \A x \in S : \E k \in 1 .. m : s[k] = x
      /\ \A i, j \in 1 .. m : i < j <=> <<s[i], s[j]>> \in order
  BY <1>1, <1>2, RankedIs
<1>4. s \in Seq(S) /\ Len(s) = m
  BY <1>3
<1>. QED
  BY <1>1, <1>2, <1>3, <1>4 DEF Whole

(* A sequence without elements is the whole of nothing.                    *)
LEMMA WholeEmpty == ASSUME NEW order PROVE Whole(<<>>, {}, order)
<1>1. IsFiniteSet({}) /\ Cardinality({}) = 0
  BY FS_EmptySet
<1>. QED
  BY <1>1 DEF Whole

(* Two lists, one after the other.                                         *)
LEMMA WholeJoined ==
  ASSUME NEW s, NEW S, NEW t, NEW T, NEW o, NEW p, NEW order,
         Whole(s, S, o), Whole(t, T, p), S \cap T = {},
         \A x, y \in S : <<x, y>> \in o => <<x, y>> \in order,
         \A x, y \in T : <<x, y>> \in p => <<x, y>> \in order,
         \A x \in S, y \in T : <<x, y>> \in order
  PROVE  Whole(s \o t, S \cup T, order)
<1>1. PICK m \in Nat : m = Len(s)
  BY DEF Whole
<1>2. PICK n \in Nat : n = Len(t)
  BY DEF Whole
<1>3. PICK u : u = s \o t
  OBVIOUS
<1>4. s \in Seq(S \cup T) /\ t \in Seq(S \cup T)
  <2>1. s \in [1 .. m -> S] /\ t \in [1 .. n -> T]
    BY <1>1, <1>2 DEF Whole
  <2>2. s \in [1 .. m -> S \cup T] /\ t \in [1 .. n -> S \cup T]
    BY <2>1
  <2>. QED
    BY <1>1, <1>2, <2>2
<1>5. /\ u \in Seq(S \cup T) /\ Len(u) = m + n
      /\ \A i \in 1 .. m : u[i] = s[i]
      /\ \A i \in m + 1 .. m + n : u[i] = t[i - m]
  BY <1>1, <1>2, <1>3, <1>4
<1>6. IsFiniteSet(S \cup T) /\ Cardinality(S \cup T) = m + n
  <2>1. Cardinality(S \cap T) = 0
    BY FS_EmptySet
  <2>2. IsFiniteSet(S) /\ IsFiniteSet(T) /\ Cardinality(S) = m /\ Cardinality(T) = n
    BY <1>1, <1>2 DEF Whole
  <2>3. Cardinality(S \cup T) = Cardinality(S) + Cardinality(T) - Cardinality(S \cap T)
    BY <2>2, FS_Union
  <2>4. IsFiniteSet(S \cup T)
    BY <2>2, FS_Union
  <2>. QED
    BY <2>1, <2>2, <2>3, <2>4
<1>7. ASSUME NEW x \in S \cup T  PROVE \E i \in 1 .. m + n : u[i] = x
  <2>1. CASE x \in S
    <3>1. PICK i \in 1 .. m : s[i] = x
      BY <1>1, <2>1 DEF Whole
    <3>. QED
      BY <1>5, <3>1
  <2>2. CASE x \in T
    <3>1. PICK i \in 1 .. n : t[i] = x
      BY <1>2, <2>2 DEF Whole
    <3>2. i + m \in m + 1 .. m + n /\ (i + m) - m = i
      OBVIOUS
    <3>3. u[i + m] = t[i]
      BY <1>5, <3>2
    <3>. QED
      BY <3>1, <3>2, <3>3
  <2>. QED
    BY <2>1, <2>2
<1>8. ASSUME NEW i \in 1 .. m + n, NEW j \in 1 .. m + n, i < j  PROVE <<u[i], u[j]>> \in order
  <2>0. /\ \A k \in 1 .. m : s[k] \in S
        /\ \A k \in 1 .. n : t[k] \in T
    BY <1>1, <1>2 DEF Whole
  <2>1. CASE j <= m
    <3>1. i \in 1 .. m /\ j \in 1 .. m
      BY <1>8, <2>1
    <3>2. <<s[i], s[j]>> \in o /\ s[i] \in S /\ s[j] \in S
      BY <1>1, <1>8, <2>0, <3>1 DEF Whole
    <3>. QED
      BY <1>5, <3>1, <3>2
  <2>2. CASE i <= m /\ m < j
    <3>1. i \in 1 .. m /\ j \in m + 1 .. m + n /\ j - m \in 1 .. n
      BY <2>2
    <3>2. u[i] = s[i] /\ u[j] = t[j - m] /\ s[i] \in S /\ t[j - m] \in T
      BY <1>5, <2>0, <3>1
    <3>. QED
      BY <3>2
  <2>3. CASE m < i
    <3>1. /\ i \in m + 1 .. m + n /\ j \in m + 1 .. m + n
          /\ i - m \in 1 .. n /\ j - m \in 1 .. n /\ i - m < j - m
      BY <1>8, <2>3
    <3>2. <<t[i - m], t[j - m]>> \in p /\ t[i - m] \in T /\ t[j - m] \in T
      BY <1>2, <2>0, <3>1 DEF Whole
    <3>. QED
      BY <1>5, <3>1, <3>2
  <2>. QED
    BY <1>8, <2>1, <2>2, <2>3
<1>. QED
  BY <1>3, <1>5, <1>6, <1>7, <1>8 DEF Whole

(* The first elements of a list are its top.                               *)
LEMMA TakeIs ==
  ASSUME NEW s, NEW S, NEW order, Whole(s, S, order), NEW n \in Nat
  PROVE  TopOf(Take(s, n), S, order, n)
<1>1. PICK m \in Nat : m = Len(s)
  BY DEF Whole
<1>2. PICK k \in Nat : k = IF n < m THEN n ELSE m
  OBVIOUS
<1>3. PICK t : t = Take(s, n)
  OBVIOUS
<1>4. t \in Seq(S) /\ Len(t) = k /\ \A i \in 1 .. k : t[i] = s[i]
  <2>1. t = SubSeq(s, 1, k)
    BY <1>1, <1>2, <1>3 DEF Take
  <2>2. s \in Seq(S) /\ k <= m
    BY <1>2 DEF Whole
  <2>. QED
    BY <1>1, <2>1, <2>2
<1>5. k <= n /\ k <= m /\ (k < n => k = m) /\ (m <= n => k = m) /\ (k < m => k = n)
  BY <1>2
<1>6. Cardinality(S) = m
  BY <1>1 DEF Whole
<1>7. \A i, j \in 1 .. m : i < j => <<s[i], s[j]>> \in order
  BY <1>1 DEF Whole
<1>8. \A x \in S : \E i \in 1 .. m : s[i] = x
  BY <1>1 DEF Whole
<1>9. \A i, j \in 1 .. k : i < j => <<t[i], t[j]>> \in order
  BY <1>4, <1>5, <1>7
<1>10. ASSUME NEW x \in S
       PROVE  (\E i \in 1 .. k : t[i] = x) \/ \A i \in 1 .. k : <<t[i], x>> \in order
  <2>1. PICK j \in 1 .. m : s[j] = x
    BY <1>8
  <2>2. CASE j <= k
    BY <1>4, <2>1, <2>2
  <2>3. CASE k < j
    <3>1. ASSUME NEW i \in 1 .. k  PROVE <<t[i], x>> \in order
      BY <1>4, <1>5, <1>7, <2>1, <2>3
    <3>. QED
      BY <3>1
  <2>. QED
    BY <2>2, <2>3
<1>11. k < n \/ m <= n => \A x \in S : \E i \in 1 .. k : t[i] = x
  BY <1>4, <1>5, <1>8
<1>12. n > 0 => (t = <<>> <=> S = {})
  <2>1. t = <<>> <=> k = 0
    BY <1>4
  <2>2. S = {} => m = 0
    BY <1>6, FS_EmptySet
  <2>3. m = 0 => S = {}
    BY <1>8
  <2>. QED
    BY <1>2, <2>1, <2>2, <2>3
<1>. QED
  BY <1>3, <1>4, <1>5, <1>6, <1>9, <1>10, <1>11, <1>12 DEF TopOf

-----------------------------------------------------------------------------
(* The order of an index                                                   *)

Fields == {"hits", "xfer", "visits"}

(* No two items of a table have the same place in an index.                *)
LEMMA IndexIsStrict ==
  ASSUME ReportInput, NEW k \in Kind, NEW S \in SUBSET database[k], NEW field \in Fields
  PROVE  IsFiniteSet(S) /\ StrictOrder(S, IndexOrder(k, field, S))
<1>1. IsFiniteSet(S)
  BY FS_Subset DEF ReportInput
<1>2. PICK o : o = IndexOrder(k, field, S)
  OBVIOUS
<1>3. \A x, y \in S : <<x, y>> \in o <=> Outranks(k, field, x, y)
  BY <1>2 DEF IndexOrder
<1>4. \A x \in S : x[field] \in Nat /\ x.nodeid \in Nat
  BY DEF ReportInput, Fields
<1>5. \A x, y \in S : x.nodeid = y.nodeid => x = y
  BY DEF ReportInput
<1>7. \/ \A x, y \in S : Outranks(k, field, x, y) <=>
           x[field] > y[field] \/ (x[field] = y[field] /\ x.nodeid < y.nodeid)
      \/ \A x, y \in S : Outranks(k, field, x, y) <=>
           x[field] > y[field] \/ (x[field] = y[field] /\ x.nodeid > y.nodeid)
  <2>1. CASE k \in {"countries", "cities", "asn"}
    BY <2>1 DEF Outranks
  <2>2. CASE k \notin {"countries", "cities", "asn"}
    BY <2>2 DEF Outranks
  <2>. QED
    BY <2>1, <2>2
<1>8. \A x, y \in S : x = y \/ <<x, y>> \in o \/ <<y, x>> \in o
  <2>. SUFFICES ASSUME NEW x \in S, NEW y \in S  PROVE x = y \/ <<x, y>> \in o \/ <<y, x>> \in o
    OBVIOUS
  <2>1. CASE x.nodeid = y.nodeid
    BY <1>5, <2>1
  <2>2. CASE x.nodeid # y.nodeid
    <3>1. x[field] \in Nat /\ y[field] \in Nat /\ x.nodeid \in Nat /\ y.nodeid \in Nat
      BY <1>4
    <3>2. x[field] > y[field] \/ y[field] > x[field] \/ x[field] = y[field]
      BY <3>1
    <3>3. x.nodeid > y.nodeid \/ y.nodeid > x.nodeid
      BY <2>2, <3>1
    <3>. QED
      BY <1>3, <1>7, <3>2, <3>3
  <2>. QED
    BY <2>1, <2>2
<1>9. \A x, y \in S : <<x, y>> \in o => x # y /\ <<y, x>> \notin o
  BY <1>3, <1>4, <1>7
<1>10. \A x, y, z \in S : <<x, y>> \in o /\ <<y, z>> \in o => <<x, z>> \in o
  BY <1>3, <1>4, <1>7
<1>. QED
  BY <1>1, <1>2, <1>8, <1>9, <1>10 DEF StrictOrder

(* A report that is read from an index has all items it does not skip.     *)
LEMMA IndexIs ==
  ASSUME ReportInput, NEW k \in Kind, NEW S \in SUBSET database[k], NEW field \in Fields
  PROVE  /\ field \in index_desc[k].all => Whole(IndexOf(k, field, S), S, IndexOrder(k, field, S))
         /\ field \in index_desc[k].groups /\ S = {n \in database[k] : n.grp} =>
              Whole(GroupsOf(k, field), S, IndexOrder(k, field, S))
<1>1. Whole(ReadBack(k, field, S), S, IndexOrder(k, field, S))
  BY IndexIsStrict, WholeRanked DEF ReadBack
<1>. QED
  BY <1>1 DEF IndexOf, GroupsOf

GroupTables == {"urls", "urlsK", "hosts", "hostsK", "referrers", "agents", "users"}

(* Each table has an index, and a table with groups one for them.          *)
LEMMA TableIndexes ==
  /\ \A name \in Kind \cup {"urlsK", "hostsK"} :
       /\ KindOf(name) \in Kind /\ Field(name) \in Fields
       /\ Field(name) \in index_desc[KindOf(name)].all
  /\ \A name \in GroupTables :
       /\ name \in Kind \cup {"urlsK", "hostsK"} /\ KindOf(name) \in Grouped
       /\ Field(name) \in index_desc[KindOf(name)].groups
<1>1. \A name \in Kind \cup {"urlsK", "hostsK"} : KindOf(name) \in Kind /\ Field(name) \in Fields
  BY DEF Kind, KindOf, Field, Fields
<1>2. \A name \in Kind \cup {"urlsK", "hostsK"} : Field(name) \in index_desc[KindOf(name)].all
  BY DEF Kind, KindOf, Field, index_desc
<1>3. \A name \in GroupTables :
        name \in Kind \cup {"urlsK", "hostsK"} /\ KindOf(name) \in Grouped
  BY DEF GroupTables, Kind, KindOf, Grouped
<1>4. \A name \in GroupTables : Field(name) \in index_desc[KindOf(name)].groups
  BY DEF GroupTables, Kind, KindOf, Field, index_desc
<1>. QED
  BY <1>1, <1>2, <1>3, <1>4

(* The items that a table may have, and their order.                       *)
ShownBy(name) ==
  {n \in Visible(KindOf(name)) : name = "hostsK" /\ n.grp => ~config.bundle_groups}

AboveOrder(name, S) == {p \in S \X S : Above(name, p[1], p[2])}

(* The rows of a table with groups are the top of what it may have.        *)
LEMMA TopRowsAre ==
  ASSUME ReportInput, NEW name \in GroupTables, NEW k, k = KindOf(name),
         NEW bundled, bundled = IF name = "hostsK" THEN <<>> ELSE Bundled(k, Field(name)),
         NEW S, S = ShownBy(name)
  PROVE  TopOf(TopRows(k, Field(name), bundled, config.ntop[name]), S, AboveOrder(name, S),
               config.ntop[name])
<1>1. PICK f : f = Field(name)
  OBVIOUS
<1>2. PICK B \in BOOLEAN : B <=> config.bundle_groups
  OBVIOUS
<1>3. PICK R : R = {n \in Visible(k) : n.grp => ~config.bundle_groups}
  OBVIOUS
<1>4. PICK G : G = IF B /\ name # "hostsK" THEN {n \in database[k] : n.grp} ELSE {}
  OBVIOUS
<1>5. /\ k \in Kind /\ f \in Fields /\ name \in Kind \cup {"urlsK", "hostsK"}
      /\ f \in index_desc[k].all /\ f \in index_desc[k].groups
  BY <1>1, TableIndexes
<1>6. R \in SUBSET database[k] /\ G \in SUBSET database[k] /\ Visible(k) \subseteq database[k]
  BY <1>3, <1>4 DEF Visible
<1>7. Whole(IndexOf(k, f, R), R, IndexOrder(k, f, R))
  BY <1>5, <1>6, IndexIs
<1>8. Whole(bundled, G, IndexOrder(k, f, G))
  <2>1. CASE B /\ name # "hostsK"
    <3>1. bundled = GroupsOf(k, f) /\ G = {n \in database[k] : n.grp}
      BY <1>1, <1>2, <1>4, <2>1 DEF Bundled
    <3>. QED
      BY <1>5, <1>6, <3>1, IndexIs
  <2>2. CASE ~(B /\ name # "hostsK")
    <3>1. bundled = <<>> /\ G = {}
      BY <1>1, <1>2, <1>4, <2>2 DEF Bundled
    <3>. QED
      BY <3>1, WholeEmpty
  <2>. QED
    BY <2>1, <2>2
<1>9. S = G \cup R
  BY <1>2, <1>3, <1>4 DEF ShownBy, Visible
<1>10. /\ \A x \in R : B => ~x.grp
       /\ \A x \in G : B /\ x.grp
  BY <1>2, <1>3, <1>4
<1>11. G \cap R = {}
  BY <1>10
<1>12. PICK order : order = AboveOrder(name, S)
  OBVIOUS
<1>13. \A x, y \in S : <<x, y>> \in order <=>
         IF B /\ x.grp # y.grp THEN x.grp ELSE Outranks(k, f, x, y)
  BY <1>1, <1>2, <1>12 DEF AboveOrder, Above
<1>14. \A x \in S : x.grp \in BOOLEAN
  BY <1>5, <1>6, <1>9 DEF ReportInput
<1>15. \A x, y \in R : <<x, y>> \in IndexOrder(k, f, R) => <<x, y>> \in order
  <2>. SUFFICES ASSUME NEW x \in R, NEW y \in R, <<x, y>> \in IndexOrder(k, f, R)
       PROVE  <<x, y>> \in order
    OBVIOUS
  <2>1. Outranks(k, f, x, y)
    BY DEF IndexOrder
  <2>2. ~(B /\ x.grp # y.grp)
    BY <1>9, <1>10, <1>14
  <2>. QED
    BY <1>9, <1>13, <2>1, <2>2
<1>16. \A x, y \in G : <<x, y>> \in IndexOrder(k, f, G) => <<x, y>> \in order
  <2>. SUFFICES ASSUME NEW x \in G, NEW y \in G, <<x, y>> \in IndexOrder(k, f, G)
       PROVE  <<x, y>> \in order
    OBVIOUS
  <2>1. Outranks(k, f, x, y)
    BY DEF IndexOrder
  <2>2. ~(B /\ x.grp # y.grp)
    BY <1>9, <1>10, <1>14
  <2>. QED
    BY <1>9, <1>13, <2>1, <2>2
<1>17. \A x \in G, y \in R : <<x, y>> \in order
  BY <1>9, <1>10, <1>13, <1>14
<1>18. Whole(bundled \o IndexOf(k, f, R), S, order)
  BY <1>7, <1>8, <1>9, <1>11, <1>15, <1>16, <1>17, WholeJoined
<1>19. config.ntop[name] \in Nat
  BY <1>5 DEF ReportInput
<1>20. TopOf(Take(bundled \o IndexOf(k, f, R), config.ntop[name]), S, order, config.ntop[name])
  BY <1>18, <1>19, TakeIs
<1>. QED
  BY <1>1, <1>3, <1>12, <1>20 DEF TopRows

(* The top of what a table may have is the top of its list.                *)
LEMMA TopIsTopOfList ==
  ASSUME NEW name, NEW S, S \subseteq Visible(KindOf(name)),
         \A a \in Visible(KindOf(name)) \ S :
           a.hits > 0 => name = "hostsK" /\ config.bundle_groups /\ a.grp,
         NEW n \in Nat, config.ntop[name] \in Nat, n <= config.ntop[name],
         NEW rows, TopOf(rows, S, AboveOrder(name, S), n)
  PROVE  TopOfList(name, rows)
<1>1. PICK m \in Nat : m = Len(rows)
  BY DEF TopOf
<1>2. /\ DOMAIN rows = 1 .. m /\ \A i \in 1 .. m : rows[i] \in S
      /\ ToSet(rows) = {rows[i] : i \in 1 .. m}
  BY <1>1 DEF TopOf, ToSet
<1>3. \A x, y \in S : <<x, y>> \in AboveOrder(name, S) <=> Above(name, x, y)
  BY DEF AboveOrder
<1>4. \A i, j \in DOMAIN rows : i < j => Above(name, rows[i], rows[j])
  BY <1>1, <1>2, <1>3 DEF TopOf
<1>5. ASSUME NEW a \in Visible(KindOf(name)) \ ToSet(rows), NEW b \in ToSet(rows),
             a.hits > 0, ~(name = "hostsK" /\ config.bundle_groups /\ a.grp)
      PROVE  Above(name, b, a)
  <2>1. a \in S
    BY <1>5
  <2>2. PICK i \in 1 .. m : b = rows[i]
    BY <1>2
  <2>3. <<rows[i], a>> \in AboveOrder(name, S)
    BY <1>1, <1>2, <2>1 DEF TopOf
  <2>. QED
    BY <1>2, <1>3, <2>1, <2>2, <2>3
<1>. QED
  BY <1>1, <1>2, <1>4, <1>5 DEF TopOf, TopOfList

-----------------------------------------------------------------------------
(* Items of a month                                                        *)

(* Counts are those of all items; a kind without regular items has none.   *)
LEMMA ItemCounts ==
  ASSUME ReportInput, NEW k \in Kind
  PROVE  /\ Total(k) \in Nat /\ GroupTotal(k) \in Nat
         /\ Total(k) + GroupTotal(k) = Cardinality(database[k])
         /\ Total(k) = 0 => database[k] = {}
<1>1. PICK R : R = {n \in database[k] : ~n.grp}
  OBVIOUS
<1>2. PICK G : G = {n \in database[k] : n.grp}
  OBVIOUS
<1>3. IsFiniteSet(R) /\ IsFiniteSet(G)
  BY <1>1, <1>2, FS_Subset DEF ReportInput
<1>4. R \cup G = database[k] /\ R \cap G = {}
  BY <1>1, <1>2 DEF ReportInput
<1>5. Cardinality(R \cup G) = Cardinality(R) + Cardinality(G) - Cardinality(R \cap G)
  BY <1>3, FS_Union
<1>6. Cardinality(R) \in Nat /\ Cardinality(G) \in Nat
  BY <1>3, FS_CardinalityType
<1>7. Cardinality(R \cap G) = 0
  BY <1>4, FS_EmptySet
<1>8. Cardinality(R) = 0 => database[k] = {}
  <2>1. Cardinality(R) = 0 => R = {}
    BY <1>3, FS_EmptySet
  <2>2. R = {} => G = {}
    BY <1>1, <1>2 DEF ReportInput
  <2>. QED
    BY <1>4, <2>1, <2>2
<1>9. Total(k) = Cardinality(R) /\ GroupTotal(k) = Cardinality(G)
  BY <1>1, <1>2 DEF Total, GroupTotal
<1>10. Cardinality(database[k]) = Cardinality(R) + Cardinality(G)
  <2>1. Cardinality(database[k]) = Cardinality(R \cup G)
    BY <1>4, Zenon
  <2>. QED
    BY <1>5, <1>6, <1>7, <2>1
<1>. QED
  BY <1>6, <1>8, <1>9, <1>10

(* The hits of all search strings are none only if no string has any.      *)
LEMMA SearchHitsCount ==
  ASSUME ReportInput
  PROVE  /\ SearchHits \in Nat
         /\ SearchHits = 0 => \A n \in database["search"] : n.hits = 0
<1>1. PICK S : S = database["search"]
  OBVIOUS
<1>2. PICK f : f = [n \in S |-> n.hits]
  OBVIOUS
<1>3. IsFiniteSet(S) /\ \A n \in S : f[n] \in Nat /\ f[n] = n.hits
  BY <1>1, <1>2 DEF ReportInput, Kind
<1>4. SearchHits = SumFunctionOnSet(f, S)
  BY <1>1, <1>2 DEF SearchHits, SumFunction
<1>5. SumFunctionOnSet(f, S) \in Nat
  BY <1>3, SumNat
<1>6. ASSUME NEW n \in S, SumFunctionOnSet(f, S) = 0  PROVE n.hits = 0
  <2>1. PICK T : T = S \ {n}
    OBVIOUS
  <2>2. IsFiniteSet(T) /\ n \notin T /\ T \cup {n} = S /\ T \subseteq S
    BY <1>3, <2>1, FS_Subset
  <2>3. SumFunctionOnSet(f, T) \in Nat
    BY <1>3, <2>2, SumNat
  <2>4. SumFunctionOnSet(f, T \cup {n}) = f[n] + SumFunctionOnSet(f, T)
    <3>1. \A x \in T \cup {n} : f[x] \in Int
      BY <1>3, <2>2
    <3>. QED
      BY <2>2, <3>1, SumAdd
  <2>5. SumFunctionOnSet(f, T \cup {n}) = SumFunctionOnSet(f, S)
    BY <2>2, Zenon
  <2>6. f[n] \in Nat /\ f[n] = n.hits
    BY <1>3
  <2>. QED
    BY <1>6, <2>3, <2>4, <2>5, <2>6
<1>. QED
  BY <1>1, <1>4, <1>5, <1>6

-----------------------------------------------------------------------------
(* Tables of the page                                                      *)

Names == Kind \cup {"urlsK", "hostsK", "entry", "exit", "monthly", "daily", "hourly"}

(* A table that the configuration asks for                                 *)
Asked(name) ==
  CASE name = "monthly" -> "monthly" \in config.stats
    [] name \in {"daily", "hourly"} -> name \in config.stats \cup config.graphs
    [] name = "cities" -> config.ntop[name] > 0 /\ config.geoip_city
    [] name = "asn" -> config.ntop[name] > 0 /\ config.asn_db
    [] OTHER -> config.ntop[name] > 0

(* A table that has nothing to show                                        *)
Skipped(name) ==
  CASE name \in GroupTables -> Total(KindOf(name)) = 0 \/ ShownBy(name) = {}
    [] name \in {"downloads", "errors"} -> Total(name) = 0
    [] name = "search" -> SearchHits = 0 \/ Total("search") = 0
    [] name \in {"entry", "exit"} -> TRUE
    [] OTHER -> FALSE

(* The table of its kind that has the anchor and the link                  *)
LeadsKind(name) ==
  name \in {"urlsK", "hostsK"} => config.ntop[KindOf(name)] = 0

Anchor(name) ==
  CASE name = "monthly" -> None
    [] name \in {"urlsK", "hostsK"} -> IF LeadsKind(name) THEN KindOf(name) ELSE None
    [] OTHER -> name

AllPage(k) ==
  CASE k = "urls" -> all_urls_page
    [] k = "hosts" -> all_hosts_page
    [] k = "referrers" -> all_refs_page
    [] k = "agents" -> all_agents_page
    [] k = "users" -> all_users_page
    [] k = "downloads" -> all_downloads_page
    [] k = "errors" -> all_errors_page
    [] k = "search" -> all_search_page
    [] OTHER -> <<>>

(* A link leads to a page with all rows; without one all items that are    *)
(* wanted are in the table.                                                *)
LinkedWell(name, rows, link) ==
  /\ link = None \/ (/\ link = KindOf(name) /\ LeadsKind(name)
                     /\ link \in Kind /\ ToSet(rows) \cup Wanted(link) \subseteq ToSet(AllPage(link)))
  /\ link = None /\ LeadsKind(name) /\ KindOf(name) \in config.all \ MayFail
       => Wanted(KindOf(name)) \subseteq ToSet(rows)

(* The table of days has those that are reported.                          *)
DaysListed(name, rows) == name = "daily" /\ "daily" \in config.stats => rows = ReportedDays

GoodTable(t) ==
  /\ t.name \in Names /\ Asked(t.name)
  /\ t.anchor = Anchor(t.name)
  /\ Skipped(t.name) => t.name \in {"entry", "exit"}
  /\ Listed(t) => TopOfList(t.name, t.rows)
  /\ DaysListed(t.name, t.rows)
  /\ LinkedWell(t.name, t.rows, t.link)

(* An all-items page has all items that are visible, and no others than    *)
(* those of its table.                                                     *)
LEMMA AllPageHas ==
  ASSUME ReportInput, NEW k \in Kind \ {"countries", "cities", "asn"}
  PROVE  Visible(k) \subseteq ToSet(AllPage(k)) /\ ToSet(AllPage(k)) \subseteq database[k]
<1>1. ASSUME NEW s, NEW S, NEW order, Whole(s, S, order)  PROVE ToSet(s) = S
  <2>1. PICK m \in Nat : m = Len(s)
    BY <1>1 DEF Whole
  <2>2. /\ DOMAIN s = 1 .. m /\ \A i \in 1 .. m : s[i] \in S
        /\ \A x \in S : \E i \in 1 .. m : s[i] = x
    BY <1>1, <2>1 DEF Whole
  <2>. QED
    BY <2>2 DEF ToSet
<1>2. ASSUME NEW f \in Fields, f \in index_desc[k].all, f \in index_desc[k].groups
      PROVE  LET all == GroupsThenRegular(k, f)
             IN  Visible(k) \subseteq ToSet(all) /\ ToSet(all) \subseteq database[k]
  <2>1. PICK G : G = {n \in database[k] : n.grp}
    OBVIOUS
  <2>2. PICK R : R = Visible(k) \cap Regulars(k)
    OBVIOUS
  <2>3. /\ G \in SUBSET database[k] /\ R \in SUBSET database[k]
        /\ G \cap R = {} /\ Visible(k) = G \cup R
    BY <2>1, <2>2 DEF Visible, Regulars
  <2>4. /\ Whole(GroupsOf(k, f), G, IndexOrder(k, f, G))
        /\ Whole(IndexOf(k, f, R), R, IndexOrder(k, f, R))
    BY <1>2, <2>1, <2>3, IndexIs
  <2>5. PICK order : order = (G \X G) \cup (R \X R) \cup (G \X R)
    OBVIOUS
  <2>6. Whole(GroupsOf(k, f) \o IndexOf(k, f, R), G \cup R, order)
    BY <2>3, <2>4, <2>5, WholeJoined
  <2>. QED
    BY <1>1, <2>2, <2>3, <2>6 DEF GroupsThenRegular
<1>3. ASSUME NEW f \in Fields, f \in index_desc[k].all
      PROVE  LET all == AllItems(k, f)
             IN  Visible(k) \subseteq ToSet(all) /\ ToSet(all) \subseteq database[k]
  <2>1. database[k] \in SUBSET database[k] /\ Visible(k) \subseteq database[k]
    BY DEF Visible
  <2>2. Whole(AllItems(k, f), database[k], IndexOrder(k, f, database[k]))
    BY <1>3, <2>1, IndexIs DEF AllItems
  <2>. QED
    BY <1>1, <2>1, <2>2
<1>4. CASE k \in {"urls", "hosts", "referrers", "users"}
  <2>1. "hits" \in Fields /\ "hits" \in index_desc[k].all /\ "hits" \in index_desc[k].groups
    BY <1>4 DEF Fields, index_desc, Kind
  <2>2. AllPage(k) = GroupsThenRegular(k, "hits")
    BY <1>4 DEF AllPage, all_urls_page, all_hosts_page, all_refs_page, all_users_page
  <2>. QED
    BY <1>2, <2>1, <2>2
<1>5. CASE k = "agents"
  <2>1. "visits" \in Fields /\ "visits" \in index_desc[k].all /\ "visits" \in index_desc[k].groups
    BY <1>5 DEF Fields, index_desc, Kind
  <2>2. AllPage(k) = GroupsThenRegular(k, "visits")
    BY <1>5 DEF AllPage, all_agents_page
  <2>. QED
    BY <1>2, <2>1, <2>2
<1>6. CASE k = "downloads"
  <2>1. "xfer" \in Fields /\ "xfer" \in index_desc[k].all
    BY <1>6 DEF Fields, index_desc, Kind
  <2>2. AllPage(k) = AllItems(k, "xfer")
    BY <1>6 DEF AllPage, all_downloads_page
  <2>. QED
    BY <1>3, <2>1, <2>2
<1>7. CASE k \in {"errors", "search"}
  <2>1. "hits" \in Fields /\ "hits" \in index_desc[k].all
    BY <1>7 DEF Fields, index_desc, Kind
  <2>2. AllPage(k) = AllItems(k, "hits")
    BY <1>7 DEF AllPage, all_errors_page, all_search_page
  <2>. QED
    BY <1>3, <2>1, <2>2
<1>. QED
  BY <1>4, <1>5, <1>6, <1>7 DEF Kind

-----------------------------------------------------------------------------
(* What an action writes                                                   *)

Writes(name) ==
  /\ todo # <<>> /\ Head(todo) = name /\ todo' = Tail(todo)
  /\ \/ Skipped(name) /\ page' = page /\ pages' = pages
     \/ \E t : /\ t.name = name /\ GoodTable(t) /\ page' = Append(page, t)
               /\ \/ t.link = None /\ pages' = pages
                  \/ /\ t.link # None
                     /\ pages' = [k \in DOMAIN pages \cup {t.link} |->
                                    IF k = t.link THEN AllPage(t.link) ELSE pages[k]]

(* What a table has to satisfy, apart from its link                        *)
GoodRows(name, rows) ==
  /\ name \in Names /\ Asked(name) /\ (Skipped(name) => name \in {"entry", "exit"})
  /\ name \in Kind \cup {"urlsK", "hostsK"} => TopOfList(name, rows)
  /\ DaysListed(name, rows)

(* The tables of a kind, by their names                                    *)
LEMMA ListedNames ==
  /\ \A t : Listed(t) <=> t.name \in Kind \cup {"urlsK", "hostsK"}
  /\ \A k \in Kind, name \in Names : name \in ListOf(k) <=> KindOf(name) = k
  /\ \A name \in Names \ (Kind \cup {"urlsK", "hostsK"}) : KindOf(name) = name /\ name \notin Kind
  /\ \A k \in Kind : k # None
<1>1. DOMAIN ByTransfer = {"urls", "hosts"}
      /\ ByTransfer["urls"] = "urlsK" /\ ByTransfer["hosts"] = "hostsK"
  BY DEF ByTransfer
<1>2. \A k : ListOf(k) = CASE k = "urls" -> {"urls", "urlsK"} [] k = "hosts" -> {"hosts", "hostsK"}
                           [] OTHER -> {k}
  BY <1>1 DEF ListOf
<1>3. \A t : Listed(t) <=> t.name \in Kind \cup {"urlsK", "hostsK"}
  BY <1>2 DEF Listed, Kind
<1>4. \A k \in Kind, name \in Names : name \in ListOf(k) <=> KindOf(name) = k
  BY <1>2 DEF Names, Kind, KindOf
<1>5. \A name \in Names \ (Kind \cup {"urlsK", "hostsK"}) : KindOf(name) = name /\ name \notin Kind
  BY DEF Names, Kind, KindOf
<1>6. \A k \in Kind : k # None
  BY DEF Kind, None
<1>. QED
  BY <1>3, <1>4, <1>5, <1>6

(* A table without a link                                                  *)
LEMMA TableWritten ==
  ASSUME NEW name, NEW rows, GoodRows(name, rows), LinkedWell(name, rows, None),
         todo # <<>>, Head(todo) = name, Table(name, Anchor(name), rows)
  PROVE  Writes(name)
<1>1. PICK t : t = [name |-> name, anchor |-> Anchor(name), rows |-> rows, link |-> None]
  OBVIOUS
<1>2. t.name = name /\ t.anchor = Anchor(name) /\ t.rows = rows /\ t.link = None
  BY <1>1
<1>3. todo' = Tail(todo) /\ page' = Append(page, t) /\ pages' = pages
  BY <1>1 DEF Table
<1>4. GoodTable(t)
  BY <1>2, ListedNames DEF GoodTable, GoodRows
<1>. QED
  BY <1>2, <1>3, <1>4 DEF Writes

(* A table that links to a page of all items, if it could be opened        *)
LEMMA TableAndPageWritten ==
  ASSUME NEW name, NEW rows, NEW k, k = KindOf(name), Anchor(name) = k, k # None,
         GoodRows(name, rows), LinkedWell(name, rows, k),
         k \in MayFail => LinkedWell(name, rows, None),
         todo # <<>>, Head(todo) = name, TableAndPage(name, rows, k, AllPage(k))
  PROVE  Writes(name)
<1>1. CASE k \in MayFail /\ Table(name, k, rows)
  BY <1>1, TableWritten
<1>2. CASE /\ todo' = Tail(todo)
           /\ page' = Append(page, [name |-> name, anchor |-> k, rows |-> rows, link |-> k])
           /\ pages' = [j \in DOMAIN pages \cup {k} |-> IF j = k THEN AllPage(k) ELSE pages[j]]
  <2>1. PICK t : t = [name |-> name, anchor |-> k, rows |-> rows, link |-> k]
    OBVIOUS
  <2>2. t.name = name /\ t.anchor = Anchor(name) /\ t.rows = rows /\ t.link = k
    BY <2>1
  <2>3. GoodTable(t)
    BY <2>2, ListedNames DEF GoodTable, GoodRows
  <2>4. page' = Append(page, t)
    BY <1>2, <2>1
  <2>5. pages' = [j \in DOMAIN pages \cup {t.link} |-> IF j = t.link THEN AllPage(t.link) ELSE pages[j]]
    BY <1>2, <2>2
  <2>. QED
    BY <1>2, <2>2, <2>3, <2>4, <2>5 DEF Writes
<1>. QED
  BY <1>1, <1>2 DEF TableAndPage

(* Rows that are the top of what a table may have are linked well: with a  *)
(* page of all items, and without it if there are no more than the rows.   *)
LEMMA RowsLinked ==
  ASSUME ReportInput, NEW name \in Kind \cup {"urlsK", "hostsK"}, NEW k, k = KindOf(name),
         NEW S, S \subseteq Visible(k), LeadsKind(name) => Wanted(k) \subseteq S,
         NEW order, NEW rows, TopOf(rows, S, order, config.ntop[name])
  PROVE  /\ k \in MayFail \/ ~LeadsKind(name) \/ ~ViewAll(k, rows, config.ntop[name])
              => LinkedWell(name, rows, None)
         /\ LeadsKind(name) /\ ViewAll(k, rows, config.ntop[name]) => LinkedWell(name, rows, k)
<1>1. PICK n \in Nat : n = config.ntop[name]
  BY DEF ReportInput
<1>2. PICK m \in Nat : m = Len(rows)
  BY DEF TopOf
<1>3. ToSet(rows) = {rows[i] : i \in 1 .. m} /\ \A i \in 1 .. m : rows[i] \in S
  BY <1>2 DEF TopOf, ToSet
<1>4. m <= n
  BY <1>1, <1>2 DEF TopOf
<1>5. k \in Kind
  BY TableIndexes
<1>6. S \subseteq database[k] /\ IsFiniteSet(database[k]) /\ IsFiniteSet(S)
  <2>1. Visible(k) \subseteq database[k] /\ IsFiniteSet(database[k])
    BY <1>5 DEF Visible, ReportInput
  <2>. QED
    BY <2>1, FS_Subset
<1>7. Cardinality(S) \in Nat /\ Cardinality(S) <= Cardinality(database[k])
  BY <1>6, FS_Subset, FS_CardinalityType
<1>8. Total(k) \in Nat /\ GroupTotal(k) \in Nat
      /\ Total(k) + GroupTotal(k) = Cardinality(database[k])
  BY <1>5, ItemCounts
<1>9. ASSUME ~ViewAll(k, rows, n), LeadsKind(name), k \in config.all
      PROVE  Wanted(k) \subseteq ToSet(rows)
  <2>1. m # n \/ ~(Total(k) + GroupTotal(k) > n)
    BY <1>2, <1>9 DEF ViewAll
  <2>2. m < n \/ Cardinality(S) <= n
    BY <1>4, <1>7, <1>8, <2>1
  <2>3. \A x \in S : \E i \in 1 .. m : rows[i] = x
    BY <1>1, <1>2, <2>2 DEF TopOf
  <2>. QED
    BY <1>3, <1>9, <2>3
<1>10. ASSUME LeadsKind(name), ViewAll(k, rows, n)  PROVE LinkedWell(name, rows, k)
  <2>1. k \in Kind \ {"countries", "cities", "asn"} /\ k # None
    BY <1>10, ListedNames DEF ViewAll, ReportInput
  <2>2. Wanted(k) \subseteq Visible(k) /\ ToSet(rows) \subseteq Visible(k)
    BY <1>3 DEF Wanted
  <2>3. Visible(k) \subseteq ToSet(AllPage(k))
    BY <2>1, AllPageHas
  <2>. QED
    BY <1>10, <2>1, <2>2, <2>3 DEF LinkedWell
<1>11. k \in MayFail \/ ~LeadsKind(name) \/ ~ViewAll(k, rows, n) => LinkedWell(name, rows, None)
  BY <1>9 DEF LinkedWell
<1>. QED
  BY <1>1, <1>10, <1>11

(* Tables with groups: URLs, hosts, referrers, user agents and users       *)
LEMMA GroupTableWritten ==
  ASSUME ReportInput, NEW name \in GroupTables, Asked(name), NEW k, k = KindOf(name),
         NEW bundled, bundled = IF name = "hostsK" THEN <<>> ELSE Bundled(k, Field(name)),
         NEW rows, rows = TopRows(k, Field(name), bundled, config.ntop[name]),
         todo # <<>>, Head(todo) = name,
         IF Total(k) = 0 \/ rows = <<>> THEN NoTable
         ELSE IF ~LeadsKind(name) THEN Table(name, None, rows)
         ELSE IF ViewAll(k, rows, config.ntop[name]) THEN TableAndPage(name, rows, k, AllPage(k))
         ELSE Table(name, k, rows)
  PROVE  Writes(name)
<1>1. PICK S : S = ShownBy(name)
  OBVIOUS
<1>2. PICK n \in Nat : n = config.ntop[name]
  BY TableIndexes DEF ReportInput
<1>3. TopOf(rows, S, AboveOrder(name, S), n)
  BY <1>1, <1>2, TopRowsAre
<1>4. /\ k \in Kind /\ name \in Kind \cup {"urlsK", "hostsK"} /\ name \in Names
      /\ k # None
  BY TableIndexes, ListedNames DEF Names
<1>5. S \subseteq Visible(k)
  BY <1>1 DEF ShownBy
<1>6. n > 0
  BY <1>2 DEF Asked, GroupTables
<1>7. Skipped(name) <=> Total(k) = 0 \/ S = {}
  BY <1>1 DEF Skipped, GroupTables
<1>8. rows = <<>> <=> S = {}
  BY <1>3, <1>6 DEF TopOf
<1>9. LeadsKind(name) => Wanted(k) \subseteq S
  <2>1. CASE name = "hostsK"
    <3>1. k = "hosts"
      BY <2>1 DEF KindOf
    <3>. QED
      BY <1>1, <2>1, <3>1 DEF LeadsKind, Wanted, GroupsLeftOut, ShownBy
  <2>2. CASE name # "hostsK"
    BY <1>1, <2>2 DEF Wanted, ShownBy
  <2>. QED
    BY <2>1, <2>2
<1>10. TopOfList(name, rows)
  <2>1. \A a \in Visible(KindOf(name)) \ S :
          a.hits > 0 => name = "hostsK" /\ config.bundle_groups /\ a.grp
    BY <1>1 DEF ShownBy
  <2>2. config.ntop[name] \in Nat /\ n <= config.ntop[name] /\ S \subseteq Visible(KindOf(name))
    BY <1>2, <1>5
  <2>. QED
    BY <1>3, <2>1, <2>2, TopIsTopOfList
<1>11. /\ k \in MayFail \/ ~LeadsKind(name) \/ ~ViewAll(k, rows, n) => LinkedWell(name, rows, None)
       /\ LeadsKind(name) /\ ViewAll(k, rows, n) => LinkedWell(name, rows, k)
  BY <1>2, <1>3, <1>4, <1>5, <1>9, RowsLinked
<1>12. Anchor(name) = IF LeadsKind(name) THEN k ELSE None
  <2>1. name \in {"urlsK", "hostsK"} \/ (LeadsKind(name) /\ k = name)
    BY DEF GroupTables, LeadsKind, KindOf
  <2>2. name # "monthly"
    BY DEF GroupTables
  <2>. QED
    BY <2>1, <2>2 DEF Anchor
<1>13. CASE Total(k) = 0 \/ rows = <<>>
  <2>1. Skipped(name)
    BY <1>7, <1>8, <1>13
  <2>2. NoTable
    BY <1>13
  <2>. QED
    BY <2>1, <2>2 DEF NoTable, Writes
<1>14. CASE ~(Total(k) = 0 \/ rows = <<>>)
  <2>1. GoodRows(name, rows)
    <3>1. name # "daily"
      BY DEF GroupTables
    <3>. QED
      BY <1>4, <1>7, <1>8, <1>10, <1>14, <3>1 DEF GoodRows, DaysListed
  <2>2. CASE ~LeadsKind(name)
    <3>1. Table(name, Anchor(name), rows)
      BY <1>12, <1>14, <2>2
    <3>. QED
      BY <1>11, <2>1, <2>2, <3>1, TableWritten
  <2>3. CASE LeadsKind(name) /\ ViewAll(k, rows, n)
    <3>1. TableAndPage(name, rows, k, AllPage(k)) /\ Anchor(name) = k
      BY <1>2, <1>12, <1>14, <2>3
    <3>. QED
      BY <1>4, <1>11, <2>1, <2>3, <3>1, TableAndPageWritten
  <2>4. CASE LeadsKind(name) /\ ~ViewAll(k, rows, n)
    <3>1. Table(name, Anchor(name), rows)
      BY <1>2, <1>12, <1>14, <2>4
    <3>. QED
      BY <1>11, <2>1, <2>4, <3>1, TableWritten
  <2>. QED
    BY <2>2, <2>3, <2>4
<1>. QED
  BY <1>13, <1>14

(* URLs by hits and by transfer                                            *)
LEMMA UrlTables ==
  ASSUME ReportInput, NEW flag \in BOOLEAN, top_urls_table(flag), Asked(Head(todo))
  PROVE  Writes(Head(todo))
<1>1. PICK name : name = IF flag THEN "urlsK" ELSE "urls"
  OBVIOUS
<1>2. /\ name \in GroupTables /\ name # "hostsK" /\ KindOf(name) = "urls"
      /\ Field(name) = IF flag THEN "xfer" ELSE "hits"
      /\ AllPage("urls") = all_urls_page
      /\ LeadsKind(name) <=> Leads("urls", flag)
  BY <1>1 DEF GroupTables, KindOf, Field, AllPage, LeadsKind, Leads
<1>3. PICK bundled : bundled = Bundled("urls", Field(name))
  OBVIOUS
<1>4. PICK rows : rows = TopRows("urls", Field(name), bundled, config.ntop[name])
  OBVIOUS
<1>5. /\ todo # <<>> /\ Head(todo) = name
      /\ IF Total("urls") = 0 \/ rows = <<>> THEN NoTable
         ELSE IF ~LeadsKind(name) THEN Table(name, None, rows)
         ELSE IF ViewAll("urls", rows, config.ntop[name])
              THEN TableAndPage(name, rows, "urls", AllPage("urls"))
         ELSE Table(name, "urls", rows)
  BY <1>1, <1>2, <1>3, <1>4 DEF top_urls_table
<1>. QED
  BY <1>2, <1>3, <1>4, <1>5, GroupTableWritten

(* Hosts by hits and by transfer                                           *)
LEMMA HostTables ==
  ASSUME ReportInput, NEW flag \in BOOLEAN, top_hosts_table(flag), Asked(Head(todo))
  PROVE  Writes(Head(todo))
<1>1. PICK name : name = IF flag THEN "hostsK" ELSE "hosts"
  OBVIOUS
<1>2. /\ name \in GroupTables /\ KindOf(name) = "hosts"
      /\ Field(name) = IF flag THEN "xfer" ELSE "hits"
      /\ AllPage("hosts") = all_hosts_page
      /\ LeadsKind(name) <=> Leads("hosts", flag)
  BY <1>1 DEF GroupTables, KindOf, Field, AllPage, LeadsKind, Leads
<1>3. PICK bundled : bundled = IF name = "hostsK" THEN <<>> ELSE Bundled("hosts", Field(name))
  OBVIOUS
<1>4. PICK rows : rows = TopRows("hosts", Field(name), bundled, config.ntop[name])
  OBVIOUS
<1>5. /\ todo # <<>> /\ Head(todo) = name
      /\ IF Total("hosts") = 0 \/ rows = <<>> THEN NoTable
         ELSE IF ~LeadsKind(name) THEN Table(name, None, rows)
         ELSE IF ViewAll("hosts", rows, config.ntop[name])
              THEN TableAndPage(name, rows, "hosts", AllPage("hosts"))
         ELSE Table(name, "hosts", rows)
  <2>1. CASE flag
    BY <1>1, <1>2, <1>3, <1>4, <2>1 DEF top_hosts_table
  <2>2. CASE ~flag
    BY <1>1, <1>2, <1>3, <1>4, <2>2 DEF top_hosts_table
  <2>. QED
    BY <2>1, <2>2
<1>. QED
  BY <1>2, <1>3, <1>4, <1>5, GroupTableWritten

(* Referrers, user agents and users                                        *)
LEMMA OtherGroupTables ==
  ASSUME ReportInput, top_refs_table \/ top_agents_table \/ top_users_table, Asked(Head(todo))
  PROVE  Writes(Head(todo))
<1>1. ASSUME NEW name \in {"referrers", "agents", "users"},
             TopTable(name, Field(name), AllPage(name))
      PROVE  Writes(Head(todo))
  <2>1. name \in GroupTables /\ name # "hostsK" /\ KindOf(name) = name /\ LeadsKind(name)
    BY DEF GroupTables, KindOf, LeadsKind
  <2>2. PICK bundled : bundled = Bundled(name, Field(name))
    OBVIOUS
  <2>3. PICK rows : rows = TopRows(name, Field(name), bundled, config.ntop[name])
    OBVIOUS
  <2>4. /\ todo # <<>> /\ Head(todo) = name
        /\ IF Total(name) = 0 \/ rows = <<>> THEN NoTable
           ELSE IF ~LeadsKind(name) THEN Table(name, None, rows)
           ELSE IF ViewAll(name, rows, config.ntop[name])
                THEN TableAndPage(name, rows, name, AllPage(name))
           ELSE Table(name, name, rows)
    BY <1>1, <2>1, <2>2, <2>3 DEF TopTable
  <2>. QED
    BY <2>1, <2>2, <2>3, <2>4, GroupTableWritten
<1>2. top_refs_table => TopTable("referrers", Field("referrers"), AllPage("referrers"))
  BY DEF top_refs_table, Field, AllPage
<1>3. top_agents_table => TopTable("agents", Field("agents"), AllPage("agents"))
  BY DEF top_agents_table, Field, AllPage
<1>4. top_users_table => TopTable("users", Field("users"), AllPage("users"))
  BY DEF top_users_table, Field, AllPage
<1>. QED
  BY <1>1, <1>2, <1>3, <1>4

(* A list without groups and without bundles is in the order of its index. *)
LEMMA UngroupedTop ==
  ASSUME ReportInput, NEW k \in Kind \ Grouped, NEW n \in Nat, NEW rows,
         rows = Take(AllItems(k, Field(k)), n)
  PROVE  /\ KindOf(k) = k /\ Visible(k) = database[k]
         /\ TopOf(rows, database[k], AboveOrder(k, database[k]), n)
<1>1. KindOf(k) = k /\ Field(k) \in Fields /\ Field(k) \in index_desc[k].all
  <2>1. KindOf(k) = k
    BY DEF KindOf, Kind, Grouped
  <2>. QED
    BY <2>1, TableIndexes
<1>2. PICK S : S = database[k]
  OBVIOUS
<1>3. \A a \in S : a.grp = FALSE /\ ~a.hidden
  BY <1>2 DEF ReportInput
<1>4. k \notin {"hosts", "agents"}
  BY DEF Grouped
<1>5. Visible(k) = S
  BY <1>2, <1>3, <1>4 DEF Visible, Hidden
<1>6. Whole(AllItems(k, Field(k)), S, IndexOrder(k, Field(k), S))
  BY <1>1, <1>2, IndexIs DEF AllItems
<1>7. IndexOrder(k, Field(k), S) = AboveOrder(k, S)
  <2>1. \A a, b \in S : Above(k, a, b) <=> Outranks(k, Field(k), a, b)
    BY <1>1, <1>3 DEF Above
  <2>. QED
    BY <2>1 DEF IndexOrder, AboveOrder
<1>8. TopOf(rows, S, AboveOrder(k, S), n)
  BY <1>6, <1>7, TakeIs
<1>. QED
  BY <1>1, <1>2, <1>5, <1>8

(* Downloads, errors and search strings                                    *)
LEMMA PlainTableWritten ==
  ASSUME ReportInput, NEW k \in {"downloads", "errors", "search"}, Asked(k), NEW empty,
         empty <=> Skipped(k), PlainTable(k, Field(k), empty, AllPage(k))
  PROVE  Writes(k)
<1>1. /\ k \in Kind \ Grouped /\ k \in Names /\ k \in Kind \cup {"urlsK", "hostsK"}
      /\ k \notin {"monthly", "daily", "urlsK", "hostsK", "entry", "exit"}
  BY DEF Kind, Grouped, Names
<1>2. PICK n \in Nat : n = config.ntop[k]
  BY <1>1 DEF ReportInput
<1>3. PICK rows : rows = Take(AllItems(k, Field(k)), n)
  OBVIOUS
<1>4. /\ KindOf(k) = k /\ Visible(k) = database[k]
      /\ TopOf(rows, database[k], AboveOrder(k, database[k]), n)
  BY <1>1, <1>3, UngroupedTop
<1>5. LeadsKind(k) /\ Anchor(k) = k
  BY <1>1 DEF LeadsKind, Anchor
<1>6. TopOfList(k, rows)
  <2>1. \A a \in Visible(KindOf(k)) \ database[k] :
          a.hits > 0 => k = "hostsK" /\ config.bundle_groups /\ a.grp
    BY <1>4
  <2>2. config.ntop[k] \in Nat /\ n <= config.ntop[k] /\ database[k] \subseteq Visible(KindOf(k))
    BY <1>2, <1>4
  <2>. QED
    BY <1>4, <2>1, <2>2, TopIsTopOfList
<1>7. /\ k \in MayFail \/ ~ViewAll(k, rows, n) => LinkedWell(k, rows, None)
      /\ ViewAll(k, rows, n) => LinkedWell(k, rows, k)
  <2>1. Wanted(k) \subseteq database[k] /\ database[k] \subseteq Visible(k)
    BY <1>4 DEF Wanted
  <2>. QED
    BY <1>1, <1>2, <1>4, <1>5, <2>1, RowsLinked
<1>8. /\ todo # <<>> /\ Head(todo) = k
      /\ IF empty THEN NoTable
         ELSE IF ViewAll(k, rows, n) THEN TableAndPage(k, rows, k, AllPage(k))
         ELSE Table(k, k, rows)
  BY <1>2, <1>3 DEF PlainTable
<1>9. CASE empty
  BY <1>8, <1>9 DEF NoTable, Writes
<1>10. CASE ~empty
  <2>1. GoodRows(k, rows)
    BY <1>1, <1>6, <1>10 DEF GoodRows, DaysListed
  <2>2. CASE ViewAll(k, rows, n)
    <3>1. TableAndPage(k, rows, k, AllPage(k)) /\ k # None
      BY <1>1, <1>8, <1>10, <2>2, ListedNames
    <3>. QED
      BY <1>4, <1>5, <1>7, <1>8, <2>1, <2>2, <3>1, TableAndPageWritten
  <2>3. CASE ~ViewAll(k, rows, n)
    <3>1. Table(k, Anchor(k), rows)
      BY <1>5, <1>8, <1>10, <2>3
    <3>. QED
      BY <1>7, <1>8, <2>1, <2>3, <3>1, TableWritten
  <2>. QED
    BY <2>2, <2>3
<1>. QED
  BY <1>9, <1>10

(* The three tables without groups that may have a page of all items       *)
LEMMA PlainTables ==
  ASSUME ReportInput, top_dl_table \/ top_err_table \/ top_search_table, Asked(Head(todo))
  PROVE  Writes(Head(todo))
<1>1. CASE top_dl_table
  <2>1. /\ PlainTable("downloads", Field("downloads"), Total("downloads") = 0, AllPage("downloads"))
        /\ Total("downloads") = 0 <=> Skipped("downloads")
    BY <1>1 DEF top_dl_table, Field, AllPage, Skipped, GroupTables
  <2>2. Head(todo) = "downloads"
    BY <2>1 DEF PlainTable
  <2>. QED
    BY <2>1, <2>2, PlainTableWritten
<1>2. CASE top_err_table
  <2>1. /\ PlainTable("errors", Field("errors"), Total("errors") = 0, AllPage("errors"))
        /\ Total("errors") = 0 <=> Skipped("errors")
    BY <1>2 DEF top_err_table, Field, AllPage, Skipped, GroupTables
  <2>2. Head(todo) = "errors"
    BY <2>1 DEF PlainTable
  <2>. QED
    BY <2>1, <2>2, PlainTableWritten
<1>3. CASE top_search_table
  <2>1. /\ PlainTable("search", Field("search"), SearchHits = 0 \/ Total("search") = 0, AllPage("search"))
        /\ (SearchHits = 0 \/ Total("search") = 0) <=> Skipped("search")
    BY <1>3 DEF top_search_table, Field, AllPage, Skipped, GroupTables
  <2>2. Head(todo) = "search"
    BY <2>1 DEF PlainTable
  <2>. QED
    BY <2>1, <2>2, PlainTableWritten
<1>. QED
  BY <1>1, <1>2, <1>3

(* Tables of a kind that has no page of all items                          *)
LEMMA UnlinkedWritten ==
  ASSUME ReportInput, NEW name \in Names, Asked(name), NEW rows,
         name \in {"countries", "cities", "asn"} => TopOfList(name, rows),
         DaysListed(name, rows),
         name \in {"countries", "cities", "asn", "entry", "exit", "monthly", "daily", "hourly"},
         todo # <<>>, Head(todo) = name, Table(name, IF name = "monthly" THEN None ELSE name, rows)
  PROVE  Writes(name)
<1>1. Anchor(name) = IF name = "monthly" THEN None ELSE name
  BY DEF Anchor
<1>2. GoodRows(name, rows)
  <2>1. Skipped(name) => name \in {"entry", "exit"}
    BY DEF Skipped, GroupTables
  <2>2. name \in Kind \cup {"urlsK", "hostsK"} => name \in {"countries", "cities", "asn"}
    BY DEF Kind
  <2>. QED
    BY <2>1, <2>2 DEF GoodRows
<1>3. LinkedWell(name, rows, None)
  <2>1. KindOf(name) = name
    BY DEF KindOf
  <2>2. name \notin config.all
    BY DEF ReportInput, Kind
  <2>. QED
    BY <2>1, <2>2 DEF LinkedWell
<1>. QED
  BY <1>1, <1>2, <1>3, TableWritten

(* The sections of the month, its days and its hours                       *)
LEMMA TotalTables ==
  ASSUME ReportInput, month_total_table \/ daily_total_table \/ hourly_total_table,
         Asked(Head(todo))
  PROVE  Writes(Head(todo))
<1>1. {"monthly", "daily", "hourly"} \subseteq Names
  BY DEF Names
<1>2. ASSUME NEW name \in {"monthly", "daily", "hourly"}, NEW rows, todo # <<>>, Head(todo) = name,
             DaysListed(name, rows), Table(name, IF name = "monthly" THEN None ELSE name, rows)
      PROVE  Writes(Head(todo))
  BY <1>1, <1>2, UnlinkedWritten
<1>3. CASE month_total_table
  BY <1>2, <1>3 DEF month_total_table, DaysListed
<1>4. CASE daily_total_table
  BY <1>2, <1>4 DEF daily_total_table, DaysListed
<1>5. CASE hourly_total_table
  BY <1>2, <1>5 DEF hourly_total_table, DaysListed
<1>. QED
  BY <1>3, <1>4, <1>5

(* Entry and exit URLs                                                     *)
LEMMA EntryTables ==
  ASSUME ReportInput, NEW flag \in BOOLEAN, top_entry_table(flag), Asked(Head(todo))
  PROVE  Writes(Head(todo))
<1>1. PICK name : name = IF flag THEN "exit" ELSE "entry"
  OBVIOUS
<1>2. name \in {"entry", "exit"} /\ name \in Names
  BY <1>1 DEF Names
<1>3. todo # <<>> /\ Head(todo) = name /\ (NoTable \/ \E rows : Table(name, name, rows))
  BY <1>1 DEF top_entry_table
<1>4. CASE NoTable
  BY <1>2, <1>3, <1>4 DEF NoTable, Writes, Skipped, GroupTables
<1>5. CASE \E rows : Table(name, name, rows)
  <2>1. PICK rows : Table(name, name, rows)
    BY <1>5
  <2>2. name # "monthly" /\ name \notin {"countries", "cities", "asn"}
    BY <1>2
  <2>. QED
    BY <1>2, <1>3, <2>1, <2>2, UnlinkedWritten DEF DaysListed
<1>. QED
  BY <1>3, <1>4, <1>5

(* Countries                                                               *)
LEMMA CountryTable ==
  ASSUME ReportInput, top_ctry_table, Asked(Head(todo))
  PROVE  Writes(Head(todo))
<1>1. "countries" \in Kind \ Grouped /\ "countries" \in Names /\ Field("countries") = "visits"
  BY DEF Kind, Grouped, Names, Field
<1>2. PICK n \in Nat : n = config.ntop["countries"]
  BY <1>1 DEF ReportInput
<1>3. PICK active : active = Cardinality({x \in database["countries"] : x.hits > 0})
  OBVIOUS
<1>4. PICK limit : limit = IF active > n THEN n ELSE active
  OBVIOUS
<1>5. limit \in Nat /\ limit <= n
  <2>1. IsFiniteSet({x \in database["countries"] : x.hits > 0})
    BY <1>1, FS_Subset DEF ReportInput
  <2>2. active \in Nat
    BY <1>3, <2>1, FS_CardinalityType
  <2>. QED
    BY <1>4, <2>2
<1>6. PICK rows : rows = Take(AllItems("countries", "visits"), limit)
  OBVIOUS
<1>7. /\ todo # <<>> /\ Head(todo) = "countries" /\ Table("countries", "countries", rows)
  BY <1>2, <1>3, <1>4, <1>6 DEF top_ctry_table
<1>8. /\ KindOf("countries") = "countries" /\ Visible("countries") = database["countries"]
      /\ TopOf(rows, database["countries"], AboveOrder("countries", database["countries"]), limit)
  BY <1>1, <1>5, <1>6, UngroupedTop
<1>9. TopOfList("countries", rows)
  BY <1>2, <1>5, <1>8, TopIsTopOfList
<1>. QED
  BY <1>1, <1>7, <1>9, UnlinkedWritten DEF DaysListed

(* Cities and autonomous systems: those of the top that have hits          *)
LEMMA ActiveTables ==
  ASSUME ReportInput, top_city_table \/ top_asn_table, Asked(Head(todo))
  PROVE  Writes(Head(todo))
<1>1. PICK k \in {"cities", "asn"} : ActiveTable(k)
  BY DEF top_city_table, top_asn_table
<1>2. /\ k \in Kind \ Grouped /\ k \in Names /\ Field(k) = "visits" /\ "visits" \in Fields
      /\ "visits" \in index_desc[k].all /\ k # "monthly" /\ k # "hostsK"
  BY DEF Kind, Grouped, Names, Field, Fields, index_desc
<1>3. PICK n \in Nat : n = config.ntop[k]
  BY <1>2 DEF ReportInput
<1>4. PICK top : top = Take(AllItems(k, "visits"), n)
  OBVIOUS
<1>5. PICK D : D = database[k]
  OBVIOUS
<1>6. /\ KindOf(k) = k /\ Visible(k) = D
      /\ TopOf(top, D, AboveOrder(k, D), n)
  BY <1>2, <1>4, <1>5, UngroupedTop
<1>7. PICK m \in Nat : m = Len(top)
  BY <1>6 DEF TopOf
<1>8. ToSet(top) = {top[i] : i \in 1 .. m} /\ \A i \in 1 .. m : top[i] \in D
  BY <1>6, <1>7 DEF TopOf, ToSet
<1>9. PICK T : T = {x \in ToSet(top) : x.hits # 0}
  OBVIOUS
<1>10. T \in SUBSET D
  BY <1>8, <1>9
<1>11. PICK rows : rows = IndexOf(k, "visits", T)
  OBVIOUS
<1>12. todo # <<>> /\ Head(todo) = k /\ Table(k, k, rows)
  BY <1>1, <1>3, <1>4, <1>9, <1>11 DEF ActiveTable
<1>13. Whole(rows, T, IndexOrder(k, "visits", T))
  BY <1>2, <1>5, <1>10, <1>11, IndexIs
<1>14. PICK r \in Nat : r = Len(rows)
  BY <1>13 DEF Whole
<1>15. /\ DOMAIN rows = 1 .. r /\ \A i \in 1 .. r : rows[i] \in T
       /\ ToSet(rows) = {rows[i] : i \in 1 .. r} /\ ToSet(rows) = T
  BY <1>13, <1>14 DEF Whole, ToSet
<1>16. \A a, b \in D : Above(k, a, b) <=> Outranks(k, "visits", a, b)
  <2>1. \A a \in D : a.grp = FALSE
    BY <1>2, <1>5 DEF ReportInput
  <2>. QED
    BY <1>2, <1>6, <2>1 DEF Above
<1>17. \A i, j \in DOMAIN rows : i < j => Above(k, rows[i], rows[j])
  <2>. SUFFICES ASSUME NEW i \in 1 .. r, NEW j \in 1 .. r, i < j
       PROVE  Above(k, rows[i], rows[j])
    BY <1>15
  <2>1. <<rows[i], rows[j]>> \in IndexOrder(k, "visits", T)
    BY <1>13, <1>14 DEF Whole
  <2>2. Outranks(k, "visits", rows[i], rows[j])
    BY <2>1 DEF IndexOrder
  <2>. QED
    BY <1>10, <1>15, <1>16, <2>2
<1>18. ASSUME NEW a \in Visible(k) \ ToSet(rows), NEW b \in ToSet(rows), a.hits > 0
       PROVE  Above(k, b, a)
  <2>1. a \in D /\ a \notin ToSet(top)
    <3>1. a \in D /\ a.hits \in Nat
      BY <1>2, <1>5, <1>6 DEF ReportInput
    <3>. QED
      BY <1>9, <1>15, <1>18, <3>1
  <2>2. PICK i \in 1 .. m : b = top[i]
    BY <1>8, <1>9, <1>15
  <2>3. <<top[i], a>> \in AboveOrder(k, D)
    BY <1>6, <1>7, <1>8, <2>1 DEF TopOf
  <2>. QED
    BY <2>2, <2>3 DEF AboveOrder
<1>19. Len(rows) <= n
  <2>1. PICK f : f = [i \in 1 .. m |-> top[i]]
    OBVIOUS
  <2>2. f \in Surjection(1 .. m, ToSet(top))
    BY <1>8, <2>1 DEF Surjection
  <2>3. IsFiniteSet(1 .. m) /\ Cardinality(1 .. m) = m
    BY FS_Interval
  <2>4. IsFiniteSet(ToSet(top)) /\ Cardinality(ToSet(top)) <= m
    BY <2>2, <2>3, FS_Surjection
  <2>5. /\ Cardinality(T) <= Cardinality(ToSet(top))
        /\ Cardinality(T) \in Nat /\ Cardinality(ToSet(top)) \in Nat
    BY <1>9, <2>4, FS_Subset, FS_CardinalityType
  <2>6. m <= n
    BY <1>6, <1>7 DEF TopOf
  <2>7. Len(rows) = Cardinality(T)
    BY <1>13 DEF Whole
  <2>. QED
    BY <2>4, <2>5, <2>6, <2>7
<1>20. TopOfList(k, rows)
  <2>1. ToSet(rows) \subseteq Visible(KindOf(k))
    BY <1>6, <1>10, <1>15
  <2>. QED
    BY <1>3, <1>6, <1>17, <1>18, <1>19, <2>1 DEF TopOfList
<1>21. Table(k, IF k = "monthly" THEN None ELSE k, rows)
  BY <1>2, <1>12
<1>. QED
  BY <1>2, <1>12, <1>20, <1>21, UnlinkedWritten DEF DaysListed

(* Every table that is written is a good one, or has nothing to show.      *)
LEMMA TablesWritten ==
  ASSUME ReportInput, NextTable, Asked(Head(todo))
  PROVE  Writes(Head(todo))
<1>1. CASE \E flag \in BOOLEAN :
             top_urls_table(flag) \/ top_entry_table(flag) \/ top_hosts_table(flag)
  BY <1>1, UrlTables, EntryTables, HostTables
<1>2. CASE month_total_table \/ daily_total_table \/ hourly_total_table
  BY <1>2, TotalTables
<1>3. CASE top_dl_table \/ top_err_table \/ top_search_table
  BY <1>3, PlainTables
<1>4. CASE top_refs_table \/ top_agents_table \/ top_users_table
  BY <1>4, OtherGroupTables
<1>5. CASE top_ctry_table \/ top_city_table \/ top_asn_table
  BY <1>5, CountryTable, ActiveTables
<1>. QED
  BY <1>1, <1>2, <1>3, <1>4, <1>5 DEF NextTable

-----------------------------------------------------------------------------
(* The order of the page                                                   *)

(* The place of a table: search strings are early for a proxy.             *)
Place(name) ==
  CASE name = "monthly" -> 1 [] name = "daily" -> 2 [] name = "hourly" -> 3
    [] name = "urls" -> 4 [] name = "urlsK" -> 5 [] name = "entry" -> 6 [] name = "exit" -> 7
    [] name = "downloads" -> 9 [] name = "errors" -> 10 [] name = "hosts" -> 11
    [] name = "hostsK" -> 12 [] name = "asn" -> 13 [] name = "referrers" -> 14
    [] name = "users" -> 16 [] name = "agents" -> 17 [] name = "countries" -> 18
    [] name = "cities" -> 19 [] name = "search" -> IF config.squid THEN 8 ELSE 15
    [] OTHER -> 0

(* The tables that are asked for of those with a place from lo + 1 to hi,  *)
(* in their order.                                                         *)
Run(s, lo, hi) ==
  /\ s \in Seq(Names)
  /\ \A i, j \in 1 .. Len(s) : i < j => Place(s[i]) < Place(s[j])
  /\ \A i \in 1 .. Len(s) : Asked(s[i]) /\ lo < Place(s[i]) /\ Place(s[i]) <= hi
  /\ \A x \in Names : Asked(x) /\ lo < Place(x) /\ Place(x) <= hi => \E i \in 1 .. Len(s) : s[i] = x

(* Places are numbers, and no two tables have the same.                    *)
LEMMA Places ==
  /\ \A x \in Names : Place(x) \in 1 .. 19
  /\ \A x, y \in Names : Place(x) = Place(y) => x = y
  /\ \A x \in Names : Place(x) = 8 => config.squid
  /\ \A x \in Names : Place(x) = 15 => ~config.squid
<1>1. \A x \in Names : \/ x = "search"
                       \/ /\ x = "monthly" /\ Place(x) = 1
                       \/ /\ x = "daily" /\ Place(x) = 2
                       \/ /\ x = "hourly" /\ Place(x) = 3
                       \/ /\ x = "urls" /\ Place(x) = 4
                       \/ /\ x = "urlsK" /\ Place(x) = 5
                       \/ /\ x = "entry" /\ Place(x) = 6
                       \/ /\ x = "exit" /\ Place(x) = 7
                       \/ /\ x = "downloads" /\ Place(x) = 9
                       \/ /\ x = "errors" /\ Place(x) = 10
                       \/ /\ x = "hosts" /\ Place(x) = 11
                       \/ /\ x = "hostsK" /\ Place(x) = 12
                       \/ /\ x = "asn" /\ Place(x) = 13
                       \/ /\ x = "referrers" /\ Place(x) = 14
                       \/ /\ x = "users" /\ Place(x) = 16
                       \/ /\ x = "agents" /\ Place(x) = 17
                       \/ /\ x = "countries" /\ Place(x) = 18
                       \/ /\ x = "cities" /\ Place(x) = 19
  BY DEF Names, Kind, Place
<1>2. Place("search") = IF config.squid THEN 8 ELSE 15
  BY DEF Place
<1>. QED
  BY <1>1, <1>2

(* Two parts of the page, one after the other                              *)
LEMMA RunJoined ==
  ASSUME NEW s, NEW t, NEW lo \in Nat, NEW mid \in Nat, NEW hi \in Nat, lo <= mid, mid <= hi,
         Run(s, lo, mid), Run(t, mid, hi)
  PROVE  Run(s \o t, lo, hi)
<1>1. PICK m \in Nat : m = Len(s)
  BY DEF Run
<1>2. PICK n \in Nat : n = Len(t)
  BY DEF Run
<1>3. PICK u : u = s \o t
  OBVIOUS
<1>4. s \in Seq(Names) /\ t \in Seq(Names)
  BY DEF Run
<1>5. /\ u \in Seq(Names) /\ Len(u) = m + n
      /\ \A i \in 1 .. m : u[i] = s[i]
      /\ \A i \in m + 1 .. m + n : u[i] = t[i - m]
      /\ \A i \in 1 .. n : i + m \in m + 1 .. m + n /\ (i + m) - m = i
      /\ \A i \in m + 1 .. m + n : i - m \in 1 .. n
  BY <1>1, <1>2, <1>3, <1>4
<1>6. /\ \A i \in 1 .. m : s[i] \in Names
      /\ \A i \in 1 .. n : t[i] \in Names
  BY <1>1, <1>2, <1>4
<1>7. \A x \in Names : Place(x) \in Nat
  BY Places
<1>8. \A i \in 1 .. m : Asked(u[i]) /\ lo < Place(u[i]) /\ Place(u[i]) <= mid /\ Place(u[i]) \in Nat
  BY <1>1, <1>5, <1>6, <1>7 DEF Run
<1>9. \A i \in m + 1 .. m + n :
        Asked(u[i]) /\ mid < Place(u[i]) /\ Place(u[i]) <= hi /\ Place(u[i]) \in Nat
  BY <1>2, <1>5, <1>6, <1>7 DEF Run
<1>10. \A i, j \in 1 .. m : i < j => Place(u[i]) < Place(u[j])
  BY <1>1, <1>5 DEF Run
<1>11. ASSUME NEW i \in m + 1 .. m + n, NEW j \in m + 1 .. m + n, i < j
       PROVE  Place(u[i]) < Place(u[j])
  <2>1. i - m \in 1 .. n /\ j - m \in 1 .. n /\ i - m < j - m
    BY <1>5, <1>11
  <2>2. Place(t[i - m]) < Place(t[j - m])
    BY <1>2, <2>1 DEF Run
  <2>. QED
    BY <1>5, <2>2
<1>12. \A i \in 1 .. m + n : i \in 1 .. m \/ i \in m + 1 .. m + n
  OBVIOUS
<1>13. ASSUME NEW i \in 1 .. m + n, NEW j \in 1 .. m + n, i < j
       PROVE  Place(u[i]) < Place(u[j])
  <2>1. CASE i \in 1 .. m /\ j \in 1 .. m
    BY <1>10, <1>13, <2>1
  <2>2. CASE i \in 1 .. m /\ j \in m + 1 .. m + n
    BY <1>8, <1>9, <2>2
  <2>3. CASE i \in m + 1 .. m + n
    <3>1. j \in m + 1 .. m + n
      BY <1>13, <2>3
    <3>. QED
      BY <1>11, <1>13, <2>3, <3>1
  <2>. QED
    BY <1>12, <2>1, <2>2, <2>3
<1>14. ASSUME NEW i \in 1 .. m + n  PROVE Asked(u[i]) /\ lo < Place(u[i]) /\ Place(u[i]) <= hi
  <2>1. CASE i \in 1 .. m
    <3>1. Asked(u[i]) /\ lo < Place(u[i]) /\ Place(u[i]) <= mid /\ Place(u[i]) \in Nat
      BY <1>8, <2>1
    <3>. QED
      BY <3>1
  <2>2. CASE i \in m + 1 .. m + n
    <3>1. Asked(u[i]) /\ mid < Place(u[i]) /\ Place(u[i]) <= hi /\ Place(u[i]) \in Nat
      BY <1>9, <2>2
    <3>. QED
      BY <3>1
  <2>. QED
    BY <1>12, <2>1, <2>2
<1>15. ASSUME NEW x \in Names, Asked(x), lo < Place(x), Place(x) <= hi
       PROVE  \E i \in 1 .. m + n : u[i] = x
  <2>1. CASE Place(x) <= mid
    <3>1. PICK i \in 1 .. m : s[i] = x
      BY <1>1, <1>15, <2>1 DEF Run
    <3>. QED
      BY <1>5, <3>1
  <2>2. CASE mid < Place(x)
    <3>1. PICK i \in 1 .. n : t[i] = x
      BY <1>2, <1>15, <2>2 DEF Run
    <3>2. u[i + m] = x /\ i + m \in 1 .. m + n
      BY <1>5, <3>1
    <3>. QED
      BY <3>2
  <2>3. Place(x) \in Nat
    BY <1>7
  <2>. QED
    BY <2>1, <2>2, <2>3
<1>. QED
  BY <1>3, <1>5, <1>13, <1>14, <1>15 DEF Run

(* A part with one table, if it is asked for                               *)
LEMMA RunOfOne ==
  ASSUME NEW x \in Names, NEW hi \in Nat \ {0}, Place(x) = hi, NEW asked, asked <=> Asked(x)
  PROVE  Run(IF asked THEN <<x>> ELSE <<>>, hi - 1, hi)
<1>1. \A y \in Names : hi - 1 < Place(y) /\ Place(y) <= hi => y = x
  BY Places
<1>2. CASE asked
  <2>1. PICK s : s = <<x>>
    OBVIOUS
  <2>2. s \in Seq(Names) /\ Len(s) = 1 /\ s[1] = x
    BY <2>1
  <2>3. Run(s, hi - 1, hi)
    BY <1>1, <1>2, <2>2 DEF Run
  <2>. QED
    BY <1>2, <2>1, <2>3
<1>3. CASE ~asked
  <2>1. PICK s : s = <<>>
    OBVIOUS
  <2>2. s \in Seq(Names) /\ Len(s) = 0
    BY <2>1
  <2>3. Run(s, hi - 1, hi)
    BY <1>1, <1>3, <2>2 DEF Run
  <2>. QED
    BY <1>3, <2>1, <2>3
<1>. QED
  BY <1>2, <1>3

(* A part without any                                                      *)
LEMMA RunOfNone ==
  ASSUME NEW hi \in Nat \ {0}, \A x \in Names : Place(x) # hi
  PROVE  Run(<<>>, hi - 1, hi)
<1>1. PICK s : s = <<>>
  OBVIOUS
<1>2. s \in Seq(Names) /\ Len(s) = 0
  BY <1>1
<1>3. \A x \in Names : ~(hi - 1 < Place(x) /\ Place(x) <= hi)
  BY Places
<1>4. Run(s, hi - 1, hi)
  BY <1>2, <1>3 DEF Run
<1>. QED
  BY <1>1, <1>4

(* The tables to write: those that are asked for, in the order of the page *)
LEMMA AllTables == Run(MonthlyReport, 0, 19)
<1>0. /\ {"monthly", "daily", "hourly"} \subseteq Names
      /\ Place("monthly") = 1 /\ Place("daily") = 2 /\ Place("hourly") = 3
      /\ Asked("monthly") <=> "monthly" \in config.stats
      /\ Asked("daily") <=> "daily" \in config.stats \cup config.graphs
      /\ Asked("hourly") <=> "hourly" \in config.stats \cup config.graphs
  BY DEF Names, Place, Asked
<1>1. Run(IF "monthly" \in config.stats THEN <<"monthly">> ELSE <<>>, 0, 1)
  <2>1. Run(IF "monthly" \in config.stats THEN <<"monthly">> ELSE <<>>, 1 - 1, 1)
    BY <1>0, RunOfOne
  <2>. QED
    BY <2>1
<1>2. Run(IF "daily" \in config.stats \cup config.graphs THEN <<"daily">> ELSE <<>>, 1, 2)
  <2>1. Run(IF "daily" \in config.stats \cup config.graphs THEN <<"daily">> ELSE <<>>, 2 - 1, 2)
    BY <1>0, RunOfOne
  <2>. QED
    BY <2>1
<1>3. Run(IF "hourly" \in config.stats \cup config.graphs THEN <<"hourly">> ELSE <<>>, 2, 3)
  <2>1. Run(IF "hourly" \in config.stats \cup config.graphs THEN <<"hourly">> ELSE <<>>, 3 - 1, 3)
    BY <1>0, RunOfOne
  <2>. QED
    BY <2>1
<1>4. ASSUME NEW x \in Names \ {"monthly", "daily", "hourly", "cities", "asn"}
      PROVE  Run(Configured(x), Place(x) - 1, Place(x))
  <2>1. Asked(x) <=> config.ntop[x] > 0
    BY DEF Asked
  <2>2. Place(x) \in Nat \ {0}
    BY Places
  <2>. QED
    BY <2>1, <2>2, RunOfOne DEF Configured
<1>5. Run(write_url_report, 3, 7)
  <2>1. /\ Run(Configured("urls"), 3, 4) /\ Run(Configured("urlsK"), 4, 5)
        /\ Run(Configured("entry"), 5, 6) /\ Run(Configured("exit"), 6, 7)
    <3>1. {"urls", "urlsK", "entry", "exit"} \subseteq Names \ {"monthly", "daily", "hourly", "cities", "asn"}
      BY DEF Names, Kind
    <3>2. Place("urls") = 4 /\ Place("urlsK") = 5 /\ Place("entry") = 6 /\ Place("exit") = 7
      BY DEF Place
    <3>3. /\ Run(Configured("urls"), 4 - 1, 4) /\ Run(Configured("urlsK"), 5 - 1, 5)
          /\ Run(Configured("entry"), 6 - 1, 6) /\ Run(Configured("exit"), 7 - 1, 7)
      BY <1>4, <3>1, <3>2
    <3>. QED
      BY <3>3
  <2>2. Run(Configured("urls") \o Configured("urlsK"), 3, 5)
    BY <2>1, RunJoined
  <2>3. Run(Configured("urls") \o Configured("urlsK") \o Configured("entry"), 3, 6)
    BY <2>1, <2>2, RunJoined
  <2>4. Run(Configured("urls") \o Configured("urlsK") \o Configured("entry") \o Configured("exit"), 3, 7)
    BY <2>1, <2>3, RunJoined
  <2>. QED
    BY <2>4 DEF write_url_report
<1>6. /\ Run(write_download_report, 8, 9) /\ Run(write_error_report, 9, 10)
      /\ Run(write_referrer_report, 13, 14) /\ Run(write_user_report, 15, 16)
      /\ Run(write_user_agent_report, 16, 17) /\ Run(write_country_report, 17, 18)
  <2>1. {"downloads", "errors", "referrers", "users", "agents", "countries"}
          \subseteq Names \ {"monthly", "daily", "hourly", "cities", "asn"}
    BY DEF Names, Kind
  <2>2. /\ Place("downloads") = 9 /\ Place("errors") = 10 /\ Place("referrers") = 14
        /\ Place("users") = 16 /\ Place("agents") = 17 /\ Place("countries") = 18
    BY DEF Place
  <2>3. /\ Run(Configured("downloads"), 9 - 1, 9) /\ Run(Configured("errors"), 10 - 1, 10)
        /\ Run(Configured("referrers"), 14 - 1, 14) /\ Run(Configured("users"), 16 - 1, 16)
        /\ Run(Configured("agents"), 17 - 1, 17) /\ Run(Configured("countries"), 18 - 1, 18)
    BY <1>4, <2>1, <2>2
  <2>. QED
    BY <2>3 DEF write_download_report, write_error_report, write_referrer_report,
                write_user_report, write_user_agent_report, write_country_report
<1>7. Run(write_host_report, 10, 12)
  <2>1. "hosts" \in Names \ {"monthly", "daily", "hourly", "cities", "asn"}
        /\ "hostsK" \in Names \ {"monthly", "daily", "hourly", "cities", "asn"}
    BY DEF Names, Kind
  <2>2. Place("hosts") = 11 /\ Place("hostsK") = 12
    BY DEF Place
  <2>3. Run(Configured("hosts"), 11 - 1, 11) /\ Run(Configured("hostsK"), 12 - 1, 12)
    BY <1>4, <2>1, <2>2
  <2>4. Run(Configured("hosts") \o Configured("hostsK"), 10, 12)
    BY <2>3, RunJoined
  <2>. QED
    BY <2>4 DEF write_host_report
<1>8. Run(write_asn_report, 12, 13) /\ Run(write_city_report, 18, 19)
  <2>1. "asn" \in Names /\ "cities" \in Names /\ Place("asn") = 13 /\ Place("cities") = 19
    BY DEF Names, Kind, Place
  <2>2. /\ Asked("asn") <=> config.ntop["asn"] > 0 /\ config.asn_db
        /\ Asked("cities") <=> config.ntop["cities"] > 0 /\ config.geoip_city
    BY DEF Asked
  <2>3. /\ write_asn_report = IF config.ntop["asn"] > 0 /\ config.asn_db THEN <<"asn">> ELSE <<>>
        /\ write_city_report = IF config.ntop["cities"] > 0 /\ config.geoip_city
                               THEN <<"cities">> ELSE <<>>
    BY DEF write_asn_report, write_city_report, Configured
  <2>4. /\ Run(IF config.ntop["asn"] > 0 /\ config.asn_db THEN <<"asn">> ELSE <<>>, 13 - 1, 13)
        /\ Run(IF config.ntop["cities"] > 0 /\ config.geoip_city
               THEN <<"cities">> ELSE <<>>, 19 - 1, 19)
    BY <2>1, <2>2, RunOfOne
  <2>. QED
    BY <2>3, <2>4
<1>9. /\ Run(IF config.squid THEN write_search_report ELSE <<>>, 7, 8)
      /\ Run(IF config.squid THEN <<>> ELSE write_search_report, 14, 15)
  <2>1. "search" \in Names \ {"monthly", "daily", "hourly", "cities", "asn"}
    BY DEF Names, Kind
  <2>2. CASE config.squid
    <3>1. Place("search") = 8
      BY <2>2 DEF Place
    <3>2. Run(write_search_report, 8 - 1, 8)
      BY <1>4, <2>1, <3>1 DEF write_search_report
    <3>3. Run(<<>>, 15 - 1, 15)
      BY <2>2, Places, RunOfNone
    <3>. QED
      BY <2>2, <3>2, <3>3
  <2>3. CASE ~config.squid
    <3>1. Place("search") = 15
      BY <2>3 DEF Place
    <3>2. Run(write_search_report, 15 - 1, 15)
      BY <1>4, <2>1, <3>1 DEF write_search_report
    <3>3. Run(<<>>, 8 - 1, 8)
      BY <2>3, Places, RunOfNone
    <3>. QED
      BY <2>3, <3>2, <3>3
  <2>. QED
    BY <2>2, <2>3
<1>10. \A s, t : \A lo, mid, hi \in Nat :
         lo <= mid /\ mid <= hi /\ Run(s, lo, mid) /\ Run(t, mid, hi) => Run(s \o t, lo, hi)
  BY RunJoined
<1>11. PICK a : a = (IF "monthly" \in config.stats THEN <<"monthly">> ELSE <<>>)
                    \o (IF "daily" \in config.stats \cup config.graphs THEN <<"daily">> ELSE <<>>)
                    \o (IF "hourly" \in config.stats \cup config.graphs THEN <<"hourly">> ELSE <<>>)
  OBVIOUS
<1>12. Run(a, 0, 3)
  BY <1>1, <1>2, <1>3, <1>10, <1>11
<1>13. PICK b : b = a \o write_url_report \o (IF config.squid THEN write_search_report ELSE <<>>)
                    \o write_download_report \o write_error_report
  OBVIOUS
<1>14. Run(b, 0, 10)
  <2>1. Run(a \o write_url_report, 0, 7)
    BY <1>5, <1>10, <1>12
  <2>2. Run(a \o write_url_report \o (IF config.squid THEN write_search_report ELSE <<>>), 0, 8)
    BY <1>9, <1>10, <2>1
  <2>. QED
    BY <1>6, <1>10, <1>13, <2>2
<1>15. PICK c : c = b \o write_host_report \o write_asn_report \o write_referrer_report
                    \o (IF config.squid THEN <<>> ELSE write_search_report)
  OBVIOUS
<1>16. Run(c, 0, 15)
  <2>1. Run(b \o write_host_report, 0, 12)
    BY <1>7, <1>10, <1>14
  <2>2. Run(b \o write_host_report \o write_asn_report, 0, 13)
    BY <1>8, <1>10, <2>1
  <2>3. Run(b \o write_host_report \o write_asn_report \o write_referrer_report, 0, 14)
    BY <1>6, <1>10, <2>2
  <2>. QED
    BY <1>9, <1>10, <1>15, <2>3
<1>17. Run(c \o write_user_report \o write_user_agent_report \o write_country_report
             \o write_city_report, 0, 19)
  <2>1. Run(c \o write_user_report, 0, 16)
    BY <1>6, <1>10, <1>16
  <2>2. Run(c \o write_user_report \o write_user_agent_report, 0, 17)
    BY <1>6, <1>10, <2>1
  <2>3. Run(c \o write_user_report \o write_user_agent_report \o write_country_report, 0, 18)
    BY <1>6, <1>10, <2>2
  <2>. QED
    BY <1>8, <1>10, <2>3
<1>. QED
  BY <1>11, <1>13, <1>15, <1>17 DEF MonthlyReport

-----------------------------------------------------------------------------
(* The invariant of the page                                               *)

(* The tables with a place up to lo are on the page, in their order, and   *)
(* the pages that they link to are written.                                *)
PageUpTo(pg, linked, lo) ==
  /\ \E S : pg \in Seq(S)
  /\ \A i \in 1 .. Len(pg) :
       /\ GoodTable(pg[i]) /\ Place(pg[i].name) <= lo
       /\ pg[i].link # None => pg[i].link \in linked
  /\ \A i, j \in 1 .. Len(pg) : i < j => Place(pg[i].name) < Place(pg[j].name)
  /\ \A x \in Names : Asked(x) /\ Place(x) <= lo
                        => Skipped(x) \/ \E i \in 1 .. Len(pg) : pg[i].name = x

ReportInv ==
  /\ \A k \in DOMAIN pages : pages[k] = AllPage(k)
  /\ writing = None => todo = <<>>
  /\ \/ page = <<>> /\ todo = <<>>
     \/ \E lo \in 0 .. 19 : Run(todo, lo, 19) /\ PageUpTo(page, DOMAIN pages, lo)

(* While the month and the configuration stay, so does all that is made of *)
(* them.                                                                   *)
LEMMA NothingMoves ==
  ASSUME UNCHANGED <<config, database, totals>>
  PROVE  /\ ReportInput' <=> ReportInput
         /\ \A t : GoodTable(t)' <=> GoodTable(t)
         /\ \A k : AllPage(k)' = AllPage(k)
         /\ \A x : Place(x)' = Place(x)
         /\ \A x : Asked(x)' <=> Asked(x)
         /\ \A x : Skipped(x)' <=> Skipped(x)
         /\ \A s, lo, hi : Run(s, lo, hi)' <=> Run(s, lo, hi)
         /\ \A pg, linked, lo : PageUpTo(pg, linked, lo)' <=> PageUpTo(pg, linked, lo)
<1>1. config' = config /\ database' = database /\ totals' = totals
  OBVIOUS
<1>2. ReportInput' <=> ReportInput
  BY <1>1 DEF ReportInput
<1>3. \A k, n : Hidden(k, n)' <=> Hidden(k, n)
  BY <1>1 DEF Hidden
<1>4. \A k : Visible(k)' = Visible(k)
  BY <1>1, <1>3 DEF Visible
<1>5. \A k : Total(k)' = Total(k)
  BY <1>1 DEF Total
<1>6. SearchHits' = SearchHits
  BY <1>1 DEF SearchHits
<1>7. \A k, f : GroupsOf(k, f)' = GroupsOf(k, f)
  BY <1>1 DEF GroupsOf
<1>8. \A k : Regulars(k)' = Regulars(k)
  BY <1>1 DEF Regulars
<1>9. \A k, f : GroupsThenRegular(k, f)' = GroupsThenRegular(k, f)
  BY <1>4, <1>7, <1>8 DEF GroupsThenRegular
<1>10. \A k, f : AllItems(k, f)' = AllItems(k, f)
  BY <1>1 DEF AllItems
<1>11. \A k : AllPage(k)' = AllPage(k)
  BY <1>9, <1>10 DEF AllPage, all_urls_page, all_hosts_page, all_refs_page, all_agents_page,
                     all_users_page, all_downloads_page, all_errors_page, all_search_page
<1>12. \A x : Place(x)' = Place(x)
  BY <1>1 DEF Place
<1>13. \A x : Asked(x)' <=> Asked(x)
  BY <1>1 DEF Asked
<1>14. \A x : ShownBy(x)' = ShownBy(x)
  BY <1>1, <1>4 DEF ShownBy
<1>15. \A x : Skipped(x)' <=> Skipped(x)
  BY <1>5, <1>6, <1>14 DEF Skipped
<1>16. \A x : LeadsKind(x)' <=> LeadsKind(x)
  BY <1>1 DEF LeadsKind
<1>17. \A x : Anchor(x)' = Anchor(x)
  BY <1>16 DEF Anchor
<1>18. \A k, n : GroupsLeftOut(k, n)' <=> GroupsLeftOut(k, n)
  BY <1>1 DEF GroupsLeftOut
<1>19. \A k : Wanted(k)' = Wanted(k)
  BY <1>4, <1>18 DEF Wanted
<1>20. \A x, a, b : Above(x, a, b)' <=> Above(x, a, b)
  BY <1>1 DEF Above
<1>21. \A x, rows : TopOfList(x, rows)' <=> TopOfList(x, rows)
  BY <1>1, <1>4, <1>20 DEF TopOfList
<1>22. \A x, rows, l : LinkedWell(x, rows, l)' <=> LinkedWell(x, rows, l)
  BY <1>1, <1>11, <1>16, <1>19 DEF LinkedWell
<1>23. \A t : GoodTable(t)' <=> GoodTable(t)
  <2>1. ReportedDays' = ReportedDays
    BY <1>1 DEF ReportedDays
  <2>2. \A x, rows : DaysListed(x, rows)' <=> DaysListed(x, rows)
    BY <1>1, <2>1 DEF DaysListed
  <2>. QED
    BY <1>13, <1>15, <1>17, <1>21, <1>22, <2>2 DEF GoodTable
<1>24. \A s, lo, hi : Run(s, lo, hi)' <=> Run(s, lo, hi)
  BY <1>12, <1>13 DEF Run
<1>25. \A pg, linked, lo : PageUpTo(pg, linked, lo)' <=> PageUpTo(pg, linked, lo)
  BY <1>12, <1>13, <1>15, <1>23 DEF PageUpTo
<1>. QED
  BY <1>2, <1>11, <1>12, <1>13, <1>15, <1>23, <1>24, <1>25

(* The rest of the tables starts after the first.                          *)
LEMMA RunRest ==
  ASSUME NEW s, s # <<>>, NEW lo \in Nat, Run(s, lo, 19)
  PROVE  /\ Head(s) \in Names /\ Asked(Head(s)) /\ lo < Place(Head(s)) /\ Place(Head(s)) \in 1 .. 19
         /\ Run(Tail(s), Place(Head(s)), 19)
         /\ \A x \in Names : Asked(x) /\ lo < Place(x) /\ Place(x) <= Place(Head(s)) => x = Head(s)
<1>1. PICK n \in Nat : n = Len(s)
  BY DEF Run
<1>2. s \in Seq(Names) /\ n > 0
  BY <1>1 DEF Run
<1>3. PICK h : h = Head(s)
  OBVIOUS
<1>4. PICK t : t = Tail(s)
  OBVIOUS
<1>5. /\ h = s[1] /\ t \in Seq(Names) /\ Len(t) = n - 1
      /\ \A i \in 1 .. n - 1 : t[i] = s[i + 1]
  BY <1>1, <1>2, <1>3, <1>4
<1>6. \A i \in 1 .. n : s[i] \in Names
  BY <1>1, <1>2
<1>7. /\ \A i, j \in 1 .. n : i < j => Place(s[i]) < Place(s[j])
      /\ \A i \in 1 .. n : Asked(s[i]) /\ lo < Place(s[i]) /\ Place(s[i]) <= 19
      /\ \A x \in Names : Asked(x) /\ lo < Place(x) /\ Place(x) <= 19 => \E i \in 1 .. n : s[i] = x
  BY <1>1 DEF Run
<1>8. h \in Names /\ Asked(h) /\ lo < Place(h) /\ Place(h) \in 1 .. 19
  <2>1. 1 \in 1 .. n
    BY <1>2
  <2>2. h \in Names /\ Asked(h) /\ lo < Place(h)
    BY <1>5, <1>6, <1>7, <2>1
  <2>. QED
    BY <2>2, Places
<1>9. \A x \in Names : Place(x) \in 1 .. 19
  BY Places
<1>10. ASSUME NEW x \in Names, Asked(x), lo < Place(x), Place(x) <= Place(h)  PROVE x = h
  <2>1. PICK i \in 1 .. n : s[i] = x
    BY <1>7, <1>9, <1>10
  <2>2. CASE i = 1
    BY <1>5, <2>1, <2>2
  <2>3. CASE 1 < i
    <3>1. Place(h) < Place(x)
      BY <1>2, <1>5, <1>7, <2>1, <2>3
    <3>2. Place(h) \in Int /\ Place(x) \in Int
      BY <1>8, <1>9
    <3>3. ~(Place(x) <= Place(h))
      BY <3>1, <3>2
    <3>. QED
      BY <1>10, <3>3
  <2>. QED
    BY <2>2, <2>3
<1>11. \A i, j \in 1 .. n - 1 : i < j => Place(t[i]) < Place(t[j])
  <2>. SUFFICES ASSUME NEW i \in 1 .. n - 1, NEW j \in 1 .. n - 1, i < j
       PROVE  Place(t[i]) < Place(t[j])
    OBVIOUS
  <2>1. i + 1 \in 1 .. n /\ j + 1 \in 1 .. n /\ i + 1 < j + 1
    OBVIOUS
  <2>. QED
    BY <1>5, <1>7, <2>1
<1>12. \A i \in 1 .. n - 1 : Asked(t[i]) /\ Place(h) < Place(t[i]) /\ Place(t[i]) <= 19
  <2>. SUFFICES ASSUME NEW i \in 1 .. n - 1
       PROVE  Asked(t[i]) /\ Place(h) < Place(t[i]) /\ Place(t[i]) <= 19
    OBVIOUS
  <2>1. i + 1 \in 1 .. n /\ 1 \in 1 .. n /\ 1 < i + 1
    OBVIOUS
  <2>. QED
    BY <1>5, <1>7, <2>1
<1>13. ASSUME NEW x \in Names, Asked(x), Place(h) < Place(x), Place(x) <= 19
       PROVE  \E i \in 1 .. n - 1 : t[i] = x
  <2>1. lo < Place(x)
    <3>1. PICK a \in Int : a = Place(h)
      BY <1>8
    <3>2. PICK b \in Int : b = Place(x)
      BY <1>9
    <3>3. lo < a /\ a < b
      BY <1>8, <1>13, <3>1, <3>2
    <3>4. lo < b
      BY <3>3
    <3>. QED
      BY <3>2, <3>4
  <2>2. PICK i \in 1 .. n : s[i] = x
    BY <1>7, <1>13, <2>1
  <2>3. i # 1
    <3>1. SUFFICES ASSUME i = 1  PROVE FALSE
      OBVIOUS
    <3>2. x = h
      BY <1>5, <2>2, <3>1
    <3>3. Place(h) \in Int
      BY <1>8
    <3>. QED
      BY <1>13, <3>2, <3>3
  <2>4. i - 1 \in 1 .. n - 1 /\ (i - 1) + 1 = i
    BY <2>3
  <2>. QED
    BY <1>5, <2>2, <2>4
<1>14. Run(t, Place(h), 19)
  BY <1>5, <1>11, <1>12, <1>13 DEF Run
<1>. QED
  BY <1>3, <1>4, <1>8, <1>10, <1>14

(* The page with one more table, or without it if it has nothing to show   *)
LEMMA PageGrows ==
  ASSUME NEW pg, NEW linked, NEW lo \in Nat, PageUpTo(pg, linked, lo),
         NEW name \in Names, lo < Place(name),
         \A x \in Names : Asked(x) /\ lo < Place(x) /\ Place(x) <= Place(name) => x = name
  PROVE  /\ Skipped(name) => PageUpTo(pg, linked, Place(name))
         /\ \A t, all : t.name = name /\ GoodTable(t) /\ linked \subseteq all
                          /\ (t.link # None => t.link \in all)
                          => PageUpTo(Append(pg, t), all, Place(name))
<1>1. PICK m \in Nat : m = Len(pg)
  BY DEF PageUpTo
<1>2. PICK hi \in 1 .. 19 : hi = Place(name)
  BY Places
<1>3. \A x \in Names : Place(x) \in 1 .. 19
  BY Places
<1>4. \A x \in Names : Asked(x) /\ Place(x) <= hi => x = name \/ Place(x) <= lo
  BY <1>2, <1>3
<1>5. \A i \in 1 .. m : /\ GoodTable(pg[i]) /\ Place(pg[i].name) <= lo
                        /\ pg[i].name \in Names /\ Place(pg[i].name) \in 1 .. 19
                        /\ pg[i].link # None => pg[i].link \in linked
  <2>1. \A i \in 1 .. m :
          /\ GoodTable(pg[i]) /\ Place(pg[i].name) <= lo
          /\ pg[i].link # None => pg[i].link \in linked
    BY <1>1 DEF PageUpTo
  <2>2. \A i \in 1 .. m : pg[i].name \in Names
    BY <2>1 DEF GoodTable
  <2>. QED
    BY <1>3, <2>1, <2>2
<1>6. \A i \in 1 .. m : Place(pg[i].name) <= hi /\ Place(pg[i].name) < hi
  BY <1>2, <1>5
<1>7. \A i, j \in 1 .. m : i < j => Place(pg[i].name) < Place(pg[j].name)
  BY <1>1 DEF PageUpTo
<1>8. \A x \in Names : Asked(x) /\ Place(x) <= lo => Skipped(x) \/ \E i \in 1 .. m : pg[i].name = x
  BY <1>1 DEF PageUpTo
<1>9. PICK S : pg \in Seq(S)
  BY DEF PageUpTo
<1>10. ASSUME Skipped(name)  PROVE PageUpTo(pg, linked, hi)
  <2>1. \A x \in Names : Asked(x) /\ Place(x) <= hi => Skipped(x) \/ \E i \in 1 .. m : pg[i].name = x
    BY <1>4, <1>8, <1>10
  <2>. QED
    BY <1>1, <1>5, <1>6, <1>7, <1>9, <2>1 DEF PageUpTo
<1>11. ASSUME NEW t, NEW all, t.name = name, GoodTable(t), linked \subseteq all,
              t.link # None => t.link \in all
       PROVE  PageUpTo(Append(pg, t), all, hi)
  <2>1. PICK u : u = Append(pg, t)
    OBVIOUS
  <2>2. /\ u \in Seq(S \cup {t}) /\ Len(u) = m + 1 /\ u[m + 1] = t
        /\ \A i \in 1 .. m : u[i] = pg[i]
    <3>1. pg \in [1 .. m -> S]
      BY <1>1, <1>9
    <3>2. pg \in [1 .. m -> S \cup {t}]
      BY <3>1
    <3>3. pg \in Seq(S \cup {t})
      BY <3>2
    <3>. QED
      BY <1>1, <2>1, <3>3
  <2>3. \A i \in 1 .. m + 1 : i \in 1 .. m \/ i = m + 1
    OBVIOUS
  <2>4. ASSUME NEW i \in 1 .. m + 1
        PROVE  /\ GoodTable(u[i]) /\ Place(u[i].name) <= hi
               /\ u[i].link # None => u[i].link \in all
    <3>1. CASE i \in 1 .. m
      BY <1>5, <1>6, <1>11, <2>2, <3>1
    <3>2. CASE i = m + 1
      BY <1>2, <1>11, <2>2, <3>2
    <3>. QED
      BY <2>3, <3>1, <3>2
  <2>5. ASSUME NEW i \in 1 .. m + 1, NEW j \in 1 .. m + 1, i < j
        PROVE  Place(u[i].name) < Place(u[j].name)
    <3>1. CASE j \in 1 .. m
      <4>1. i \in 1 .. m
        BY <2>5, <3>1
      <4>. QED
        BY <1>7, <2>2, <2>5, <3>1, <4>1
    <3>2. CASE j = m + 1
      <4>1. i \in 1 .. m
        BY <2>5, <3>2
      <4>2. u[j].name = name /\ u[i] = pg[i]
        BY <1>11, <2>2, <3>2, <4>1
      <4>. QED
        BY <1>2, <1>6, <4>1, <4>2
    <3>. QED
      BY <2>3, <3>1, <3>2
  <2>6. ASSUME NEW x \in Names, Asked(x), Place(x) <= hi
        PROVE  Skipped(x) \/ \E i \in 1 .. m + 1 : u[i].name = x
    <3>1. CASE x = name
      <4>1. u[m + 1].name = x /\ m + 1 \in 1 .. m + 1
        BY <1>11, <2>2, <3>1
      <4>. QED
        BY <4>1
    <3>2. CASE Place(x) <= lo /\ ~Skipped(x)
      <4>1. PICK i \in 1 .. m : pg[i].name = x
        BY <1>8, <2>6, <3>2
      <4>2. u[i].name = x /\ i \in 1 .. m + 1
        BY <2>2, <4>1
      <4>. QED
        BY <4>2
    <3>. QED
      BY <1>4, <2>6, <3>1, <3>2
  <2>. QED
    BY <2>1, <2>2, <2>4, <2>5, <2>6 DEF PageUpTo
<1>. QED
  BY <1>2, <1>10, <1>11

(* Writing a table keeps the invariant of the page.                        *)
LEMMA TableKeepsPage ==
  ASSUME NEW lo \in 0 .. 19, Run(todo, lo, 19), PageUpTo(page, DOMAIN pages, lo),
         \A k \in DOMAIN pages : pages[k] = AllPage(k),
         todo # <<>>, Writes(Head(todo))
  PROVE  /\ \E hi \in 0 .. 19 : Run(todo', hi, 19) /\ PageUpTo(page', DOMAIN pages', hi)
         /\ \A k \in DOMAIN pages' : pages'[k] = AllPage(k)
<1>1. PICK name : name = Head(todo)
  OBVIOUS
<1>2. /\ name \in Names /\ lo < Place(name) /\ Place(name) \in 0 .. 19
      /\ Run(Tail(todo), Place(name), 19)
      /\ \A x \in Names : Asked(x) /\ lo < Place(x) /\ Place(x) <= Place(name) => x = name
  BY <1>1, RunRest
<1>3. todo' = Tail(todo)
  BY DEF Writes
<1>4. PICK linked : linked = DOMAIN pages
  OBVIOUS
<1>5. /\ Skipped(name) => PageUpTo(page, linked, Place(name))
      /\ \A t, all : t.name = name /\ GoodTable(t) /\ linked \subseteq all
                       /\ (t.link # None => t.link \in all)
                       => PageUpTo(Append(page, t), all, Place(name))
  BY <1>2, <1>4, PageGrows
<1>6. CASE Skipped(name) /\ page' = page /\ pages' = pages
  BY <1>2, <1>3, <1>4, <1>5, <1>6
<1>7. ASSUME NEW t, t.name = name, GoodTable(t), page' = Append(page, t),
             t.link = None, pages' = pages
      PROVE  PageUpTo(page', DOMAIN pages', Place(name)) /\ \A k \in DOMAIN pages' : pages'[k] = AllPage(k)
  BY <1>4, <1>5, <1>7
<1>8. ASSUME NEW t, t.name = name, GoodTable(t), page' = Append(page, t), t.link # None,
             pages' = [k \in DOMAIN pages \cup {t.link} |->
                         IF k = t.link THEN AllPage(t.link) ELSE pages[k]]
      PROVE  PageUpTo(page', DOMAIN pages', Place(name)) /\ \A k \in DOMAIN pages' : pages'[k] = AllPage(k)
  <2>1. DOMAIN pages' = linked \cup {t.link}
    BY <1>4, <1>8
  <2>2. PageUpTo(page', DOMAIN pages', Place(name))
    BY <1>5, <1>8, <2>1
  <2>3. \A k \in DOMAIN pages' : pages'[k] = AllPage(k)
    BY <1>8
  <2>. QED
    BY <2>2, <2>3
<1>9. CASE \E t : /\ t.name = name /\ GoodTable(t) /\ page' = Append(page, t)
                  /\ \/ t.link = None /\ pages' = pages
                     \/ /\ t.link # None
                        /\ pages' = [k \in DOMAIN pages \cup {t.link} |->
                                       IF k = t.link THEN AllPage(t.link) ELSE pages[k]]
  BY <1>2, <1>3, <1>7, <1>8, <1>9
<1>. QED
  BY <1>1, <1>6, <1>9 DEF Writes

(* A report that has a table to write has one of the month.                *)
LEMMA TableIsNext == NextTable => todo # <<>>
<1>1. \A flag : top_urls_table(flag) \/ top_entry_table(flag) \/ top_hosts_table(flag) => todo # <<>>
  BY DEF top_urls_table, top_entry_table, top_hosts_table
<1>2. month_total_table \/ daily_total_table \/ hourly_total_table => todo # <<>>
  BY DEF month_total_table, daily_total_table, hourly_total_table
<1>3. top_dl_table \/ top_err_table \/ top_search_table => todo # <<>>
  BY DEF top_dl_table, top_err_table, top_search_table, PlainTable
<1>4. top_refs_table \/ top_agents_table \/ top_users_table => todo # <<>>
  BY DEF top_refs_table, top_agents_table, top_users_table, TopTable
<1>5. top_ctry_table \/ top_city_table \/ top_asn_table => todo # <<>>
  BY DEF top_ctry_table, top_city_table, top_asn_table, ActiveTable
<1>. QED
  BY <1>1, <1>2, <1>3, <1>4, <1>5 DEF NextTable

(* The invariant without the steps that leave the page alone               *)
LEMMA PageStays ==
  ASSUME ReportInv, UNCHANGED <<config, database, totals, todo, page, pages>>,
         writing' = None => todo = <<>>
  PROVE  ReportInv'
<1>1. /\ \A k : AllPage(k)' = AllPage(k)
      /\ \A s, lo, hi : Run(s, lo, hi)' <=> Run(s, lo, hi)
      /\ \A pg, linked, lo : PageUpTo(pg, linked, lo)' <=> PageUpTo(pg, linked, lo)
  BY NothingMoves
<1>2. \A k \in DOMAIN pages' : pages'[k] = AllPage(k)'
  BY <1>1 DEF ReportInv
<1>3. CASE page = <<>> /\ todo = <<>>
  BY <1>2, <1>3 DEF ReportInv
<1>4. CASE \E lo \in 0 .. 19 : Run(todo, lo, 19) /\ PageUpTo(page, DOMAIN pages, lo)
  <2>1. PICK lo \in 0 .. 19 : Run(todo, lo, 19) /\ PageUpTo(page, DOMAIN pages, lo)
    BY <1>4
  <2>2. Run(todo, lo, 19)'
    BY <2>1, NothingMoves DEF Run
  <2>3. PageUpTo(page, DOMAIN pages, lo)'
    BY <2>1, NothingMoves DEF PageUpTo
  <2>. QED
    BY <1>2, <2>2, <2>3 DEF ReportInv
<1>. QED
  BY <1>3, <1>4 DEF ReportInv

(* Every step keeps the invariant.                                         *)
LEMMA ReportStep ==
  ASSUME ReportInput, ReportInv, [Next]_vars
  PROVE  ReportInput' /\ ReportInv'
<1>1. UNCHANGED <<config, database, totals>>
  BY DEF Next, vars
<1>2. ReportInput'
  BY <1>1, NothingMoves
<1>3. CASE write_report
  <2>1. writing = None /\ writing' = Head(output) /\ todo = <<>>
    BY <1>3 DEF write_report, ReportInv
  <2>2. CASE Head(output) = "html" /\ todo' = MonthlyReport /\ page' = <<>> /\ pages' = pages
    <3>1. writing' # None
      BY <2>1, <2>2 DEF None
    <3>2. \A k \in DOMAIN pages' : pages'[k] = AllPage(k)'
      BY <1>1, <2>2, NothingMoves DEF ReportInv
    <3>3. Run(todo', 0, 19)
      BY <2>2, AllTables
    <3>4. Run(todo, 0, 19)'
      BY <1>1, <3>3, NothingMoves DEF Run
    <3>5. PageUpTo(page, DOMAIN pages, 0)'
      <4>1. \A x \in Names : ~(Place(x) <= 0)
        BY Places
      <4>2. \A x \in Names : ~(Place(x)' <= 0)
        BY <1>1, <4>1, NothingMoves
      <4>3. page' \in Seq({}) /\ Len(page') = 0
        BY <2>2
      <4>. QED
        BY <4>2, <4>3 DEF PageUpTo, Names
    <3>6. 0 \in 0 .. 19
      OBVIOUS
    <3>. QED
      BY <1>2, <3>1, <3>2, <3>4, <3>5, <3>6 DEF ReportInv
  <2>3. CASE UNCHANGED <<todo, page, pages>>
    BY <1>1, <1>2, <2>1, <2>3, PageStays
  <2>. QED
    BY <1>3, <2>2, <2>3 DEF write_report, write_monthly_report, htmlVars
<1>4. CASE Engine /\ UNCHANGED <<output, writing>>
  <2>1. CASE writing = "html" /\ NextTable
    <3>1. todo # <<>> /\ writing' # None
      BY <1>4, <2>1, TableIsNext DEF None
    <3>2. PICK lo \in 0 .. 19 : Run(todo, lo, 19) /\ PageUpTo(page, DOMAIN pages, lo)
      BY <3>1 DEF ReportInv
    <3>3. Asked(Head(todo))
      BY <3>1, <3>2, RunRest
    <3>4. Writes(Head(todo))
      BY <2>1, <3>3, TablesWritten
    <3>5. /\ \E hi \in 0 .. 19 : Run(todo', hi, 19) /\ PageUpTo(page', DOMAIN pages', hi)
          /\ \A k \in DOMAIN pages' : pages'[k] = AllPage(k)
      BY <3>1, <3>2, <3>4, TableKeepsPage DEF ReportInv
    <3>6. PICK hi \in 0 .. 19 : Run(todo', hi, 19) /\ PageUpTo(page', DOMAIN pages', hi)
      BY <3>5
    <3>7. Run(todo, hi, 19)'
      BY <1>1, <3>6, NothingMoves DEF Run
    <3>8. PageUpTo(page, DOMAIN pages, hi)'
      BY <1>1, <3>6, NothingMoves DEF PageUpTo
    <3>9. \A k \in DOMAIN pages' : pages'[k] = AllPage(k)'
      BY <1>1, <3>5, NothingMoves
    <3>. QED
      BY <1>2, <3>1, <3>7, <3>8, <3>9 DEF ReportInv
  <2>2. CASE UNCHANGED <<todo, page, pages, writing>>
    <3>1. writing' = None => todo = <<>>
      BY <2>2 DEF ReportInv
    <3>. QED
      BY <1>1, <1>2, <2>2, <3>1, PageStays
  <2>. QED
    BY <1>4, <2>1, <2>2 DEF Engine
<1>5. CASE Written
  <2>1. UNCHANGED <<todo, page, pages>> /\ todo = <<>>
    BY <1>5 DEF Written
  <2>. QED
    BY <1>1, <1>2, <2>1, PageStays
<1>6. CASE UNCHANGED vars
  <2>1. UNCHANGED <<todo, page, pages>> /\ (writing' = None => todo = <<>>)
    BY <1>6 DEF vars, ReportInv
  <2>. QED
    BY <1>1, <1>2, <2>1, PageStays
<1>. QED
  BY <1>3, <1>4, <1>5, <1>6 DEF Next

-----------------------------------------------------------------------------
(* What follows from the invariant                                         *)

(* A page that has been started has the tables with a place up to some     *)
(* place; a page that is done has them all.                                *)
LEMMA PageHas ==
  ASSUME ReportInv, page # <<>>
  PROVE  \E lo \in 0 .. 19, m \in Nat :
           /\ m = Len(page) /\ DOMAIN page = 1 .. m
           /\ Tables = {page[i] : i \in 1 .. m}
           /\ PageUpTo(page, DOMAIN pages, lo)
           /\ Done => \A x \in Names : Asked(x) => Place(x) <= lo
<1>1. PICK lo \in 0 .. 19 : Run(todo, lo, 19) /\ PageUpTo(page, DOMAIN pages, lo)
  BY DEF ReportInv
<1>2. PICK S : page \in Seq(S)
  BY <1>1 DEF PageUpTo
<1>3. PICK m \in Nat : m = Len(page)
  BY <1>2
<1>4. DOMAIN page = 1 .. m
  BY <1>2, <1>3
<1>5. Tables = {page[i] : i \in 1 .. m}
  BY <1>4 DEF Tables, ToSet
<1>6. ASSUME Done, NEW x \in Names, Asked(x)  PROVE Place(x) <= lo
  <2>1. todo = <<>>
    BY <1>6 DEF Done, ReportInv
  <2>2. Len(todo) = 0
    BY <2>1
  <2>3. ~(lo < Place(x) /\ Place(x) <= 19)
    BY <1>1, <1>6, <2>2 DEF Run
  <2>4. Place(x) \in 1 .. 19
    BY Places
  <2>. QED
    BY <2>3, <2>4
<1>. QED
  BY <1>1, <1>3, <1>4, <1>5, <1>6

(* A report without a page has no tables.                                  *)
LEMMA NoPageNoTables == page = <<>> => Tables = {} /\ DOMAIN page = {}
BY DEF Tables, ToSet

(* The tables of a page are its top lists.                                 *)
LEMMA InvTop == ReportInv => TopIsTop
<1>. SUFFICES ASSUME ReportInv, NEW t \in Tables, Listed(t)  PROVE TopOfList(t.name, t.rows)
  BY DEF TopIsTop
<1>1. page # <<>>
  BY NoPageNoTables
<1>2. PICK lo \in 0 .. 19, m \in Nat : m = Len(page) /\ Tables = {page[i] : i \in 1 .. m}
                                       /\ PageUpTo(page, DOMAIN pages, lo)
  BY <1>1, PageHas
<1>3. GoodTable(t)
  BY <1>2 DEF PageUpTo
<1>. QED
  BY <1>3 DEF GoodTable

(* The menu has the anchor of every table that is not left out.            *)
LEMMA MenuHas ==
  ASSUME ReportInput, NEW name \in Names, Asked(name), Anchor(name) # None,
         Skipped(name) => name \in {"entry", "exit"}
  PROVE  Anchor(name) \in month_links
<1>1. CASE name \in {"daily", "hourly"}
  <2>1. Anchor(name) = name /\ name \in config.stats \cup config.graphs
    BY <1>1 DEF Anchor, Asked
  <2>. QED
    BY <1>1, <2>1 DEF month_links
<1>2. CASE name = "monthly"
  BY <1>2 DEF Anchor
<1>3. CASE name \in {"asn", "cities"}
  <2>1. /\ Anchor(name) = name /\ config.ntop[name] > 0
        /\ name = "asn" => config.asn_db
        /\ name = "cities" => config.geoip_city
    BY <1>3 DEF Anchor, Asked
  <2>. QED
    BY <1>3, <2>1 DEF month_links
<1>4. CASE name \in {"entry", "exit", "countries"}
  <2>1. Anchor(name) = name /\ config.ntop[name] > 0
    BY <1>4 DEF Anchor, Asked
  <2>. QED
    BY <1>4, <2>1 DEF month_links
<1>5. CASE name \in {"urls", "hosts"}
  <2>1. Anchor(name) = name /\ config.ntop[name] > 0
    BY <1>5 DEF Anchor, Asked
  <2>. QED
    BY <1>5, <2>1 DEF month_links
<1>6. CASE name \in {"urlsK", "hostsK"}
  <2>1. Anchor(name) = KindOf(name) /\ config.ntop[name] > 0
    BY <1>6 DEF Anchor, Asked
  <2>2. KindOf(name) \in {"urls", "hosts"} /\ ByTransfer[KindOf(name)] = name
    BY <1>6 DEF KindOf, ByTransfer
  <2>. QED
    BY <2>1, <2>2 DEF month_links
<1>7. CASE name = "search"
  <2>1. Anchor(name) = name /\ config.ntop[name] > 0 /\ SearchHits # 0
    BY <1>7 DEF Anchor, Asked, Skipped, GroupTables
  <2>2. SearchHits > 0
    BY <2>1, SearchHitsCount
  <2>. QED
    BY <1>7, <2>1, <2>2 DEF month_links
<1>8. CASE name \in {"downloads", "errors", "referrers", "users", "agents"}
  <2>1. /\ Anchor(name) = name /\ config.ntop[name] > 0 /\ name \in Kind /\ KindOf(name) = name
        /\ name \notin {"entry", "exit"}
    BY <1>8 DEF Anchor, Asked, Kind, KindOf
  <2>2. Total(name) # 0
    <3>1. CASE name \in GroupTables
      BY <2>1, <3>1 DEF Skipped, GroupTables
    <3>2. CASE name \notin GroupTables
      <4>1. name \in {"downloads", "errors"}
        BY <1>8, <3>2 DEF GroupTables
      <4>. QED
        BY <2>1, <4>1 DEF Skipped, GroupTables
    <3>. QED
      BY <3>1, <3>2
  <2>3. Total(name) > 0
    BY <2>1, <2>2, ItemCounts
  <2>. QED
    BY <1>8, <2>1, <2>3 DEF month_links
<1>. QED
  BY <1>1, <1>2, <1>3, <1>4, <1>5, <1>6, <1>7, <1>8 DEF Names, Kind

(* Which tables have an anchor: it is that of their kind, and two tables   *)
(* of a report never have the same.                                        *)
LEMMA Anchors ==
  /\ \A x \in Names : LeadsKind(x) /\ x # "monthly" => Anchor(x) = KindOf(x)
  /\ \A x \in Names : ~LeadsKind(x) =>
       /\ x \in {"urlsK", "hostsK"} /\ KindOf(x) \in {"urls", "hosts"}
       /\ ~(config.ntop[KindOf(x)] = 0)
  /\ \A x, y \in Names : Asked(x) /\ Asked(y) /\ Anchor(x) = Anchor(y) /\ Anchor(x) # None => x = y
<1>1. \A x \in Names : LeadsKind(x) /\ x # "monthly" => Anchor(x) = KindOf(x)
  <2>. SUFFICES ASSUME NEW x \in Names, LeadsKind(x), x # "monthly"  PROVE Anchor(x) = KindOf(x)
    OBVIOUS
  <2>1. CASE x \in {"urlsK", "hostsK"}
    BY <2>1 DEF Anchor
  <2>2. CASE x \notin {"urlsK", "hostsK"}
    BY <2>2 DEF Anchor, KindOf
  <2>. QED
    BY <2>1, <2>2
<1>2. \A x \in Names : ~LeadsKind(x) =>
        /\ x \in {"urlsK", "hostsK"} /\ KindOf(x) \in {"urls", "hosts"}
        /\ ~(config.ntop[KindOf(x)] = 0)
  BY DEF LeadsKind, KindOf
<1>3. ASSUME NEW x \in Names, NEW y \in Names, Asked(x), Asked(y), Anchor(x) = Anchor(y),
             Anchor(x) # None
      PROVE  x = y
  <2>1. \A z \in Names : Anchor(z) # None =>
          \/ z \notin {"urlsK", "hostsK"} /\ Anchor(z) = z
          \/ z = "urlsK" /\ Anchor(z) = "urls" /\ config.ntop["urls"] = 0
          \/ z = "hostsK" /\ Anchor(z) = "hosts" /\ config.ntop["hosts"] = 0
    BY DEF Anchor, LeadsKind, KindOf
  <2>2. /\ Asked("urls") => ~(config.ntop["urls"] = 0)
        /\ Asked("hosts") => ~(config.ntop["hosts"] = 0)
    BY DEF Asked
  <2>. QED
    BY <1>3, <2>1, <2>2
<1>. QED
  BY <1>1, <1>2, <1>3

(* Links and anchors                                                       *)
LEMMA InvLinks == ReportInput /\ ReportInv => LinksLead
<1>. SUFFICES ASSUME ReportInput, ReportInv  PROVE LinksLead
  OBVIOUS
<1>1. CASE page = <<>>
  BY <1>1, NoPageNoTables DEF LinksLead
<1>2. CASE page # <<>>
  <2>1. PICK lo \in 0 .. 19, m \in Nat :
          m = Len(page) /\ DOMAIN page = 1 .. m /\ Tables = {page[i] : i \in 1 .. m}
          /\ PageUpTo(page, DOMAIN pages, lo)
    BY <1>2, PageHas
  <2>2. \A i \in 1 .. m : /\ GoodTable(page[i]) /\ Place(page[i].name) <= lo
                          /\ (page[i].link # None => page[i].link \in DOMAIN pages)
    BY <2>1 DEF PageUpTo
  <2>3. \A i \in 1 .. m :
          /\ page[i].name \in Names /\ Asked(page[i].name)
          /\ page[i].anchor = Anchor(page[i].name)
          /\ Skipped(page[i].name) => page[i].name \in {"entry", "exit"}
          /\ LinkedWell(page[i].name, page[i].rows, page[i].link)
    BY <2>2 DEF GoodTable
  <2>4. \A i, j \in 1 .. m : i < j => Place(page[i].name) < Place(page[j].name)
    BY <2>1 DEF PageUpTo
  <2>5. \A i, j \in 1 .. m : page[i].name = page[j].name => i = j
    <3>. SUFFICES ASSUME NEW i \in 1 .. m, NEW j \in 1 .. m, page[i].name = page[j].name, i # j
         PROVE  FALSE
      OBVIOUS
    <3>1. Place(page[i].name) \in 1 .. 19 /\ Place(page[j].name) = Place(page[i].name)
      BY <2>3, Places
    <3>2. i < j \/ j < i
      OBVIOUS
    <3>. QED
      BY <2>4, <3>1, <3>2
  <2>6. \A t \in Tables : t.link # None =>
          t.link \in DOMAIN pages /\ Rows(t) \subseteq ToSet(pages[t.link])
    <3>. SUFFICES ASSUME NEW i \in 1 .. m, page[i].link # None
         PROVE  page[i].link \in DOMAIN pages /\ Rows(page[i]) \subseteq ToSet(pages[page[i].link])
      BY <2>1
    <3>1. page[i].link \in DOMAIN pages
      BY <2>2
    <3>2. pages[page[i].link] = AllPage(page[i].link)
      BY <3>1 DEF ReportInv
    <3>3. ToSet(page[i].rows) \subseteq ToSet(AllPage(page[i].link))
      BY <2>3 DEF LinkedWell
    <3>. QED
      BY <3>1, <3>2, <3>3 DEF Rows
  <2>7. \A i, j \in 1 .. m : page[i].anchor = page[j].anchor /\ page[i].anchor # None => i = j
    BY <2>3, <2>5, Anchors
  <2>8. ASSUME NEW i \in 1 .. m, Listed(page[i])
        PROVE  Cardinality({j \in 1 .. m : page[j].anchor = KindOf(page[i].name)}) = 1
    <3>1. PICK name : name = page[i].name
      OBVIOUS
    <3>2. PICK k : k = KindOf(name)
      OBVIOUS
    <3>3. name \in Kind \cup {"urlsK", "hostsK"} /\ name \in Names /\ Asked(name)
          /\ (Skipped(name) => name \in {"entry", "exit"}) /\ Place(name) <= lo
      BY <2>2, <2>3, <2>8, <3>1, ListedNames
    <3>4. k \in Kind /\ k # None
      BY <3>2, <3>3, TableIndexes, ListedNames
    <3>5. \E j \in 1 .. m : page[j].anchor = k
      <4>1. CASE LeadsKind(name)
        <5>1. name # "monthly"
          BY <3>3 DEF Kind
        <5>. QED
          BY <2>3, <3>1, <3>2, <3>3, <4>1, <5>1, Anchors
      <4>2. CASE ~LeadsKind(name)
        <5>1. name \in {"urlsK", "hostsK"} /\ k \in {"urls", "hosts"} /\ ~(config.ntop[k] = 0)
          BY <3>2, <3>3, <4>2, Anchors
        <5>2. k = IF name = "urlsK" THEN "urls" ELSE "hosts"
          BY <3>2, <5>1 DEF KindOf
        <5>3. config.ntop[k] \in Nat
          BY <3>4 DEF ReportInput
        <5>4. Asked(k) /\ k \in Names /\ Place(k) <= Place(name) /\ KindOf(k) = k
          <6>1. Asked(k)
            BY <5>1, <5>3 DEF Asked
          <6>2. k \in Names
            BY <3>4 DEF Names
          <6>3. Place(k) <= Place(name)
            BY <5>1, <5>2 DEF Place
          <6>4. KindOf(k) = k
            BY <5>1 DEF KindOf
          <6>. QED
            BY <6>1, <6>2, <6>3, <6>4
        <5>5. Place(k) <= lo
          <6>1. Place(k) \in Int /\ Place(name) \in Int
            BY <3>3, <5>4, Places
          <6>. QED
            BY <3>3, <5>4, <6>1
        <5>6. ~Skipped(k)
          <6>1. ShownBy(name) \subseteq ShownBy(k)
            BY <3>2, <5>1, <5>4 DEF ShownBy
          <6>2. Skipped(k) => Skipped(name)
            BY <3>2, <5>1, <5>4, <6>1 DEF Skipped, GroupTables
          <6>. QED
            BY <3>3, <5>1, <6>2
        <5>7. PICK j \in 1 .. m : page[j].name = k
          BY <2>1, <5>4, <5>5, <5>6 DEF PageUpTo
        <5>8. LeadsKind(k) /\ k # "monthly"
          BY <5>1 DEF LeadsKind
        <5>9. Anchor(k) = k
          BY <5>4, <5>8, Anchors
        <5>. QED
          BY <2>3, <5>7, <5>9
      <4>. QED
        BY <4>1, <4>2
    <3>6. PICK j \in 1 .. m : page[j].anchor = k
      BY <3>5
    <3>7. {q \in 1 .. m : page[q].anchor = k} = {j}
      BY <2>7, <3>4, <3>6
    <3>8. Cardinality({j}) = 1
      BY FS_Singleton
    <3>. QED
      BY <3>1, <3>2, <3>7, <3>8
  <2>9. \A i \in 1 .. m : page[i].anchor # None => page[i].anchor \in month_links
    BY <2>3, MenuHas
  <2>. QED
    BY <2>1, <2>6, <2>7, <2>8, <2>9 DEF LinksLead
<1>. QED
  BY <1>1, <1>2

(* Nothing is wanted of a table that has nothing to show.                  *)
LEMMA NothingWanted ==
  ASSUME ReportInput, NEW name \in Names, NEW k \in Kind \ {"countries", "cities", "asn"},
         KindOf(name) = k, LeadsKind(name), Skipped(name)
  PROVE  Wanted(k) = {}
<1>1. Wanted(k) \subseteq Visible(k) /\ Visible(k) \subseteq database[k]
  BY DEF Wanted, Visible
<1>2. Total(k) = 0 => database[k] = {}
  BY ItemCounts
<1>3. CASE name \in GroupTables
  <2>1. Total(k) = 0 \/ ShownBy(name) = {}
    BY <1>3 DEF Skipped, GroupTables
  <2>2. CASE name = "hostsK"
    <3>1. k = "hosts" /\ config.ntop["hosts"] = 0
      BY <2>2 DEF KindOf, LeadsKind
    <3>2. Wanted(k) \subseteq ShownBy(name)
      BY <2>2, <3>1 DEF Wanted, GroupsLeftOut, ShownBy
    <3>. QED
      BY <1>1, <1>2, <2>1, <3>2
  <2>3. CASE name # "hostsK"
    <3>1. Visible(k) \subseteq ShownBy(name)
      BY <2>3 DEF ShownBy
    <3>. QED
      BY <1>1, <1>2, <2>1, <3>1
  <2>. QED
    BY <2>2, <2>3
<1>4. CASE name \in {"downloads", "errors"}
  <2>1. k = name /\ Total(name) = 0
    BY <1>4 DEF Skipped, GroupTables, KindOf
  <2>. QED
    BY <1>1, <1>2, <2>1
<1>5. CASE name = "search"
  <2>1. k = "search" /\ (SearchHits = 0 \/ Total("search") = 0)
    BY <1>5 DEF Skipped, GroupTables, KindOf
  <2>2. CASE SearchHits = 0
    <3>1. \A n \in database["search"] : n.hits = 0
      BY <2>2, SearchHitsCount
    <3>2. \A n \in Wanted(k) : n \in database["search"] /\ n.hits > 0
      BY <1>1, <2>1 DEF Wanted
    <3>. QED
      BY <3>1, <3>2
  <2>. QED
    BY <1>1, <1>2, <2>1, <2>2
<1>6. name \in GroupTables \cup {"downloads", "errors", "search"}
  <2>1. name \in Kind \cup {"urlsK", "hostsK"} /\ name \notin {"countries", "cities", "asn"}
    BY ListedNames DEF KindOf
  <2>. QED
    BY <2>1 DEF Kind, GroupTables
<1>. QED
  BY <1>3, <1>4, <1>5, <1>6

(* Every visible item of a report that is done                             *)
LEMMA InvReachable == ReportInput /\ ReportInv => AllVisibleReachable
<1>. SUFFICES ASSUME ReportInput, ReportInv, Done, page # <<>>, NEW k \in config.all,
                     \E name \in ListOf(k) : config.ntop[name] > 0, k \notin MayFail
              PROVE  Wanted(k) \subseteq Reachable(k)
  BY DEF AllVisibleReachable
<1>1. k \in Kind \ {"countries", "cities", "asn"}
  BY DEF ReportInput
<1>2. PICK lead : lead \in ListOf(k) /\ config.ntop[lead] > 0 /\ LeadsKind(lead) /\ lead \in Names
  <2>1. k \in Names /\ KindOf(k) = k /\ k \in ListOf(k) /\ LeadsKind(k)
    BY <1>1 DEF Names, Kind, KindOf, ListOf, LeadsKind
  <2>2. CASE config.ntop[k] > 0
    BY <2>1, <2>2
  <2>3. CASE ~(config.ntop[k] > 0)
    <3>1. config.ntop[k] = 0
      BY <1>1, <2>3 DEF ReportInput
    <3>2. PICK name \in ListOf(k) : config.ntop[name] > 0
      OBVIOUS
    <3>3. name # k
      BY <2>3, <3>2
    <3>4. name \in {"urlsK", "hostsK"} /\ name \in Names
      BY <3>2, <3>3 DEF ListOf, ByTransfer, Names
    <3>5. KindOf(name) = k
      BY <1>1, <3>2, <3>4, ListedNames
    <3>. QED
      BY <3>1, <3>2, <3>4, <3>5 DEF LeadsKind
  <2>. QED
    BY <2>2, <2>3
<1>3. KindOf(lead) = k
  BY <1>1, <1>2, ListedNames
<1>4. Asked(lead)
  <2>1. lead \notin {"monthly", "daily", "hourly", "cities", "asn"}
    BY <1>1, <1>3 DEF KindOf, Kind
  <2>. QED
    BY <1>2, <2>1 DEF Asked
<1>5. PICK lo \in 0 .. 19, m \in Nat :
        m = Len(page) /\ DOMAIN page = 1 .. m /\ Tables = {page[i] : i \in 1 .. m}
        /\ PageUpTo(page, DOMAIN pages, lo) /\ Place(lead) <= lo
  BY <1>2, <1>4, PageHas
<1>6. CASE Skipped(lead)
  BY <1>1, <1>2, <1>3, <1>6, NothingWanted
<1>7. CASE ~Skipped(lead)
  <2>1. PICK i \in 1 .. m : page[i].name = lead
    BY <1>2, <1>4, <1>5, <1>7 DEF PageUpTo
  <2>2. PICK t : t = page[i]
    OBVIOUS
  <2>3. t \in Tables /\ t.name = lead /\ GoodTable(t) /\ (t.link # None => t.link \in DOMAIN pages)
    BY <1>5, <2>1, <2>2 DEF PageUpTo
  <2>4. Rows(t) \cup (IF t.link = None THEN {} ELSE ToSet(pages[t.link])) \subseteq Reachable(k)
    BY <1>2, <2>3 DEF Reachable
  <2>5. LinkedWell(lead, t.rows, t.link)
    BY <2>3 DEF GoodTable
  <2>6. CASE t.link = None
    BY <1>2, <1>3, <2>4, <2>5, <2>6 DEF LinkedWell, Rows
  <2>7. CASE t.link # None
    <3>1. t.link = k /\ Wanted(k) \subseteq ToSet(AllPage(k))
      BY <1>3, <2>5, <2>7 DEF LinkedWell
    <3>2. pages[t.link] = AllPage(k)
      BY <2>3, <2>7, <3>1 DEF ReportInv
    <3>. QED
      BY <2>4, <2>7, <3>1, <3>2
  <2>. QED
    BY <2>6, <2>7
<1>. QED
  BY <1>6, <1>7

-----------------------------------------------------------------------------
(* The theorems                                                            *)

(* The invariant holds of all reports of a month.                          *)
LEMMA ReportInvariant == Reporting /\ ReportInput => [](ReportInput /\ ReportInv)
<1>1. Starts => ReportInv
  <2>. SUFFICES ASSUME Starts  PROVE ReportInv
    OBVIOUS
  <2>1. todo = <<>> /\ page = <<>> /\ pages = <<>>
    BY DEF Starts, HtmlInit
  <2>2. \A k \in DOMAIN pages : pages[k] = AllPage(k)
    BY <2>1
  <2>. QED
    BY <2>1, <2>2 DEF ReportInv
<1>2. ReportInput /\ ReportInv /\ [Next]_vars => (ReportInput /\ ReportInv)'
  BY ReportStep
<1>. QED
  BY <1>1, <1>2, PTL DEF Reporting

(* A table shows the top of its list, whatever the month has: nothing that *)
(* is shown is outranked by a visible item that is not (top_urls_table and *)
(* the other tables of html_output.cpp).                                   *)
THEOREM TopsAlways == Reporting /\ ReportInput => []TopIsTop
<1>1. ReportInput /\ ReportInv => TopIsTop
  BY InvTop
<1>. QED
  BY <1>1, ReportInvariant, PTL

(* All links of tables to all-items pages lead to their items, and the     *)
(* anchors of the page are those of the menu.                              *)
THEOREM LinksAlwaysLead == Reporting /\ ReportInput => []LinksLead
<1>1. ReportInput /\ ReportInv => LinksLead
  BY InvLinks
<1>. QED
  BY <1>1, ReportInvariant, PTL

(* Every item that is not hidden is in a table or on the page that the     *)
(* table links to, if there is an option for such a page.                  *)
THEOREM VisibleFound == Reporting /\ ReportInput => []AllVisibleReachable
<1>1. ReportInput /\ ReportInv => AllVisibleReachable
  BY InvReachable
<1>. QED
  BY <1>1, ReportInvariant, PTL

-----------------------------------------------------------------------------
(* The other engines                                                       *)

Engines == {"html", "tsv", "json"}
Files == Kind \cup {"usage", "daily", "hourly"}

DumpField(k) ==
  CASE k = "downloads" -> "xfer"
    [] k \in {"countries", "cities", "asn"} -> "visits"
    [] OTHER -> "hits"

(* What is dumped of a table, and what is in a JSON file                   *)
DumpWhole(k, c) == Whole(c, Regulars(k), IndexOrder(k, DumpField(k), Regulars(k)))
ById(k) == {p \in database[k] \X database[k] : p[1].nodeid < p[2].nodeid}
FileWhole(f, c) ==
  CASE f = "usage"  -> c = Json!Usage
    [] f = "daily"  -> c = Json!When(totals.lday > 0, Json!Array(Len(ReportedDays)))
    [] f = "hourly" -> c = Json!Array(24)
    [] OTHER        -> Whole(c, database[f], ById(f))

(* An engine that is configured has still to start, or each of its files   *)
(* is written or is one that it has still to write.                        *)
Asks(engine) == engine \in ToSet(config.formats)
DumpInv ==
  /\ DOMAIN tsv = Kind /\ dumps \in Seq(Kind)
  /\ \A k \in Kind : tsv[k] = <<>> \/ DumpWhole(k, tsv[k])
  /\ \A k \in (config.dump \cap Kind) \ MayFail : Asks("tsv") =>
       "tsv" \in ToSet(output) \/ k \in ToSet(dumps) \/ DumpWhole(k, tsv[k])
FileInv ==
  /\ DOMAIN json = Files /\ steps \in Seq(Files)
  /\ \A f \in Files : json[f] = <<>> \/ FileWhole(f, json[f])
  /\ \A f \in Files \ MayFail : Asks("json") =>
       "json" \in ToSet(output) \/ f \in ToSet(steps) \/ FileWhole(f, json[f])
EnginesInv ==
  /\ output \in Seq(Engines)
  /\ writing # "tsv" => dumps = <<>>
  /\ writing # "json" => steps = <<>>
  /\ DumpInv /\ FileInv

(* What is selected is in the set, and all that is.                        *)
LEMMA SelectedHas ==
  ASSUME NEW S, NEW s \in Seq(S), NEW T
  PROVE  Selected(s, T) \in Seq(S \cap T) /\ ToSet(Selected(s, T)) = ToSet(s) \cap T
<1>1. PICK t : t = Selected(s, T)
  OBVIOUS
<1>2. t \in Seq(S \cap T) /\ \E a : PicksFrom(t, s, T, a)
  BY <1>1, SelectedIs
<1>3. PICK a : PicksFrom(t, s, T, a)
  BY <1>2
<1>4. PICK n \in Nat, m \in Nat : n = Len(s) /\ m = Len(t)
  BY <1>2
<1>5. DOMAIN s = 1 .. n /\ DOMAIN t = 1 .. m
  BY <1>2, <1>4
<1>6. /\ \A k \in 1 .. m : a[k] \in 1 .. n /\ t[k] = s[a[k]]
      /\ \A i \in 1 .. n : s[i] \in T <=> \E k \in 1 .. m : a[k] = i
  BY <1>3, <1>4 DEF PicksFrom
<1>7. \A x : x \in ToSet(t) <=> x \in ToSet(s) \cap T
  <2>1. \A x : x \in ToSet(t) <=> \E k \in 1 .. m : t[k] = x
    BY <1>5 DEF ToSet
  <2>2. \A x : x \in ToSet(s) <=> \E i \in 1 .. n : s[i] = x
    BY <1>5 DEF ToSet
  <2>. QED
    BY <1>6, <2>1, <2>2
<1>. QED
  BY <1>1, <1>2, <1>7

(* All but the first of a sequence are left.                               *)
LEMMA LeftOf ==
  ASSUME NEW S, NEW s \in Seq(S), s # <<>>
  PROVE  Head(s) \in S /\ Tail(s) \in Seq(S) /\ ToSet(s) = {Head(s)} \cup ToSet(Tail(s))
<1>1. PICK n \in Nat : n = Len(s) /\ n > 0
  OBVIOUS
<1>2. PICK t : t = Tail(s)
  OBVIOUS
<1>3. /\ DOMAIN s = 1 .. n /\ s[1] = Head(s) /\ Head(s) \in S
      /\ t \in Seq(S) /\ DOMAIN t = 1 .. n - 1 /\ \A i \in 1 .. n - 1 : t[i] = s[i + 1]
  BY <1>1, <1>2
<1>4. \A i \in 2 .. n : i - 1 \in 1 .. n - 1 /\ s[i] = t[i - 1]
  BY <1>3
<1>5. ToSet(s) = {Head(s)} \cup ToSet(t)
  <2>1. \A x \in ToSet(s) : x \in {Head(s)} \cup ToSet(t)
    <3>. SUFFICES ASSUME NEW i \in 1 .. n  PROVE s[i] \in {Head(s)} \cup ToSet(t)
      BY <1>3 DEF ToSet
    <3>1. CASE i = 1
      BY <1>3, <3>1
    <3>2. CASE i # 1
      BY <1>3, <1>4, <3>2 DEF ToSet
    <3>. QED
      BY <3>1, <3>2
  <2>2. \A x \in {Head(s)} \cup ToSet(t) : x \in ToSet(s)
    BY <1>1, <1>3 DEF ToSet
  <2>. QED
    BY <2>1, <2>2
<1>. QED
  BY <1>2, <1>3, <1>5

(* The kinds without groups have regular items only.                       *)
LEMMA DumpIs ==
  ASSUME ReportInput, NEW k \in Kind
  PROVE  /\ DumpWhole(k, IndexOf(k, DumpField(k), Regulars(k)))
         /\ k \notin Grouped => database[k] = Regulars(k)
<1>1. Regulars(k) \in SUBSET database[k]
  BY DEF Regulars
<1>2. DumpField(k) \in Fields /\ DumpField(k) \in index_desc[k].all
  BY DEF DumpField, Fields, index_desc, Kind
<1>3. k \notin Grouped => database[k] = Regulars(k)
  BY DEF Regulars, ReportInput
<1>. QED
  BY <1>1, <1>2, <1>3, IndexIs DEF DumpWhole

(* The engines read the same indexes.                                      *)
LEMMA SameIndexes ==
  /\ \A k, f, S : Tsv!IndexOf(k, f, S) = IndexOf(k, f, S)
  /\ \A k : Tsv!Regulars(k) = Regulars(k)
  /\ \A k : Json!Forward(k) = Forward(k)
  /\ Json!ReportedDays = ReportedDays
<1>1. \A S, o : Tsv!Ranked(S, o) = Ranked(S, o)
  BY DEF Tsv!Ranked, Ranked, Tsv!Preceding, Preceding, Tsv!Cardinality, Cardinality
<1>2. \A S, o : Json!Ranked(S, o) = Ranked(S, o)
  BY DEF Json!Ranked, Ranked, Json!Preceding, Preceding, Json!Cardinality, Cardinality
<1>3. \A k, f, S : Tsv!IndexOrder(k, f, S) = IndexOrder(k, f, S)
  BY DEF Tsv!IndexOrder, IndexOrder, Tsv!Outranks, Outranks
<1>4. Tsv!index_desc = index_desc
  BY DEF Tsv!index_desc, index_desc, Tsv!Kind, Kind
<1>5. \A k, f, S : Tsv!IndexOf(k, f, S) = IndexOf(k, f, S)
  BY <1>1, <1>3, <1>4 DEF Tsv!IndexOf, IndexOf, Tsv!ReadBack, ReadBack
<1>6. \A k : Tsv!Regulars(k) = Regulars(k)
  BY DEF Tsv!Regulars, Regulars
<1>7. \A k : Json!Forward(k) = Forward(k)
  BY <1>2 DEF Json!Forward, Forward
<1>8. Json!ReportedDays = ReportedDays
  BY DEF Json!ReportedDays, ReportedDays, Json!Min, Min
<1>. QED
  BY <1>5, <1>6, <1>7, <1>8

(* A dump writes the next of its files, if it can be opened.               *)
LEMMA DumpsNext ==
  ASSUME ReportInput, Tsv!NextDump
  PROVE  \E k \in Kind :
           /\ dumps # <<>> /\ Head(dumps) = k /\ dumps' = Tail(dumps)
           /\ \/ \E c : DumpWhole(k, c) /\ tsv' = [tsv EXCEPT ![k] = c]
              \/ k \in MayFail /\ tsv' = tsv
<1>1. \E k \in Kind : Tsv!Dump(k, IndexOf(k, DumpField(k), Regulars(k)))
  <2>1. ASSUME NEW k \in {"hosts", "urls", "referrers", "agents", "users"},
               Tsv!Dump(k, IndexOf(k, "hits", Regulars(k)))
        PROVE  k \in Kind /\ Tsv!Dump(k, IndexOf(k, DumpField(k), Regulars(k)))
    <3>1. k \in Kind /\ DumpField(k) = "hits"
      BY DEF Kind, DumpField
    <3>. QED
      BY <2>1, <3>1
  <2>2. ASSUME NEW k \in {"downloads", "errors", "search", "cities", "asn", "countries"},
               Tsv!Dump(k, IndexOf(k, DumpField(k), database[k]))
        PROVE  k \in Kind /\ Tsv!Dump(k, IndexOf(k, DumpField(k), Regulars(k)))
    <3>1. k \in Kind /\ k \notin Grouped
      BY DEF Kind, Grouped
    <3>2. database[k] = Regulars(k)
      BY <3>1, DumpIs
    <3>. QED
      BY <2>2, <3>1, <3>2
  <2>3. CASE Tsv!dump_all_hosts \/ Tsv!dump_all_urls \/ Tsv!dump_all_refs
             \/ Tsv!dump_all_agents \/ Tsv!dump_all_users
    BY <2>1, <2>3, SameIndexes DEF Tsv!dump_all_hosts, Tsv!dump_all_urls, Tsv!dump_all_refs,
                      Tsv!dump_all_agents, Tsv!dump_all_users
  <2>4. CASE Tsv!dump_all_downloads \/ Tsv!dump_all_errors \/ Tsv!dump_all_search
             \/ Tsv!dump_all_cities \/ Tsv!dump_all_asn \/ Tsv!dump_all_countries
    <3>1. /\ DumpField("downloads") = "xfer" /\ DumpField("errors") = "hits"
          /\ DumpField("search") = "hits" /\ DumpField("cities") = "visits"
          /\ DumpField("asn") = "visits" /\ DumpField("countries") = "visits"
      BY DEF DumpField
    <3>. QED
      BY <2>2, <2>4, <3>1, SameIndexes DEF Tsv!dump_all_downloads, Tsv!dump_all_errors, Tsv!dump_all_search,
                         Tsv!dump_all_cities, Tsv!dump_all_asn, Tsv!dump_all_countries
  <2>. QED
    BY <2>3, <2>4 DEF Tsv!NextDump
<1>2. PICK k \in Kind : Tsv!Dump(k, IndexOf(k, DumpField(k), Regulars(k)))
  BY <1>1
<1>. QED
  BY <1>2, DumpIs DEF Tsv!Dump

(* A JSON file is written, if it can be opened.                            *)
LEMMA FilesNext ==
  ASSUME ReportInput, Json!NextFile
  PROVE  \E f \in Files :
           /\ steps # <<>> /\ Head(steps) = f /\ steps' = Tail(steps)
           /\ \/ \E c : FileWhole(f, c) /\ json' = [json EXCEPT ![f] = c]
              \/ f \in MayFail /\ json' = json
<1>1. \E f \in Files : \E c : FileWhole(f, c) /\ Json!File(f, c)
  <2>1. ASSUME NEW k \in Kind, Json!File(k, Forward(k))
        PROVE  k \in Files /\ FileWhole(k, Forward(k))
    <3>1. IsFiniteSet(database[k]) /\ StrictOrder(database[k], ById(k))
      BY DEF ReportInput, StrictOrder, ById
    <3>2. Whole(Forward(k), database[k], ById(k))
      BY <3>1, WholeRanked DEF Forward, ById
    <3>. QED
      BY <3>2 DEF Files, FileWhole, Kind
  <2>2. CASE Json!dump_totals \/ Json!dump_daily \/ Json!dump_hourly
    <3>1. /\ FileWhole("usage", Json!Usage) /\ FileWhole("hourly", Json!Array(24))
          /\ FileWhole("daily", Json!When(totals.lday > 0, Json!Array(Len(ReportedDays))))
      BY DEF FileWhole
    <3>. QED
      BY <2>2, <3>1, SameIndexes DEF Files, Json!dump_totals, Json!dump_daily, Json!dump_hourly
  <2>3. CASE \E k \in Kind : Json!File(k, Forward(k))
    BY <2>1, <2>3
  <2>4. CASE \/ Json!dump_all_hosts \/ Json!dump_all_urls \/ Json!dump_all_refs
             \/ Json!dump_all_downloads \/ Json!dump_all_errors \/ Json!dump_all_agents
             \/ Json!dump_all_users \/ Json!dump_all_search \/ Json!dump_all_cities
             \/ Json!dump_all_asn \/ Json!dump_all_countries
    <3>1. \E k \in Kind : Json!File(k, Forward(k))
      BY <2>4, SameIndexes DEF Kind, Json!dump_all_hosts, Json!dump_all_urls, Json!dump_all_refs,
             Json!dump_all_downloads, Json!dump_all_errors, Json!dump_all_agents,
             Json!dump_all_users, Json!dump_all_search, Json!dump_all_cities,
             Json!dump_all_asn, Json!dump_all_countries
    <3>. QED
      BY <2>3, <3>1
  <2>. QED
    BY <2>2, <2>4 DEF Json!NextFile
<1>. QED
  BY <1>1 DEF Json!File

(* While the month and the configuration stay, so does what engines write. *)
LEMMA FilesStay ==
  ASSUME UNCHANGED <<config, database, totals>>
  PROVE  /\ \A k, c : DumpWhole(k, c)' <=> DumpWhole(k, c)
         /\ \A f, c : FileWhole(f, c)' <=> FileWhole(f, c)
         /\ \A e : Asks(e)' <=> Asks(e)
<1>1. config' = config /\ database' = database /\ totals' = totals
  OBVIOUS
<1>2. \A k, c : DumpWhole(k, c)' <=> DumpWhole(k, c)
  BY <1>1 DEF DumpWhole, Regulars
<1>3. Json!Usage' = Json!Usage
  <2>1. Json!Humans' = Json!Humans
    BY <1>1 DEF Json!Humans
  <2>2. Json!Averages' = Json!Averages
    BY <1>1 DEF Json!Averages
  <2>. QED
    BY <1>1, <2>1, <2>2 DEF Json!Usage
<1>4. ReportedDays' = ReportedDays
  BY <1>1 DEF ReportedDays
<1>5. \A f : ById(f)' = ById(f)
  BY <1>1 DEF ById
<1>6. \A f, c : FileWhole(f, c)' <=> FileWhole(f, c)
  BY <1>1, <1>3, <1>4, <1>5 DEF FileWhole
<1>7. \A e : Asks(e)' <=> Asks(e)
  BY <1>1 DEF Asks
<1>. QED
  BY <1>2, <1>6, <1>7

(* The tables that an engine begins with                                   *)
LEMMA Begins ==
  /\ Tsv!write_monthly_report =>
       dumps' \in Seq(Kind) /\ config.dump \cap Kind \subseteq ToSet(dumps')
  /\ Json!write_monthly_report => steps' \in Seq(Files) /\ Files \subseteq ToSet(steps')
<1>1. ASSUME Tsv!write_monthly_report
      PROVE  dumps' \in Seq(Kind) /\ config.dump \cap Kind \subseteq ToSet(dumps')
  <2>1. PICK all : all = <<"downloads", "urls", "errors", "hosts", "referrers", "search",
                           "users", "agents", "countries", "cities", "asn">>
    OBVIOUS
  <2>2. all \in Seq(Kind) /\ DOMAIN all = 1 .. 11
    BY <2>1 DEF Kind
  <2>3. Kind \subseteq ToSet(all)
    <3>1. /\ all[1] = "downloads" /\ all[2] = "urls" /\ all[3] = "errors" /\ all[4] = "hosts"
          /\ all[5] = "referrers" /\ all[6] = "search" /\ all[7] = "users" /\ all[8] = "agents"
          /\ all[9] = "countries" /\ all[10] = "cities" /\ all[11] = "asn"
      BY <2>1
    <3>2. \A i \in 1 .. 11 : all[i] \in ToSet(all)
      BY <2>2 DEF ToSet
    <3>. QED
      BY <3>1, <3>2 DEF Kind
  <2>4. dumps' = Selected(all, config.dump)
    <3>1. \A s, T : Tsv!Selected(s, T) = Selected(s, T)
      <4>1. \A S, o : Tsv!Ranked(S, o) = Ranked(S, o)
        BY DEF Tsv!Ranked, Ranked, Tsv!Preceding, Preceding, Tsv!Cardinality, Cardinality
      <4>2. \A S : Tsv!Ascending(S) = Ascending(S)
        BY <4>1 DEF Tsv!Ascending, Ascending
      <4>3. \A S : Tsv!Cardinality(S) = Cardinality(S)
        BY DEF Tsv!Cardinality, Cardinality
      <4>4. ASSUME NEW s, NEW T  PROVE Tsv!Selected(s, T) = Selected(s, T)
        <5>1. PICK K : K = {i \in DOMAIN s : s[i] \in T}
          OBVIOUS
        <5>2. Selected(s, T) = [k \in 1 .. Cardinality(K) |-> s[Ranked(K, Ascending(K))[k]]]
          BY <5>1 DEF Selected
        <5>3. Tsv!Selected(s, T)
                = [k \in 1 .. Tsv!Cardinality(K) |-> s[Tsv!Ranked(K, Tsv!Ascending(K))[k]]]
          BY <5>1 DEF Tsv!Selected
        <5>. QED
          BY <4>1, <4>2, <4>3, <5>2, <5>3
      <4>. QED
        BY <4>4
    <3>2. dumps' = Tsv!Selected(all, config.dump)
      BY <1>1, <2>1 DEF Tsv!write_monthly_report
    <3>. QED
      BY <3>1, <3>2
  <2>5. dumps' \in Seq(Kind \cap config.dump) /\ ToSet(dumps') = ToSet(all) \cap config.dump
    BY <2>2, <2>4, SelectedHas
  <2>. QED
    BY <2>3, <2>5
<1>2. ASSUME Json!write_monthly_report
      PROVE  steps' \in Seq(Files) /\ Files \subseteq ToSet(steps')
  <2>1. PICK all : all = <<"usage", "daily", "hourly", "downloads", "urls", "errors", "hosts",
                           "referrers", "search", "users", "agents", "countries", "cities", "asn">>
    OBVIOUS
  <2>2. all \in Seq(Files) /\ DOMAIN all = 1 .. 14
    BY <2>1 DEF Files, Kind
  <2>3. Files \subseteq ToSet(all)
    <3>1. /\ all[1] = "usage" /\ all[2] = "daily" /\ all[3] = "hourly" /\ all[4] = "downloads"
          /\ all[5] = "urls" /\ all[6] = "errors" /\ all[7] = "hosts" /\ all[8] = "referrers"
          /\ all[9] = "search" /\ all[10] = "users" /\ all[11] = "agents"
          /\ all[12] = "countries" /\ all[13] = "cities" /\ all[14] = "asn"
      BY <2>1
    <3>2. \A i \in 1 .. 14 : all[i] \in ToSet(all)
      BY <2>2 DEF ToSet
    <3>. QED
      BY <3>1, <3>2 DEF Files, Kind
  <2>4. steps' = all
    BY <1>2, <2>1 DEF Json!write_monthly_report
  <2>. QED
    BY <2>2, <2>3, <2>4
<1>. QED
  BY <1>1, <1>2

(* Every step of the tab-separated report                                  *)
LEMMA DumpStep ==
  ASSUME ReportInput, DumpInv, UNCHANGED <<config, database, totals>>,
         \/ UNCHANGED <<dumps, tsv>> /\ ("tsv" \in ToSet(output) => "tsv" \in ToSet(output'))
         \/ Tsv!write_monthly_report
         \/ Tsv!NextDump /\ output' = output
  PROVE  DumpInv'
<1>1. /\ \A k, c : DumpWhole(k, c)' <=> DumpWhole(k, c)
      /\ Asks("tsv")' <=> Asks("tsv")
  BY FilesStay
<1>2. CASE UNCHANGED <<dumps, tsv>> /\ ("tsv" \in ToSet(output) => "tsv" \in ToSet(output'))
  BY <1>1, <1>2 DEF DumpInv
<1>3. CASE Tsv!write_monthly_report
  <2>1. tsv' = tsv /\ dumps' \in Seq(Kind) /\ config.dump \cap Kind \subseteq ToSet(dumps')
    BY <1>3, Begins DEF Tsv!write_monthly_report
  <2>. QED
    BY <1>1, <2>1 DEF DumpInv
<1>4. CASE Tsv!NextDump /\ output' = output
  <2>1. PICK k \in Kind :
           /\ dumps # <<>> /\ Head(dumps) = k /\ dumps' = Tail(dumps)
           /\ \/ \E c : DumpWhole(k, c) /\ tsv' = [tsv EXCEPT ![k] = c]
              \/ k \in MayFail /\ tsv' = tsv
    BY <1>4, DumpsNext
  <2>2. dumps' \in Seq(Kind) /\ ToSet(dumps) = {k} \cup ToSet(dumps')
    BY <2>1, LeftOf DEF DumpInv
  <2>3. /\ DOMAIN tsv' = Kind /\ \A j \in Kind \ {k} : tsv'[j] = tsv[j]
        /\ tsv'[k] = tsv[k] \/ DumpWhole(k, tsv'[k])
        /\ k \in MayFail \/ DumpWhole(k, tsv'[k])
    BY <2>1 DEF DumpInv
  <2>4. \A j \in Kind : tsv'[j] = <<>> \/ DumpWhole(j, tsv'[j])
    BY <2>3 DEF DumpInv
  <2>5. ASSUME NEW j \in (config.dump \cap Kind) \ MayFail, Asks("tsv")
        PROVE  "tsv" \in ToSet(output') \/ j \in ToSet(dumps') \/ DumpWhole(j, tsv'[j])
    <3>1. "tsv" \in ToSet(output) \/ j \in ToSet(dumps) \/ DumpWhole(j, tsv[j])
      BY <2>5 DEF DumpInv
    <3>2. output' = output
      BY <1>4
    <3>3. CASE j = k
      BY <2>3, <2>5, <3>3
    <3>4. CASE j # k
      BY <2>2, <2>3, <2>5, <3>1, <3>2, <3>4
    <3>. QED
      BY <3>3, <3>4
  <2>. QED
    BY <1>1, <2>2, <2>3, <2>4, <2>5 DEF DumpInv
<1>. QED
  BY <1>2, <1>3, <1>4

(* Every step of the JSON report                                           *)
LEMMA FileStep ==
  ASSUME ReportInput, FileInv, UNCHANGED <<config, database, totals>>,
         \/ UNCHANGED <<steps, json>> /\ ("json" \in ToSet(output) => "json" \in ToSet(output'))
         \/ Json!write_monthly_report
         \/ Json!NextFile /\ output' = output
  PROVE  FileInv'
<1>1. /\ \A f, c : FileWhole(f, c)' <=> FileWhole(f, c)
      /\ Asks("json")' <=> Asks("json")
  BY FilesStay
<1>2. CASE UNCHANGED <<steps, json>> /\ ("json" \in ToSet(output) => "json" \in ToSet(output'))
  BY <1>1, <1>2 DEF FileInv
<1>3. CASE Json!write_monthly_report
  <2>1. json' = json /\ steps' \in Seq(Files) /\ Files \subseteq ToSet(steps')
    BY <1>3, Begins DEF Json!write_monthly_report
  <2>. QED
    BY <1>1, <2>1 DEF FileInv
<1>4. CASE Json!NextFile /\ output' = output
  <2>1. PICK k \in Files :
           /\ steps # <<>> /\ Head(steps) = k /\ steps' = Tail(steps)
           /\ \/ \E c : FileWhole(k, c) /\ json' = [json EXCEPT ![k] = c]
              \/ k \in MayFail /\ json' = json
    BY <1>4, FilesNext
  <2>2. steps' \in Seq(Files) /\ ToSet(steps) = {k} \cup ToSet(steps')
    BY <2>1, LeftOf DEF FileInv
  <2>3. /\ DOMAIN json' = Files /\ \A j \in Files \ {k} : json'[j] = json[j]
        /\ json'[k] = json[k] \/ FileWhole(k, json'[k])
        /\ k \in MayFail \/ FileWhole(k, json'[k])
    BY <2>1 DEF FileInv
  <2>4. \A j \in Files : json'[j] = <<>> \/ FileWhole(j, json'[j])
    BY <2>3 DEF FileInv
  <2>5. ASSUME NEW j \in Files \ MayFail, Asks("json")
        PROVE  "json" \in ToSet(output') \/ j \in ToSet(steps') \/ FileWhole(j, json'[j])
    <3>1. "json" \in ToSet(output) \/ j \in ToSet(steps) \/ FileWhole(j, json[j])
      BY <2>5 DEF FileInv
    <3>2. output' = output
      BY <1>4
    <3>3. CASE j = k
      BY <2>3, <2>5, <3>3
    <3>4. CASE j # k
      BY <2>2, <2>3, <2>5, <3>1, <3>2, <3>4
    <3>. QED
      BY <3>3, <3>4
  <2>. QED
    BY <1>1, <2>2, <2>3, <2>4, <2>5 DEF FileInv
<1>. QED
  BY <1>2, <1>3, <1>4

(* Every step keeps the invariant of the engines.                          *)
LEMMA EnginesStep ==
  ASSUME ReportInput, EnginesInv, [Next]_vars
  PROVE  EnginesInv'
<1>1. UNCHANGED <<config, database, totals>>
  BY DEF Next, vars
<1>2. /\ output \in Seq(Engines) /\ DumpInv /\ FileInv
      /\ writing # "tsv" => dumps = <<>>
      /\ writing # "json" => steps = <<>>
  BY DEF EnginesInv
<1>3. CASE write_report
  <2>1. /\ writing = None /\ output # <<>> /\ writing' = Head(output) /\ output' = Tail(output)
        /\ Head(output) = "tsv" \/ UNCHANGED <<dumps, tsv>>
        /\ Head(output) = "json" \/ UNCHANGED <<steps, json>>
        /\ Head(output) = "tsv" => Tsv!write_monthly_report
        /\ Head(output) = "json" => Json!write_monthly_report
    BY <1>3 DEF write_report
  <2>2. /\ Head(output) \in Engines /\ output' \in Seq(Engines)
        /\ ToSet(output) = {Head(output)} \cup ToSet(output')
    BY <1>2, <2>1, LeftOf
  <2>3. dumps = <<>> /\ steps = <<>>
    BY <1>2, <2>1 DEF None
  <2>4. DumpInv'
    BY <1>1, <1>2, <2>1, <2>2, DumpStep
  <2>5. FileInv'
    BY <1>1, <1>2, <2>1, <2>2, FileStep
  <2>. QED
    BY <2>1, <2>2, <2>3, <2>4, <2>5 DEF EnginesInv
<1>4. CASE Engine /\ UNCHANGED <<output, writing>>
  <2>1. CASE writing = "tsv" /\ Tsv!NextDump /\ UNCHANGED <<steps, json>>
    <3>1. DumpInv' /\ FileInv'
      BY <1>1, <1>2, <1>4, <2>1, DumpStep, FileStep
    <3>. QED
      BY <1>2, <1>4, <2>1, <3>1 DEF EnginesInv
  <2>2. CASE writing = "json" /\ Json!NextFile /\ UNCHANGED <<dumps, tsv>>
    <3>1. DumpInv' /\ FileInv'
      BY <1>1, <1>2, <1>4, <2>2, DumpStep, FileStep
    <3>. QED
      BY <1>2, <1>4, <2>2, <3>1 DEF EnginesInv
  <2>3. CASE UNCHANGED <<dumps, tsv, steps, json>>
    <3>1. DumpInv' /\ FileInv'
      BY <1>1, <1>2, <1>4, <2>3, DumpStep, FileStep
    <3>. QED
      BY <1>2, <1>4, <2>3, <3>1 DEF EnginesInv
  <2>. QED
    BY <1>4, <2>1, <2>2, <2>3 DEF Engine
<1>5. CASE Written \/ UNCHANGED vars
  <2>1. /\ UNCHANGED <<dumps, tsv, steps, json, output>>
        /\ writing' = writing \/ (dumps = <<>> /\ steps = <<>>)
    BY <1>5 DEF Written, vars
  <2>2. DumpInv' /\ FileInv'
    BY <1>1, <1>2, <2>1, DumpStep, FileStep
  <2>. QED
    BY <1>2, <2>1, <2>2 DEF EnginesInv
<1>. QED
  BY <1>3, <1>4, <1>5 DEF Next

(* The invariant of the engines holds of all reports of a month.           *)
LEMMA EnginesInvariant == Reporting /\ ReportInput => [](ReportInput /\ ReportInv /\ EnginesInv)
<1>1. ReportInput /\ Starts => EnginesInv
  <2>. SUFFICES ASSUME ReportInput, Starts  PROVE EnginesInv
    OBVIOUS
  <2>1. /\ dumps = <<>> /\ tsv = [k \in Kind |-> <<>>] /\ steps = <<>>
        /\ json = [f \in Files |-> <<>>]
        /\ output = Selected(config.formats, Engines)
    BY DEF Starts, Tsv!DumpInit, Json!JsonInit, init_output_engines, Engines, Files,
           Tsv!Kind, Json!Kind, Kind
  <2>2. /\ output \in Seq(STRING \cap Engines)
        /\ ToSet(output) = ToSet(config.formats) \cap Engines
    BY <2>1, SelectedHas DEF ReportInput
  <2>3. output \in Seq(Engines)
    BY <2>2
  <2>4. /\ Asks("tsv") => "tsv" \in ToSet(output)
        /\ Asks("json") => "json" \in ToSet(output)
    BY <2>2 DEF Asks, Engines
  <2>5. dumps \in Seq(Kind) /\ steps \in Seq(Files)
    BY <2>1
  <2>. QED
    BY <2>1, <2>3, <2>4, <2>5 DEF EnginesInv, DumpInv, FileInv
<1>2. ReportInput /\ EnginesInv /\ [Next]_vars => EnginesInv'
  BY EnginesStep
<1>. QED
  BY <1>1, <1>2, ReportInvariant, PTL DEF Reporting

(* A list that is whole has the elements of its set, once each.            *)
LEMMA WholeSet ==
  ASSUME NEW s, NEW S, NEW order, Whole(s, S, order)
  PROVE  ToSet(s) = S /\ Len(s) = Cardinality(S)
<1>1. PICK m \in Nat : m = Len(s)
  BY DEF Whole
<1>2. /\ DOMAIN s = 1 .. m /\ \A i \in 1 .. m : s[i] \in S
      /\ \A x \in S : \E i \in 1 .. m : s[i] = x
  BY <1>1 DEF Whole
<1>3. ToSet(s) = S
  BY <1>2 DEF ToSet
<1>. QED
  BY <1>3 DEF Whole

(* All items that a reader of the HTML report finds are in the table.      *)
LEMMA ReachableItems ==
  ASSUME ReportInput, ReportInv, NEW k \in Kind
  PROVE  Reachable(k) \subseteq database[k]
<1>1. ASSUME NEW t \in Tables, t.name \in ListOf(k)
      PROVE  Rows(t) \subseteq database[k]
             /\ (t.link # None => ToSet(pages[t.link]) \subseteq database[k])
  <2>1. page # <<>>
    BY NoPageNoTables
  <2>2. PICK lo \in 0 .. 19, m \in Nat : m = Len(page) /\ Tables = {page[i] : i \in 1 .. m}
                                         /\ PageUpTo(page, DOMAIN pages, lo)
    BY <2>1, PageHas
  <2>3. GoodTable(t) /\ (t.link # None => t.link \in DOMAIN pages)
    BY <2>2 DEF PageUpTo
  <2>4. t.name \in Names /\ KindOf(t.name) = k /\ Listed(t)
    BY <1>1, <2>3, ListedNames DEF GoodTable, Listed
  <2>5. Rows(t) \subseteq Visible(k) /\ Visible(k) \subseteq database[k]
    BY <2>3, <2>4 DEF GoodTable, TopOfList, Rows, Visible
  <2>6. ASSUME t.link # None  PROVE ToSet(pages[t.link]) \subseteq database[k]
    <3>1. t.link = k
      BY <2>3, <2>4, <2>6 DEF GoodTable, LinkedWell
    <3>2. pages[t.link] = AllPage(k)
      BY <2>3, <2>6, <3>1 DEF ReportInv
    <3>3. CASE k \in {"countries", "cities", "asn"}
      <4>1. AllPage(k) = <<>>
        BY <3>3 DEF AllPage
      <4>. QED
        BY <3>2, <4>1 DEF ToSet
    <3>4. CASE k \notin {"countries", "cities", "asn"}
      BY <3>2, <3>4, AllPageHas
    <3>. QED
      BY <3>3, <3>4
  <2>. QED
    BY <2>5, <2>6
<1>2. ASSUME NEW t \in {u \in Tables : u.name \in ListOf(k)}
      PROVE  Rows(t) \cup (IF t.link = None THEN {} ELSE ToSet(pages[t.link])) \subseteq database[k]
  BY <1>1
<1>. QED
  BY <1>2 DEF Reachable

(* Node IDs that fit in an identifier of the JSON report; countries of     *)
(* cities have codes of two letters.                                       *)
IsLetter(char) == Json!Letter(char) \in 1 .. LetterIds - 1
IsCity(nodeid) ==
  \/ Json!Country(nodeid) = 0
  \/ IsLetter(Json!Country(nodeid) \div CharIds) /\ IsLetter(Json!Country(nodeid) % CharIds)

IdsFit ==
  /\ \A k \in Kind \ {"cities"} : \A n \in database[k] : n.nodeid < NodeIds
  /\ \A n \in database["cities"] : IsCity(n.nodeid) /\ Json!compact_nodeid(n.nodeid) < NodeIds

(* A number with digits in a base tells what they are.                     *)
LEMMA DigitsDiffer ==
  ASSUME NEW n \in Nat \ {0}, NEW a \in 0 .. n - 1, NEW b \in 0 .. n - 1,
         NEW p \in Nat, NEW q \in Nat, p * n + a = q * n + b
  PROVE  p = q /\ a = b
<1>1. \A x, y \in Nat : x > y => x * n >= y * n + n
  <2>. SUFFICES ASSUME NEW x \in Nat, NEW y \in Nat, x > y  PROVE x * n >= y * n + n
    OBVIOUS
  <2>1. PICK d \in Nat : x = y + 1 + d
    <3>1. x - y - 1 \in Nat /\ x = y + 1 + (x - y - 1)
      OBVIOUS
    <3>. QED
      BY <3>1
  <2>2. x * n = y * n + n + d * n /\ d * n \in Nat /\ y * n \in Nat
    BY <2>1
  <2>. QED
    BY <2>2
<1>2. p * n \in Nat /\ q * n \in Nat
  OBVIOUS
<1>3. ~(p > q)
  BY <1>1, <1>2
<1>4. ~(q > p)
  BY <1>1, <1>2
<1>5. p = q
  BY <1>3, <1>4
<1>. QED
  BY <1>2, <1>5

(* The digits of a number                                                  *)
LEMMA Digits ==
  ASSUME NEW n \in Nat \ {0}, NEW x \in Nat
  PROVE  x \div n \in Nat /\ x % n \in 0 .. n - 1 /\ x = (x \div n) * n + (x % n)
OBVIOUS

(* A compact node ID has the letters of a country above the geoname ID of  *)
(* the city, or no letters.                                                *)
LEMMA CompactDigits ==
  ASSUME NEW x \in Nat, IsCity(x)
  PROVE  \E first, second \in 0 .. LetterIds - 1 :
           /\ Json!compact_nodeid(x) = (first * LetterIds + second) * GeonameIds + (x % GeonameIds)
           /\ IF Json!Country(x) = 0
              THEN first = 0 /\ second = 0
              ELSE /\ first > 0
                   /\ Json!Country(x) = (first + FirstLetter - 1) * CharIds + (second + FirstLetter - 1)
<1>. DEFINE code == Json!Country(x)
<1>1. /\ NodeIds \in Nat \ {0} /\ GeonameIds \in Nat \ {0} /\ CharIds \in Nat \ {0}
      /\ LetterIds \in Nat \ {0} /\ FirstLetter \in Nat \ {0}
  BY IdsAssumption
<1>2. code \in Nat /\ x % GeonameIds \in Nat /\ x = code * GeonameIds + (x % GeonameIds)
  <2>1. /\ x \div GeonameIds \in Nat /\ x % GeonameIds \in 0 .. GeonameIds - 1
        /\ x = (x \div GeonameIds) * GeonameIds + (x % GeonameIds)
    BY <1>1, Digits
  <2>2. code = x \div GeonameIds
    BY DEF Json!Country
  <2>. QED
    BY ONLY <1>1, <2>1, <2>2
<1>3. CASE code = 0
  <2>1. Json!compact_nodeid(x) = x
    BY <1>3 DEF Json!compact_nodeid
  <2>2. x = x % GeonameIds /\ (0 * LetterIds + 0) * GeonameIds + (x % GeonameIds) = x % GeonameIds
    BY <1>1, <1>2, <1>3
  <2>. QED
    BY <1>1, <1>3, <2>1, <2>2
<1>4. CASE code # 0
  <2>. DEFINE first == Json!Letter(code \div CharIds)
              second == Json!Letter(code % CharIds)
  <2>1. first \in 1 .. LetterIds - 1 /\ second \in 1 .. LetterIds - 1
    BY <1>4 DEF IsCity, IsLetter
  <2>2. Json!compact_nodeid(x) = (first * LetterIds + second) * GeonameIds + (x % GeonameIds)
    BY <1>4 DEF Json!compact_nodeid
  <2>3. code \div CharIds \in Nat /\ code % CharIds \in Nat
        /\ code = (code \div CharIds) * CharIds + (code % CharIds)
    <3>. HIDE DEF code, first, second
    <3>1. /\ code \div CharIds \in Nat /\ code % CharIds \in 0 .. CharIds - 1
          /\ code = (code \div CharIds) * CharIds + (code % CharIds)
      BY <1>1, <1>2, Digits
    <3>. QED
      BY <1>1, <3>1
  <2>4. code \div CharIds = first + FirstLetter - 1 /\ code % CharIds = second + FirstLetter - 1
    BY <1>1, <2>3 DEF Json!Letter
  <2>5. code = (first + FirstLetter - 1) * CharIds + (second + FirstLetter - 1)
    BY <2>3, <2>4
  <2>6. first \in 0 .. LetterIds - 1 /\ second \in 0 .. LetterIds - 1 /\ first > 0
    BY <1>1, <2>1
  <2>. HIDE DEF first, second
  <2>. QED
    BY <1>4, <2>2, <2>5, <2>6
<1>. QED
  BY <1>3, <1>4

LEMMA CompactNat == ASSUME NEW x \in Nat, IsCity(x)  PROVE Json!compact_nodeid(x) \in Nat
<1>1. GeonameIds \in Nat \ {0} /\ LetterIds \in Nat \ {0}
  BY IdsAssumption
<1>2. PICK first, second \in 0 .. LetterIds - 1 :
        Json!compact_nodeid(x) = (first * LetterIds + second) * GeonameIds + (x % GeonameIds)
  BY CompactDigits
<1>3. first * LetterIds + second \in Nat /\ x % GeonameIds \in Nat
  BY <1>1
<1>. DEFINE p == first * LetterIds + second
<1>. HIDE DEF p
<1>4. p \in Nat /\ Json!compact_nodeid(x) = p * GeonameIds + (x % GeonameIds)
  BY <1>2, <1>3 DEF p
<1>. QED
  BY <1>1, <1>3, <1>4

(* Two cities have the same compact node ID only if they are one           *)
(* (ctnode_t::compact_nodeid).                                             *)
LEMMA CompactIdsDiffer ==
  ASSUME NEW a \in Nat, NEW b \in Nat, IsCity(a), IsCity(b),
         Json!compact_nodeid(a) = Json!compact_nodeid(b)
  PROVE  a = b
<1>1. GeonameIds \in Nat \ {0} /\ CharIds \in Nat \ {0} /\ LetterIds \in Nat \ {0}
  BY IdsAssumption
<1>2. PICK a1, a2 \in 0 .. LetterIds - 1 :
        /\ Json!compact_nodeid(a) = (a1 * LetterIds + a2) * GeonameIds + (a % GeonameIds)
        /\ IF Json!Country(a) = 0
           THEN a1 = 0 /\ a2 = 0
           ELSE a1 > 0 /\ Json!Country(a) = (a1 + FirstLetter - 1) * CharIds + (a2 + FirstLetter - 1)
  BY CompactDigits
<1>3. PICK b1, b2 \in 0 .. LetterIds - 1 :
        /\ Json!compact_nodeid(b) = (b1 * LetterIds + b2) * GeonameIds + (b % GeonameIds)
        /\ IF Json!Country(b) = 0
           THEN b1 = 0 /\ b2 = 0
           ELSE b1 > 0 /\ Json!Country(b) = (b1 + FirstLetter - 1) * CharIds + (b2 + FirstLetter - 1)
  BY CompactDigits
<1>4. /\ a % GeonameIds \in 0 .. GeonameIds - 1 /\ b % GeonameIds \in 0 .. GeonameIds - 1
      /\ a = Json!Country(a) * GeonameIds + (a % GeonameIds)
      /\ b = Json!Country(b) * GeonameIds + (b % GeonameIds)
  BY <1>1, Digits DEF Json!Country
<1>5. a1 * LetterIds + a2 \in Nat /\ b1 * LetterIds + b2 \in Nat
  BY <1>1
<1>6. a1 * LetterIds + a2 = b1 * LetterIds + b2 /\ a % GeonameIds = b % GeonameIds
  <2>. DEFINE p == a1 * LetterIds + a2
              q == b1 * LetterIds + b2
  <2>1. p * GeonameIds + (a % GeonameIds) = q * GeonameIds + (b % GeonameIds)
    BY <1>2, <1>3
  <2>2. p \in Nat /\ q \in Nat
    BY <1>5
  <2>. HIDE DEF p, q
  <2>3. p = q /\ a % GeonameIds = b % GeonameIds
    BY <1>1, <1>4, <2>1, <2>2, DigitsDiffer
  <2>. QED
    BY <2>3 DEF p, q
<1>7. a1 = b1 /\ a2 = b2
  BY <1>1, <1>6, DigitsDiffer
<1>8. Json!Country(a) = Json!Country(b)
  BY <1>2, <1>3, <1>7
<1>. QED
  BY <1>4, <1>6, <1>8

(* What the engines have written when they are done                        *)
LEMMA InvEngines == ReportInput /\ IdsFit /\ ReportInv /\ EnginesInv => EnginesAgree
<1>. SUFFICES ASSUME ReportInput, IdsFit, ReportInv, EnginesInv, Done, NEW k \in Kind \ MayFail
     PROVE
       LET items == ToSet(tsv[k])  objects == ToSet(json[k])
           both == {"tsv", "json"} \subseteq ToSet(config.formats) /\ k \in config.dump
       IN  /\ "json" \in ToSet(config.formats) => Reachable(k) \subseteq objects
           /\ both => items = {n \in objects : ~n.grp}
           /\ Len(tsv[k]) = Cardinality(items) /\ Len(json[k]) = Cardinality(objects)
           /\ \A n, m \in objects, month1, month2 \in {1, 2, 12}, year1, year2 \in {1, 2} :
                Json!ItemId(k, year1, month1, n) = Json!ItemId(k, year2, month2, m)
                  => n = m /\ month1 = month2 /\ year1 = year2
  BY DEF EnginesAgree
<1>1. output = <<>> /\ dumps = <<>> /\ steps = <<>>
  BY DEF Done, EnginesInv, None
<1>2. \A x : x \notin ToSet(output) /\ x \notin ToSet(dumps) /\ x \notin ToSet(steps)
  BY <1>1 DEF ToSet
<1>3. k \in Kind /\ k \in Files /\ k \notin {"usage", "daily", "hourly"}
  BY DEF Files, Kind
<1>4. \A c : FileWhole(k, c) <=> Whole(c, database[k], ById(k))
  BY <1>3 DEF FileWhole
<1>5. json[k] = <<>> \/ Whole(json[k], database[k], ById(k))
  BY <1>3, <1>4 DEF EnginesInv, FileInv
<1>6. tsv[k] = <<>> \/ DumpWhole(k, tsv[k])
  BY <1>3 DEF EnginesInv, DumpInv
<1>7. "json" \in ToSet(config.formats) => ToSet(json[k]) = database[k]
  <2>. SUFFICES ASSUME "json" \in ToSet(config.formats)  PROVE ToSet(json[k]) = database[k]
    OBVIOUS
  <2>1. FileWhole(k, json[k])
    BY <1>2, <1>3 DEF EnginesInv, FileInv, Asks
  <2>. QED
    BY <1>4, <2>1, WholeSet
<1>8. "tsv" \in ToSet(config.formats) /\ k \in config.dump => ToSet(tsv[k]) = Regulars(k)
  <2>. SUFFICES ASSUME "tsv" \in ToSet(config.formats), k \in config.dump
                PROVE  ToSet(tsv[k]) = Regulars(k)
    OBVIOUS
  <2>1. DumpWhole(k, tsv[k])
    BY <1>2, <1>3 DEF EnginesInv, DumpInv, Asks
  <2>. QED
    BY <2>1, WholeSet DEF DumpWhole
<1>9. Len(<<>>) = Cardinality(ToSet(<<>>)) /\ ToSet(<<>>) = {}
  BY FS_EmptySet DEF ToSet
<1>10. Len(json[k]) = Cardinality(ToSet(json[k])) /\ ToSet(json[k]) \subseteq database[k]
  BY <1>5, <1>9, WholeSet
<1>11. Len(tsv[k]) = Cardinality(ToSet(tsv[k]))
  BY <1>6, <1>9, WholeSet DEF DumpWhole
<1>12. Reachable(k) \subseteq database[k]
  BY <1>3, ReachableItems
<1>13. ASSUME NEW n \in ToSet(json[k]), NEW m \in ToSet(json[k]),
              NEW month1 \in {1, 2, 12}, NEW month2 \in {1, 2, 12},
              NEW year1 \in {1, 2}, NEW year2 \in {1, 2},
              Json!ItemId(k, year1, month1, n) = Json!ItemId(k, year2, month2, m)
       PROVE  n = m /\ month1 = month2 /\ year1 = year2
  <2>. DEFINE id(item) == IF k = "cities" THEN Json!compact_nodeid(item.nodeid) ELSE item.nodeid
  <2>1. n \in database[k] /\ m \in database[k] /\ n.nodeid \in Nat /\ m.nodeid \in Nat
    BY <1>3, <1>10 DEF ReportInput
  <2>2. NodeIds \in Nat \ {0} /\ id(n) \in 0 .. NodeIds - 1 /\ id(m) \in 0 .. NodeIds - 1
    BY <1>3, <2>1, IdsAssumption, CompactNat DEF IdsFit
  <2>3. id(n) = id(m) /\ month1 = month2 /\ year1 = year2
    <3>1. month1 \in 1 .. 12 /\ month2 \in 1 .. 12 /\ year1 \in Nat /\ year2 \in Nat
      OBVIOUS
    <3>2. PICK p \in Nat, q \in Nat : p = year1 * 16 + month1 /\ q = year2 * 16 + month2
      BY <3>1
    <3>3. p * NodeIds + id(n) = q * NodeIds + id(m)
      BY <1>13, <3>2 DEF Json!ItemId, Json!get_json_id
    <3>. HIDE DEF id
    <3>4. p = q /\ id(n) = id(m)
      BY <2>2, <3>2, <3>3, DigitsDiffer
    <3>5. month1 = month2 /\ year1 = year2
      BY <3>1, <3>2, <3>4
    <3>. QED
      BY <3>4, <3>5
  <2>4. n.nodeid = m.nodeid
    BY <2>1, <2>3, CompactIdsDiffer DEF IdsFit
  <2>5. n = m
    BY <1>3, <2>1, <2>4 DEF ReportInput
  <2>. QED
    BY <2>3, <2>5
<1>14. {"tsv", "json"} \subseteq ToSet(config.formats) /\ k \in config.dump
         => ToSet(tsv[k]) = {n \in ToSet(json[k]) : ~n.grp}
  BY <1>7, <1>8 DEF Regulars
<1>. QED
  BY <1>7, <1>10, <1>11, <1>12, <1>13, <1>14

(* The JSON files have all that a reader of the HTML report can find, the  *)
(* tab-separated ones the same items without their groups, and no two      *)
(* objects have the same _id, also over several months, as long as node    *)
(* IDs fit in it (json_output_t::get_json_id, dump_output.cpp).            *)
THEOREM EnginesAlwaysAgree == Reporting /\ ReportInput /\ IdsFit => []EnginesAgree
<1>1. IdsFit /\ [Next]_vars => IdsFit'
  BY DEF IdsFit, Next, vars
<1>2. ReportInput /\ IdsFit /\ ReportInv /\ EnginesInv => EnginesAgree
  BY InvEngines
<1>. QED
  BY <1>1, <1>2, EnginesInvariant, PTL DEF Reporting

-----------------------------------------------------------------------------
(* Arrays of the JSON report                                               *)

Symbols == {"[", "]", "(", ")", "m", "+"}

(* An element takes four places of an array, its comma included; "[" is at *)
(* the first place.                                                        *)
Symbol(j) ==
  CASE j = 1 -> "[" [] j % 4 = 2 -> "(" [] j % 4 = 3 -> "m" [] j % 4 = 0 -> ")" [] OTHER -> "+"

Elements(n) == [j \in 1 .. (IF n = 0 THEN 1 ELSE 4 * n) |-> Symbol(j)]

(* The texts that Array is made of, before "]"                             *)
ArrayStep(g, i) ==
  IF i = 0 THEN <<"[">>
  ELSE g[i - 1] \o (IF i > 1 THEN <<"+">> ELSE <<>>) \o <<"(", "m", ")">>

(* A text after another                                                    *)
LEMMA TextJoined ==
  ASSUME NEW s \in Seq(Symbols), NEW t \in Seq(Symbols)
  PROVE  /\ s \o t \in Seq(Symbols) /\ Len(s \o t) = Len(s) + Len(t)
         /\ \A i \in 1 .. Len(s) : (s \o t)[i] = s[i]
         /\ \A i \in 1 .. Len(t) : (s \o t)[Len(s) + i] = t[i]
OBVIOUS

(* One more element                                                        *)
LEMMA ElementAdded ==
  ASSUME NEW n \in Nat \ {0}
  PROVE  Elements(n) = Elements(n - 1) \o (IF n > 1 THEN <<"+">> ELSE <<>>) \o <<"(", "m", ")">>
<1>1. CASE n = 1
  <2>1. Elements(n - 1) = <<"[">>
    <3>1. Symbol(1) = "["
      BY DEF Symbol, Symbols
    <3>2. Elements(n - 1) = [j \in 1 .. 1 |-> Symbol(j)]
      BY <1>1 DEF Elements
    <3>. QED
      BY <3>1, <3>2
  <2>2. Elements(n) = <<"[", "(", "m", ")">>
    <3>1. Symbol(1) = "[" /\ Symbol(2) = "(" /\ Symbol(3) = "m" /\ Symbol(4) = ")"
      BY DEF Symbol, Symbols
    <3>2. Elements(n) = [j \in 1 .. 4 |-> Symbol(j)]
      BY <1>1 DEF Elements
    <3>. QED
      BY <3>1, <3>2
  <2>3. (IF n > 1 THEN <<"+">> ELSE <<>>) = <<>>
    BY <1>1
  <2>4. <<"[">> \o <<>> = <<"[">>
    OBVIOUS
  <2>5. <<"[">> \o <<"(", "m", ")">> = <<"[", "(", "m", ")">>
    <3>1. PICK r : r = <<"[">> \o <<"(", "m", ")">>
      OBVIOUS
    <3>2. r \in Seq(Symbols)
      BY <3>1 DEF Symbols
    <3>3. Len(r) = 4 /\ r[1] = "[" /\ r[2] = "(" /\ r[3] = "m" /\ r[4] = ")"
      BY <3>1
    <3>4. r = <<"[", "(", "m", ")">>
      BY <3>2, <3>3
    <3>. QED
      BY <3>1, <3>4
  <2>. QED
    BY <2>1, <2>2, <2>3, <2>4, <2>5
<1>2. CASE n > 1
  <2>1. PICK s : s = Elements(n - 1)
    OBVIOUS
  <2>2. PICK m \in Nat : m = 4 * (n - 1) /\ m >= 4
    BY <1>2
  <2>3. s \in Seq(Symbols) /\ Len(s) = m /\ \A j \in 1 .. m : s[j] = Symbol(j)
    <3>1. s = [j \in 1 .. m |-> Symbol(j)]
      BY <1>2, <2>1, <2>2 DEF Elements
    <3>2. \A j \in 1 .. m : Symbol(j) \in Symbols
      BY DEF Symbol, Symbols
    <3>. QED
      BY <3>1, <3>2
  <2>4. PICK t : t = s \o <<"+">> \o <<"(", "m", ")">>
    OBVIOUS
  <2>5. /\ Len(t) = m + 4 /\ DOMAIN t = 1 .. m + 4 /\ t \in Seq(Symbols)
        /\ \A j \in 1 .. m : t[j] = s[j]
        /\ t[m + 1] = "+" /\ t[m + 2] = "(" /\ t[m + 3] = "m" /\ t[m + 4] = ")"
    <3>1. PICK u : u = s \o <<"+">>
      OBVIOUS
    <3>2. u \in Seq(Symbols) /\ Len(u) = m + 1 /\ u[m + 1] = "+" /\ \A j \in 1 .. m : u[j] = s[j]
      BY <2>3, <3>1 DEF Symbols
    <3>3. PICK e : e = <<"(", "m", ")">>
      OBVIOUS
    <3>4. e \in Seq(Symbols) /\ Len(e) = 3 /\ e[1] = "(" /\ e[2] = "m" /\ e[3] = ")"
      BY <3>3 DEF Symbols
    <3>5. t = u \o e
      BY <2>4, <3>1, <3>3
    <3>6. /\ Len(t) = m + 4 /\ DOMAIN t = 1 .. m + 4 /\ t \in Seq(Symbols)
          /\ \A j \in 1 .. m + 1 : t[j] = u[j]
          /\ t[m + 2] = e[1] /\ t[m + 3] = e[2] /\ t[m + 4] = e[3]
      <4>1. u \in Seq(Symbols) /\ e \in Seq(Symbols)
        BY <3>2, <3>4
      <4>2. /\ t \in Seq(Symbols) /\ Len(t) = Len(u) + Len(e)
            /\ \A i \in 1 .. Len(u) : t[i] = u[i]
            /\ \A i \in 1 .. Len(e) : t[Len(u) + i] = e[i]
        BY <3>5, <4>1, TextJoined
      <4>3. Len(u) = m + 1 /\ Len(e) = 3 /\ 1 \in 1 .. 3 /\ 2 \in 1 .. 3 /\ 3 \in 1 .. 3
        BY <3>2, <3>4
      <4>4. t[(m + 1) + 1] = e[1] /\ t[(m + 1) + 2] = e[2] /\ t[(m + 1) + 3] = e[3]
        BY <4>2, <4>3
      <4>5. (m + 1) + 1 = m + 2 /\ (m + 1) + 2 = m + 3 /\ (m + 1) + 3 = m + 4
        OBVIOUS
      <4>6. Len(t) = m + 4 /\ DOMAIN t = 1 .. m + 4
        BY <4>2, <4>3
      <4>. QED
        BY <4>2, <4>3, <4>4, <4>5, <4>6
    <3>. QED
      BY <3>2, <3>4, <3>6
  <2>6. /\ Symbol(m + 1) = "+" /\ Symbol(m + 2) = "(" /\ Symbol(m + 3) = "m" /\ Symbol(m + 4) = ")"
    <3>1. (m + 1) % 4 = 1 /\ (m + 2) % 4 = 2 /\ (m + 3) % 4 = 3 /\ (m + 4) % 4 = 0
      BY <2>2
    <3>. QED
      BY <2>2, <3>1 DEF Symbol, Symbols
  <2>7. \A j \in 1 .. m + 4 : t[j] = Symbol(j)
    <3>. SUFFICES ASSUME NEW j \in 1 .. m + 4  PROVE t[j] = Symbol(j)
      OBVIOUS
    <3>1. j \in 1 .. m \/ j = m + 1 \/ j = m + 2 \/ j = m + 3 \/ j = m + 4
      BY <2>2
    <3>. QED
      BY <2>3, <2>5, <2>6, <3>1
  <2>8. t = [j \in 1 .. m + 4 |-> Symbol(j)]
    BY <2>5, <2>7
  <2>9. Elements(n) = [j \in 1 .. m + 4 |-> Symbol(j)]
    BY <1>2, <2>2 DEF Elements
  <2>. QED
    BY <1>2, <2>1, <2>4, <2>8, <2>9
<1>. QED
  BY <1>1, <1>2

(* An array of any length                                                  *)
LEMMA ArrayIs ==
  ASSUME NEW n \in Nat
  PROVE  Json!Array(n) = Elements(n) \o <<"]">>
<1>1. PICK f : f = [i \in 0 .. n |-> Elements(i)]
  OBVIOUS
<1>2. ASSUME NEW i \in 0 .. n  PROVE f[i] = ArrayStep(f, i)
  <2>1. CASE i = 0
    <3>1. Elements(0) = <<"[">>
      <4>1. Symbol(1) = "["
        BY DEF Symbol, Symbols
      <4>2. Elements(0) = [j \in 1 .. 1 |-> Symbol(j)]
        BY DEF Elements
      <4>. QED
        BY <4>1, <4>2
    <3>. QED
      BY <1>1, <2>1, <3>1 DEF ArrayStep
  <2>2. CASE i # 0
    <3>1. i \in Nat \ {0} /\ i - 1 \in 0 .. n
      BY <2>2
    <3>. QED
      BY <1>1, <2>2, <3>1, ElementAdded DEF ArrayStep
  <2>. QED
    BY <2>1, <2>2
<1>3. f = [i \in 0 .. n |-> ArrayStep(f, i)]
  BY <1>1, <1>2
<1>4. PICK text : /\ text = (CHOOSE g : g = [i \in 0 .. n |-> ArrayStep(g, i)])
                  /\ text = [i \in 0 .. n |-> ArrayStep(text, i)]
  BY <1>3
<1>5. Json!Array(n) = text[n] \o <<"]">>
  BY <1>4 DEF Json!Array, Json!When, ArrayStep
<1>6. n \in {i \in Nat : i <= n => text[i] = Elements(i)}
  <2>. DEFINE N == {i \in Nat : i <= n => text[i] = Elements(i)}
  <2>1. 0 \in N
    <3>1. 0 \in 0 .. n
      OBVIOUS
    <3>2. text[0] = ArrayStep(text, 0) /\ f[0] = ArrayStep(f, 0) /\ f[0] = Elements(0)
      BY <1>1, <1>2, <1>4, <3>1
    <3>. QED
      BY <3>2 DEF ArrayStep
  <2>2. ASSUME NEW i \in Nat, i \in N  PROVE i + 1 \in N
    <3>1. SUFFICES ASSUME i + 1 <= n  PROVE text[i + 1] = Elements(i + 1)
      OBVIOUS
    <3>2. i + 1 \in 0 .. n /\ i \in 0 .. n /\ (i + 1) - 1 = i /\ i + 1 # 0
      BY <3>1
    <3>3. text[i + 1] = ArrayStep(text, i + 1) /\ text[i] = Elements(i)
      BY <1>4, <2>2, <3>2
    <3>4. f[i + 1] = ArrayStep(f, i + 1) /\ f[i + 1] = Elements(i + 1) /\ f[i] = Elements(i)
      BY <1>1, <1>2, <3>2
    <3>. QED
      BY <3>2, <3>3, <3>4 DEF ArrayStep
  <2>. HIDE DEF N
  <2>3. Nat \subseteq N
    BY <2>1, <2>2, AllNumbers
  <2>. QED
    BY <2>3 DEF N
<1>7. text[n] = Elements(n)
  BY <1>6
<1>. QED
  BY <1>5, <1>7

(* What may follow a symbol of a text, as WellFormed says                  *)
Fits(a, b) ==
  CASE a \in {"m", ")", "]"} -> b \in {"+", ")", "]"}
    [] a = "+"               -> b \in Element
    [] OTHER                 -> b \in Element \cup {")", "]"}

(* The symbols of an array                                                 *)
LEMMA ArrayText ==
  ASSUME NEW n \in Nat
  PROVE  \E m \in Nat :
           /\ m = IF n = 0 THEN 1 ELSE 4 * n
           /\ Json!Array(n) \in Seq(Symbols) /\ Len(Json!Array(n)) = m + 1
           /\ \A j \in 1 .. m : Json!Array(n)[j] = Symbol(j)
           /\ Json!Array(n)[m + 1] = "]"
<1>1. PICK m \in Nat : m = IF n = 0 THEN 1 ELSE 4 * n
  OBVIOUS
<1>2. PICK s : s = Elements(n)
  OBVIOUS
<1>3. s = [j \in 1 .. m |-> Symbol(j)]
  BY <1>1, <1>2 DEF Elements
<1>4. s \in Seq(Symbols) /\ Len(s) = m /\ \A j \in 1 .. m : s[j] = Symbol(j)
  <2>1. \A j \in 1 .. m : Symbol(j) \in Symbols
    BY DEF Symbol, Symbols
  <2>. QED
    BY <1>3, <2>1
<1>5. PICK t : t = Json!Array(n) /\ t = s \o <<"]">>
  BY <1>2, ArrayIs
<1>6. t \in Seq(Symbols) /\ Len(t) = m + 1 /\ t[m + 1] = "]" /\ \A j \in 1 .. m : t[j] = s[j]
  BY <1>4, <1>5 DEF Symbols
<1>. QED
  BY <1>1, <1>4, <1>5, <1>6

(* An array is well-formed and has as many elements as were asked for.     *)
LEMMA ArrayGood ==
  ASSUME NEW n \in Nat
  PROVE  /\ WellFormed(Json!Array(n)) /\ Json!Array(n) \in Seq(Symbols)
         /\ Len(Json!Array(n)) > 0 /\ Json!Array(n)[1] = "["
         /\ Json!Array(n)[Len(Json!Array(n))] = "]"
         /\ Cardinality({i \in DOMAIN Json!Array(n) : Json!Array(n)[i] = "m"}) = n
<1>1. PICK m \in Nat :
           /\ m = IF n = 0 THEN 1 ELSE 4 * n
           /\ Json!Array(n) \in Seq(Symbols) /\ Len(Json!Array(n)) = m + 1
           /\ \A j \in 1 .. m : Json!Array(n)[j] = Symbol(j)
           /\ Json!Array(n)[m + 1] = "]"
  BY ArrayText
<1>2. PICK s : s = Json!Array(n)
  OBVIOUS
<1>3. /\ s \in Seq(Symbols) /\ Len(s) = m + 1 /\ DOMAIN s = 1 .. m + 1
      /\ \A j \in 1 .. m : s[j] = Symbol(j)
      /\ s[m + 1] = "]"
  <2>1. s \in Seq(Symbols) /\ Len(s) = m + 1
    BY <1>1, <1>2
  <2>2. \A j \in 1 .. m : s[j] = Symbol(j)
    BY <1>1, <1>2
  <2>3. s[m + 1] = "]"
    BY <1>1, <1>2
  <2>. QED
    BY <2>1, <2>2, <2>3
<1>4. m >= 1 /\ s[1] = "["
  <2>1. m >= 1
    BY <1>1
  <2>. QED
    BY <1>3, <2>1 DEF Symbol
<1>5. ASSUME NEW i \in 1 .. m  PROVE Fits(s[i], s[i + 1])
  <2>1. PICK q \in Nat, r \in 0 .. 3 : i = 4 * q + r
    <3>1. i = 4 * (i \div 4) + (i % 4) /\ i \div 4 \in Nat /\ i % 4 \in 0 .. 3
      OBVIOUS
    <3>. QED
      BY <3>1
  <2>2. i % 4 = r /\ (i + 1) % 4 = IF r = 3 THEN 0 ELSE r + 1
    BY <2>1
  <2>3. CASE n = 0
    <3>1. i = 1 /\ m = 1
      BY <1>1, <2>3
    <3>. QED
      BY <1>3, <1>4, <3>1 DEF Fits, Element
  <2>4. CASE n # 0 /\ i < m
    <3>1. s[i] = Symbol(i) /\ s[i + 1] = Symbol(i + 1) /\ i + 1 # 1
      BY <1>3, <2>4
    <3>2. CASE i = 1
      <4>1. Symbol(i) = "[" /\ Symbol(i + 1) = "("
        BY <3>2 DEF Symbol
      <4>. QED
        BY <3>1, <4>1 DEF Fits, Element
    <3>3. CASE i # 1 /\ r = 0
      <4>1. Symbol(i) = ")" /\ Symbol(i + 1) = "+"
        BY <2>2, <3>1, <3>3 DEF Symbol
      <4>. QED
        BY <3>1, <4>1 DEF Fits
    <3>4. CASE i # 1 /\ r = 1
      <4>1. Symbol(i) = "+" /\ Symbol(i + 1) = "("
        BY <2>2, <3>1, <3>4 DEF Symbol
      <4>. QED
        BY <3>1, <4>1 DEF Fits, Element
    <3>5. CASE i # 1 /\ r = 2
      <4>1. Symbol(i) = "(" /\ Symbol(i + 1) = "m"
        BY <2>2, <3>1, <3>5 DEF Symbol
      <4>. QED
        BY <3>1, <4>1 DEF Fits, Element
    <3>6. CASE i # 1 /\ r = 3
      <4>1. Symbol(i) = "m" /\ Symbol(i + 1) = ")"
        BY <2>2, <3>1, <3>6 DEF Symbol
      <4>. QED
        BY <3>1, <4>1 DEF Fits
    <3>. QED
      BY <3>2, <3>3, <3>4, <3>5, <3>6
  <2>5. CASE n # 0 /\ i = m
    <3>1. i = 4 * n
      BY <1>1, <2>5
    <3>2. i % 4 = 0 /\ i # 1
      BY <3>1
    <3>3. s[i] = ")" /\ s[i + 1] = "]"
      BY <1>3, <2>5, <3>2 DEF Symbol
    <3>. QED
      BY <3>3 DEF Fits
  <2>. QED
    BY <2>3, <2>4, <2>5
<1>6. WellFormed(s)
  BY <1>3, <1>5 DEF WellFormed, Fits
<1>7. Cardinality({i \in DOMAIN s : s[i] = "m"}) = n
  <2>. DEFINE f == [j \in 1 .. n |-> 4 * j - 1]
  <2>1. PICK M : M = {i \in DOMAIN s : s[i] = "m"}
    OBVIOUS
  <2>2. ASSUME NEW j \in 1 .. n  PROVE 4 * j - 1 \in M
    <3>1. n # 0 /\ m = 4 * n /\ 4 * j - 1 \in 1 .. m
      BY <1>1
    <3>2. (4 * j - 1) % 4 = 3 /\ 4 * j - 1 # 1
      OBVIOUS
    <3>3. Symbol(4 * j - 1) = "m"
      BY <3>2 DEF Symbol
    <3>. QED
      BY <1>3, <2>1, <3>1, <3>3
  <2>3. ASSUME NEW i \in M  PROVE \E j \in 1 .. n : i = 4 * j - 1
    <3>1. i \in 1 .. m /\ Symbol(i) = "m"
      BY <1>3, <2>1
    <3>2. i # 1 /\ i % 4 = 3
      BY <3>1 DEF Symbol
    <3>3. n # 0 /\ m = 4 * n
      BY <1>1, <3>1, <3>2
    <3>4. (i + 1) \div 4 \in 1 .. n /\ i = 4 * ((i + 1) \div 4) - 1
      BY <3>1, <3>2, <3>3
    <3>. QED
      BY <3>4
  <2>4. f \in Bijection(1 .. n, M)
    <3>1. f \in [1 .. n -> M]
      BY <2>2
    <3>2. \A a, b \in 1 .. n : f[a] = f[b] => a = b
      OBVIOUS
    <3>3. \A i \in M : \E j \in 1 .. n : f[j] = i
      BY <2>3
    <3>. QED
      BY <3>1, <3>2, <3>3 DEF Bijection, Injection, Surjection, IsInjective
  <2>5. IsFiniteSet(1 .. n) /\ Cardinality(1 .. n) = n
    <3>1. n \in Int /\ 1 \in Int
      OBVIOUS
    <3>2. IsFiniteSet(1 .. n) /\ Cardinality(1 .. n) = IF 1 > n THEN 0 ELSE n - 1 + 1
      BY <3>1, FS_Interval
    <3>. QED
      BY <3>2
  <2>6. Cardinality(M) = n
    <3>1. ExistsBijection(1 .. n, M)
      BY <2>4 DEF ExistsBijection
    <3>. QED
      BY <2>5, <3>1, FS_Bijection
  <2>. QED
    BY <2>1, <2>6
<1>. QED
  BY <1>2, <1>3, <1>4, <1>6, <1>7

-----------------------------------------------------------------------------
(* Texts and their parts                                                   *)

(* A well-formed text that begins with a and ends with b                   *)
Piece(s, a, b) ==
  /\ s \in Seq(Symbols) /\ Len(s) > 0 /\ s[1] = a /\ s[Len(s)] = b
  /\ \A i \in 1 .. Len(s) - 1 : Fits(s[i], s[i + 1])

(* Pieces that fit make a piece.                                           *)
LEMMA PieceJoined ==
  ASSUME NEW s, NEW a, NEW b, Piece(s, a, b), NEW t, NEW c, NEW d, Piece(t, c, d), Fits(b, c)
  PROVE  Piece(s \o t, a, d)
<1>1. PICK m \in Nat, n \in Nat : m = Len(s) /\ n = Len(t) /\ m > 0 /\ n > 0
  BY DEF Piece
<1>2. s \in Seq(Symbols) /\ t \in Seq(Symbols) /\ s[1] = a /\ s[m] = b /\ t[1] = c /\ t[n] = d
  BY <1>1 DEF Piece
<1>3. PICK u : u = s \o t
  OBVIOUS
<1>4. /\ u \in Seq(Symbols) /\ Len(u) = Len(s) + Len(t)
      /\ \A i \in 1 .. Len(s) : u[i] = s[i]
      /\ \A i \in 1 .. Len(t) : u[Len(s) + i] = t[i]
  BY <1>2, <1>3, TextJoined
<1>5. /\ u \in Seq(Symbols) /\ Len(u) = m + n
      /\ \A i \in 1 .. m : u[i] = s[i]
      /\ \A i \in 1 .. n : u[m + i] = t[i]
  BY <1>1, <1>4
<1>6. u[1] = a /\ u[m + n] = d
  BY <1>1, <1>2, <1>5
<1>7. ASSUME NEW i \in 1 .. (m + n) - 1  PROVE Fits(u[i], u[i + 1])
  <2>1. CASE i < m
    <3>1. i \in 1 .. m - 1 /\ i \in 1 .. m /\ i + 1 \in 1 .. m
      BY <2>1
    <3>2. Fits(s[i], s[i + 1])
      BY <1>1, <3>1 DEF Piece
    <3>. QED
      BY <1>5, <3>1, <3>2
  <2>2. CASE i = m
    <3>1. m \in 1 .. m /\ 1 \in 1 .. n
      BY <1>1
    <3>2. u[m] = b /\ u[m + 1] = c
      BY <1>2, <1>5, <3>1
    <3>. QED
      BY <2>2, <3>2
  <2>3. CASE i > m
    <3>1. PICK j \in 1 .. n - 1 : i = m + j
      <4>1. i - m \in 1 .. n - 1 /\ i = m + (i - m)
        BY <1>1, <2>3
      <4>. QED
        BY <4>1
    <3>2. j \in 1 .. n /\ j + 1 \in 1 .. n /\ i + 1 = m + (j + 1)
      BY <3>1
    <3>3. Fits(t[j], t[j + 1])
      BY <1>1, <3>1 DEF Piece
    <3>4. u[i] = t[j] /\ u[i + 1] = t[j + 1]
      BY <1>5, <3>1, <3>2
    <3>. QED
      BY <3>3, <3>4
  <2>. QED
    BY <2>1, <2>2, <2>3
<1>8. Piece(u, a, d)
  BY <1>1, <1>5, <1>6, <1>7 DEF Piece
<1>. QED
  BY <1>3, <1>8

(* A part that may be left out ends like what is before it.                *)
LEMMA PieceMaybe ==
  ASSUME NEW s, NEW a, NEW b, Piece(s, a, b), NEW t, NEW c, Piece(t, c, b), Fits(b, c),
         NEW u, u = t \/ u = <<>>
  PROVE  Piece(s \o u, a, b)
<1>1. CASE u = t
  BY <1>1, PieceJoined
<1>2. CASE u = <<>>
  <2>1. s \in Seq(Symbols)
    BY DEF Piece
  <2>2. s \o u = s
    BY <1>2, <2>1
  <2>. QED
    BY <2>2
<1>. QED
  BY <1>1, <1>2

(* The parts of the totals                                                 *)
LEMMA Literals ==
  /\ Piece(<<"(">>, "(", "(") /\ Piece(<<")">>, ")", ")")
  /\ Piece(<<"(", "m">>, "(", "m") /\ Piece(<<"+", "m">>, "+", "m")
  /\ Piece(<<")", "+">>, ")", "+") /\ Piece(<<")", ")">>, ")", ")")
  /\ Piece(<<"(", "m", "+">>, "(", "+")
  /\ Piece(<<"(", "m", ")", "+">>, "(", "+")
  /\ Piece(<<"(", "m", "+", "(", "m", ")", "+">>, "(", "+")
  /\ Piece(<<"(", "(", "m", ")", "+", "(", "m", ")", "+">>, "(", "+")
<1>1. /\ Fits("(", "(") /\ Fits("(", "m") /\ Fits("m", ")") /\ Fits("m", "+")
      /\ Fits("+", "m") /\ Fits("+", "(") /\ Fits(")", "+") /\ Fits(")", ")")
  BY DEF Fits, Element
<1>2. "(" \in Symbols /\ ")" \in Symbols /\ "m" \in Symbols /\ "+" \in Symbols
  BY DEF Symbols
<1>3. Piece(<<"(">>, "(", "(") /\ Piece(<<")">>, ")", ")")
  BY <1>2 DEF Piece
<1>4. Piece(<<"(", "m">>, "(", "m") /\ Piece(<<"+", "m">>, "+", "m")
  BY <1>1, <1>2 DEF Piece
<1>5. Piece(<<")", "+">>, ")", "+") /\ Piece(<<")", ")">>, ")", ")")
  BY <1>1, <1>2 DEF Piece
<1>6. Piece(<<"(", "m", "+">>, "(", "+")
  BY <1>1, <1>2 DEF Piece
<1>7. Piece(<<"(", "m", ")", "+">>, "(", "+")
  BY <1>1, <1>2 DEF Piece
<1>8. Piece(<<"(", "m", "+", "(", "m", ")", "+">>, "(", "+")
  BY <1>1, <1>2 DEF Piece
<1>9. Piece(<<"(", "(", "m", ")", "+", "(", "m", ")", "+">>, "(", "+")
  BY <1>1, <1>2 DEF Piece
<1>. QED
  BY <1>3, <1>4, <1>5, <1>6, <1>7, <1>8, <1>9

(* An array is a piece.                                                    *)
LEMMA PieceArray ==
  ASSUME NEW n \in Nat
  PROVE  Piece(Json!Array(n), "[", "]")
BY ArrayGood DEF Piece, WellFormed, Fits

(* The totals of a month that has ended visits of people: sections that    *)
(* are left out do not leave a comma behind.                               *)
LEMMA UsageGood ==
  ASSUME totals.t_hvisits_end > 0, totals.t_visits > 0, totals.responses \in Nat
  PROVE  WellFormed(Json!Usage)
<1>1. /\ Fits("(", "(") /\ Fits("m", ")") /\ Fits("m", "+") /\ Fits("+", "[") /\ Fits("(", "[")
      /\ Fits("+", "(") /\ Fits(")", ")") /\ Fits("]", ")")
  BY DEF Fits, Element
<1>2. PICK visits : visits = <<"(", "m">> \o Json!When(totals.t_visits_conv > 0, <<"+", "m">>) \o <<")">>
  OBVIOUS
<1>3. Piece(visits, "(", ")")
  <2>1. PICK u : u = Json!When(totals.t_visits_conv > 0, <<"+", "m">>)
    OBVIOUS
  <2>2. u = <<"+", "m">> \/ u = <<>>
    BY <2>1 DEF Json!When
  <2>3. Piece(<<"(", "m">> \o u, "(", "m")
    BY <1>1, <2>2, Literals, PieceMaybe
  <2>. QED
    BY <1>1, <1>2, <2>1, <2>3, Literals, PieceJoined
<1>4. Piece(Json!Humans, "(", "+")
  <2>1. PICK u : u = Json!When(config.targets, <<"(", "m", ")", "+">>)
    OBVIOUS
  <2>2. u = <<"(", "m", ")", "+">> \/ u = <<>>
    BY <2>1 DEF Json!When
  <2>3. Piece(<<"(", "m", "+">> \o u, "(", "+")
    BY <1>1, <2>2, Literals, PieceMaybe
  <2>4. Piece(<<"(", "m", "+">> \o u \o visits, "(", ")")
    BY <1>1, <1>3, <2>3, PieceJoined
  <2>5. Piece(<<"(", "m", "+">> \o u \o visits \o <<")", "+">>, "(", "+")
    BY <1>1, <2>4, Literals, PieceJoined
  <2>6. Json!Humans = <<"(", "m", "+">> \o u \o visits \o <<")", "+">>
    BY <1>2, <2>1 DEF Json!Humans, Json!When
  <2>. QED
    BY <2>5, <2>6
<1>5. Piece(Json!Averages, "(", "+")
  <2>1. PICK first : first = <<"(", "(", "m", ")", "+", "(", "m", ")", "+">>
    OBVIOUS
  <2>2. Piece(first \o visits, "(", ")")
    BY <1>1, <1>3, <2>1, Literals, PieceJoined
  <2>3. Piece(first \o visits \o <<")", "+">>, "(", "+")
    BY <1>1, <2>2, Literals, PieceJoined
  <2>4. Json!Averages = first \o visits \o <<")", "+">>
    BY <1>2, <2>1 DEF Json!Averages, Json!When
  <2>. QED
    BY <2>3, <2>4
<1>6. PICK u1, u2, u3, u4 :
        /\ u1 = Json!When(config.filters, Json!Humans)
        /\ u2 = Json!When(totals.t_rhits > 0, <<"(", "m", ")", "+">>)
        /\ u3 = Json!When(totals.t_spmhits > 0, <<"(", "m", ")", "+">>)
        /\ u4 = Json!When(totals.m_hitptime > 0, <<"(", "m", ")", "+">>)
  OBVIOUS
<1>7. /\ u1 = Json!Humans \/ u1 = <<>>
      /\ u2 = <<"(", "m", ")", "+">> \/ u2 = <<>>
      /\ u3 = <<"(", "m", ")", "+">> \/ u3 = <<>>
      /\ u4 = <<"(", "m", ")", "+">> \/ u4 = <<>>
  BY <1>6 DEF Json!When
<1>8. PICK t1 : t1 = <<"(", "m", "+", "(", "m", ")", "+">> \o u1 /\ Piece(t1, "(", "+")
  <2>1. PICK first : first = <<"(", "m", "+", "(", "m", ")", "+">> /\ Piece(first, "(", "+")
    BY Literals
  <2>2. Piece(first \o u1, "(", "+")
    BY <1>1, <1>4, <1>7, <2>1, PieceMaybe
  <2>. QED
    BY <2>1, <2>2
<1>9. PICK t2 : t2 = t1 \o u2 /\ Piece(t2, "(", "+")
  <2>1. Piece(t1 \o u2, "(", "+")
    BY <1>1, <1>7, <1>8, Literals, PieceMaybe
  <2>. QED
    BY <2>1
<1>10. PICK t3 : t3 = t2 \o u3 /\ Piece(t3, "(", "+")
  <2>1. Piece(t2 \o u3, "(", "+")
    BY <1>1, <1>7, <1>9, Literals, PieceMaybe
  <2>. QED
    BY <2>1
<1>11. PICK t4 : t4 = t3 \o Json!Averages /\ Piece(t4, "(", "+")
  BY <1>1, <1>5, <1>10, PieceJoined
<1>12. PICK t5 : t5 = t4 \o <<"(">> /\ Piece(t5, "(", "(")
  BY <1>1, <1>11, Literals, PieceJoined
<1>13. PICK t6 : t6 = t5 \o u4 /\ (Piece(t6, "(", "(") \/ Piece(t6, "(", "+"))
  <2>1. CASE u4 = <<>>
    <3>1. t5 \o u4 = t5
      BY <1>12, <2>1 DEF Piece
    <3>. QED
      BY <1>12, <3>1
  <2>2. CASE u4 = <<"(", "m", ")", "+">>
    <3>1. Piece(t5 \o u4, "(", "+")
      BY <1>1, <1>12, <2>2, Literals, PieceJoined
    <3>. QED
      BY <3>1
  <2>. QED
    BY <1>7, <2>1, <2>2
<1>14. PICK array : array = Json!Array(totals.responses) /\ Piece(array, "[", "]")
  BY PieceArray
<1>15. PICK t7 : t7 = t6 \o array /\ Piece(t7, "(", "]")
  BY <1>1, <1>13, <1>14, PieceJoined
<1>16. Piece(t7 \o <<")", ")">>, "(", ")")
  BY <1>1, <1>15, Literals, PieceJoined
<1>17. Json!Usage = t7 \o <<")", ")">>
  BY <1>6, <1>8, <1>9, <1>10, <1>11, <1>12, <1>13, <1>14, <1>15 DEF Json!Usage
<1>. QED
  BY <1>16, <1>17 DEF Piece, WellFormed, Fits

-----------------------------------------------------------------------------
(* The days of the month                                                   *)

(* What the totals of a month are: numbers, and a visit that has ended had *)
(* started.                                                                *)
MonthInput ==
  /\ totals.lday \in Nat /\ totals.responses \in Nat
  /\ totals.t_hvisits_end > 0 => totals.t_visits > 0

(* All days with hits are among those that are reported.                   *)
LEMMA DaysIs ==
  ASSUME MonthInput
  PROVE  /\ {d \in 1 .. totals.lday : totals.days[d] > 0} \subseteq ToSet(ReportedDays)
         /\ Len(ReportedDays) \in Nat
<1>1. PICK busy : busy = {d \in 1 .. totals.lday : totals.days[d] > 0}
  OBVIOUS
<1>2. PICK l \in Nat : l = totals.lday
  BY DEF MonthInput
<1>3. PICK first : first = IF busy = {} THEN 1 ELSE Min(busy)
  OBVIOUS
<1>4. first \in 1 .. l + 1 /\ \A d \in busy : first <= d /\ d <= l
  <2>1. busy \subseteq 1 .. l
    BY <1>1, <1>2
  <2>2. CASE busy = {}
    BY <1>3, <2>2
  <2>3. CASE busy # {}
    <3>1. busy \in SUBSET Nat
      BY <2>1
    <3>2. \E n \in busy : \A d \in busy : n <= d
      BY <2>3, <3>1, Smallest
    <3>3. Min(busy) \in busy /\ \A d \in busy : Min(busy) <= d
      BY <3>2 DEF Min
    <3>. QED
      BY <1>3, <2>1, <2>3, <3>3
  <2>. QED
    BY <2>2, <2>3
<1>5. ReportedDays = [i \in 1 .. l + 1 - first |-> first + i - 1]
  BY <1>1, <1>2, <1>3 DEF ReportedDays
<1>6. PICK m \in Nat : m = l + 1 - first
  BY <1>4
<1>7. Len(ReportedDays) = m /\ DOMAIN ReportedDays = 1 .. m
  BY <1>5, <1>6
<1>8. ASSUME NEW d \in busy  PROVE d \in ToSet(ReportedDays)
  <2>1. d + 1 - first \in 1 .. m /\ first + (d + 1 - first) - 1 = d
    BY <1>1, <1>2, <1>4, <1>6
  <2>2. ReportedDays[d + 1 - first] = d
    BY <1>5, <1>6, <2>1
  <2>. QED
    BY <1>7, <2>1, <2>2 DEF ToSet
<1>. QED
  BY <1>1, <1>7, <1>8

(* The weekends of the chart are those of the table, for a month that      *)
(* starts with any day of the week.                                        *)
LEMMA WeekendsAgree ==
  ASSUME NEW wday \in 1 .. 7, NEW last \in 28 .. 31
  PROVE  JsWeekends(wday, last) = {d \in 1 .. last : Weekend(wday % 7, d)}
<1>1. PICK saturdays : saturdays = {i \in 0 .. last : i % 7 = (7 - wday) % 7 /\ i >= 7 - wday}
  OBVIOUS
<1>2. JsWeekends(wday, last)
        = UNION {IF i > 0 /\ i < last THEN {i, i + 1} ELSE {IF i = 0 THEN i + 1 ELSE i} :
                   i \in saturdays}
  BY <1>1 DEF JsWeekends
<1>3. PICK s \in 0 .. 6 : s = (7 - wday) % 7
  OBVIOUS
<1>4. \A d \in 1 .. last : Weekend(wday % 7, d) <=> d % 7 = s \/ (d - 1) % 7 = s
  <2>. SUFFICES ASSUME NEW d \in 1 .. last
                PROVE  Weekend(wday % 7, d) <=> d % 7 = s \/ (d - 1) % 7 = s
    OBVIOUS
  <2>1. wday \in {1, 2, 3, 4, 5, 6, 7}
    OBVIOUS
  <2>2. CASE wday = 7
    <3>1. wday % 7 = 0 /\ s = 0
      BY <1>3, <2>2
    <3>2. (0 + d - 1) % 7 \in {6, 0} <=> d % 7 = 0 \/ (d - 1) % 7 = 0
      OBVIOUS
    <3>. QED
      BY <3>1, <3>2 DEF Weekend
  <2>3. CASE wday # 7
    <3>1. wday % 7 = wday /\ s = 7 - wday
      BY <1>3, <2>3
    <3>2. (wday + d - 1) % 7 \in {6, 0} <=> d % 7 = 7 - wday \/ (d - 1) % 7 = 7 - wday
      BY <2>1, <2>3
    <3>. QED
      BY <3>1, <3>2 DEF Weekend
  <2>. QED
    BY <2>2, <2>3
<1>5. \A i \in 0 .. last : i \in saturdays <=> i % 7 = s
  <2>. SUFFICES ASSUME NEW i \in 0 .. last, i % 7 = s  PROVE i >= 7 - wday
    BY <1>1, <1>3
  <2>1. CASE wday = 7
    BY <2>1
  <2>2. CASE wday # 7
    <3>1. s = 7 - wday
      BY <1>3, <2>2
    <3>. QED
      BY <3>1
  <2>. QED
    BY <2>1, <2>2
<1>6. ASSUME NEW d \in 1 .. last, d % 7 = s \/ (d - 1) % 7 = s
      PROVE  d \in JsWeekends(wday, last)
  <2>1. CASE d % 7 = s
    <3>1. d \in saturdays /\ d # 0
      BY <1>5, <2>1
    <3>2. d \in IF d > 0 /\ d < last THEN {d, d + 1} ELSE {IF d = 0 THEN d + 1 ELSE d}
      BY <3>1
    <3>. QED
      BY <1>2, <3>1, <3>2
  <2>2. CASE (d - 1) % 7 = s
    <3>1. d - 1 \in saturdays
      BY <1>5, <2>2
    <3>2. PICK i : i = d - 1
      OBVIOUS
    <3>3. d \in IF i > 0 /\ i < last THEN {i, i + 1} ELSE {IF i = 0 THEN i + 1 ELSE i}
      BY <3>2
    <3>. QED
      BY <1>2, <3>1, <3>2, <3>3
  <2>. QED
    BY <1>6, <2>1, <2>2
<1>7. ASSUME NEW d \in JsWeekends(wday, last)
      PROVE  d \in 1 .. last /\ (d % 7 = s \/ (d - 1) % 7 = s)
  <2>1. PICK i \in saturdays :
          d \in IF i > 0 /\ i < last THEN {i, i + 1} ELSE {IF i = 0 THEN i + 1 ELSE i}
    BY <1>2, <1>7
  <2>2. i \in 0 .. last /\ i % 7 = s
    BY <1>1, <1>3
  <2>. QED
    BY <2>1, <2>2
<1>8. \A d : d \in JsWeekends(wday, last) <=> d \in {e \in 1 .. last : Weekend(wday % 7, e)}
  BY <1>4, <1>6, <1>7
<1>. QED
  BY <1>8

(* What the tables and files say of the days                               *)
LEMMA InvDays == ReportInput /\ MonthInput /\ ReportInv /\ EnginesInv => DaysReported
<1>. SUFFICES ASSUME ReportInput, MonthInput, ReportInv, EnginesInv  PROVE DaysReported
  OBVIOUS
<1>1. "daily" \in Files /\ "hourly" \in Files /\ "usage" \in Files
  BY DEF Files
<1>2. /\ json["daily"] = <<>> \/ FileWhole("daily", json["daily"])
      /\ json["hourly"] = <<>> \/ FileWhole("hourly", json["hourly"])
      /\ json["usage"] = <<>> \/ FileWhole("usage", json["usage"])
  BY <1>1 DEF EnginesInv, FileInv
<1>3. PICK n \in Nat : n = Len(ReportedDays)
  BY DaysIs
<1>4. json["daily"] = <<>> \/ json["daily"] = Json!Array(n)
  BY <1>2, <1>3 DEF FileWhole, Json!When
<1>5. json["hourly"] = <<>> \/ json["hourly"] = Json!Array(24)
  BY <1>2 DEF FileWhole
<1>6. json["usage"] = <<>> \/ json["usage"] = Json!Usage
  BY <1>2 DEF FileWhole
<1>7. WellFormed(<<>>)
  <2>1. \A i : i \notin 1 .. Len(<<>>) - 1
    OBVIOUS
  <2>. QED
    BY <2>1 DEF WellFormed
<1>8. WellFormed(json["daily"]) /\ WellFormed(json["hourly"])
  BY <1>4, <1>5, <1>7, ArrayGood
<1>9. totals.t_hvisits_end > 0 => WellFormed(json["usage"])
  BY <1>6, <1>7, UsageGood DEF MonthInput
<1>10. ASSUME NEW t \in Tables, t.name = "daily", "daily" \in config.stats
       PROVE  /\ {d \in 1 .. totals.lday : totals.days[d] > 0} \subseteq Rows(t)
              /\ json["daily"] # <<>> =>
                   Cardinality({i \in DOMAIN json["daily"] : json["daily"][i] = "m"}) = Len(t.rows)
  <2>1. page # <<>>
    BY NoPageNoTables
  <2>2. PICK lo \in 0 .. 19, m \in Nat : m = Len(page) /\ Tables = {page[i] : i \in 1 .. m}
                                         /\ PageUpTo(page, DOMAIN pages, lo)
    BY <2>1, PageHas
  <2>3. GoodTable(t)
    BY <2>2 DEF PageUpTo
  <2>4. t.rows = ReportedDays
    BY <1>10, <2>3 DEF GoodTable, DaysListed
  <2>5. {d \in 1 .. totals.lday : totals.days[d] > 0} \subseteq Rows(t)
    BY <2>4, DaysIs DEF Rows
  <2>6. json["daily"] # <<>> =>
          Cardinality({i \in DOMAIN json["daily"] : json["daily"][i] = "m"}) = n
    BY <1>4, ArrayGood
  <2>. QED
    BY <1>3, <2>4, <2>5, <2>6
<1>. QED
  BY <1>8, <1>9, <1>10, WeekendsAgree DEF DaysReported

(* Every day with hits is in the daily table and in the JSON file of days, *)
(* the chart shows the weekends that the table shows, and the JSON texts   *)
(* of the totals, the days and the hours are well-formed                   *)
(* (html_output_t::daily_total_table, json_output.cpp).                    *)
THEOREM DaysAlwaysReported == Reporting /\ ReportInput /\ MonthInput => []DaysReported
<1>1. MonthInput /\ [Next]_vars => MonthInput'
  BY DEF MonthInput, Next, vars
<1>2. ReportInput /\ MonthInput /\ ReportInv /\ EnginesInv => DaysReported
  BY InvDays
<1>. QED
  BY <1>1, <1>2, EnginesInvariant, PTL DEF Reporting
=============================================================================
