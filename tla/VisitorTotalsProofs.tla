------------------------ MODULE VisitorTotalsProofs ------------------------
(***************************************************************************)
(* Theorems about VisitorTotals, for any hosts, months and restarts: every *)
(* visit and host is counted once, as one kind of visitor, and no more     *)
(* hosts and visits are converted than there are of people. The second     *)
(* half sums up hits and visits over hosts: those of robots and spammers,  *)
(* and those of countries.                                                 *)
(***************************************************************************)
EXTENDS VisitorTotals, SumsAndRanks

-----------------------------------------------------------------------------
(* Sets of hosts                                                           *)

(* Sets of hosts can be counted.                                           *)
LEMMA HostSets ==
  ASSUME NEW A \in SUBSET Host
  PROVE  IsFiniteSet(A) /\ Cardinality(A) \in Nat
BY VisitorAssumption, FS_Subset, FS_CardinalityType

(* A part has no more hosts than the whole,                                *)
LEMMA Larger ==
  ASSUME NEW A \in SUBSET Host, NEW B \in SUBSET A
  PROVE  Cardinality(B) <= Cardinality(A)
BY HostSets, FS_Subset

(* and parts with no host in common are added.                             *)
LEMMA Disjoint ==
  ASSUME NEW A \in SUBSET Host, NEW B \in SUBSET Host, A \cap B = {}
  PROVE  Cardinality(A \cup B) = Cardinality(A) + Cardinality(B)
<1>1. /\ IsFiniteSet(A) /\ IsFiniteSet(B)
      /\ Cardinality(A) \in Nat /\ Cardinality(B) \in Nat
  BY HostSets
<1>2. Cardinality(A \cap B) = 0
  BY FS_EmptySet
<1>3. Cardinality(A \cup B) = Cardinality(A) + Cardinality(B) - Cardinality(A \cap B)
  BY <1>1, FS_Union
<1>. QED
  BY <1>1, <1>2, <1>3

(* A host that was not in the set makes one more.                          *)
LEMMA OneMore ==
  ASSUME NEW A \in SUBSET Host, NEW h \in Host
  PROVE  /\ h \in A => Cardinality(A \cup {h}) = Cardinality(A)
         /\ h \notin A => Cardinality(A \cup {h}) = Cardinality(A) + 1
<1>1. IsFiniteSet(A)
  BY HostSets
<1>2. h \in A => A \cup {h} = A
  OBVIOUS
<1>. QED
  BY <1>1, <1>2, FS_AddElement

-----------------------------------------------------------------------------
(* Types                                                                   *)

Visit == [hits : Nat, converted : BOOLEAN]
Node == [robot : BOOLEAN, spammer : BOOLEAN, resolved : BOOLEAN, visits : Nat,
         visits_conv : Nat, visit : Visit \cup {None},
         grp_visits : [visits : Nat, hits : Nat], day : 1 .. LastDay]

(* No node and no visit is None.                                           *)
LEMMA NoneIsNone == None \notin Node /\ None \notin Visit
<1>1. ASSUME NEW n \in Node  PROVE  n # None
  <2>1. "robot" \in DOMAIN n
    BY DEF Node
  <2>2. "robot" \notin DOMAIN None
    BY DEF None
  <2>. QED
    BY <2>1, <2>2
<1>2. ASSUME NEW v \in Visit  PROVE  v # None
  <2>1. "hits" \in DOMAIN v
    BY DEF Visit
  <2>2. "hits" \notin DOMAIN None
    BY DEF None
  <2>. QED
    BY <2>1, <2>2
<1>. QED
  BY <1>1, <1>2

(* Hits of spammers are counted further below: the balance needs none.     *)
Counted == Counter \ {"t_spmhits"}

KnownOf(H) == {h \in Host : H[h] # NoHost}
ActiveOf(H) == {h \in KnownOf(H) : H[h].visit # None}
RobotsOf(H) == {h \in KnownOf(H) : H[h].robot}
ConvertedOf(H) == {h \in KnownOf(H) : H[h].visits_conv > 0}

(* Spammers whose first visit has ended, and which never were converted    *)
SpammersOf(H) ==
  {h \in KnownOf(H) : /\ H[h].spammer /\ H[h].visits_conv = 0
                      /\ H[h].visit # None => H[h].visits > 1}

(* A host has a converted visit for each visit that ended at most, and     *)
(* robots have none.                                                       *)
NodesFit(H) ==
  \A h \in KnownOf(H) :
    /\ H[h].visits >= 1
    /\ H[h].visits_conv + (IF H[h].visit = None THEN 0 ELSE 1) <= H[h].visits
    /\ H[h].robot => H[h].visits_conv = 0

Balanced(H, T) ==
  /\ H \in [Host -> Node \cup {NoHost}]
  /\ DOMAIN T = Counter /\ \A c \in Counted : T[c] \in Nat
  /\ NodesFit(H)
  /\ T.t_visits = T.t_visits_end + Cardinality(ActiveOf(H))
  /\ T.t_visits_end = T.t_hvisits_end + T.t_rvisits_end + T.t_svisits_end
  /\ T.t_hosts = Cardinality(KnownOf(H))
  /\ T.t_rhosts = Cardinality(RobotsOf(H))
  /\ T.t_hosts_conv = Cardinality(ConvertedOf(H))
  /\ T.t_shosts <= Cardinality(SpammersOf(H))
  /\ T.t_hosts_conv <= T.t_visits_conv /\ T.t_visits_conv <= T.t_hvisits_end

-----------------------------------------------------------------------------
(* Visits end                                                              *)

(* A host whose visit ends is as before but for the visit and a            *)
(* conversion.                                                             *)
LEMMA EndedNodeIs ==
  ASSUME Balanced(host, totals), NEW h \in Active
  PROVE  /\ EndedNode(h) \in Node /\ EndedNode(h).visit = None
         /\ EndedNode(h).robot = host[h].robot /\ EndedNode(h).spammer = host[h].spammer
         /\ EndedNode(h).visits = host[h].visits /\ EndedNode(h).day = host[h].day
         /\ EndedNode(h).visits_conv =
              host[h].visits_conv + (IF h \in Converted({h}) THEN 1 ELSE 0)
<1>. DEFINE n == host[h]
            conv == n.visits_conv + (IF h \in Converted({h}) THEN 1 ELSE 0)
            grp == IF Grouped(h) THEN n.grp_visits
                   ELSE [visits |-> n.grp_visits.visits + 1,
                         hits |-> n.grp_visits.hits + n.visit.hits]
            ended == [n EXCEPT !.visit = None, !.visits_conv = conv, !.grp_visits = grp]
<1>1. n \in Node /\ n.visit \in Visit
  BY NoneIsNone DEF Active, Known, Balanced, Node, NoHost
<1>2. EndedNode(h) = ended
  BY DEF EndedNode
<1>3. conv \in Nat
  BY <1>1 DEF Node
<1>4. grp \in [visits : Nat, hits : Nat]
  BY <1>1 DEF Node, Visit
<1>. HIDE DEF conv, grp
<1>5. ended \in Node
  BY <1>1, <1>3, <1>4 DEF Node
<1>6. /\ ended.visit = None /\ ended.robot = n.robot /\ ended.spammer = n.spammer
      /\ ended.visits = n.visits /\ ended.day = n.day /\ ended.visits_conv = conv
  BY <1>1 DEF Node
<1>. QED
  BY <1>2, <1>5, <1>6 DEF conv

(* When visits of S end, hosts are converted, and spammers are counted on  *)
(* their first visit.                                                      *)
LEMMA EndedHostsAre ==
  ASSUME Balanced(host, totals), NEW S \in SUBSET Active
  PROVE  /\ EndedHosts(S) \in [Host -> Node \cup {NoHost}]
         /\ KnownOf(EndedHosts(S)) = Known /\ ActiveOf(EndedHosts(S)) = Active \ S
         /\ RobotsOf(EndedHosts(S)) = RobotsOf(host)
         /\ ConvertedOf(EndedHosts(S)) = ConvertedOf(host) \cup Converted(S)
         /\ SpammersOf(host) \cup FirstVisit(Spammers(S)) \subseteq SpammersOf(EndedHosts(S))
         /\ NodesFit(EndedHosts(S))
         /\ \A h \in Known : EndedHosts(S)[h].day = host[h].day
<1>. DEFINE E == EndedHosts(S)
<1>1. \A h \in Host : E[h] = IF h \in S THEN EndedNode(h) ELSE host[h]
  BY DEF EndedHosts
<1>2. /\ Active \subseteq Known /\ Known \subseteq Host
      /\ \A h \in Known : host[h] \in Node
      /\ \A h \in Active : host[h].visit # None
  BY DEF Active, Known, Balanced
<1>3. ASSUME NEW h \in S
      PROVE  /\ E[h] \in Node /\ E[h].visit = None
             /\ E[h].robot = host[h].robot /\ E[h].spammer = host[h].spammer
             /\ E[h].visits = host[h].visits /\ E[h].day = host[h].day
             /\ E[h].visits_conv = host[h].visits_conv + (IF h \in Converted(S) THEN 1 ELSE 0)
  <2>1. h \in Converted({h}) <=> h \in Converted(S)
    BY DEF Converted, Humans
  <2>. QED
    BY <1>1, <1>2, <2>1, EndedNodeIs
<1>4. E \in [Host -> Node \cup {NoHost}]
  BY <1>1, <1>2, <1>3 DEF EndedHosts, Balanced
<1>5. KnownOf(E) = Known
  BY <1>1, <1>2, <1>3, NoneIsNone DEF KnownOf, Known, NoHost
<1>6. \A h \in Known \ S : E[h] = host[h]
  BY <1>1, <1>2
<1>7. ActiveOf(E) = Active \ S
  BY <1>3, <1>5, <1>6 DEF ActiveOf, Active
<1>8. KnownOf(host) = Known
  BY DEF KnownOf, Known
<1>9. RobotsOf(E) = RobotsOf(host)
  BY <1>3, <1>5, <1>6, <1>8 DEF RobotsOf
<1>10. \A h \in Known : host[h].visits_conv \in Nat /\ host[h].visits \in Nat
  BY <1>2 DEF Node
<1>11. Converted(S) \subseteq S
  BY DEF Converted, Humans
<1>12. ConvertedOf(E) = ConvertedOf(host) \cup Converted(S)
  BY <1>2, <1>3, <1>5, <1>6, <1>8, <1>10, <1>11 DEF ConvertedOf
<1>13. NodesFit(host)
  BY DEF Balanced
<1>14. \A h \in Converted(S) : ~host[h].robot /\ ~host[h].spammer
  BY DEF Converted, Humans
<1>15. NodesFit(E)
  <2>1. ASSUME NEW h \in Known
        PROVE  /\ E[h].visits >= 1
               /\ E[h].visits_conv + (IF E[h].visit = None THEN 0 ELSE 1) <= E[h].visits
               /\ E[h].robot => E[h].visits_conv = 0
    <3>1. /\ host[h].visits >= 1
          /\ host[h].visits_conv + (IF host[h].visit = None THEN 0 ELSE 1) <= host[h].visits
          /\ host[h].robot => host[h].visits_conv = 0
      BY <1>8, <1>13 DEF NodesFit
    <3>2. CASE h \in S
      BY <1>2, <1>3, <1>10, <1>14, <3>1, <3>2
    <3>3. CASE h \notin S
      BY <1>6, <3>1, <3>3
    <3>. QED
      BY <3>2, <3>3
  <2>. QED
    BY <1>5, <2>1 DEF NodesFit
<1>16. ASSUME NEW h \in SpammersOf(host) \cup FirstVisit(Spammers(S))
       PROVE  h \in SpammersOf(E)
  <2>1. h \in Known /\ host[h].spammer /\ h \notin Converted(S)
    BY <1>2, <1>8, <1>14 DEF SpammersOf, FirstVisit, Spammers
  <2>2. host[h].visits_conv = 0
    <3>1. CASE h \in SpammersOf(host)
      BY <3>1 DEF SpammersOf
    <3>2. CASE h \in FirstVisit(Spammers(S))
      <4>1. host[h].visits = 1 /\ host[h].visit # None
        BY <1>2, <3>2 DEF FirstVisit, Spammers
      <4>. QED
        BY <1>8, <1>10, <1>13, <2>1, <4>1 DEF NodesFit
    <3>. QED
      BY <3>1, <3>2
  <2>3. CASE h \in S
    BY <1>3, <1>5, <2>1, <2>2, <2>3 DEF SpammersOf
  <2>4. CASE h \notin S
    <3>1. h \in SpammersOf(host)
      BY <2>4 DEF FirstVisit, Spammers
    <3>. QED
      BY <1>5, <1>6, <2>1, <2>4, <3>1 DEF SpammersOf
  <2>. QED
    BY <2>3, <2>4
<1>. QED
  BY <1>2, <1>3, <1>4, <1>5, <1>6, <1>7, <1>9, <1>12, <1>15, <1>16

(* Visits that end keep the balance (end_visit).                           *)
LEMMA EndedBalance ==
  ASSUME Balanced(host, totals), NEW S \in SUBSET Active
  PROVE  Balanced(EndedHosts(S), EndedTotals(totals, S))
<1>. DEFINE E == EndedHosts(S)
            T == EndedTotals(totals, S)
            newconv == {h \in Converted(S) : host[h].visits_conv = 0}
<1>1. /\ Active \subseteq Known /\ Known \subseteq Host
      /\ KnownOf(host) = Known /\ ActiveOf(host) = Active
  BY DEF Active, Known, KnownOf, ActiveOf
<1>2. /\ DOMAIN totals = Counter /\ \A c \in Counted : totals[c] \in Nat
      /\ totals.t_visits = totals.t_visits_end + Cardinality(Active)
      /\ totals.t_visits_end = totals.t_hvisits_end + totals.t_rvisits_end + totals.t_svisits_end
      /\ totals.t_hosts = Cardinality(Known)
      /\ totals.t_rhosts = Cardinality(RobotsOf(host))
      /\ totals.t_hosts_conv = Cardinality(ConvertedOf(host))
      /\ totals.t_shosts <= Cardinality(SpammersOf(host))
      /\ totals.t_hosts_conv <= totals.t_visits_conv
      /\ totals.t_visits_conv <= totals.t_hvisits_end
      /\ \A h \in Known : host[h] \in Node
  BY <1>1 DEF Balanced, Known
<1>3. /\ DOMAIN T = Counter
      /\ T.t_visits = totals.t_visits /\ T.t_hosts = totals.t_hosts
      /\ T.t_rhosts = totals.t_rhosts
      /\ T.t_hit = totals.t_hit /\ T.t_rhits = totals.t_rhits /\ T.t_rvisits = totals.t_rvisits
      /\ T.t_visits_end = totals.t_visits_end + Cardinality(S)
      /\ T.t_svisits_end = totals.t_svisits_end + Cardinality(Spammers(S))
      /\ T.t_rvisits_end = totals.t_rvisits_end + Cardinality(Robots(S))
      /\ T.t_hvisits_end = totals.t_hvisits_end + Cardinality(Humans(S))
      /\ T.t_shosts = totals.t_shosts + Cardinality(FirstVisit(Spammers(S)))
      /\ T.t_hosts_conv = totals.t_hosts_conv + Cardinality(newconv)
      /\ T.t_visits_conv = totals.t_visits_conv + Cardinality(Converted(S))
  BY <1>2 DEF EndedTotals, Counter
<1>4. /\ S \in SUBSET Host /\ Spammers(S) \in SUBSET Host /\ Robots(S) \in SUBSET Host
      /\ Humans(S) \in SUBSET Host /\ Converted(S) \in SUBSET Host /\ newconv \in SUBSET Host
      /\ FirstVisit(Spammers(S)) \in SUBSET Host
      /\ Active \in SUBSET Host /\ Active \ S \in SUBSET Host
      /\ ConvertedOf(host) \in SUBSET Host /\ SpammersOf(host) \in SUBSET Host
      /\ SpammersOf(E) \in SUBSET Host /\ ConvertedOf(E) \in SUBSET Host
  BY <1>1 DEF Spammers, Robots, Humans, Converted, FirstVisit, ConvertedOf, SpammersOf, KnownOf
<1>5. Cardinality(Active) = Cardinality(Active \ S) + Cardinality(S)
  <2>1. (Active \ S) \cup S = Active /\ (Active \ S) \cap S = {}
    OBVIOUS
  <2>. QED
    BY <1>4, <2>1, Disjoint
<1>6. Cardinality(S) = Cardinality(Humans(S)) + Cardinality(Robots(S)) + Cardinality(Spammers(S))
  <2>1. /\ Humans(S) \cap Robots(S) = {}
        /\ (Humans(S) \cup Robots(S)) \cap Spammers(S) = {}
        /\ (Humans(S) \cup Robots(S)) \cup Spammers(S) = S
    BY DEF Humans, Robots, Spammers
  <2>2. Cardinality(Humans(S) \cup Robots(S)) = Cardinality(Humans(S)) + Cardinality(Robots(S))
    BY <1>4, <2>1, Disjoint
  <2>3. Humans(S) \cup Robots(S) \in SUBSET Host
    BY <1>4
  <2>4. Cardinality((Humans(S) \cup Robots(S)) \cup Spammers(S)) =
          Cardinality(Humans(S) \cup Robots(S)) + Cardinality(Spammers(S))
    BY <1>4, <2>1, <2>3, Disjoint
  <2>. QED
    BY <2>1, <2>2, <2>4
<1>7. Cardinality(ConvertedOf(E)) = Cardinality(ConvertedOf(host)) + Cardinality(newconv)
  <2>1. ASSUME NEW h \in Converted(S)  PROVE  h \in Known /\ host[h].visits_conv \in Nat
    BY <1>1, <1>2 DEF Converted, Humans, Node
  <2>2. ConvertedOf(host) \cup Converted(S) = ConvertedOf(host) \cup newconv
    BY <1>1, <2>1 DEF ConvertedOf
  <2>3. ConvertedOf(host) \cap newconv = {}
    BY DEF ConvertedOf
  <2>4. ConvertedOf(E) = ConvertedOf(host) \cup newconv
    BY <2>2, EndedHostsAre
  <2>. QED
    BY <1>4, <2>3, <2>4, Disjoint
<1>8. Cardinality(SpammersOf(host)) + Cardinality(FirstVisit(Spammers(S)))
        <= Cardinality(SpammersOf(E))
  <2>1. SpammersOf(host) \cap FirstVisit(Spammers(S)) = {}
    <3>1. ASSUME NEW h \in FirstVisit(Spammers(S))  PROVE  h \notin SpammersOf(host)
      <4>1. host[h].visits = 1 /\ host[h].visit # None
        BY DEF FirstVisit, Spammers, Active
      <4>. QED
        BY <4>1 DEF SpammersOf
    <3>. QED
      BY <3>1
  <2>2. Cardinality(SpammersOf(host) \cup FirstVisit(Spammers(S))) =
          Cardinality(SpammersOf(host)) + Cardinality(FirstVisit(Spammers(S)))
    BY <1>4, <2>1, Disjoint
  <2>3. SpammersOf(host) \cup FirstVisit(Spammers(S)) \in SUBSET SpammersOf(E)
    BY EndedHostsAre
  <2>. QED
    BY <1>4, <2>2, <2>3, Larger
<1>9. Cardinality(newconv) <= Cardinality(Converted(S)) /\ Cardinality(Converted(S)) <= Cardinality(Humans(S))
  <2>1. newconv \in SUBSET Converted(S) /\ Converted(S) \in SUBSET Humans(S)
    BY DEF Converted
  <2>. QED
    BY <1>4, <2>1, Larger
<1>10. /\ Cardinality(S) \in Nat /\ Cardinality(Spammers(S)) \in Nat /\ Cardinality(Robots(S)) \in Nat
       /\ Cardinality(Humans(S)) \in Nat /\ Cardinality(Converted(S)) \in Nat
       /\ Cardinality(newconv) \in Nat /\ Cardinality(FirstVisit(Spammers(S))) \in Nat
       /\ Cardinality(Active \ S) \in Nat /\ Cardinality(SpammersOf(host)) \in Nat
       /\ Cardinality(SpammersOf(E)) \in Nat
  BY <1>4, HostSets
<1>11. /\ totals.t_hit \in Nat /\ totals.t_hosts \in Nat /\ totals.t_hosts_conv \in Nat
       /\ totals.t_rhits \in Nat /\ totals.t_rhosts \in Nat /\ totals.t_shosts \in Nat
       /\ totals.t_visits \in Nat /\ totals.t_rvisits \in Nat /\ totals.t_visits_end \in Nat
       /\ totals.t_hvisits_end \in Nat /\ totals.t_rvisits_end \in Nat
       /\ totals.t_svisits_end \in Nat /\ totals.t_visits_conv \in Nat
  BY <1>2 DEF Counted, Counter
<1>. HIDE DEF T, E, newconv
<1>12. ASSUME NEW c \in Counted  PROVE  T[c] \in Nat
  BY <1>3, <1>10, <1>11 DEF Counted, Counter
<1>13. T.t_visits = T.t_visits_end + Cardinality(Active \ S)
  BY <1>2, <1>3, <1>5, <1>10, <1>11
<1>14. T.t_visits_end = T.t_hvisits_end + T.t_rvisits_end + T.t_svisits_end
  BY <1>2, <1>3, <1>6, <1>10, <1>11
<1>15. T.t_hosts_conv = Cardinality(ConvertedOf(E)) /\ T.t_shosts <= Cardinality(SpammersOf(E))
  BY <1>2, <1>3, <1>7, <1>8, <1>10, <1>11
<1>16. T.t_hosts_conv <= T.t_visits_conv /\ T.t_visits_conv <= T.t_hvisits_end
  BY <1>2, <1>3, <1>9, <1>10, <1>11
<1>17. /\ E \in [Host -> Node \cup {NoHost}] /\ NodesFit(E)
       /\ KnownOf(E) = Known /\ ActiveOf(E) = Active \ S /\ RobotsOf(E) = RobotsOf(host)
  BY EndedHostsAre DEF E
<1>18. T.t_hosts = Cardinality(KnownOf(E)) /\ T.t_rhosts = Cardinality(RobotsOf(E))
  BY <1>2, <1>3, <1>17
<1>19. Balanced(E, T)
  BY <1>3, <1>12, <1>13, <1>14, <1>15, <1>16, <1>17, <1>18 DEF Balanced
<1>. QED
  BY <1>19 DEF E, T

-----------------------------------------------------------------------------
(* Hosts come back from the resolver and from the database                 *)

(* The balance depends on visits, conversions, robots and spammers only.   *)
LEMMA SameBalance ==
  ASSUME NEW H, NEW T, NEW G, Balanced(H, T), G \in [Host -> Node \cup {NoHost}],
         KnownOf(G) = KnownOf(H),
         \A h \in KnownOf(H) :
           /\ G[h].visit = H[h].visit /\ G[h].visits = H[h].visits
           /\ G[h].visits_conv = H[h].visits_conv /\ G[h].robot = H[h].robot
           /\ H[h].spammer => G[h].spammer
  PROVE  Balanced(G, T)
<1>1. /\ ActiveOf(G) = ActiveOf(H) /\ RobotsOf(G) = RobotsOf(H)
      /\ ConvertedOf(G) = ConvertedOf(H)
  BY DEF ActiveOf, RobotsOf, ConvertedOf
<1>2. SpammersOf(H) \in SUBSET SpammersOf(G) /\ SpammersOf(G) \in SUBSET Host
      /\ SpammersOf(H) \in SUBSET Host
  BY DEF SpammersOf, KnownOf
<1>3. /\ Cardinality(SpammersOf(H)) <= Cardinality(SpammersOf(G))
      /\ Cardinality(SpammersOf(H)) \in Nat /\ Cardinality(SpammersOf(G)) \in Nat
  BY <1>2, Larger, HostSets
<1>4. T.t_shosts \in Nat /\ T.t_shosts <= Cardinality(SpammersOf(H))
  BY DEF Balanced, Counted, Counter
<1>5. T.t_shosts <= Cardinality(SpammersOf(G))
  BY <1>3, <1>4
<1>6. NodesFit(G)
  BY DEF NodesFit, Balanced
<1>. QED
  BY <1>1, <1>5, <1>6 DEF Balanced

(* Hosts that come back from the resolver keep it.                         *)
LEMMA ReturnedBalance ==
  ASSUME NEW H, NEW T, Balanced(H, T), NEW P \in SUBSET KnownOf(H), NEW K
  PROVE  /\ Balanced(Returned(H, P, K), T)
         /\ KnownOf(Returned(H, P, K)) = KnownOf(H)
         /\ \A h \in KnownOf(H) : Returned(H, P, K)[h].day = H[h].day
<1>. DEFINE R == Returned(H, P, K)
<1>1. /\ \A h \in KnownOf(H) : h \in Host /\ H[h] \in Node
      /\ \A h \in Host \ KnownOf(H) : H[h] = NoHost
  BY DEF KnownOf, Balanced
<1>2. ASSUME NEW h \in P
      PROVE  /\ R[h] \in Node
             /\ R[h].visit = H[h].visit /\ R[h].visits = H[h].visits
             /\ R[h].visits_conv = H[h].visits_conv /\ R[h].robot = H[h].robot
             /\ H[h].spammer => R[h].spammer
             /\ R[h].day = H[h].day
  <2>. DEFINE b == H[h].spammer \/ h \in K
              n == [H[h] EXCEPT !.resolved = TRUE, !.grp_visits = NoVisits, !.spammer = b]
  <2>1. h \in Host /\ H[h] \in Node /\ b \in BOOLEAN
    BY <1>1
  <2>2. R[h] = n
    BY <2>1 DEF Returned
  <2>3. H[h].spammer => b
    OBVIOUS
  <2>. HIDE DEF b
  <2>4. n \in Node
    BY <2>1 DEF Node, NoVisits
  <2>5. /\ n.visit = H[h].visit /\ n.visits = H[h].visits /\ n.visits_conv = H[h].visits_conv
        /\ n.robot = H[h].robot /\ n.spammer = b /\ n.day = H[h].day
    BY <2>1 DEF Node
  <2>. QED
    BY <2>2, <2>3, <2>4, <2>5
<1>3. \A h \in Host \ P : R[h] = H[h]
  BY DEF Returned
<1>4. R \in [Host -> Node \cup {NoHost}]
  BY <1>1, <1>2, <1>3 DEF Returned
<1>5. KnownOf(R) = KnownOf(H)
  BY <1>1, <1>2, <1>3, NoneIsNone DEF KnownOf, NoHost
<1>. HIDE DEF R
<1>6. \A h \in KnownOf(H) :
        /\ R[h].visit = H[h].visit /\ R[h].visits = H[h].visits
        /\ R[h].visits_conv = H[h].visits_conv /\ R[h].robot = H[h].robot
        /\ H[h].spammer => R[h].spammer
        /\ R[h].day = H[h].day
  BY <1>1, <1>2, <1>3
<1>7. Balanced(R, T)
  BY <1>4, <1>5, <1>6, SameBalance
<1>. QED
  BY <1>5, <1>6, <1>7 DEF R

(* So do hosts that are read from the database.                            *)
LEMMA RestoredBalance ==
  ASSUME NEW H, NEW T, NEW G, Balanced(H, T), G = [h \in Host |-> Restored(H[h])]
  PROVE  /\ Balanced(G, T) /\ KnownOf(G) = KnownOf(H)
         /\ \A h \in KnownOf(H) : G[h].day = H[h].day
<1>1. /\ \A h \in KnownOf(H) : h \in Host /\ H[h] \in Node
      /\ \A h \in Host \ KnownOf(H) : H[h] = NoHost
  BY DEF KnownOf, Balanced
<1>2. ASSUME NEW h \in KnownOf(H)
      PROVE  /\ G[h] \in Node
             /\ G[h].visit = H[h].visit /\ G[h].visits = H[h].visits
             /\ G[h].visits_conv = H[h].visits_conv /\ G[h].robot = H[h].robot
             /\ H[h].spammer => G[h].spammer
             /\ G[h].day = H[h].day
  <2>. DEFINE n == [H[h] EXCEPT !.resolved = TRUE, !.grp_visits = NoVisits]
  <2>1. H[h] \in Node /\ G[h] = n
    BY <1>1 DEF Restored, KnownOf
  <2>2. n \in Node
    BY <2>1 DEF Node, NoVisits
  <2>3. /\ n.visit = H[h].visit /\ n.visits = H[h].visits /\ n.visits_conv = H[h].visits_conv
        /\ n.robot = H[h].robot /\ n.spammer = H[h].spammer /\ n.day = H[h].day
    BY <2>1 DEF Node
  <2>. QED
    BY <2>1, <2>2, <2>3
<1>3. \A h \in Host \ KnownOf(H) : G[h] = NoHost
  BY <1>1 DEF Restored
<1>4. G \in [Host -> Node \cup {NoHost}]
  BY <1>1, <1>2, <1>3
<1>5. KnownOf(G) = KnownOf(H)
  BY <1>1, <1>2, <1>3, NoneIsNone DEF KnownOf, NoHost
<1>. QED
  BY <1>2, <1>4, <1>5, SameBalance

-----------------------------------------------------------------------------
(* A record of a host                                                      *)

(* The node that put_hnode leaves for the host of a record.                *)
LEMMA VisitedNodeIs ==
  ASSUME NEW n \in Node \cup {NoHost}, NEW h, NEW spammer \in BOOLEAN, NEW robot \in BOOLEAN,
         NEW target \in BOOLEAN, NEW newvisit \in BOOLEAN,
         newvisit <=> (n = NoHost \/ n.visit = None), today \in 1 .. LastDay
  PROVE  LET node == put_hnode(h, n, spammer, robot, target, newvisit)
         IN  /\ node \in Node /\ node.visit # None /\ node.day = today
             /\ n = NoHost => node.visits = 1 /\ node.visits_conv = 0
             /\ n # NoHost =>
                  /\ node.robot = n.robot /\ node.visits_conv = n.visits_conv
                  /\ n.spammer => node.spammer
                  /\ node.visits = IF newvisit THEN n.visits + 1 ELSE n.visits
<1>. DEFINE seen == IF n = NoHost THEN NewNode(spammer, robot) ELSE VisitedNode(n, spammer, newvisit)
            node == put_hnode(h, n, spammer, robot, target, newvisit)
<1>1. /\ seen \in Node /\ seen.visit \in Visit /\ seen.day = today
      /\ n = NoHost => seen.visits = 1 /\ seen.visits_conv = 0
      /\ n # NoHost =>
           /\ seen.robot = n.robot /\ seen.visits_conv = n.visits_conv
           /\ n.spammer => seen.spammer
           /\ seen.visits = IF newvisit THEN n.visits + 1 ELSE n.visits
  <2>1. CASE n = NoHost
    <3>1. seen = NewNode(spammer, robot)
      BY <2>1
    <3>. QED
      BY <2>1, <3>1 DEF NewNode, Node, Visit, NoVisits
  <2>2. CASE n # NoHost
    <3>. DEFINE b == n.spammer \/ spammer
                v == IF newvisit THEN n.visits + 1 ELSE n.visits
                w == IF newvisit THEN [hits |-> 1, converted |-> FALSE]
                     ELSE [n.visit EXCEPT !.hits = @ + 1]
                m == [n EXCEPT !.spammer = b, !.visits = v, !.visit = w, !.day = today]
    <3>1. seen = m
      BY <2>2 DEF VisitedNode
    <3>2. n \in Node /\ b \in BOOLEAN
      BY <2>2 DEF Node
    <3>3. v \in Nat
      BY <3>2 DEF Node
    <3>4. w \in Visit
      <4>1. CASE newvisit
        BY <4>1 DEF Visit
      <4>2. CASE ~newvisit
        <5>1. n.visit \in Visit
          BY <2>2, <3>2, <4>2 DEF Node
        <5>. QED
          BY <4>2, <5>1 DEF Visit
      <4>. QED
        BY <4>1, <4>2
    <3>5. n.spammer => b
      OBVIOUS
    <3>. HIDE DEF b, v, w
    <3>6. m \in Node
      BY <3>2, <3>3, <3>4 DEF Node
    <3>7. /\ m.visit = w /\ m.day = today /\ m.robot = n.robot /\ m.visits_conv = n.visits_conv
          /\ m.spammer = b /\ m.visits = v
      BY <3>2 DEF Node
    <3>. QED
      BY <2>2, <3>1, <3>4, <3>5, <3>6, <3>7 DEF v
  <2>. QED
    BY <2>1, <2>2
<1>2. node = IF target /\ ~robot /\ ~spammer THEN [seen EXCEPT !.visit.converted = TRUE] ELSE seen
  BY DEF put_hnode
<1>. HIDE DEF seen, node
<1>3. CASE node = seen
  BY <1>1, <1>3, NoneIsNone DEF node
<1>4. CASE node = [seen EXCEPT !.visit.converted = TRUE]
  <2>. DEFINE w == [seen.visit EXCEPT !.converted = TRUE]
  <2>1. node = [seen EXCEPT !.visit = w]
    BY <1>4
  <2>2. w \in Visit
    BY <1>1 DEF Visit
  <2>. HIDE DEF w
  <2>3. node \in Node
    BY <1>1, <2>1, <2>2 DEF Node
  <2>4. /\ node.visit = w /\ node.day = seen.day /\ node.robot = seen.robot
        /\ node.visits_conv = seen.visits_conv /\ node.spammer = seen.spammer
        /\ node.visits = seen.visits
    BY <1>1, <2>1 DEF Node
  <2>. QED
    BY <1>1, <2>2, <2>3, <2>4, NoneIsNone DEF node
<1>. QED
  BY <1>2, <1>3, <1>4

(* A record of a host changes its node, H becomes G, in a record's totals. *)
RecordOf(H, G, h, node, newhost, newvisit) ==
  /\ h \in Host /\ newhost \in BOOLEAN /\ newvisit \in BOOLEAN
  /\ newhost <=> H[h] = NoHost
  /\ newvisit <=> (newhost \/ H[h].visit = None)
  /\ \E spammer, robot, target \in BOOLEAN :
       node = put_hnode(h, H[h], spammer, robot, target, newvisit)
  /\ G = [H EXCEPT ![h] = node]

(* A record keeps the balance: its host may be new, and so may the visit.  *)
LEMMA VisitingBalance ==
  ASSUME NEW H, NEW T, NEW G, NEW h, NEW node, NEW newhost, NEW newvisit,
         Balanced(H, T), RecordOf(H, G, h, node, newhost, newvisit), today \in 1 .. LastDay
  PROVE  /\ Balanced(G, RecordTotals(T, node.robot, newhost, newvisit))
         /\ KnownOf(G) = KnownOf(H) \cup {h}
         /\ G[h].day = today
<1>0. /\ h \in Host /\ newhost \in BOOLEAN /\ newvisit \in BOOLEAN
      /\ newhost <=> H[h] = NoHost
      /\ newvisit <=> (newhost \/ H[h].visit = None)
      /\ G = [H EXCEPT ![h] = node]
  BY DEF RecordOf
<1>. DEFINE R == RecordTotals(T, node.robot, newhost, newvisit)
            n == H[h]
<1>1. /\ H \in [Host -> Node \cup {NoHost}] /\ NodesFit(H)
      /\ DOMAIN T = Counter /\ \A c \in Counted : T[c] \in Nat
      /\ T.t_visits = T.t_visits_end + Cardinality(ActiveOf(H))
      /\ T.t_visits_end = T.t_hvisits_end + T.t_rvisits_end + T.t_svisits_end
      /\ T.t_hosts = Cardinality(KnownOf(H))
      /\ T.t_rhosts = Cardinality(RobotsOf(H))
      /\ T.t_hosts_conv = Cardinality(ConvertedOf(H))
      /\ T.t_shosts <= Cardinality(SpammersOf(H))
      /\ T.t_hosts_conv <= T.t_visits_conv /\ T.t_visits_conv <= T.t_hvisits_end
  BY DEF Balanced
<1>2. n \in Node \cup {NoHost}
  BY <1>0, <1>1
<1>3. /\ node \in Node /\ node.visit # None /\ node.day = today
      /\ n = NoHost => node.visits = 1 /\ node.visits_conv = 0
      /\ n # NoHost =>
           /\ node.robot = n.robot /\ node.visits_conv = n.visits_conv
           /\ n.spammer => node.spammer
           /\ node.visits = IF newvisit THEN n.visits + 1 ELSE n.visits
  <2>1. PICK spammer \in BOOLEAN, robot \in BOOLEAN, target \in BOOLEAN :
          node = put_hnode(h, n, spammer, robot, target, newvisit)
    BY DEF RecordOf
  <2>2. newvisit <=> (n = NoHost \/ n.visit = None)
    BY <1>0
  <2>. QED
    BY <1>0, <1>2, <2>1, <2>2, VisitedNodeIs
<1>4. /\ G \in [Host -> Node \cup {NoHost}] /\ G[h] = node
      /\ \A k \in Host \ {h} : G[k] = H[k]
  BY <1>0, <1>1, <1>3
<1>5. KnownOf(G) = KnownOf(H) \cup {h}
  BY <1>0, <1>3, <1>4, NoneIsNone DEF KnownOf, NoHost
<1>6. ActiveOf(G) = ActiveOf(H) \cup {h}
  BY <1>0, <1>3, <1>4, <1>5 DEF ActiveOf, KnownOf
<1>7. /\ h \in KnownOf(H) <=> ~newhost
      /\ h \in ActiveOf(H) <=> ~newvisit
  BY <1>0 DEF KnownOf, ActiveOf
<1>8. h \in KnownOf(H) => n \in Node /\ n # NoHost
  BY <1>0, <1>1 DEF KnownOf
<1>9. RobotsOf(G) = IF node.robot THEN RobotsOf(H) \cup {h} ELSE RobotsOf(H)
  BY <1>0, <1>3, <1>4, <1>5, <1>7, <1>8 DEF RobotsOf, KnownOf
<1>10. h \in RobotsOf(H) <=> ~newhost /\ node.robot
  BY <1>0, <1>3, <1>7, <1>8 DEF RobotsOf
<1>11. ConvertedOf(G) = ConvertedOf(H)
  <2>1. h \in KnownOf(H) => node.visits_conv = n.visits_conv
    BY <1>0, <1>3, <1>8
  <2>2. h \notin KnownOf(H) => node.visits_conv = 0
    BY <1>0, <1>3 DEF KnownOf
  <2>3. h \in ConvertedOf(G) <=> h \in ConvertedOf(H)
    <3>1. CASE h \in KnownOf(H)
      <4>1. G[h].visits_conv = H[h].visits_conv
        BY <1>0, <1>4, <2>1, <3>1
      <4>. QED
        BY <1>0, <1>5, <3>1, <4>1 DEF ConvertedOf
    <3>2. CASE h \notin KnownOf(H)
      <4>1. G[h].visits_conv = 0
        BY <1>0, <1>4, <2>2, <3>2
      <4>. QED
        BY <3>2, <4>1 DEF ConvertedOf
    <3>. QED
      BY <3>1, <3>2
  <2>. QED
    BY <1>0, <1>4, <1>5, <2>3 DEF ConvertedOf, KnownOf
<1>12. SpammersOf(H) \in SUBSET SpammersOf(G)
  <2>1. ASSUME h \in SpammersOf(H)  PROVE  h \in SpammersOf(G)
    <3>1. /\ h \in KnownOf(H) /\ n.spammer /\ n.visits_conv = 0
          /\ n.visit # None => n.visits > 1
      BY <2>1 DEF SpammersOf
    <3>2. n.visits >= 1 /\ n.visits \in Nat
      BY <1>0, <1>1, <1>8, <3>1 DEF NodesFit, Node
    <3>3. node.spammer /\ node.visits_conv = 0 /\ node.visits > 1
      BY <1>0, <1>3, <1>7, <1>8, <3>1, <3>2
    <3>. QED
      BY <1>0, <1>4, <1>5, <3>3 DEF SpammersOf
  <2>2. ASSUME NEW k \in SpammersOf(H), k # h  PROVE  k \in SpammersOf(G)
    BY <1>0, <1>4, <1>5, <2>2 DEF SpammersOf, KnownOf
  <2>. QED
    BY <2>1, <2>2
<1>13. NodesFit(G)
  <2>1. ASSUME NEW k \in KnownOf(G), k # h
        PROVE  /\ G[k].visits >= 1
               /\ G[k].visits_conv + (IF G[k].visit = None THEN 0 ELSE 1) <= G[k].visits
               /\ G[k].robot => G[k].visits_conv = 0
    <3>1. k \in KnownOf(H) /\ G[k] = H[k]
      BY <1>0, <1>4, <1>5, <2>1 DEF KnownOf
    <3>. QED
      BY <1>0, <1>1, <3>1 DEF NodesFit
  <2>2. /\ node.visits >= 1
        /\ node.visits_conv + (IF node.visit = None THEN 0 ELSE 1) <= node.visits
        /\ node.robot => node.visits_conv = 0
    <3>1. CASE newhost
      <4>1. node.visits = 1 /\ node.visits_conv = 0
        BY <1>0, <1>3, <3>1
      <4>. QED
        BY <4>1
    <3>2. CASE ~newhost
      <4>1. /\ n \in Node /\ n # NoHost /\ n.visits >= 1
            /\ n.visits_conv + (IF n.visit = None THEN 0 ELSE 1) <= n.visits
            /\ n.robot => n.visits_conv = 0
        BY <1>0, <1>1, <1>7, <1>8, <3>2 DEF NodesFit
      <4>2. n.visits \in Nat /\ n.visits_conv \in Nat
        BY <4>1 DEF Node
      <4>. QED
        BY <1>0, <1>3, <3>2, <4>1, <4>2
    <3>. QED
      BY <3>1, <3>2
  <2>. QED
    BY <1>0, <1>4, <2>1, <2>2 DEF NodesFit
<1>14. /\ KnownOf(H) \in SUBSET Host /\ ActiveOf(H) \in SUBSET Host /\ RobotsOf(H) \in SUBSET Host
       /\ SpammersOf(H) \in SUBSET Host /\ SpammersOf(G) \in SUBSET Host
  BY DEF KnownOf, ActiveOf, RobotsOf, SpammersOf
<1>15. /\ Cardinality(KnownOf(G)) = Cardinality(KnownOf(H)) + (IF newhost THEN 1 ELSE 0)
       /\ Cardinality(ActiveOf(G)) = Cardinality(ActiveOf(H)) + (IF newvisit THEN 1 ELSE 0)
       /\ Cardinality(RobotsOf(G)) =
            Cardinality(RobotsOf(H)) + (IF node.robot /\ newhost THEN 1 ELSE 0)
       /\ Cardinality(SpammersOf(H)) <= Cardinality(SpammersOf(G))
  <2>1. /\ Cardinality(KnownOf(H)) \in Nat /\ Cardinality(ActiveOf(H)) \in Nat
        /\ Cardinality(RobotsOf(H)) \in Nat
    BY <1>0, <1>14, HostSets
  <2>2. Cardinality(KnownOf(G)) = Cardinality(KnownOf(H)) + (IF newhost THEN 1 ELSE 0)
    <3>1. /\ h \in KnownOf(H) => Cardinality(KnownOf(G)) = Cardinality(KnownOf(H))
          /\ h \notin KnownOf(H) => Cardinality(KnownOf(G)) = Cardinality(KnownOf(H)) + 1
      <4>1. /\ h \in KnownOf(H) => Cardinality(KnownOf(H) \cup {h}) = Cardinality(KnownOf(H))
            /\ h \notin KnownOf(H) => Cardinality(KnownOf(H) \cup {h}) = Cardinality(KnownOf(H)) + 1
        BY <1>0, <1>14, OneMore
      <4>. QED
        BY <1>0, <1>5, <4>1, Zenon
    <3>2. newhost => h \notin KnownOf(H)
      BY <1>0, <1>7
    <3>3. ~newhost => h \in KnownOf(H)
      BY <1>0, <1>7
    <3>. QED
      BY <2>1, <3>1, <3>2, <3>3
  <2>3. Cardinality(ActiveOf(G)) = Cardinality(ActiveOf(H)) + (IF newvisit THEN 1 ELSE 0)
    <3>1. /\ h \in ActiveOf(H) => Cardinality(ActiveOf(G)) = Cardinality(ActiveOf(H))
          /\ h \notin ActiveOf(H) => Cardinality(ActiveOf(G)) = Cardinality(ActiveOf(H)) + 1
      <4>1. /\ h \in ActiveOf(H) => Cardinality(ActiveOf(H) \cup {h}) = Cardinality(ActiveOf(H))
            /\ h \notin ActiveOf(H) => Cardinality(ActiveOf(H) \cup {h}) = Cardinality(ActiveOf(H)) + 1
        BY <1>0, <1>14, OneMore
      <4>. QED
        BY <1>0, <1>6, <4>1, Zenon
    <3>2. newvisit => h \notin ActiveOf(H)
      BY <1>0, <1>7
    <3>3. ~newvisit => h \in ActiveOf(H)
      BY <1>0, <1>7
    <3>. QED
      BY <2>1, <3>1, <3>2, <3>3
  <2>4. Cardinality(RobotsOf(G)) =
          Cardinality(RobotsOf(H)) + (IF node.robot /\ newhost THEN 1 ELSE 0)
    BY <1>0, <1>9, <1>10, <1>14, <2>1, OneMore
  <2>. QED
    BY <1>0, <1>12, <1>14, <2>2, <2>3, <2>4, Larger
<1>16. /\ DOMAIN R = Counter
       /\ R.t_hit = T.t_hit + 1
       /\ R.t_hosts = T.t_hosts + (IF newhost THEN 1 ELSE 0)
       /\ R.t_rhits = T.t_rhits + (IF node.robot THEN 1 ELSE 0)
       /\ R.t_rhosts = T.t_rhosts + (IF node.robot /\ newhost THEN 1 ELSE 0)
       /\ R.t_visits = T.t_visits + (IF newvisit THEN 1 ELSE 0)
       /\ R.t_rvisits = T.t_rvisits + (IF newvisit /\ node.robot THEN 1 ELSE 0)
       /\ R.t_visits_end = T.t_visits_end /\ R.t_hvisits_end = T.t_hvisits_end
       /\ R.t_rvisits_end = T.t_rvisits_end /\ R.t_svisits_end = T.t_svisits_end
       /\ R.t_hosts_conv = T.t_hosts_conv /\ R.t_visits_conv = T.t_visits_conv
       /\ R.t_shosts = T.t_shosts
  BY <1>0, <1>1 DEF RecordTotals, Counter
<1>17. /\ T.t_hit \in Nat /\ T.t_hosts \in Nat /\ T.t_hosts_conv \in Nat
       /\ T.t_rhits \in Nat /\ T.t_rhosts \in Nat /\ T.t_shosts \in Nat
       /\ T.t_visits \in Nat /\ T.t_rvisits \in Nat /\ T.t_visits_end \in Nat
       /\ T.t_hvisits_end \in Nat /\ T.t_rvisits_end \in Nat
       /\ T.t_svisits_end \in Nat /\ T.t_visits_conv \in Nat
  BY <1>0, <1>1 DEF Counted, Counter
<1>18. /\ Cardinality(ActiveOf(H)) \in Nat /\ Cardinality(SpammersOf(H)) \in Nat
       /\ Cardinality(SpammersOf(G)) \in Nat
  BY <1>0, <1>14, HostSets
<1>. HIDE DEF R
<1>19. ASSUME NEW c \in Counted  PROVE  R[c] \in Nat
  BY <1>0, <1>16, <1>17 DEF Counted, Counter
<1>20. /\ R.t_visits = R.t_visits_end + Cardinality(ActiveOf(G))
       /\ R.t_hosts = Cardinality(KnownOf(G)) /\ R.t_rhosts = Cardinality(RobotsOf(G))
       /\ R.t_hosts_conv = Cardinality(ConvertedOf(G))
       /\ R.t_shosts <= Cardinality(SpammersOf(G))
  BY <1>0, <1>1, <1>11, <1>15, <1>16, <1>17, <1>18
<1>21. Balanced(G, R)
  BY <1>0, <1>1, <1>4, <1>13, <1>16, <1>19, <1>20 DEF Balanced
<1>. QED
  BY <1>0, <1>3, <1>4, <1>5, <1>21 DEF R

-----------------------------------------------------------------------------
(* The hosts of the day, and the inductive invariant.                      *)

TodaysHosts == {h \in Known : host[h].day = today}

DaysCounted ==
  /\ today \in 1 .. LastDay /\ tm_hosts \in [1 .. LastDay -> Nat]
  /\ \A h \in Known : host[h].day <= today
  /\ tm_hosts[today] = Cardinality(TodaysHosts)
  /\ \A d \in 1 .. LastDay : d > today => tm_hosts[d] = 0

VisitorsCounted ==
  /\ Balanced(host, totals)
  /\ pipeline \subseteq Known
  /\ DaysCounted

(* The sets of the invariant are those of the model.                       *)
LEMMA KnownHosts ==
  /\ KnownOf(host) = Known /\ ActiveOf(host) = Active
  /\ Active \subseteq Known /\ Known \subseteq Host
BY DEF KnownOf, ActiveOf, Known, Active

(* Nobody visits: hosts only come back from the resolver.                  *)
LEMMA SameDays ==
  ASSUME VisitorsCounted, Balanced(host', totals'), KnownOf(host') = Known,
         \A h \in Known : host'[h].day = host[h].day,
         UNCHANGED <<tm_hosts, today>>, pipeline' \subseteq Known
  PROVE  VisitorsCounted'
<1>1. Known' = Known
  BY DEF KnownOf, Known
<1>2. TodaysHosts' = TodaysHosts
  BY <1>1 DEF TodaysHosts
<1>3. DaysCounted'
  BY <1>1, <1>2 DEF DaysCounted, VisitorsCounted
<1>. QED
  BY <1>1, <1>3 DEF VisitorsCounted

(* No host and no total are in balance.                                    *)
LEMMA NoneBalanced ==
  ASSUME NEW H, NEW T, H = NoHosts, T = NoTotals
  PROVE  Balanced(H, T) /\ KnownOf(H) = {}
<1>1. KnownOf(H) = {} /\ ActiveOf(H) = {} /\ RobotsOf(H) = {} /\ ConvertedOf(H) = {} /\ SpammersOf(H) = {}
  BY DEF KnownOf, ActiveOf, RobotsOf, ConvertedOf, SpammersOf, NoHosts
<1>2. Cardinality({}) = 0
  BY FS_EmptySet
<1>3. DOMAIN T = Counter /\ \A c \in Counter : T[c] = 0
  BY DEF NoTotals
<1>4. /\ T.t_visits = 0 /\ T.t_visits_end = 0 /\ T.t_hvisits_end = 0 /\ T.t_rvisits_end = 0
      /\ T.t_svisits_end = 0 /\ T.t_hosts = 0 /\ T.t_rhosts = 0 /\ T.t_hosts_conv = 0
      /\ T.t_shosts = 0 /\ T.t_visits_conv = 0
  BY <1>3 DEF Counter
<1>5. \A c \in Counted : T[c] \in Nat
  BY <1>3 DEF Counted
<1>6. NodesFit(H) /\ H \in [Host -> Node \cup {NoHost}]
  BY <1>1 DEF NodesFit, NoHosts
<1>. QED
  BY <1>1, <1>2, <1>3, <1>4, <1>5, <1>6 DEF Balanced

(* The state at the start of a month.                                      *)
Nothing ==
  host = NoHosts /\ totals = NoTotals /\ pipeline = {} /\ tm_hosts = NoDays /\ today = 1

(* A month begins with the invariant.                                      *)
LEMMA NothingCounted == Nothing => VisitorsCounted
<1>. SUFFICES ASSUME Nothing  PROVE VisitorsCounted
  OBVIOUS
<1>0. host = NoHosts /\ totals = NoTotals /\ pipeline = {} /\ tm_hosts = NoDays /\ today = 1
  BY DEF Nothing
<1>1. Balanced(host, totals) /\ Known = {}
  BY <1>0, NoneBalanced, KnownHosts
<1>2. Cardinality(TodaysHosts) = 0
  BY <1>1, FS_EmptySet DEF TodaysHosts
<1>3. DaysCounted
  BY <1>0, <1>1, <1>2, VisitorAssumption DEF DaysCounted, NoDays
<1>. QED
  BY <1>0, <1>1, <1>3 DEF VisitorsCounted

(* Visits end, and all hosts come back from the resolver.                  *)
LEMMA EndsBalance ==
  ASSUME VisitorsCounted, NEW S \in SUBSET Active, NEW K
  PROVE  LET G == Returned(EndedHosts(S), pipeline, K)
         IN  /\ Balanced(G, EndedTotals(totals, S)) /\ KnownOf(G) = Known
             /\ \A h \in Known : G[h].day = host[h].day
<1>1. Balanced(host, totals) /\ pipeline \subseteq Known
  BY DEF VisitorsCounted
<1>2. /\ Balanced(EndedHosts(S), EndedTotals(totals, S))
      /\ KnownOf(EndedHosts(S)) = Known
      /\ \A h \in Known : EndedHosts(S)[h].day = host[h].day
  BY <1>1, EndedBalance, EndedHostsAre
<1>. QED
  BY <1>1, <1>2, ReturnedBalance

(* A record ends the visit of its host or not, and then changes its node.  *)
RecordIs(h, ending, node, newhost, newvisit) ==
  /\ ending \subseteq {h}
  /\ RecordOf(EndedHosts(ending), host', h, node, newhost, newvisit)
  /\ newhost <=> h \notin Known
  /\ totals' = RecordTotals(EndedTotals(totals, ending), node.robot, newhost, newvisit)
  /\ countries' = GroupedNow(countries, ending)
  /\ pipeline \subseteq pipeline' /\ pipeline' \subseteq pipeline \cup {h}
  /\ newhost /\ is_dns_enabled /\ h \notin Named => h \in pipeline'

(* A record is handled in two steps: it may end the visit, and it changes  *)
(* its host.                                                               *)
LEMMA RecordEndsOrNot ==
  ASSUME VisitorsCounted, NEW h \in Host, NEW spam \in BOOLEAN, NEW agent \in BOOLEAN,
         NEW target \in BOOLEAN, NEW over \in BOOLEAN, ProcRecord(h, spam, agent, target, over)
  PROVE  \E ending \in SUBSET Active : \E node, newhost, newvisit :
           RecordIs(h, ending, node, newhost, newvisit)
<1>. DEFINE spammer == spam \/ h \in sp_htab
            robot == agent /\ ~spam
            ending == IF over THEN {h} ELSE {}
            newhost == host[h] = NoHost
            newvisit == newhost \/ over \/ host[h].visit = None
            H == EndedHosts(ending)
            node == put_hnode(h, H[h], spammer, robot, target, newvisit)
<1>1. /\ over => h \in Active
      /\ host' = [host EXCEPT ![h] = node]
      /\ totals' = RecordTotals(EndedTotals(totals, ending), node.robot, newhost, newvisit)
      /\ countries' = GroupedNow(countries, ending)
      /\ pipeline \subseteq pipeline' /\ pipeline' \subseteq pipeline \cup {h}
  BY DEF ProcRecord
<1>2. ending \in SUBSET Active /\ ending \subseteq {h}
  BY <1>1
<1>3. Balanced(host, totals)
  BY DEF VisitorsCounted
<1>4. KnownOf(H) = Known /\ ActiveOf(H) = Active \ ending /\ H \in [Host -> Node \cup {NoHost}]
  BY <1>2, <1>3, EndedHostsAre
<1>5. newhost <=> H[h] = NoHost
  BY <1>4 DEF KnownOf, Known
<1>6. newvisit <=> (newhost \/ H[h].visit = None)
  BY <1>1, <1>4, <1>5 DEF ActiveOf, KnownOf, Active, Known
<1>7. \A k \in Host \ {h} : H[k] = host[k]
  BY DEF EndedHosts
<1>8. host \in [Host -> Node \cup {NoHost}]
  BY <1>3 DEF Balanced
<1>9. host' = [H EXCEPT ![h] = node]
  BY <1>1, <1>4, <1>7, <1>8
<1>10. spammer \in BOOLEAN /\ robot \in BOOLEAN /\ newhost \in BOOLEAN /\ newvisit \in BOOLEAN
  OBVIOUS
<1>11. newhost <=> h \notin Known
  BY DEF Known
<1>12. newhost => ~node.resolved
  <2>1. ASSUME newhost  PROVE ~node.resolved
    <3>. DEFINE new == NewNode(spammer, robot)
    <3>1. node = new \/ node = [new EXCEPT !.visit.converted = TRUE]
      BY <1>5, <2>1 DEF put_hnode
    <3>2. new.resolved = FALSE /\ [new EXCEPT !.visit.converted = TRUE].resolved = FALSE
      BY DEF NewNode
    <3>. QED
      BY <3>1, <3>2
  <2>. QED
    BY <2>1
<1>13. newhost /\ is_dns_enabled /\ h \notin Named => h \in pipeline'
  BY <1>12 DEF ProcRecord
<1>14. RecordOf(H, host', h, node, newhost, newvisit)
  <2>1. node = put_hnode(h, H[h], spammer, robot, target, newvisit)
    OBVIOUS
  <2>. HIDE DEF spammer, robot, newhost, newvisit, H, ending, node
  <2>2. \E a, b, c \in BOOLEAN : node = put_hnode(h, H[h], a, b, c, newvisit)
    BY <1>10, <2>1
  <2>. QED
    BY <1>5, <1>6, <1>9, <1>10, <2>2 DEF RecordOf
<1>15. RecordIs(h, ending, node, newhost, newvisit)
  <2>. HIDE DEF spammer, robot, newhost, newvisit, ending, node
  <2>. QED
    BY <1>1, <1>2, <1>11, <1>13, <1>14 DEF RecordIs, H
<1>. HIDE DEF spammer, robot, newhost, newvisit, ending, node, H
<1>. QED
  BY <1>2, <1>15

(* A record keeps the invariant.                                           *)
LEMMA RecordCounted ==
  ASSUME VisitorsCounted, NEW h \in Host, NEW spam \in BOOLEAN, NEW agent \in BOOLEAN,
         NEW target \in BOOLEAN, NEW over \in BOOLEAN, ProcRecord(h, spam, agent, target, over)
  PROVE  VisitorsCounted'
<1>1. /\ tm_hosts' = [tm_hosts EXCEPT ![today] = @ + (IF NewToday(h) THEN 1 ELSE 0)]
      /\ today' = today
  BY DEF ProcRecord
<1>2. PICK ending \in SUBSET Active : \E node, newhost, newvisit :
        RecordIs(h, ending, node, newhost, newvisit)
  BY RecordEndsOrNot
<1>3. PICK node, newhost, newvisit : RecordIs(h, ending, node, newhost, newvisit)
  BY <1>2
<1>4. Balanced(host, totals) /\ DaysCounted /\ pipeline \subseteq Known
  BY DEF VisitorsCounted
<1>5. /\ Balanced(EndedHosts(ending), EndedTotals(totals, ending))
      /\ KnownOf(EndedHosts(ending)) = Known
  BY <1>4, EndedBalance, EndedHostsAre
<1>9. host \in [Host -> Node \cup {NoHost}]
  BY <1>4 DEF Balanced
<1>11. today \in 1 .. LastDay
  BY <1>4 DEF DaysCounted
<1>12. RecordOf(EndedHosts(ending), host', h, node, newhost, newvisit)
  BY <1>3 DEF RecordIs
<1>13. /\ Balanced(host', totals') /\ KnownOf(host') = Known \cup {h} /\ host'[h].day = today
  <2>1. Balanced(host', RecordTotals(EndedTotals(totals, ending), node.robot, newhost, newvisit))
    BY <1>5, <1>11, <1>12, VisitingBalance
  <2>2. KnownOf(host') = KnownOf(EndedHosts(ending)) \cup {h}
    BY <1>5, <1>11, <1>12, VisitingBalance
  <2>3. host'[h].day = today
    BY <1>5, <1>11, <1>12, VisitingBalance
  <2>4. totals' = RecordTotals(EndedTotals(totals, ending), node.robot, newhost, newvisit)
    BY <1>3 DEF RecordIs
  <2>. QED
    BY <1>5, <2>1, <2>2, <2>3, <2>4, Zenon
<1>14. Known' = Known \cup {h}
  BY <1>13 DEF Known, KnownOf
<1>15. \A k \in Host \ {h} : host'[k] = host[k]
  BY DEF ProcRecord
<1>16. TodaysHosts' = TodaysHosts \cup {h}
  BY <1>1, <1>13, <1>14, <1>15, KnownHosts DEF TodaysHosts
<1>17. TodaysHosts \in SUBSET Host
  BY KnownHosts DEF TodaysHosts
<1>18. NewToday(h) <=> h \notin TodaysHosts
  <2>1. \A k \in Known : host[k].day \in Int /\ host[k].day <= today /\ today \in Int
    BY <1>4, <1>9, <1>11 DEF Known, DaysCounted, Node
  <2>2. h \in Known <=> host[h] # NoHost
    BY DEF Known
  <2>. QED
    BY <2>1, <2>2 DEF NewToday, TodaysHosts
<1>19. /\ h \in TodaysHosts => Cardinality(TodaysHosts \cup {h}) = Cardinality(TodaysHosts)
       /\ h \notin TodaysHosts => Cardinality(TodaysHosts \cup {h}) = Cardinality(TodaysHosts) + 1
  BY <1>17, OneMore
<1>20. Cardinality(TodaysHosts') = Cardinality(TodaysHosts \cup {h})
  BY <1>16, Zenon
<1>21. tm_hosts \in [1 .. LastDay -> Nat] /\ tm_hosts[today] = Cardinality(TodaysHosts)
  BY <1>4 DEF DaysCounted
<1>22. tm_hosts' \in [1 .. LastDay -> Nat] /\ tm_hosts'[today] = Cardinality(TodaysHosts')
  BY <1>1, <1>11, <1>18, <1>19, <1>20, <1>21
<1>23. \A k \in Known' : host'[k].day <= today
  BY <1>4, <1>11, <1>13, <1>14, <1>15, KnownHosts DEF DaysCounted
<1>24. \A d \in 1 .. LastDay : d > today => tm_hosts'[d] = 0
  BY <1>1, <1>4, <1>11, <1>21 DEF DaysCounted
<1>25. DaysCounted'
  BY <1>1, <1>11, <1>22, <1>23, <1>24 DEF DaysCounted
<1>26. pipeline' \subseteq pipeline \cup {h}
  BY <1>3 DEF RecordIs
<1>. QED
  BY <1>4, <1>13, <1>14, <1>25, <1>26 DEF VisitorsCounted

-----------------------------------------------------------------------------
(* Every step keeps the invariant.                                         *)

(* The invariant holds in all reachable states.                            *)
LEMMA VisitorsInvariant == Spec => []VisitorsCounted
<1>1. Init => VisitorsCounted
  BY NothingCounted DEF Init, Nothing
<1>2. VisitorsCounted /\ [Next]_vars => VisitorsCounted'
  <2>. SUFFICES ASSUME VisitorsCounted, [Next]_vars  PROVE VisitorsCounted'
    OBVIOUS
  <2>1. ASSUME NEW h \in Host, NEW spam \in BOOLEAN, NEW agent \in BOOLEAN,
               NEW target \in BOOLEAN, NEW over \in BOOLEAN,
               ProcRecord(h, spam, agent, target, over)
        PROVE  VisitorsCounted'
    BY <2>1, RecordCounted
  <2>2. CASE ProcessResolvedHosts
    <3>1. PICK S \in SUBSET pipeline, known_spammers \in SUBSET pipeline :
            /\ host' = Returned(host, S, known_spammers)
            /\ pipeline' = pipeline \ S
            /\ UNCHANGED <<totals, tm_hosts, today>>
      BY <2>2 DEF ProcessResolvedHosts
    <3>2. Balanced(host, totals) /\ pipeline \subseteq Known
      BY DEF VisitorsCounted
    <3>3. S \in SUBSET KnownOf(host)
      BY <3>2, KnownHosts
    <3>4. /\ Balanced(host', totals) /\ KnownOf(host') = Known
          /\ \A h \in Known : host'[h].day = host[h].day
      BY <3>1, <3>2, <3>3, KnownHosts, ReturnedBalance
    <3>. QED
      BY <3>1, <3>2, <3>4, SameDays
  <2>3. CASE NextDay
    <3>1. /\ UNCHANGED <<host, totals, pipeline, tm_hosts>>
          /\ today' = today + 1 /\ today < LastDay
      BY <2>3 DEF NextDay
    <3>2. /\ today \in 1 .. LastDay /\ tm_hosts \in [1 .. LastDay -> Nat]
          /\ \A h \in Known : host[h].day <= today /\ host[h].day \in Int
          /\ \A d \in 1 .. LastDay : d > today => tm_hosts[d] = 0
      BY DEF VisitorsCounted, DaysCounted, Balanced, Node, Known
    <3>3. Known' = Known
      BY <3>1 DEF Known
    <3>4. TodaysHosts' = {}
      BY <3>1, <3>2, <3>3 DEF TodaysHosts
    <3>5. Cardinality(TodaysHosts') = 0
      BY <3>4, FS_EmptySet, Zenon
    <3>6. LastDay \in Nat
      BY VisitorAssumption
    <3>7. DaysCounted'
      BY <3>1, <3>2, <3>3, <3>5, <3>6 DEF DaysCounted
    <3>8. Balanced(host', totals')
      BY <3>1 DEF VisitorsCounted
    <3>. QED
      BY <3>1, <3>3, <3>7, <3>8 DEF VisitorsCounted
  <2>4. CASE CloseMonth
    <3>1. PICK known_spammers :
            /\ host' = Returned(EndedHosts(Active), pipeline, known_spammers)
            /\ totals' = EndedTotals(totals, Active)
            /\ pipeline' = {} /\ UNCHANGED <<tm_hosts, today>>
      BY <2>4 DEF CloseMonth, VisitsEnd
    <3>. QED
      BY <3>1, EndsBalance, SameDays
  <2>5. CASE Restart
    <3>1. PICK S \in SUBSET Active, known_spammers \in SUBSET pipeline :
            /\ host' = [h \in Host |->
                          Restored(Returned(EndedHosts(S), pipeline, known_spammers)[h])]
            /\ totals' = EndedTotals(totals, S)
            /\ pipeline' = {} /\ UNCHANGED <<tm_hosts, today>>
      BY <2>5 DEF Restart
    <3>. DEFINE G == Returned(EndedHosts(S), pipeline, known_spammers)
    <3>2. /\ Balanced(G, EndedTotals(totals, S)) /\ KnownOf(G) = Known
          /\ \A h \in Known : G[h].day = host[h].day
      BY EndsBalance
    <3>3. host' = [h \in Host |-> Restored(G[h])]
      BY <3>1
    <3>. HIDE DEF G
    <3>4. Balanced(host', EndedTotals(totals, S))
      BY <3>2, <3>3, RestoredBalance
    <3>5. KnownOf(host') = KnownOf(G)
      BY <3>2, <3>3, RestoredBalance
    <3>6. \A h \in KnownOf(G) : host'[h].day = G[h].day
      BY <3>2, <3>3, RestoredBalance
    <3>. QED
      BY <3>1, <3>2, <3>4, <3>5, <3>6, SameDays
  <2>6. CASE NewMonth
    <3>1. Nothing'
      BY <2>6 DEF NewMonth, Nothing
    <3>. QED
      BY <3>1, NothingCounted, PTL
  <2>7. CASE UNCHANGED vars
    BY <2>7 DEF vars, VisitorsCounted, DaysCounted, TodaysHosts, Known
  <2>. QED
    BY <2>1, <2>2, <2>3, <2>4, <2>5, <2>6, <2>7 DEF Next
<1>. QED
  BY <1>1, <1>2, PTL DEF Spec

(* Visits are started once and end once, as the visit of one kind of       *)
(* visitor, over months and runs of the program; a host is counted once in *)
(* the month and once on each of its days (put_hnode, end_visit and the    *)
(* bumps of the totals in proc_logfile).                                   *)
THEOREM TotalsBalanced == Spec => []TotalsBalance
<1>1. VisitorsCounted => TotalsBalance
  BY KnownHosts DEF VisitorsCounted, Balanced, DaysCounted, TodaysHosts, TotalsBalance
<1>. QED
  BY <1>1, VisitorsInvariant, PTL

(* No more hosts and visits are converted than there are of people: the    *)
(* hosts of robots, those of spammers whose visit ended and those that     *)
(* were converted have no host in common, unless a host is a robot and a   *)
(* spammer.                                                                *)
THEOREM PeopleConverted == Spec => []HostsArePeople
<1>1. VisitorsCounted => HostsArePeople
  <2>. SUFFICES ASSUME VisitorsCounted, Mixed = {}
       PROVE  totals.t_hosts_conv + totals.t_rhosts + totals.t_shosts <= totals.t_hosts
    BY DEF VisitorsCounted, Balanced, HostsArePeople
  <2>. DEFINE R == RobotsOf(host)
              C == ConvertedOf(host)
              S == SpammersOf(host)
  <2>1. /\ R \in SUBSET Host /\ C \in SUBSET Host /\ S \in SUBSET Host
        /\ R \cup C \in SUBSET Host /\ KnownOf(host) \in SUBSET Host
        /\ (R \cup C) \cup S \in SUBSET KnownOf(host)
    BY DEF RobotsOf, ConvertedOf, SpammersOf, KnownOf
  <2>2. R \cap C = {}
    BY DEF VisitorsCounted, Balanced, NodesFit, RobotsOf, ConvertedOf
  <2>3. (R \cup C) \cap S = {}
    <3>1. ASSUME NEW h \in S  PROVE  h \notin R /\ h \notin C
      BY KnownHosts DEF RobotsOf, ConvertedOf, SpammersOf, Mixed
    <3>. QED
      BY <3>1
  <2>4. /\ Cardinality(R \cup C) = Cardinality(R) + Cardinality(C)
        /\ Cardinality((R \cup C) \cup S) = Cardinality(R \cup C) + Cardinality(S)
        /\ Cardinality((R \cup C) \cup S) <= Cardinality(KnownOf(host))
    BY <2>1, <2>2, <2>3, Disjoint, Larger
  <2>5. /\ Cardinality(R) \in Nat /\ Cardinality(C) \in Nat /\ Cardinality(S) \in Nat
        /\ Cardinality(KnownOf(host)) \in Nat
    BY <2>1, HostSets
  <2>6. /\ totals.t_rhosts = Cardinality(R) /\ totals.t_hosts_conv = Cardinality(C)
        /\ totals.t_shosts <= Cardinality(S) /\ totals.t_hosts = Cardinality(KnownOf(host))
        /\ totals.t_shosts \in Nat
    BY DEF VisitorsCounted, Balanced, Counted, Counter
  <2>. HIDE DEF R, C, S
  <2>. QED
    BY <2>4, <2>5, <2>6
<1>. QED
  BY <1>1, VisitorsInvariant, PTL

-----------------------------------------------------------------------------
(* Hits and kept visits of the hosts, as functions that are summed up.     *)

HumansOf(H) == {h \in KnownOf(H) : ~H[h].robot /\ ~H[h].spammer}
MixedOf(H)  == {h \in KnownOf(H) : H[h].robot /\ H[h].spammer}

(* Hits of active visits, but for those of robots                          *)
OpenHits(H) == [h \in Host |-> IF h \in ActiveOf(H) /\ ~H[h].robot THEN H[h].visit.hits ELSE 0]

(* Visits of people that wait for the name of their host                   *)
KeptVisits(H) == [h \in Host |-> IF h \in HumansOf(H) THEN H[h].grp_visits.visits ELSE 0]
KeptHits(H)   == [h \in Host |-> IF h \in HumansOf(H) THEN H[h].grp_visits.hits ELSE 0]

Total(f) == SumFunctionOnSet(f, Host)

(* No spammers and no hosts that are logged by name                        *)
Unnamed(H) == KnownOf(H) \cap Named = {} /\ \A h \in KnownOf(H) : ~H[h].spammer

(* Visits are kept only for a name that the resolver is about to find.     *)
Waits(H, P) ==
  \A h \in KnownOf(H) \ (Named \cup P) :
    (H[h].resolved \/ ~is_dns_enabled) /\ H[h].grp_visits = NoVisits

HitsFit(H, T, c, P) ==
  /\ T.t_spmhits \in Nat /\ c \in [visits : Nat, hits : Nat]
  /\ MixedOf(H) = {} => T.t_spmhits + Total(OpenHits(H)) <= T.t_hit - T.t_rhits
  /\ c.visits + Total(KeptVisits(H)) <= T.t_hvisits_end
  /\ Unnamed(H) =>
       /\ c.visits + Total(KeptVisits(H)) = T.t_hvisits_end
       /\ c.hits + Total(KeptHits(H)) + Total(OpenHits(H)) = T.t_hit - T.t_rhits
  /\ Waits(H, P)

(* Sums over hosts are numbers, are added, compared, and limited to some.  *)
LEMMA TotalType ==
  ASSUME NEW f \in [Host -> Nat]  PROVE  Total(f) \in Nat
BY VisitorAssumption, SumNat DEF Total

(* Terms that are zero have no sum.                                        *)
LEMMA TotalZero ==
  ASSUME NEW f, \A h \in Host : f[h] = 0  PROVE  Total(f) = 0
BY VisitorAssumption, SumZero DEF Total

(* Equal terms have equal sums.                                            *)
LEMMA TotalSame ==
  ASSUME NEW f \in [Host -> Nat], NEW g, \A h \in Host : g[h] = f[h]  PROVE  Total(g) = Total(f)
BY VisitorAssumption, SumSame DEF Total

(* Terms that are no greater have no greater sum.                          *)
LEMMA TotalAtMost ==
  ASSUME NEW f \in [Host -> Nat], NEW g \in [Host -> Nat], \A h \in Host : f[h] <= g[h]
  PROVE  Total(f) <= Total(g)
BY VisitorAssumption, SumAtMost DEF Total

(* When the term of one host changes, the sum changes as much.             *)
LEMMA TotalChange ==
  ASSUME NEW f \in [Host -> Nat], NEW g \in [Host -> Nat], NEW h \in Host,
         \A k \in Host \ {h} : g[k] = f[k]
  PROVE  Total(g) = Total(f) + g[h] - f[h]
<1>1. \A k \in Host : f[k] \in Int /\ g[k] \in Int /\ (k # h => g[k] = f[k])
  OBVIOUS
<1>. QED
  BY <1>1, VisitorAssumption, SumChange DEF Total

(* Sums are added term by term.                                            *)
LEMMA TotalPlus ==
  ASSUME NEW f \in [Host -> Nat], NEW g \in [Host -> Nat]
  PROVE  /\ [h \in Host |-> f[h] + g[h]] \in [Host -> Nat]
         /\ Total([h \in Host |-> f[h] + g[h]]) = Total(f) + Total(g)
<1>. DEFINE k == [h \in Host |-> f[h] + g[h]]
<1>1. \A h \in Host : f[h] \in Int /\ g[h] \in Int /\ k[h] = f[h] + g[h]
  OBVIOUS
<1>2. k \in [Host -> Nat]
  OBVIOUS
<1>. HIDE DEF k
<1>3. Total(k) = Total(f) + Total(g)
  BY <1>1, VisitorAssumption, SumPlus DEF Total
<1>. QED
  BY <1>2, <1>3 DEF k

(* Two terms that are no more than a third, for each host.                 *)
LEMMA TotalsAtMost ==
  ASSUME NEW f \in [Host -> Nat], NEW g \in [Host -> Nat], NEW k \in [Host -> Nat],
         \A h \in Host : f[h] + g[h] <= k[h]
  PROVE  Total(f) + Total(g) <= Total(k)
<1>. DEFINE both == [h \in Host |-> f[h] + g[h]]
<1>1. both \in [Host -> Nat] /\ Total(both) = Total(f) + Total(g)
  BY TotalPlus
<1>2. \A h \in Host : both[h] <= k[h]
  OBVIOUS
<1>. HIDE DEF both
<1>3. Total(both) <= Total(k)
  BY <1>1, <1>2, TotalAtMost
<1>. QED
  BY <1>1, <1>3

(* Two terms that are as much as two others, for each host.                *)
LEMMA TotalsEqual ==
  ASSUME NEW a \in [Host -> Nat], NEW b \in [Host -> Nat],
         NEW d \in [Host -> Nat], NEW e \in [Host -> Nat],
         \A h \in Host : a[h] + b[h] = d[h] + e[h]
  PROVE  Total(a) + Total(b) = Total(d) + Total(e)
<1>. DEFINE left == [h \in Host |-> a[h] + b[h]]
            right == [h \in Host |-> d[h] + e[h]]
<1>1. left \in [Host -> Nat] /\ Total(left) = Total(a) + Total(b)
  BY TotalPlus
<1>2. Total(right) = Total(d) + Total(e)
  BY TotalPlus
<1>3. left = right
  OBVIOUS
<1>. HIDE DEF left, right
<1>. QED
  BY <1>1, <1>2, <1>3

(* A sum over some hosts has no terms of the others.                       *)
LEMMA TotalOfPart ==
  ASSUME NEW A \in SUBSET Host, NEW f \in [A -> Nat],
         NEW g, \A h \in Host : g[h] = IF h \in A THEN f[h] ELSE 0
  PROVE  SumFunction(f) = Total(g)
<1>1. DOMAIN f = A /\ \A h \in A : f[h] \in Int
  OBVIOUS
<1>2. SumFunctionOnSet(g, Host) = SumFunctionOnSet(f, A)
  BY <1>1, VisitorAssumption, SumOfPart
<1>3. SumFunction(f) = SumFunctionOnSet(f, DOMAIN f)
  BY DEF SumFunction, SumFunctionOnSet, FoldFunction, FoldFunctionOnSet
<1>. QED
  BY <1>1, <1>2, <1>3 DEF Total

(* Terms that are one on a set count it.                                   *)
LEMMA TotalCounts ==
  ASSUME NEW A \in SUBSET Host, NEW g, \A h \in Host : g[h] = IF h \in A THEN 1 ELSE 0
  PROVE  Total(g) = Cardinality(A)
<1>1. Total(g) = Cardinality({h \in Host : h \in A})
  BY VisitorAssumption, SumCounts DEF Total
<1>2. {h \in Host : h \in A} = A
  OBVIOUS
<1>. QED
  BY <1>1, <1>2, Zenon

(* The terms are numbers, and so are their sums.                           *)
LEMMA HostTerms ==
  ASSUME NEW H \in [Host -> Node \cup {NoHost}]
  PROVE  /\ OpenHits(H) \in [Host -> Nat]
         /\ KeptVisits(H) \in [Host -> Nat]
         /\ KeptHits(H) \in [Host -> Nat]
         /\ Total(OpenHits(H)) \in Nat /\ Total(KeptVisits(H)) \in Nat /\ Total(KeptHits(H)) \in Nat
         /\ \A h \in KnownOf(H) : H[h] \in Node
         /\ \A h \in ActiveOf(H) : h \in KnownOf(H) /\ H[h].visit \in Visit
<1>1. \A h \in KnownOf(H) : H[h] \in Node /\ H[h].grp_visits \in [visits : Nat, hits : Nat]
  BY DEF KnownOf, Node
<1>2. \A h \in ActiveOf(H) : h \in KnownOf(H) /\ H[h].visit \in Visit
  BY <1>1 DEF ActiveOf, Node
<1>3. \A h \in ActiveOf(H) : H[h].visit.hits \in Nat
  BY <1>2 DEF Visit
<1>4. OpenHits(H) \in [Host -> Nat]
  BY <1>3 DEF OpenHits
<1>5. \A h \in HumansOf(H) : H[h].grp_visits.visits \in Nat /\ H[h].grp_visits.hits \in Nat
  BY <1>1 DEF HumansOf
<1>6. KeptVisits(H) \in [Host -> Nat] /\ KeptHits(H) \in [Host -> Nat]
  BY <1>5 DEF KeptVisits, KeptHits
<1>. QED
  BY <1>1, <1>2, <1>4, <1>6, TotalType

-----------------------------------------------------------------------------
(* Visits end: their hits are those of spammers, or of a country, or are   *)
(* kept with the host.                                                     *)

(* A host whose visit ends keeps it when its name is not known yet.        *)
LEMMA EndedNodeKept ==
  ASSUME host \in [Host -> Node \cup {NoHost}], NEW h \in Active
  PROVE  /\ EndedNode(h).resolved = host[h].resolved
         /\ EndedNode(h).robot = host[h].robot /\ EndedNode(h).spammer = host[h].spammer
         /\ EndedNode(h).visit = None
         /\ Grouped(h) => EndedNode(h).grp_visits = host[h].grp_visits
         /\ ~Grouped(h) => /\ EndedNode(h).grp_visits.visits = host[h].grp_visits.visits + 1
                           /\ EndedNode(h).grp_visits.hits =
                                host[h].grp_visits.hits + host[h].visit.hits
<1>. DEFINE n == host[h]
            conv == n.visits_conv + (IF h \in Converted({h}) THEN 1 ELSE 0)
            grp == IF Grouped(h) THEN n.grp_visits
                   ELSE [visits |-> n.grp_visits.visits + 1,
                         hits |-> n.grp_visits.hits + n.visit.hits]
            ended == [n EXCEPT !.visit = None, !.visits_conv = conv, !.grp_visits = grp]
<1>1. n \in Node
  BY DEF Active, Known
<1>2. EndedNode(h) = ended
  BY DEF EndedNode
<1>. HIDE DEF conv
<1>3. /\ ended.resolved = n.resolved /\ ended.robot = n.robot /\ ended.spammer = n.spammer
      /\ ended.visit = None /\ ended.grp_visits = grp
  BY <1>1 DEF Node
<1>. QED
  BY <1>2, <1>3

(* What becomes of the terms of each host when visits of S end.            *)
LEMMA EndedTerms ==
  ASSUME Balanced(host, totals), NEW S \in SUBSET Active, NEW h \in Host
  PROVE  LET E == EndedHosts(S)
         IN  /\ h \notin S => E[h] = host[h]
             /\ h \in HumansOf(E) <=> h \in HumansOf(host)
             /\ h \in MixedOf(E) <=> h \in MixedOf(host)
             /\ OpenHits(E)[h] = IF h \in S THEN 0 ELSE OpenHits(host)[h]
             /\ KeptVisits(E)[h] = KeptVisits(host)[h]
                                     + (IF h \in Humans(S) /\ ~Grouped(h) THEN 1 ELSE 0)
             /\ KeptHits(E)[h] = KeptHits(host)[h]
                                   + (IF h \in Humans(S) /\ ~Grouped(h) THEN host[h].visit.hits ELSE 0)
<1>. DEFINE E == EndedHosts(S)
<1>1. host \in [Host -> Node \cup {NoHost}]
  BY DEF Balanced
<1>2. KnownOf(E) = Known /\ ActiveOf(E) = Active \ S /\ Active \subseteq Known
      /\ KnownOf(host) = Known /\ ActiveOf(host) = Active
  BY EndedHostsAre DEF KnownOf, ActiveOf, Known, Active
<1>3. h \notin S => E[h] = host[h]
  BY DEF EndedHosts
<1>4. h \in S => E[h] = EndedNode(h) /\ h \in Active
  BY DEF EndedHosts
<1>5. E[h].robot = host[h].robot /\ E[h].spammer = host[h].spammer
  BY <1>1, <1>3, <1>4, EndedNodeKept
<1>6. KeptVisits(host)[h] \in Nat /\ KeptHits(host)[h] \in Nat
  BY <1>1, HostTerms
<1>7. h \in HumansOf(E) <=> h \in HumansOf(host)
  BY <1>2, <1>5 DEF HumansOf
<1>8. h \in MixedOf(E) <=> h \in MixedOf(host)
  BY <1>2, <1>5 DEF MixedOf
<1>9. OpenHits(E)[h] = IF h \in S THEN 0 ELSE OpenHits(host)[h]
  BY <1>2, <1>3, <1>5 DEF OpenHits
<1>10. h \in Humans(S) <=> h \in S /\ h \in HumansOf(host)
  BY <1>2 DEF Humans, HumansOf
<1>11. CASE h \notin S
  BY <1>3, <1>6, <1>7, <1>8, <1>9, <1>10, <1>11 DEF KeptVisits, KeptHits
<1>12. CASE h \in S
  <2>1. /\ Grouped(h) => E[h].grp_visits = host[h].grp_visits
        /\ ~Grouped(h) => /\ E[h].grp_visits.visits = host[h].grp_visits.visits + 1
                          /\ E[h].grp_visits.hits = host[h].grp_visits.hits + host[h].visit.hits
    BY <1>1, <1>4, <1>12, EndedNodeKept
  <2>2. KeptVisits(E)[h] = KeptVisits(host)[h] + (IF h \in Humans(S) /\ ~Grouped(h) THEN 1 ELSE 0)
    BY <1>6, <1>7, <1>10, <1>12, <2>1 DEF KeptVisits
  <2>3. KeptHits(E)[h] = KeptHits(host)[h]
                           + (IF h \in Humans(S) /\ ~Grouped(h) THEN host[h].visit.hits ELSE 0)
    BY <1>6, <1>7, <1>10, <1>12, <2>1 DEF KeptHits
  <2>. QED
    BY <1>3, <1>7, <1>8, <1>9, <2>2, <2>3
<1>. QED
  BY <1>11, <1>12

(* Visits that end keep the sums (end_visit).                              *)
LEMMA EndedHits ==
  ASSUME Balanced(host, totals), NEW P, HitsFit(host, totals, countries, P),
         NEW S \in SUBSET Active
  PROVE  HitsFit(EndedHosts(S), EndedTotals(totals, S), GroupedNow(countries, S), P)
<1>. DEFINE E == EndedHosts(S)
            T == EndedTotals(totals, S)
            people == {h \in Humans(S) : Grouped(h)}
            c == GroupedNow(countries, S)
            spam == [h \in Host |-> IF h \in Spammers(S) THEN host[h].visit.hits ELSE 0]
            now == [h \in Host |-> IF h \in people THEN 1 ELSE 0]
            nowhits == [h \in Host |-> IF h \in people THEN host[h].visit.hits ELSE 0]
            ended == [h \in Host |-> IF h \in Humans(S) THEN 1 ELSE 0]
<1>1. host \in [Host -> Node \cup {NoHost}] /\ E \in [Host -> Node \cup {NoHost}]
      /\ DOMAIN totals = Counter /\ \A k \in Counted : totals[k] \in Nat
  BY EndedHostsAre DEF Balanced
<1>2. Active \subseteq Host /\ \A h \in Active : host[h].visit.hits \in Nat
  BY <1>1, HostTerms, KnownHosts DEF Visit
<1>3. Spammers(S) \in SUBSET Host /\ Humans(S) \in SUBSET Host /\ people \in SUBSET Host
      /\ Spammers(S) \subseteq S /\ people \subseteq S /\ Humans(S) \subseteq S
  BY <1>2 DEF Spammers, Humans
<1>4. /\ spam \in [Host -> Nat] /\ now \in [Host -> Nat] /\ nowhits \in [Host -> Nat]
      /\ ended \in [Host -> Nat]
  BY <1>2, <1>3
<1>5. HitsOf(Spammers(S)) = Total(spam)
  <2>1. [h \in Spammers(S) |-> host[h].visit.hits] \in [Spammers(S) -> Nat]
    BY <1>2, <1>3
  <2>2. \A h \in Host : spam[h] = IF h \in Spammers(S)
                                  THEN [k \in Spammers(S) |-> host[k].visit.hits][h] ELSE 0
    OBVIOUS
  <2>. HIDE DEF spam
  <2>. QED
    BY <1>3, <2>1, <2>2, TotalOfPart DEF HitsOf
<1>6. HitsOf(people) = Total(nowhits)
  <2>1. [h \in people |-> host[h].visit.hits] \in [people -> Nat]
    BY <1>2, <1>3
  <2>2. \A h \in Host : nowhits[h] = IF h \in people
                                     THEN [k \in people |-> host[k].visit.hits][h] ELSE 0
    OBVIOUS
  <2>. HIDE DEF nowhits, people
  <2>. QED
    BY <1>3, <2>1, <2>2, TotalOfPart DEF HitsOf
<1>7. Cardinality(people) = Total(now) /\ Cardinality(Humans(S)) = Total(ended)
  <2>1. \A h \in Host : now[h] = IF h \in people THEN 1 ELSE 0
    OBVIOUS
  <2>2. \A h \in Host : ended[h] = IF h \in Humans(S) THEN 1 ELSE 0
    OBVIOUS
  <2>. HIDE DEF now, ended, people
  <2>. QED
    BY <1>3, <2>1, <2>2, TotalCounts
<1>8. /\ T.t_spmhits = totals.t_spmhits + Total(spam)
      /\ T.t_hvisits_end = totals.t_hvisits_end + Total(ended)
      /\ T.t_hit = totals.t_hit /\ T.t_rhits = totals.t_rhits
  <2>1. /\ T.t_spmhits = totals.t_spmhits + HitsOf(Spammers(S))
        /\ T.t_hvisits_end = totals.t_hvisits_end + Cardinality(Humans(S))
        /\ T.t_hit = totals.t_hit /\ T.t_rhits = totals.t_rhits
    BY <1>1 DEF EndedTotals, Counter
  <2>. QED
    BY <1>5, <1>7, <2>1
<1>9. c = [visits |-> countries.visits + Total(now), hits |-> countries.hits + Total(nowhits)]
  BY <1>6, <1>7 DEF GroupedNow
<1>10. \A h \in Host :
         /\ h \notin S => E[h] = host[h]
         /\ h \in HumansOf(E) <=> h \in HumansOf(host)
         /\ h \in MixedOf(E) <=> h \in MixedOf(host)
         /\ OpenHits(E)[h] = IF h \in S THEN 0 ELSE OpenHits(host)[h]
         /\ KeptVisits(E)[h] = KeptVisits(host)[h]
                                 + (IF h \in Humans(S) /\ ~Grouped(h) THEN 1 ELSE 0)
         /\ KeptHits(E)[h] = KeptHits(host)[h]
                               + (IF h \in Humans(S) /\ ~Grouped(h) THEN host[h].visit.hits ELSE 0)
  BY EndedTerms
<1>11. /\ OpenHits(E) \in [Host -> Nat] /\ OpenHits(host) \in [Host -> Nat]
       /\ KeptVisits(E) \in [Host -> Nat] /\ KeptVisits(host) \in [Host -> Nat]
       /\ KeptHits(E) \in [Host -> Nat] /\ KeptHits(host) \in [Host -> Nat]
       /\ \A h \in KnownOf(host) : host[h] \in Node
  BY <1>1, HostTerms
<1>12. /\ Total(spam) \in Nat /\ Total(now) \in Nat /\ Total(nowhits) \in Nat /\ Total(ended) \in Nat
       /\ Total(OpenHits(E)) \in Nat /\ Total(OpenHits(host)) \in Nat
       /\ Total(KeptVisits(E)) \in Nat /\ Total(KeptVisits(host)) \in Nat
       /\ Total(KeptHits(E)) \in Nat /\ Total(KeptHits(host)) \in Nat
  <2>. HIDE DEF spam, now, nowhits, ended, E
  <2>. QED
    BY <1>4, <1>11, TotalType
<1>13. \A h \in S : OpenHits(host)[h] = IF host[h].robot THEN 0 ELSE host[h].visit.hits
  BY <1>2, KnownHosts DEF OpenHits
<1>14. MixedOf(host) = {} => Total(OpenHits(E)) + Total(spam) <= Total(OpenHits(host))
  <2>. SUFFICES ASSUME MixedOf(host) = {}
       PROVE  Total(OpenHits(E)) + Total(spam) <= Total(OpenHits(host))
    OBVIOUS
  <2>1. \A h \in Spammers(S) : ~host[h].robot /\ h \in S
    BY <1>11, KnownHosts DEF Spammers, MixedOf
  <2>2. \A h \in Host : OpenHits(E)[h] + spam[h] <= OpenHits(host)[h]
    <3>1. ASSUME NEW h \in Host  PROVE OpenHits(E)[h] + spam[h] <= OpenHits(host)[h]
      <4>1. OpenHits(host)[h] \in Nat /\ (h \in S => host[h].visit.hits \in Nat)
        BY <1>2, <1>11
      <4>2. CASE h \in S
        BY <1>10, <1>13, <2>1, <4>1, <4>2
      <4>3. CASE h \notin S
        BY <1>3, <1>10, <4>1, <4>3
      <4>. QED
        BY <4>2, <4>3
    <3>. QED
      BY <3>1
  <2>. HIDE DEF spam, E
  <2>. QED
    BY <1>4, <1>11, <2>2, TotalsAtMost
<1>15. Total(KeptVisits(E)) + Total(now) = Total(KeptVisits(host)) + Total(ended)
  <2>1. ASSUME NEW h \in Host
        PROVE  KeptVisits(E)[h] + now[h] = KeptVisits(host)[h] + ended[h]
    <3>1. KeptVisits(host)[h] \in Nat
      BY <1>11
    <3>2. KeptVisits(E)[h] = KeptVisits(host)[h] + (IF h \in Humans(S) /\ ~Grouped(h) THEN 1 ELSE 0)
      BY <1>10
    <3>. QED
      BY <3>1, <3>2
  <2>. HIDE DEF now, ended, E
  <2>. QED
    BY <1>4, <1>11, <2>1, TotalsEqual
<1>16. Unnamed(host) => Total(KeptHits(E)) + Total(OpenHits(E)) + Total(nowhits)
                          = Total(KeptHits(host)) + Total(OpenHits(host))
  <2>. SUFFICES ASSUME Unnamed(host)
       PROVE  Total(KeptHits(E)) + Total(OpenHits(E)) + Total(nowhits)
                = Total(KeptHits(host)) + Total(OpenHits(host))
    OBVIOUS
  <2>. DEFINE rest == [h \in Host |-> OpenHits(E)[h] + nowhits[h]]
  <2>1. rest \in [Host -> Nat] /\ Total(rest) = Total(OpenHits(E)) + Total(nowhits)
    <3>. HIDE DEF nowhits, E
    <3>. QED
      BY <1>4, <1>11, TotalPlus
  <2>2. ASSUME NEW h \in Host
        PROVE  KeptHits(E)[h] + rest[h] = KeptHits(host)[h] + OpenHits(host)[h]
    <3>1. KeptHits(host)[h] \in Nat /\ OpenHits(host)[h] \in Nat /\ OpenHits(E)[h] \in Nat
          /\ (h \in S => host[h].visit.hits \in Nat)
      BY <1>2, <1>11
    <3>2. rest[h] = OpenHits(E)[h] + nowhits[h]
      OBVIOUS
    <3>3. h \in S => (h \in Humans(S) <=> ~host[h].robot)
      BY KnownHosts DEF Humans, Unnamed
    <3>4. /\ OpenHits(E)[h] = IF h \in S THEN 0 ELSE OpenHits(host)[h]
          /\ KeptHits(E)[h] = KeptHits(host)[h]
                                + (IF h \in Humans(S) /\ ~Grouped(h) THEN host[h].visit.hits ELSE 0)
      BY <1>10
    <3>5. CASE h \in S
      BY <1>13, <3>1, <3>2, <3>3, <3>4, <3>5
    <3>6. CASE h \notin S
      BY <1>3, <3>1, <3>2, <3>4, <3>6
    <3>. QED
      BY <3>5, <3>6
  <2>. HIDE DEF rest, E
  <2>3. Total(KeptHits(E)) + Total(rest) = Total(KeptHits(host)) + Total(OpenHits(host))
    BY <1>11, <2>1, <2>2, TotalsEqual
  <2>. QED
    BY <1>12, <2>1, <2>3
<1>17. KnownOf(E) = KnownOf(host)
  BY EndedHostsAre, KnownHosts
<1>18. MixedOf(E) = MixedOf(host)
  BY <1>10 DEF MixedOf, KnownOf
<1>19. Unnamed(E) <=> Unnamed(host)
  <2>1. \A h \in KnownOf(host) : E[h].spammer = host[h].spammer
    BY <1>1, <1>10, EndedNodeKept DEF EndedHosts, KnownOf
  <2>. QED
    BY <1>17, <2>1 DEF Unnamed
<1>20. Waits(E, P)
  <2>1. ASSUME NEW h \in KnownOf(host) \ (Named \cup P)
        PROVE  (E[h].resolved \/ ~is_dns_enabled) /\ E[h].grp_visits = NoVisits
    <3>1. (host[h].resolved \/ ~is_dns_enabled) /\ host[h].grp_visits = NoVisits
      BY DEF HitsFit, Waits
    <3>2. CASE h \in S
      <4>1. Grouped(h)
        BY <3>1 DEF Grouped
      <4>2. E[h] = EndedNode(h)
        BY <1>2, <3>2 DEF EndedHosts
      <4>. QED
        BY <1>1, <3>1, <3>2, <4>1, <4>2, EndedNodeKept
    <3>3. CASE h \notin S
      <4>1. E[h] = host[h]
        BY <1>10, <3>3 DEF KnownOf
      <4>. QED
        BY <3>1, <4>1
    <3>. QED
      BY <3>2, <3>3
  <2>. QED
    BY <1>17, <2>1 DEF Waits
<1>21. /\ totals.t_spmhits \in Nat /\ countries.visits \in Nat /\ countries.hits \in Nat
       /\ MixedOf(host) = {} =>
            totals.t_spmhits + Total(OpenHits(host)) <= totals.t_hit - totals.t_rhits
       /\ countries.visits + Total(KeptVisits(host)) <= totals.t_hvisits_end
       /\ Unnamed(host) =>
            /\ countries.visits + Total(KeptVisits(host)) = totals.t_hvisits_end
            /\ countries.hits + Total(KeptHits(host)) + Total(OpenHits(host))
                 = totals.t_hit - totals.t_rhits
  BY DEF HitsFit
<1>22. totals.t_hit \in Nat /\ totals.t_rhits \in Nat /\ totals.t_hvisits_end \in Nat
  BY <1>1 DEF Counted, Counter
<1>. HIDE DEF E, T, c, spam, now, nowhits, ended, people
<1>23. T.t_spmhits \in Nat /\ c \in [visits : Nat, hits : Nat]
       /\ c.visits = countries.visits + Total(now) /\ c.hits = countries.hits + Total(nowhits)
  BY <1>8, <1>9, <1>12, <1>21
<1>24. MixedOf(E) = {} => T.t_spmhits + Total(OpenHits(E)) <= T.t_hit - T.t_rhits
  BY <1>8, <1>12, <1>14, <1>18, <1>21, <1>22
<1>25. c.visits + Total(KeptVisits(E)) <= T.t_hvisits_end
  BY <1>8, <1>12, <1>15, <1>21, <1>22, <1>23
<1>26. Unnamed(E) => c.visits + Total(KeptVisits(E)) = T.t_hvisits_end
  BY <1>8, <1>12, <1>15, <1>19, <1>21, <1>22, <1>23
<1>27. Unnamed(E) => c.hits + Total(KeptHits(E)) + Total(OpenHits(E)) = T.t_hit - T.t_rhits
  <2>. SUFFICES ASSUME Unnamed(E)
       PROVE  c.hits + Total(KeptHits(E)) + Total(OpenHits(E)) = T.t_hit - T.t_rhits
    OBVIOUS
  <2>1. countries.hits + Total(KeptHits(host)) + Total(OpenHits(host))
          = totals.t_hit - totals.t_rhits
    BY <1>19, <1>21
  <2>2. Total(KeptHits(E)) + Total(OpenHits(E)) + Total(nowhits)
          = Total(KeptHits(host)) + Total(OpenHits(host))
    BY <1>16, <1>19
  <2>3. c.hits = countries.hits + Total(nowhits) /\ countries.hits \in Nat
    BY <1>21, <1>23
  <2>4. T.t_hit = totals.t_hit /\ T.t_rhits = totals.t_rhits
    BY <1>8
  <2>. QED
    BY <1>12, <1>22, <2>1, <2>2, <2>3, <2>4
<1>28. HitsFit(E, T, c, P)
  BY <1>20, <1>23, <1>24, <1>25, <1>26, <1>27 DEF HitsFit
<1>. QED
  BY <1>28 DEF E, T, c

-----------------------------------------------------------------------------
(* Hosts come back from the resolver: what was kept with a host goes to    *)
(* its country, unless the host is known as a spammer.                     *)
LEMMA ReturnedHits ==
  ASSUME NEW H \in [Host -> Node \cup {NoHost}], NEW T, T.t_hvisits_end \in Nat,
         T.t_hit \in Nat, T.t_rhits \in Nat,
         NEW c, NEW P \in SUBSET KnownOf(H), HitsFit(H, T, c, P), NEW Q \in SUBSET P, NEW K
  PROVE  HitsFit(Returned(H, Q, K), T, CountriesAfter(c, H, Q, K), P \ Q)
<1>. DEFINE R == Returned(H, Q, K)
            people == {h \in Q : ~H[h].robot /\ ~H[h].spammer /\ h \notin K}
            d == CountriesAfter(c, H, Q, K)
            visits == [h \in Host |-> IF h \in people THEN H[h].grp_visits.visits ELSE 0]
            hits == [h \in Host |-> IF h \in people THEN H[h].grp_visits.hits ELSE 0]
<1>1. /\ \A h \in KnownOf(H) : h \in Host /\ H[h] \in Node
      /\ \A h \in Host \ KnownOf(H) : H[h] = NoHost
      /\ people \in SUBSET Host /\ people \subseteq HumansOf(H)
  BY DEF KnownOf, HumansOf
<1>2. \A h \in people : H[h].grp_visits.visits \in Nat /\ H[h].grp_visits.hits \in Nat
  BY <1>1 DEF Node, HumansOf
<1>3. ASSUME NEW h \in Q
      PROVE  /\ R[h] \in Node /\ R[h].visit = H[h].visit /\ R[h].robot = H[h].robot
             /\ R[h].spammer = (H[h].spammer \/ h \in K)
             /\ R[h].resolved = TRUE /\ R[h].grp_visits = NoVisits
  <2>. DEFINE b == H[h].spammer \/ h \in K
              n == [H[h] EXCEPT !.resolved = TRUE, !.grp_visits = NoVisits, !.spammer = b]
  <2>1. h \in Host /\ H[h] \in Node /\ b \in BOOLEAN
    BY <1>1
  <2>2. R[h] = n
    BY <2>1 DEF Returned
  <2>. HIDE DEF b
  <2>3. n \in Node
    BY <2>1 DEF Node, NoVisits
  <2>4. /\ n.visit = H[h].visit /\ n.robot = H[h].robot /\ n.spammer = b
        /\ n.resolved = TRUE /\ n.grp_visits = NoVisits
    BY <2>1 DEF Node
  <2>. QED
    BY <2>2, <2>3, <2>4 DEF b
<1>4. \A h \in Host \ Q : R[h] = H[h]
  BY DEF Returned
<1>5. R \in [Host -> Node \cup {NoHost}] /\ KnownOf(R) = KnownOf(H)
  BY <1>1, <1>3, <1>4, NoneIsNone DEF Returned, KnownOf, NoHost
<1>6. visits \in [Host -> Nat] /\ hits \in [Host -> Nat]
  BY <1>2
<1>7. d = [visits |-> c.visits + Total(visits), hits |-> c.hits + Total(hits)]
  <2>. DEFINE f == [h \in people |-> H[h].grp_visits.visits]
              g == [h \in people |-> H[h].grp_visits.hits]
  <2>1. f \in [people -> Nat] /\ \A h \in Host : visits[h] = IF h \in people THEN f[h] ELSE 0
    BY <1>2
  <2>2. g \in [people -> Nat] /\ \A h \in Host : hits[h] = IF h \in people THEN g[h] ELSE 0
    BY <1>2
  <2>3. d = [visits |-> c.visits + SumFunction(f), hits |-> c.hits + SumFunction(g)]
    BY DEF CountriesAfter
  <2>. HIDE DEF f, g, visits, hits, people, d
  <2>4. SumFunction(f) = Total(visits)
    BY <1>1, <2>1, TotalOfPart
  <2>5. SumFunction(g) = Total(hits)
    BY <1>1, <2>2, TotalOfPart
  <2>. QED
    BY <2>3, <2>4, <2>5
<1>. HIDE DEF R, d
<1>8. \A h \in KnownOf(H) : R[h].visit = H[h].visit /\ R[h].robot = H[h].robot
                            /\ (H[h].spammer => R[h].spammer)
  BY <1>1, <1>3, <1>4
<1>9. ActiveOf(R) = ActiveOf(H)
  BY <1>5, <1>8 DEF ActiveOf
<1>10. OpenHits(R) = OpenHits(H)
  BY <1>8, <1>9 DEF OpenHits, ActiveOf
<1>11. MixedOf(R) = {} => MixedOf(H) = {}
  BY <1>5, <1>8 DEF MixedOf
<1>12. Unnamed(R) => Unnamed(H) /\ \A h \in Q : h \notin K
  BY <1>3, <1>5, <1>8 DEF Unnamed
<1>13. /\ \A h \in Q : KeptVisits(R)[h] = 0 /\ KeptHits(R)[h] = 0
       /\ \A h \in Host \ Q : KeptVisits(R)[h] = KeptVisits(H)[h] /\ KeptHits(R)[h] = KeptHits(H)[h]
  <2>1. \A h \in Q : R[h].grp_visits.visits = 0 /\ R[h].grp_visits.hits = 0 /\ h \in Host
    <3>1. NoVisits.visits = 0 /\ NoVisits.hits = 0
      BY DEF NoVisits
    <3>2. \A h \in Q : R[h].grp_visits = NoVisits /\ h \in Host
      BY <1>1, <1>3
    <3>. QED
      BY <3>1, <3>2
  <2>2. \A h \in Host \ Q : h \in HumansOf(R) <=> h \in HumansOf(H)
    BY <1>4, <1>5 DEF HumansOf
  <2>. QED
    BY <1>4, <2>1, <2>2 DEF KeptVisits, KeptHits
<1>14. /\ OpenHits(H) \in [Host -> Nat] /\ KeptVisits(H) \in [Host -> Nat]
       /\ KeptHits(H) \in [Host -> Nat] /\ KeptVisits(R) \in [Host -> Nat]
       /\ KeptHits(R) \in [Host -> Nat]
  BY <1>5, HostTerms
<1>15. /\ Total(OpenHits(H)) \in Nat /\ Total(KeptVisits(H)) \in Nat /\ Total(KeptHits(H)) \in Nat
       /\ Total(KeptVisits(R)) \in Nat /\ Total(KeptHits(R)) \in Nat
       /\ Total(visits) \in Nat /\ Total(hits) \in Nat
  <2>. HIDE DEF visits, hits
  <2>. QED
    BY <1>6, <1>14, TotalType
<1>16. \A h \in people : h \in Q /\ KeptVisits(H)[h] = H[h].grp_visits.visits
                         /\ KeptHits(H)[h] = H[h].grp_visits.hits
  BY <1>1 DEF KeptVisits, KeptHits
<1>17. Total(KeptVisits(R)) + Total(visits) <= Total(KeptVisits(H))
  <2>1. ASSUME NEW h \in Host  PROVE KeptVisits(R)[h] + visits[h] <= KeptVisits(H)[h]
    <3>1. KeptVisits(H)[h] \in Nat
      BY <1>14
    <3>2. CASE h \in people
      BY <1>13, <1>16, <3>1, <3>2
    <3>3. CASE h \notin people
      BY <1>13, <3>1, <3>3
    <3>. QED
      BY <3>2, <3>3
  <2>. HIDE DEF visits
  <2>. QED
    BY <1>6, <1>14, <2>1, TotalsAtMost
<1>18. Unnamed(R) => /\ Total(KeptVisits(R)) + Total(visits) = Total(KeptVisits(H))
                     /\ Total(KeptHits(R)) + Total(hits) = Total(KeptHits(H))
  <2>. SUFFICES ASSUME Unnamed(R)
       PROVE  /\ Total(KeptVisits(R)) + Total(visits) = Total(KeptVisits(H))
              /\ Total(KeptHits(R)) + Total(hits) = Total(KeptHits(H))
    OBVIOUS
  <2>. DEFINE none == [h \in Host |-> 0]
  <2>1. none \in [Host -> Nat] /\ Total(none) = 0
    <3>1. none \in [Host -> Nat] /\ \A h \in Host : none[h] = 0
      OBVIOUS
    <3>. HIDE DEF none
    <3>. QED
      BY <3>1, TotalZero
  <2>2. ASSUME NEW h \in Host
        PROVE  /\ KeptVisits(R)[h] + visits[h] = KeptVisits(H)[h] + none[h]
               /\ KeptHits(R)[h] + hits[h] = KeptHits(H)[h] + none[h]
    <3>1. KeptVisits(H)[h] \in Nat /\ KeptHits(H)[h] \in Nat
      BY <1>14
    <3>2. CASE h \in people
      BY <1>13, <1>16, <3>1, <3>2
    <3>3. CASE h \notin people /\ h \in Q
      <4>1. h \notin HumansOf(H)
        BY <1>12, <3>3 DEF HumansOf
      <4>2. KeptVisits(H)[h] = 0 /\ KeptHits(H)[h] = 0
        BY <4>1 DEF KeptVisits, KeptHits
      <4>. QED
        BY <1>13, <3>3, <4>2
    <3>4. CASE h \notin people /\ h \notin Q
      BY <1>13, <3>1, <3>4
    <3>. QED
      BY <3>2, <3>3, <3>4
  <2>. HIDE DEF visits, hits, none
  <2>3. Total(KeptVisits(R)) + Total(visits) = Total(KeptVisits(H)) + Total(none)
    <3>1. \A h \in Host : KeptVisits(R)[h] + visits[h] = KeptVisits(H)[h] + none[h]
      BY <2>2
    <3>. QED
      BY <1>6, <1>14, <2>1, <3>1, TotalsEqual
  <2>4. Total(KeptHits(R)) + Total(hits) = Total(KeptHits(H)) + Total(none)
    <3>1. \A h \in Host : KeptHits(R)[h] + hits[h] = KeptHits(H)[h] + none[h]
      BY <2>2
    <3>. QED
      BY <1>6, <1>14, <2>1, <3>1, TotalsEqual
  <2>. QED
    BY <1>15, <2>1, <2>3, <2>4
<1>19. Waits(R, P \ Q)
  <2>1. ASSUME NEW h \in KnownOf(H) \ (Named \cup (P \ Q))
        PROVE  (R[h].resolved \/ ~is_dns_enabled) /\ R[h].grp_visits = NoVisits
    <3>1. CASE h \in Q
      BY <1>3, <3>1
    <3>2. CASE h \notin Q
      <4>1. R[h] = H[h] /\ h \in KnownOf(H) \ (Named \cup P)
        BY <1>1, <1>4, <3>2
      <4>. QED
        BY <4>1 DEF HitsFit, Waits
    <3>. QED
      BY <3>1, <3>2
  <2>. QED
    BY <1>5, <2>1 DEF Waits
<1>20. /\ T.t_spmhits \in Nat /\ c.visits \in Nat /\ c.hits \in Nat
       /\ MixedOf(H) = {} => T.t_spmhits + Total(OpenHits(H)) <= T.t_hit - T.t_rhits
       /\ c.visits + Total(KeptVisits(H)) <= T.t_hvisits_end
       /\ Unnamed(H) =>
            /\ c.visits + Total(KeptVisits(H)) = T.t_hvisits_end
            /\ c.hits + Total(KeptHits(H)) + Total(OpenHits(H)) = T.t_hit - T.t_rhits
  BY DEF HitsFit
<1>. HIDE DEF people, visits, hits
<1>21. d \in [visits : Nat, hits : Nat] /\ d.visits = c.visits + Total(visits)
       /\ d.hits = c.hits + Total(hits)
  BY <1>7, <1>15, <1>20
<1>22. MixedOf(R) = {} => T.t_spmhits + Total(OpenHits(R)) <= T.t_hit - T.t_rhits
  BY <1>10, <1>11, <1>20
<1>23. d.visits + Total(KeptVisits(R)) <= T.t_hvisits_end
  BY <1>15, <1>17, <1>20, <1>21
<1>24. Unnamed(R) => d.visits + Total(KeptVisits(R)) = T.t_hvisits_end
  BY <1>12, <1>15, <1>18, <1>20, <1>21
<1>25. Unnamed(R) => d.hits + Total(KeptHits(R)) + Total(OpenHits(R)) = T.t_hit - T.t_rhits
  <2>. SUFFICES ASSUME Unnamed(R)
       PROVE  d.hits + Total(KeptHits(R)) + Total(OpenHits(H)) = T.t_hit - T.t_rhits
    BY <1>10
  <2>1. c.hits + Total(KeptHits(H)) + Total(OpenHits(H)) = T.t_hit - T.t_rhits /\ c.hits \in Nat
    BY <1>12, <1>20
  <2>2. Total(KeptHits(R)) + Total(hits) = Total(KeptHits(H))
    BY <1>18
  <2>3. d.hits = c.hits + Total(hits)
    BY <1>21
  <2>. QED
    BY <1>15, <2>1, <2>2, <2>3
<1>26. HitsFit(R, T, d, P \ Q)
  BY <1>19, <1>20, <1>21, <1>22, <1>23, <1>24, <1>25 DEF HitsFit
<1>. QED
  BY <1>26 DEF R, d

(* Hosts are read back from the database, when no visit waits for a name.  *)
LEMMA RestoredHits ==
  ASSUME NEW H \in [Host -> Node \cup {NoHost}], NEW T, T.t_hvisits_end \in Nat, NEW c,
         HitsFit(H, T, c, {}), NEW G, G = [h \in Host |-> Restored(H[h])]
  PROVE  HitsFit(G, T, c, {})
<1>1. /\ \A h \in KnownOf(H) : h \in Host /\ H[h] \in Node
      /\ \A h \in Host \ KnownOf(H) : H[h] = NoHost
  BY DEF KnownOf
<1>2. ASSUME NEW h \in KnownOf(H)
      PROVE  /\ G[h] \in Node /\ G[h].visit = H[h].visit /\ G[h].robot = H[h].robot
             /\ G[h].spammer = H[h].spammer /\ G[h].resolved = TRUE /\ G[h].grp_visits = NoVisits
  <2>. DEFINE n == [H[h] EXCEPT !.resolved = TRUE, !.grp_visits = NoVisits]
  <2>1. H[h] \in Node /\ G[h] = n
    BY <1>1 DEF Restored, KnownOf
  <2>2. n \in Node
    BY <2>1 DEF Node, NoVisits
  <2>3. /\ n.visit = H[h].visit /\ n.robot = H[h].robot /\ n.spammer = H[h].spammer
        /\ n.resolved = TRUE /\ n.grp_visits = NoVisits
    BY <2>1 DEF Node
  <2>. QED
    BY <2>1, <2>2, <2>3
<1>3. \A h \in Host \ KnownOf(H) : G[h] = NoHost
  BY <1>1 DEF Restored
<1>4. G \in [Host -> Node \cup {NoHost}]
  BY <1>1, <1>2, <1>3
<1>5. KnownOf(G) = KnownOf(H)
  BY <1>1, <1>2, <1>3, NoneIsNone DEF KnownOf, NoHost
<1>6. ActiveOf(G) = ActiveOf(H) /\ MixedOf(G) = MixedOf(H) /\ HumansOf(G) = HumansOf(H)
  BY <1>2, <1>5 DEF ActiveOf, MixedOf, HumansOf
<1>7. OpenHits(G) = OpenHits(H)
  BY <1>2, <1>6 DEF OpenHits, ActiveOf
<1>8. \A h \in Host : KeptVisits(G)[h] = 0 /\ KeptHits(G)[h] = 0
  <2>1. NoVisits.visits = 0 /\ NoVisits.hits = 0
    BY DEF NoVisits
  <2>2. \A h \in HumansOf(G) : G[h].grp_visits = NoVisits
    BY <1>2, <1>5 DEF HumansOf
  <2>. QED
    BY <2>1, <2>2 DEF KeptVisits, KeptHits
<1>9. Total(KeptVisits(G)) = 0 /\ Total(KeptHits(G)) = 0
  BY <1>8, TotalZero
<1>10. Unnamed(G) => Unnamed(H)
  BY <1>2, <1>5 DEF Unnamed
<1>11. Unnamed(H) => Total(KeptVisits(H)) = 0 /\ Total(KeptHits(H)) = 0
  <2>. SUFFICES ASSUME Unnamed(H)  PROVE Total(KeptVisits(H)) = 0 /\ Total(KeptHits(H)) = 0
    OBVIOUS
  <2>1. \A h \in HumansOf(H) : H[h].grp_visits = NoVisits
    BY DEF HumansOf, Unnamed, HitsFit, Waits
  <2>2. \A h \in Host : KeptVisits(H)[h] = 0 /\ KeptHits(H)[h] = 0
    BY <2>1 DEF KeptVisits, KeptHits, NoVisits
  <2>. QED
    BY <2>2, TotalZero
<1>12. Total(KeptVisits(H)) \in Nat
  BY HostTerms
<1>13. Waits(G, {})
  BY <1>2, <1>5 DEF Waits
<1>14. c.visits \in Nat
  BY DEF HitsFit
<1>. QED
  BY <1>6, <1>7, <1>9, <1>10, <1>11, <1>12, <1>13, <1>14 DEF HitsFit

-----------------------------------------------------------------------------
(* A record is one more hit, of a robot or of an active visit.             *)
OneMoreHit(n, node, newvisit) ==
  /\ node.visit.hits = IF newvisit THEN 1 ELSE n.visit.hits + 1
  /\ n = NoHost => node.resolved = FALSE /\ node.grp_visits = NoVisits
  /\ n # NoHost => node.resolved = n.resolved /\ node.grp_visits = n.grp_visits

(* The host of a record has one more hit in its visit, unless it is a      *)
(* robot.                                                                  *)
LEMMA VisitedNodeHits ==
  ASSUME NEW H \in [Host -> Node \cup {NoHost}], NEW G, NEW h, NEW node, NEW newhost, NEW newvisit,
         RecordOf(H, G, h, node, newhost, newvisit), today \in 1 .. LastDay
  PROVE  OneMoreHit(H[h], node, newvisit)
<1>1. PICK spammer \in BOOLEAN, robot \in BOOLEAN, target \in BOOLEAN :
        node = put_hnode(h, H[h], spammer, robot, target, newvisit)
  BY DEF RecordOf
<1>. DEFINE n == H[h]
            seen == IF n = NoHost THEN NewNode(spammer, robot) ELSE VisitedNode(n, spammer, newvisit)
<1>2. /\ newvisit \in BOOLEAN /\ n \in Node \cup {NoHost}
      /\ newvisit <=> (n = NoHost \/ n.visit = None)
  BY DEF RecordOf
<1>3. /\ seen \in Node /\ seen.visit \in Visit
      /\ seen.visit.hits = IF newvisit THEN 1 ELSE n.visit.hits + 1
      /\ n = NoHost => seen.resolved = FALSE /\ seen.grp_visits = NoVisits
      /\ n # NoHost => seen.resolved = n.resolved /\ seen.grp_visits = n.grp_visits
  <2>1. CASE n = NoHost
    <3>1. seen = NewNode(spammer, robot)
      BY <2>1
    <3>. QED
      BY <1>2, <2>1, <3>1 DEF NewNode, Node, Visit, NoVisits
  <2>2. CASE n # NoHost
    <3>. DEFINE b == n.spammer \/ spammer
                v == IF newvisit THEN n.visits + 1 ELSE n.visits
                w == IF newvisit THEN [hits |-> 1, converted |-> FALSE]
                     ELSE [n.visit EXCEPT !.hits = @ + 1]
                m == [n EXCEPT !.spammer = b, !.visits = v, !.visit = w, !.day = today]
    <3>1. seen = m
      BY <2>2 DEF VisitedNode
    <3>2. n \in Node /\ b \in BOOLEAN
      <4>1. n \in Node
        BY <1>2, <2>2
      <4>2. n.spammer \in BOOLEAN
        BY <4>1 DEF Node
      <4>. QED
        BY <4>1, <4>2
    <3>3. v \in Nat
      BY <1>2, <3>2 DEF Node
    <3>4. w \in Visit /\ w.hits = IF newvisit THEN 1 ELSE n.visit.hits + 1
      <4>1. CASE newvisit
        BY <4>1 DEF Visit
      <4>2. CASE ~newvisit
        <5>1. n.visit \in Visit
          BY <1>2, <2>2, <3>2, <4>2 DEF Node
        <5>. QED
          BY <4>2, <5>1 DEF Visit
      <4>. QED
        BY <1>2, <4>1, <4>2
    <3>. HIDE DEF b, v, w
    <3>5. m \in Node
      BY <3>2, <3>3, <3>4 DEF Node
    <3>6. m.visit = w /\ m.resolved = n.resolved /\ m.grp_visits = n.grp_visits
      BY <3>2 DEF Node
    <3>. QED
      BY <2>2, <3>1, <3>4, <3>5, <3>6
  <2>. QED
    BY <2>1, <2>2
<1>4. node = IF target /\ ~robot /\ ~spammer THEN [seen EXCEPT !.visit.converted = TRUE] ELSE seen
  BY <1>1 DEF put_hnode
<1>. HIDE DEF seen
<1>5. CASE node = seen
  BY <1>3, <1>5 DEF OneMoreHit
<1>6. CASE node = [seen EXCEPT !.visit.converted = TRUE]
  <2>. DEFINE w == [seen.visit EXCEPT !.converted = TRUE]
  <2>1. node = [seen EXCEPT !.visit = w]
    BY <1>6
  <2>2. w.hits = seen.visit.hits
    BY <1>3 DEF Visit
  <2>. HIDE DEF w
  <2>3. /\ node.visit = w /\ node.resolved = seen.resolved
        /\ node.grp_visits = seen.grp_visits
    BY <1>3, <2>1 DEF Node
  <2>. QED
    BY <1>3, <2>2, <2>3 DEF OneMoreHit
<1>. QED
  BY <1>4, <1>5, <1>6

(* A record keeps the sums; a new host waits for its name.                 *)
LEMMA VisitingHits ==
  ASSUME NEW H, NEW T, NEW G, NEW h, NEW node, NEW newhost, NEW newvisit, NEW c, NEW P, NEW Q,
         Balanced(H, T), RecordOf(H, G, h, node, newhost, newvisit), today \in 1 .. LastDay,
         HitsFit(H, T, c, P), P \subseteq Q, newhost /\ is_dns_enabled /\ h \notin Named => h \in Q
  PROVE  HitsFit(G, RecordTotals(T, node.robot, newhost, newvisit), c, Q)
<1>. DEFINE R == RecordTotals(T, node.robot, newhost, newvisit)
            n == H[h]
            one == IF node.robot THEN 0 ELSE 1
<1>1. /\ h \in Host /\ newhost \in BOOLEAN /\ newvisit \in BOOLEAN
      /\ newhost <=> n = NoHost
      /\ newvisit <=> (newhost \/ n.visit = None)
      /\ G = [H EXCEPT ![h] = node]
      /\ H \in [Host -> Node \cup {NoHost}]
      /\ DOMAIN T = Counter /\ \A k \in Counted : T[k] \in Nat
  BY DEF RecordOf, Balanced
<1>2. n \in Node \cup {NoHost}
  BY <1>1
<1>4. newvisit <=> (n = NoHost \/ n.visit = None)
  BY <1>1
<1>5. /\ node \in Node /\ node.visit # None
      /\ n # NoHost => node.robot = n.robot /\ (n.spammer => node.spammer)
  <2>1. PICK spammer \in BOOLEAN, robot \in BOOLEAN, target \in BOOLEAN :
          node = put_hnode(h, n, spammer, robot, target, newvisit)
    BY DEF RecordOf
  <2>. QED
    BY <1>1, <1>2, <2>1, <1>4, VisitedNodeIs
<1>6. /\ newvisit => node.visit.hits = 1
      /\ ~newvisit => node.visit.hits = n.visit.hits + 1
      /\ n = NoHost => node.resolved = FALSE /\ node.grp_visits = NoVisits
      /\ n # NoHost => node.resolved = n.resolved /\ node.grp_visits = n.grp_visits
  <2>1. H \in [Host -> Node \cup {NoHost}]
    BY <1>1
  <2>2. OneMoreHit(H[h], node, newvisit)
    BY <2>1, VisitedNodeHits
  <2>. QED
    BY <1>1, <2>2 DEF OneMoreHit
<1>7. G \in [Host -> Node \cup {NoHost}] /\ G[h] = node /\ \A k \in Host \ {h} : G[k] = H[k]
  BY <1>1, <1>5
<1>8. KnownOf(G) = KnownOf(H) \cup {h} /\ (h \in KnownOf(H) <=> ~newhost)
  BY <1>1, <1>5, <1>7, NoneIsNone DEF KnownOf, NoHost
<1>9. h \in ActiveOf(G) /\ (h \in ActiveOf(H) <=> ~newvisit)
      /\ \A k \in Host \ {h} : k \in ActiveOf(G) <=> k \in ActiveOf(H)
  BY <1>1, <1>5, <1>7, <1>8 DEF ActiveOf, KnownOf
<1>10. /\ \A k \in Host \ {h} : k \in HumansOf(G) <=> k \in HumansOf(H)
       /\ h \in HumansOf(G) => newhost \/ h \in HumansOf(H)
  BY <1>1, <1>5, <1>7, <1>8 DEF HumansOf
<1>11. /\ OpenHits(G) \in [Host -> Nat] /\ OpenHits(H) \in [Host -> Nat]
       /\ KeptVisits(G) \in [Host -> Nat] /\ KeptVisits(H) \in [Host -> Nat]
       /\ KeptHits(G) \in [Host -> Nat] /\ KeptHits(H) \in [Host -> Nat]
       /\ Total(OpenHits(G)) \in Nat /\ Total(OpenHits(H)) \in Nat
       /\ Total(KeptVisits(G)) \in Nat /\ Total(KeptVisits(H)) \in Nat
       /\ Total(KeptHits(G)) \in Nat /\ Total(KeptHits(H)) \in Nat
  BY <1>1, <1>7, HostTerms
<1>12. node.robot \in BOOLEAN /\ one \in Nat
  BY <1>5 DEF Node
<1>13. Total(OpenHits(G)) = Total(OpenHits(H)) + one
  <2>1. OpenHits(G)[h] = OpenHits(H)[h] + one
    <3>1. OpenHits(G)[h] = IF node.robot THEN 0 ELSE node.visit.hits
      BY <1>1, <1>7, <1>9 DEF OpenHits
    <3>2. CASE newvisit
      <4>1. OpenHits(H)[h] = 0
        BY <1>1, <1>9, <3>2 DEF OpenHits
      <4>. QED
        BY <1>6, <3>1, <3>2, <4>1
    <3>3. CASE ~newvisit
      <4>1. OpenHits(H)[h] = IF node.robot THEN 0 ELSE n.visit.hits
        BY <1>1, <1>5, <1>9, <3>3 DEF OpenHits
      <4>. QED
        BY <1>6, <3>1, <3>3, <4>1
    <3>. QED
      BY <1>1, <3>2, <3>3
  <2>2. \A k \in Host \ {h} : OpenHits(G)[k] = OpenHits(H)[k]
    BY <1>7, <1>9 DEF OpenHits
  <2>3. Total(OpenHits(G)) = Total(OpenHits(H)) + OpenHits(G)[h] - OpenHits(H)[h]
    BY <1>1, <1>11, <2>2, TotalChange
  <2>4. OpenHits(H)[h] \in Nat
    BY <1>1, <1>11
  <2>. QED
    BY <1>11, <1>12, <2>1, <2>3, <2>4
<1>14. /\ \A k \in Host \ {h} : KeptVisits(G)[k] = KeptVisits(H)[k] /\ KeptHits(G)[k] = KeptHits(H)[k]
       /\ h \notin HumansOf(G) => KeptVisits(G)[h] = 0 /\ KeptHits(G)[h] = 0
       /\ newhost => KeptVisits(G)[h] = 0 /\ KeptHits(G)[h] = 0
                     /\ KeptVisits(H)[h] = 0 /\ KeptHits(H)[h] = 0
       /\ ~newhost /\ h \in HumansOf(G) =>
            KeptVisits(G)[h] = KeptVisits(H)[h] /\ KeptHits(G)[h] = KeptHits(H)[h]
  <2>1. \A k \in Host \ {h} : KeptVisits(G)[k] = KeptVisits(H)[k] /\ KeptHits(G)[k] = KeptHits(H)[k]
    BY <1>7, <1>10 DEF KeptVisits, KeptHits
  <2>2. h \notin HumansOf(G) => KeptVisits(G)[h] = 0 /\ KeptHits(G)[h] = 0
    BY <1>1 DEF KeptVisits, KeptHits
  <2>3. ASSUME newhost
        PROVE  KeptVisits(G)[h] = 0 /\ KeptHits(G)[h] = 0
               /\ KeptVisits(H)[h] = 0 /\ KeptHits(H)[h] = 0
    <3>1. G[h].grp_visits.visits = 0 /\ G[h].grp_visits.hits = 0
      BY <1>1, <1>6, <1>7, <2>3 DEF NoVisits
    <3>2. h \notin HumansOf(H)
      BY <1>8, <2>3 DEF HumansOf
    <3>. QED
      BY <1>1, <3>1, <3>2 DEF KeptVisits, KeptHits
  <2>4. ASSUME ~newhost, h \in HumansOf(G)
        PROVE  KeptVisits(G)[h] = KeptVisits(H)[h] /\ KeptHits(G)[h] = KeptHits(H)[h]
    <3>1. h \in HumansOf(H) /\ G[h].grp_visits = H[h].grp_visits
      BY <1>1, <1>6, <1>7, <1>10, <2>4
    <3>. QED
      BY <1>1, <2>4, <3>1 DEF KeptVisits, KeptHits
  <2>. QED
    BY <2>1, <2>2, <2>3, <2>4
<1>15. Total(KeptVisits(G)) <= Total(KeptVisits(H))
  <2>1. \A k \in Host : KeptVisits(G)[k] <= KeptVisits(H)[k]
    <3>1. \A k \in Host : KeptVisits(H)[k] \in Nat
      BY <1>11
    <3>2. KeptVisits(G)[h] <= KeptVisits(H)[h]
      BY <1>1, <1>14, <3>1
    <3>. QED
      BY <1>14, <3>1, <3>2
  <2>. QED
    BY <1>11, <2>1, TotalAtMost
<1>16. Unnamed(G) => Unnamed(H)
  BY <1>5, <1>7, <1>8, <1>1 DEF Unnamed, KnownOf
<1>17. Unnamed(G) => Total(KeptVisits(G)) = Total(KeptVisits(H)) /\ Total(KeptHits(G)) = Total(KeptHits(H))
  <2>. SUFFICES ASSUME Unnamed(G)
       PROVE  Total(KeptVisits(G)) = Total(KeptVisits(H)) /\ Total(KeptHits(G)) = Total(KeptHits(H))
    OBVIOUS
  <2>1. CASE newhost \/ h \in HumansOf(G)
    <3>1. \A k \in Host : KeptVisits(G)[k] = KeptVisits(H)[k]
      BY <1>1, <1>14, <2>1
    <3>2. \A k \in Host : KeptHits(G)[k] = KeptHits(H)[k]
      BY <1>1, <1>14, <2>1
    <3>. QED
      BY <1>11, <3>1, <3>2, TotalSame
  <2>2. CASE ~newhost /\ h \notin HumansOf(G)
    <3>1. h \notin HumansOf(H)
      BY <1>1, <1>5, <1>7, <1>8, <2>2 DEF HumansOf, Unnamed
    <3>2. KeptVisits(H)[h] = 0 /\ KeptHits(H)[h] = 0
      BY <1>1, <3>1 DEF KeptVisits, KeptHits
    <3>3. \A k \in Host : KeptVisits(G)[k] = KeptVisits(H)[k]
      BY <1>1, <1>14, <2>2, <3>2
    <3>4. \A k \in Host : KeptHits(G)[k] = KeptHits(H)[k]
      BY <1>1, <1>14, <2>2, <3>2
    <3>. QED
      BY <1>11, <3>3, <3>4, TotalSame
  <2>. QED
    BY <2>1, <2>2
<1>18. MixedOf(G) = {} => MixedOf(H) = {}
  <2>. SUFFICES ASSUME MixedOf(G) = {}, NEW k \in MixedOf(H)  PROVE FALSE
    OBVIOUS
  <2>1. k \in KnownOf(H) /\ H[k].robot /\ H[k].spammer /\ k \in KnownOf(G) /\ k \in Host
    BY <1>8 DEF MixedOf, KnownOf
  <2>2. CASE k = h
    BY <1>1, <1>5, <1>7, <1>8, <2>1, <2>2 DEF MixedOf
  <2>3. CASE k # h
    BY <1>7, <2>1, <2>3 DEF MixedOf
  <2>. QED
    BY <2>2, <2>3
<1>19. Waits(G, Q)
  <2>1. ASSUME NEW k \in KnownOf(G) \ (Named \cup Q)
        PROVE  (G[k].resolved \/ ~is_dns_enabled) /\ G[k].grp_visits = NoVisits
    <3>1. k \in KnownOf(H) => (H[k].resolved \/ ~is_dns_enabled) /\ H[k].grp_visits = NoVisits
      BY DEF HitsFit, Waits
    <3>2. CASE k # h
      BY <1>7, <1>8, <3>1, <3>2 DEF KnownOf
    <3>3. CASE k = h /\ newhost
      <4>1. ~is_dns_enabled /\ node.grp_visits = NoVisits
        BY <1>1, <1>6, <3>3
      <4>. QED
        BY <1>7, <3>3, <4>1
    <3>4. CASE k = h /\ ~newhost
      BY <1>1, <1>6, <1>7, <1>8, <3>1, <3>4
    <3>. QED
      BY <1>1, <3>2, <3>3, <3>4
  <2>. QED
    BY <2>1 DEF Waits
<1>20. /\ R.t_hit = T.t_hit + 1 /\ R.t_rhits = T.t_rhits + (IF node.robot THEN 1 ELSE 0)
       /\ R.t_spmhits = T.t_spmhits /\ R.t_hvisits_end = T.t_hvisits_end
  BY <1>1 DEF RecordTotals, Counter
<1>21. /\ T.t_spmhits \in Nat /\ c \in [visits : Nat, hits : Nat] /\ c.visits \in Nat /\ c.hits \in Nat
       /\ MixedOf(H) = {} => T.t_spmhits + Total(OpenHits(H)) <= T.t_hit - T.t_rhits
       /\ c.visits + Total(KeptVisits(H)) <= T.t_hvisits_end
       /\ Unnamed(H) =>
            /\ c.visits + Total(KeptVisits(H)) = T.t_hvisits_end
            /\ c.hits + Total(KeptHits(H)) + Total(OpenHits(H)) = T.t_hit - T.t_rhits
  BY DEF HitsFit
<1>22. T.t_hit \in Nat /\ T.t_rhits \in Nat /\ T.t_hvisits_end \in Nat
  BY <1>1 DEF Counted, Counter
<1>23. R.t_hit - R.t_rhits = T.t_hit - T.t_rhits + one
  BY <1>12, <1>20, <1>22
<1>. HIDE DEF R, one
<1>24. MixedOf(G) = {} => R.t_spmhits + Total(OpenHits(G)) <= R.t_hit - R.t_rhits
  BY <1>11, <1>12, <1>13, <1>18, <1>20, <1>21, <1>22, <1>23
<1>25. c.visits + Total(KeptVisits(G)) <= R.t_hvisits_end
  BY <1>11, <1>15, <1>20, <1>21, <1>22
<1>26. Unnamed(G) => c.visits + Total(KeptVisits(G)) = R.t_hvisits_end
  BY <1>16, <1>17, <1>20, <1>21
<1>27. Unnamed(G) => c.hits + Total(KeptHits(G)) + Total(OpenHits(G)) = R.t_hit - R.t_rhits
  <2>. SUFFICES ASSUME Unnamed(G)
       PROVE  c.hits + Total(KeptHits(G)) + Total(OpenHits(G)) = R.t_hit - R.t_rhits
    OBVIOUS
  <2>1. c.hits + Total(KeptHits(H)) + Total(OpenHits(H)) = T.t_hit - T.t_rhits /\ c.hits \in Nat
    BY <1>16, <1>21
  <2>2. Total(KeptHits(G)) = Total(KeptHits(H))
    BY <1>17
  <2>. QED
    BY <1>11, <1>12, <1>13, <1>22, <1>23, <2>1, <2>2
<1>28. HitsFit(G, R, c, Q)
  BY <1>19, <1>20, <1>21, <1>24, <1>25, <1>26, <1>27 DEF HitsFit
<1>. QED
  BY <1>28 DEF R

-----------------------------------------------------------------------------
(* Every step keeps the sums of hits and visits.                           *)

HitsKept ==
  /\ HitsFit(host, totals, countries, pipeline)
  /\ reported => Active = {} /\ pipeline = {}

(* They hold when nothing was hit.                                         *)
LEMMA NothingHit ==
  host = NoHosts /\ totals = NoTotals /\ countries = NoVisits /\ pipeline = {} /\ ~reported
    => HitsKept
<1>. SUFFICES ASSUME host = NoHosts, totals = NoTotals, countries = NoVisits, pipeline = {},
                     ~reported
     PROVE  HitsKept
  OBVIOUS
<1>1. KnownOf(host) = {} /\ ActiveOf(host) = {} /\ HumansOf(host) = {} /\ MixedOf(host) = {}
  BY DEF KnownOf, ActiveOf, HumansOf, MixedOf, NoHosts
<1>2. \A h \in Host : OpenHits(host)[h] = 0 /\ KeptVisits(host)[h] = 0 /\ KeptHits(host)[h] = 0
  BY <1>1 DEF OpenHits, KeptVisits, KeptHits
<1>3. Total(OpenHits(host)) = 0 /\ Total(KeptVisits(host)) = 0 /\ Total(KeptHits(host)) = 0
  BY <1>2, TotalZero
<1>4. /\ totals.t_spmhits = 0 /\ totals.t_hit = 0 /\ totals.t_rhits = 0
      /\ totals.t_hvisits_end = 0
  BY DEF NoTotals, Counter
<1>5. countries.visits = 0 /\ countries.hits = 0 /\ countries \in [visits : Nat, hits : Nat]
  BY DEF NoVisits
<1>6. Waits(host, pipeline)
  BY <1>1 DEF Waits
<1>. QED
  BY <1>1, <1>3, <1>4, <1>5, <1>6 DEF HitsFit, HitsKept

(* Visits end, and all hosts come back from the resolver.                  *)
LEMMA EndsHits ==
  ASSUME VisitorsCounted, HitsKept, NEW S \in SUBSET Active, NEW K
  PROVE  LET G == Returned(EndedHosts(S), pipeline, K)
         IN  /\ HitsFit(G, EndedTotals(totals, S),
                        CountriesAfter(GroupedNow(countries, S), EndedHosts(S), pipeline, K), {})
             /\ G \in [Host -> Node \cup {NoHost}] /\ ActiveOf(G) = Active \ S
             /\ EndedTotals(totals, S).t_hvisits_end \in Nat
<1>. DEFINE E == EndedHosts(S)
            T == EndedTotals(totals, S)
            c == GroupedNow(countries, S)
<1>1. Balanced(host, totals) /\ pipeline \subseteq Known /\ HitsFit(host, totals, countries, pipeline)
  BY DEF VisitorsCounted, HitsKept
<1>2. HitsFit(E, T, c, pipeline)
  BY <1>1, EndedHits
<1>3. Balanced(E, T) /\ KnownOf(E) = Known /\ ActiveOf(E) = Active \ S
  BY <1>1, EndedBalance, EndedHostsAre
<1>4. /\ E \in [Host -> Node \cup {NoHost}] /\ T.t_hvisits_end \in Nat /\ T.t_hit \in Nat
      /\ T.t_rhits \in Nat
  BY <1>3 DEF Balanced, Counted, Counter
<1>. HIDE DEF E, T, c
<1>5. pipeline \in SUBSET KnownOf(E) /\ pipeline \ pipeline = {}
  BY <1>1, <1>3
<1>6. HitsFit(Returned(E, pipeline, K), T, CountriesAfter(c, E, pipeline, K), pipeline \ pipeline)
  BY <1>2, <1>4, <1>5, ReturnedHits
<1>7. Balanced(Returned(E, pipeline, K), T) /\ KnownOf(Returned(E, pipeline, K)) = KnownOf(E)
  BY <1>3, <1>5, ReturnedBalance
<1>8. ActiveOf(Returned(E, pipeline, K)) = ActiveOf(E)
  <2>1. ASSUME NEW h \in KnownOf(E)  PROVE Returned(E, pipeline, K)[h].visit = E[h].visit
    <3>1. h \in Host /\ E[h] \in Node
      BY <1>4 DEF KnownOf
    <3>. QED
      BY <3>1 DEF Returned, Node
  <2>. QED
    BY <1>7, <2>1 DEF ActiveOf
<1>9. Returned(E, pipeline, K) \in [Host -> Node \cup {NoHost}]
  BY <1>7 DEF Balanced
<1>10. HitsFit(Returned(E, pipeline, K), T, CountriesAfter(c, E, pipeline, K), {})
  BY <1>5, <1>6, Zenon
<1>. QED
  BY <1>3, <1>4, <1>8, <1>9, <1>10 DEF E, T, c

(* Every step keeps them.                                                  *)
LEMMA HitsStep == VisitorsCounted /\ HitsKept /\ [Next]_vars => HitsKept'
<1>. SUFFICES ASSUME VisitorsCounted, HitsKept, [Next]_vars  PROVE HitsKept'
  OBVIOUS
<1>0. Balanced(host, totals) /\ pipeline \subseteq Known /\ HitsFit(host, totals, countries, pipeline)
      /\ today \in 1 .. LastDay
  BY DEF VisitorsCounted, HitsKept, DaysCounted
<1>1. ASSUME NEW h \in Host, NEW spam \in BOOLEAN, NEW agent \in BOOLEAN,
             NEW target \in BOOLEAN, NEW over \in BOOLEAN,
             ProcRecord(h, spam, agent, target, over)
      PROVE  HitsKept'
  <2>1. PICK ending \in SUBSET Active : \E node, newhost, newvisit :
          RecordIs(h, ending, node, newhost, newvisit)
    BY <1>1, RecordEndsOrNot
  <2>2. PICK node, newhost, newvisit : RecordIs(h, ending, node, newhost, newvisit)
    BY <2>1
  <2>. DEFINE E == EndedHosts(ending)
              T == EndedTotals(totals, ending)
              c == GroupedNow(countries, ending)
  <2>3. HitsFit(E, T, c, pipeline)
    BY <1>0, EndedHits
  <2>4. Balanced(E, T)
    BY <1>0, EndedBalance
  <2>5. /\ RecordOf(E, host', h, node, newhost, newvisit)
        /\ totals' = RecordTotals(T, node.robot, newhost, newvisit)
        /\ countries' = c /\ pipeline \subseteq pipeline'
        /\ newhost /\ is_dns_enabled /\ h \notin Named => h \in pipeline'
    BY <2>2 DEF RecordIs
  <2>. HIDE DEF E, T, c
  <2>6. HitsFit(host', RecordTotals(T, node.robot, newhost, newvisit), c, pipeline')
    BY <1>0, <2>3, <2>4, <2>5, VisitingHits
  <2>7. HitsFit(host', totals', countries', pipeline')
    BY <2>5, <2>6, Zenon
  <2>8. ~reported'
    BY <1>1 DEF ProcRecord
  <2>. QED
    BY <2>7, <2>8 DEF HitsKept
<1>2. CASE ProcessResolvedHosts
  <2>1. PICK S \in SUBSET pipeline, known_spammers \in SUBSET pipeline :
          /\ host' = Returned(host, S, known_spammers)
          /\ countries' = CountriesAfter(countries, host, S, known_spammers)
          /\ pipeline' = pipeline \ S
          /\ UNCHANGED <<totals, reported>> /\ ~reported
    BY <1>2 DEF ProcessResolvedHosts
  <2>2. /\ host \in [Host -> Node \cup {NoHost}] /\ totals.t_hvisits_end \in Nat
        /\ totals.t_hit \in Nat /\ totals.t_rhits \in Nat
    BY <1>0 DEF Balanced, Counted, Counter
  <2>3. HitsFit(Returned(host, S, known_spammers), totals,
                CountriesAfter(countries, host, S, known_spammers), pipeline \ S)
    BY <1>0, <2>2, KnownHosts, ReturnedHits
  <2>. QED
    BY <2>1, <2>3 DEF HitsKept
<1>3. CASE NextDay
  BY <1>3 DEF NextDay, HitsKept, Active, Known
<1>4. CASE CloseMonth
  <2>1. PICK known_spammers :
          /\ host' = Returned(EndedHosts(Active), pipeline, known_spammers)
          /\ countries' = CountriesAfter(GroupedNow(countries, Active), EndedHosts(Active),
                                         pipeline, known_spammers)
          /\ totals' = EndedTotals(totals, Active)
          /\ pipeline' = {}
    BY <1>4 DEF CloseMonth, VisitsEnd
  <2>. DEFINE G == Returned(EndedHosts(Active), pipeline, known_spammers)
              c == CountriesAfter(GroupedNow(countries, Active), EndedHosts(Active),
                                  pipeline, known_spammers)
  <2>2. HitsFit(G, EndedTotals(totals, Active), c, {}) /\ ActiveOf(G) = Active \ Active
    BY EndsHits
  <2>3. host' = G /\ countries' = c
    BY <2>1
  <2>. HIDE DEF G, c
  <2>4. HitsFit(host', totals', countries', pipeline')
    BY <2>1, <2>2, <2>3
  <2>5. Active' = {}
    BY <2>2, <2>3 DEF Active, Known, ActiveOf, KnownOf
  <2>. QED
    BY <2>1, <2>4, <2>5 DEF HitsKept
<1>5. CASE Restart
  <2>1. PICK S \in SUBSET Active, known_spammers \in SUBSET pipeline :
          /\ host' = [h \in Host |->
                        Restored(Returned(EndedHosts(S), pipeline, known_spammers)[h])]
          /\ countries' = CountriesAfter(GroupedNow(countries, S), EndedHosts(S),
                                         pipeline, known_spammers)
          /\ totals' = EndedTotals(totals, S)
          /\ pipeline' = {}
    BY <1>5 DEF Restart
  <2>. DEFINE G == Returned(EndedHosts(S), pipeline, known_spammers)
              c == CountriesAfter(GroupedNow(countries, S), EndedHosts(S), pipeline, known_spammers)
              T == EndedTotals(totals, S)
  <2>2. HitsFit(G, T, c, {}) /\ G \in [Host -> Node \cup {NoHost}] /\ T.t_hvisits_end \in Nat
    BY EndsHits
  <2>3. host' = [h \in Host |-> Restored(G[h])] /\ countries' = c /\ totals' = T
    BY <2>1
  <2>. HIDE DEF G, c, T
  <2>4. HitsFit(host', T, c, {})
    BY <2>2, <2>3, RestoredHits
  <2>5. ~reported'
    BY <1>5 DEF Restart
  <2>. QED
    BY <2>1, <2>3, <2>4, <2>5 DEF HitsKept
<1>6. CASE NewMonth
  <2>1. (host = NoHosts /\ totals = NoTotals /\ countries = NoVisits /\ pipeline = {} /\ ~reported)'
    BY <1>6 DEF NewMonth
  <2>. QED
    BY <2>1, NothingHit, PTL
<1>7. CASE UNCHANGED vars
  BY <1>7 DEF vars, HitsKept, Active, Known
<1>. QED
  BY <1>1, <1>2, <1>3, <1>4, <1>5, <1>6, <1>7 DEF Next

(* They hold in all reachable states.                                      *)
LEMMA HitsInvariant == Spec => [](VisitorsCounted /\ HitsKept)
<1>1. Init => HitsKept
  BY NothingHit DEF Init
<1>2. Spec => []HitsKept
  BY <1>1, HitsStep, VisitorsInvariant, PTL DEF Spec
<1>. QED
  BY <1>2, VisitorsInvariant, PTL

(* Conversions are those of people, and so are what robots and spammers    *)
(* leave of the hits of the month (end_visit and the totals that           *)
(* proc_logfile bumps), unless a host is a robot and a spammer: the hits   *)
(* of a spammer are added when its visit ends, all of them, and none of    *)
(* them was a robot's.                                                     *)
THEOREM HitsOfPeople == Spec => []ConversionsArePeople
<1>1. VisitorsCounted /\ HitsKept =>
        (Mixed = {} => totals.t_rhits + totals.t_spmhits <= totals.t_hit)
  <2>. SUFFICES ASSUME VisitorsCounted, HitsKept, Mixed = {}
       PROVE  totals.t_rhits + totals.t_spmhits <= totals.t_hit
    OBVIOUS
  <2>1. MixedOf(host) = {}
    BY KnownHosts DEF Mixed, MixedOf
  <2>2. totals.t_spmhits + Total(OpenHits(host)) <= totals.t_hit - totals.t_rhits
        /\ totals.t_spmhits \in Nat
    BY <2>1 DEF HitsKept, HitsFit
  <2>3. host \in [Host -> Node \cup {NoHost}] /\ totals.t_hit \in Nat /\ totals.t_rhits \in Nat
    BY DEF VisitorsCounted, Balanced, Counted, Counter
  <2>4. Total(OpenHits(host)) \in Nat
    BY <2>3, HostTerms
  <2>. QED
    BY <2>2, <2>3, <2>4
<1>. QED
  BY <1>1, HitsInvariant, PeopleConverted, PTL DEF ConversionsArePeople

(* Countries have visits of people only. When the month is reported they   *)
(* have all of them, and all of their hits, unless hosts are logged by     *)
(* name or are spammers (end_visit, process_resolved_hosts and             *)
(* group_host_by_name, over months and runs).                              *)
THEOREM CountriesCounted == Spec => []CountriesArePeople
<1>1. VisitorsCounted /\ HitsKept => CountriesArePeople
  <2>. SUFFICES ASSUME VisitorsCounted, HitsKept  PROVE CountriesArePeople
    OBVIOUS
  <2>1. host \in [Host -> Node \cup {NoHost}] /\ totals.t_hvisits_end \in Nat
    BY DEF VisitorsCounted, Balanced, Counted, Counter
  <2>2. HitsFit(host, totals, countries, pipeline) /\ countries.visits \in Nat /\ countries.hits \in Nat
    BY DEF HitsKept, HitsFit
  <2>3. Total(KeptVisits(host)) \in Nat
    BY <2>1, HostTerms
  <2>4. countries.visits <= totals.t_hvisits_end
    BY <2>1, <2>2, <2>3 DEF HitsFit
  <2>5. ASSUME reported, Known \cap Named = {}, \A h \in Known : ~host[h].spammer
        PROVE  /\ countries.visits = totals.t_hvisits_end
               /\ countries.hits = totals.t_hit - totals.t_rhits
    <3>1. Unnamed(host) /\ pipeline = {} /\ ActiveOf(host) = {}
      BY <2>5, KnownHosts DEF Unnamed, HitsKept
    <3>2. \A h \in HumansOf(host) : host[h].grp_visits = NoVisits
      BY <2>2, <2>5, <3>1, KnownHosts DEF HitsFit, Waits, HumansOf
    <3>3. NoVisits.visits = 0 /\ NoVisits.hits = 0
      BY DEF NoVisits
    <3>4. \A h \in Host : KeptVisits(host)[h] = 0 /\ KeptHits(host)[h] = 0 /\ OpenHits(host)[h] = 0
      BY <3>1, <3>2, <3>3 DEF KeptVisits, KeptHits, OpenHits
    <3>5. Total(KeptVisits(host)) = 0 /\ Total(KeptHits(host)) = 0 /\ Total(OpenHits(host)) = 0
      BY <3>4, TotalZero
    <3>. QED
      BY <2>2, <3>1, <3>5 DEF HitsFit
  <2>. QED
    BY <2>4, <2>5 DEF CountriesArePeople
<1>. QED
  BY <1>1, HitsInvariant, PTL
=============================================================================
