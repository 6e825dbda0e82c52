--------------------------- MODULE VisitorTotals ---------------------------
(***************************************************************************)
(* Who visits: how proc_logfile tells robots and spammers from people, and *)
(* what it adds to the totals of the month when a record is read and when  *)
(* a visit ends. People are what is left of the totals when robots and     *)
(* spammers are taken away.                                                *)
(*                                                                         *)
(* A host is a robot if its first request was one. It is a spammer from    *)
(* the first spam request on, or when the DNS cache says that it was one.  *)
(* The visits of a host are added to the countries when it was resolved.   *)
(***************************************************************************)
EXTENDS Integers, FiniteSets, Functions

CONSTANTS
  Host,         (* the hosts that are logged                                *)
  Named,        (* those that are logged by name (AcceptHostNames)          *)
  is_dns_enabled,
  Restarts,     (* whether the program may be stopped and started again     *)
  MaxRecords,   (* bound: records of a month                                *)
  LastDay       (* bound: days of a month                                   *)

ASSUME VisitorAssumption ==
  /\ IsFiniteSet(Host) /\ Named \subseteq Host
  /\ is_dns_enabled \in BOOLEAN /\ Restarts \in BOOLEAN
  /\ MaxRecords \in Nat /\ LastDay \in Nat \ {0}

VARIABLES
  host,       (* the host nodes: in memory or in the database               *)
  sp_htab,    (* hosts that were caught spamming                            *)
  pipeline,   (* hosts that are in the DNS resolver                         *)
  totals,     (* state.totals                                               *)
  tm_hosts,   (* hosts of each day                                          *)
  countries,  (* visits and hits of all countries                           *)
  today,      (* the day of the current record                              *)
  records,    (* records of the month                                       *)
  reported    (* whether the month was closed and is reported               *)

vars == <<host, sp_htab, pipeline, totals, tm_hosts, countries, today, records, reported>>

None == [none |-> TRUE]
NoHost == None
NoVisits == [visits |-> 0, hits |-> 0]

Known  == {h \in Host : host[h] # NoHost}
Active == {h \in Known : host[h].visit # None}

Counter == {"t_hit", "t_hosts", "t_hosts_conv", "t_rhits", "t_rhosts", "t_spmhits",
            "t_shosts", "t_visits", "t_rvisits", "t_visits_end", "t_hvisits_end",
            "t_rvisits_end", "t_svisits_end", "t_visits_conv"}

NoHosts  == [h \in Host |-> NoHost]
NoTotals == [c \in Counter |-> 0]
NoDays   == [d \in 1 .. LastDay |-> 0]

Init ==
  /\ host = NoHosts /\ sp_htab = {} /\ pipeline = {}
  /\ totals = NoTotals /\ tm_hosts = NoDays /\ countries = NoVisits
  /\ today = 1 /\ records = 0 /\ reported = FALSE

-----------------------------------------------------------------------------
(* The ends of the visits of some hosts.                                   *)

HitsOf(S) == SumFunction([h \in S |-> host[h].visit.hits])

Spammers(S) == {h \in S : host[h].spammer}
Robots(S)   == {h \in S : host[h].robot /\ ~host[h].spammer}
Humans(S)   == {h \in S : ~host[h].robot /\ ~host[h].spammer}

(* Visits that requested a target. Those of spammers and robots are not.   *)
Converted(S) == {h \in Humans(S) : host[h].visit.converted}

(* A host is counted when its first visit ends.                            *)
(* Variant for mutation: with every visit.                                 *)
EveryVisit(S) == S
FirstVisit(S) == {h \in S : host[h].visits = 1}

(* end_visit adds a visit to the totals of its kind of visitor. Spammer    *)
(* totals have all hits of the visit, those of robots were added before.   *)
EndedTotals(t, S) ==
  [t EXCEPT
     !.t_visits_end  = @ + Cardinality(S),
     !.t_svisits_end = @ + Cardinality(Spammers(S)),
     !.t_rvisits_end = @ + Cardinality(Robots(S)),
     !.t_hvisits_end = @ + Cardinality(Humans(S)),
     !.t_spmhits     = @ + HitsOf(Spammers(S)),
     !.t_shosts      = @ + Cardinality(FirstVisit(Spammers(S))),
     !.t_hosts_conv  = @ + Cardinality({h \in Converted(S) : host[h].visits_conv = 0}),
     !.t_visits_conv = @ + Cardinality(Converted(S))]

(* Whether a visit is added to its country now, or kept for later.         *)
(* Variant for mutation: visits of resolved hosts are kept.                *)
NeverGrouped(h) == ~is_dns_enabled
Grouped(h) == ~is_dns_enabled \/ host[h].resolved

EndedNode(h) ==
  LET n == host[h]
  IN  [n EXCEPT !.visit = None,
                !.visits_conv = @ + (IF h \in Converted({h}) THEN 1 ELSE 0),
                !.grp_visits = IF Grouped(h) THEN @ ELSE [visits |-> @.visits + 1, hits |-> @.hits + n.visit.hits]]

EndedHosts(S) == [h \in Host |-> IF h \in S THEN EndedNode(h) ELSE host[h]]

(* group_host_by_name: countries ignore robot and spammer activity.        *)
GroupedNow(c, S) ==
  LET people == {h \in Humans(S) : Grouped(h)}
  IN  [visits |-> c.visits + Cardinality(people), hits |-> c.hits + HitsOf(people)]

-----------------------------------------------------------------------------
(* process_resolved_hosts, for the hosts S that the resolver returns: the  *)
(* DNS cache may know them as spammers, and their visits are grouped.      *)
Returned(hosts, S, known_spammers) ==
  [h \in Host |->
     IF h \in S
     THEN [hosts[h] EXCEPT !.resolved = TRUE, !.grp_visits = NoVisits,
                           !.spammer = @ \/ h \in known_spammers]
     ELSE hosts[h]]

CountriesAfter(c, hosts, S, known_spammers) ==
  LET people == {h \in S : ~hosts[h].robot /\ ~hosts[h].spammer /\ h \notin known_spammers}
  IN  [visits |-> c.visits + SumFunction([h \in people |-> hosts[h].grp_visits.visits]),
       hits   |-> c.hits + SumFunction([h \in people |-> hosts[h].grp_visits.hits])]

ProcessResolvedHosts ==
  \E S \in SUBSET pipeline \ {{}} : \E known_spammers \in SUBSET S :
    /\ ~reported
    /\ host' = Returned(host, S, known_spammers)
    /\ countries' = CountriesAfter(countries, host, S, known_spammers)
    /\ pipeline' = pipeline \ S
    /\ UNCHANGED <<sp_htab, totals, tm_hosts, today, records, reported>>

-----------------------------------------------------------------------------
(* A record of a month: who asked (h), with a spam referrer or search      *)
(* string, as a robot (which is not looked up for spammers), for a target  *)
(* (a good URL). If the host has an active visit it may be over.           *)
NewNode(spammer, robot) ==
  [robot |-> robot, spammer |-> spammer, resolved |-> FALSE, visits |-> 1,
   visits_conv |-> 0, visit |-> [hits |-> 1, converted |-> FALSE],
   grp_visits |-> NoVisits, day |-> today]

(* put_hnode                                                               *)
VisitedNode(n, spammer, newvisit) ==
  [n EXCEPT !.spammer = @ \/ spammer,
            !.visits  = IF newvisit THEN @ + 1 ELSE @,
            !.visit   = IF newvisit THEN [hits |-> 1, converted |-> FALSE]
                                    ELSE [n.visit EXCEPT !.hits = @ + 1],
            !.day     = today]

put_hnode(h, n, spammer, robot, target, newvisit) ==
  LET node == IF n = NoHost THEN NewNode(spammer, robot) ELSE VisitedNode(n, spammer, newvisit)
  IN  IF target /\ ~robot /\ ~spammer THEN [node EXCEPT !.visit.converted = TRUE] ELSE node

(* Totals that are bumped for each record. The robot flag is that of the   *)
(* host, whatever agent this request has.                                  *)
RecordTotals(t, robot, newhost, newvisit) ==
  LET One(condition) == IF condition THEN 1 ELSE 0
  IN  [t EXCEPT
         !.t_hit     = @ + 1,
         !.t_hosts   = @ + One(newhost),
         !.t_rhits   = @ + One(robot),
         !.t_rhosts  = @ + One(robot /\ newhost),
         !.t_visits  = @ + One(newvisit),
         !.t_rvisits = @ + One(newvisit /\ robot)]

(* A host is new today if its last hit was on an earlier day.              *)
(* Variant for mutation: only if it is new this month.                     *)
NewThisMonth(h) == host[h] = NoHost
NewToday(h) == host[h] = NoHost \/ today > host[h].day

ProcRecord(h, spam, agent, target, over) ==
  LET spammer  == spam \/ h \in sp_htab
      robot    == agent /\ ~spam            \* ragent is not looked up for a spam request
      ending   == IF over THEN {h} ELSE {}
      newhost  == host[h] = NoHost
      newvisit == newhost \/ over \/ host[h].visit = None
      node     == put_hnode(h, EndedHosts(ending)[h], spammer, robot, target, newvisit)
      newspammer == spammer /\ (newhost \/ ~host[h].spammer)
  IN  /\ ~reported /\ records < MaxRecords
      /\ over => h \in Active
      /\ host' = [host EXCEPT ![h] = node]
      /\ sp_htab' = IF spam THEN sp_htab \cup {h} ELSE sp_htab
      /\ totals' = RecordTotals(EndedTotals(totals, ending), node.robot, newhost, newvisit)
      /\ tm_hosts' = [tm_hosts EXCEPT ![today] = @ + (IF NewToday(h) THEN 1 ELSE 0)]
      /\ countries' = GroupedNow(countries, ending)
      /\ pipeline' = IF is_dns_enabled /\ h \notin Named /\ (newhost \/ newspammer) /\ ~node.resolved
                     THEN pipeline \cup {h} ELSE pipeline
      /\ records' = records + 1
      /\ UNCHANGED <<today, reported>>

NextDay ==
  /\ ~reported /\ today < LastDay
  /\ today' = today + 1
  /\ UNCHANGED <<host, sp_htab, pipeline, totals, tm_hosts, countries, records, reported>>

-----------------------------------------------------------------------------
(* The end of a month (update_visits) or of a run: dns_wait, the visits    *)
(* that are over end, and all hosts come back from the resolver.           *)
VisitsEnd(S) ==
  \E known_spammers \in SUBSET pipeline :
    LET hosts == EndedHosts(S)
    IN  /\ host' = Returned(hosts, pipeline, known_spammers)
        /\ countries' = CountriesAfter(GroupedNow(countries, S), hosts, pipeline, known_spammers)
        /\ totals' = EndedTotals(totals, S)
        /\ pipeline' = {}

CloseMonth ==
  /\ ~reported /\ records > 0
  /\ VisitsEnd(Active)
  /\ reported' = TRUE
  /\ UNCHANGED <<sp_htab, tm_hosts, today, records>>

(* A run ends, its state is saved, and the next run restores it: hosts     *)
(* with active visits, and the spammers among them. Hosts of the database  *)
(* count as resolved; visits that still wait for a name are not saved.     *)
Restored(n) == IF n = NoHost THEN NoHost
               ELSE [n EXCEPT !.resolved = TRUE, !.grp_visits = NoVisits]

Restart ==
  /\ Restarts /\ ~reported /\ records > 0
  /\ \E S \in SUBSET Active, known_spammers \in SUBSET pipeline :
       LET hosts == Returned(EndedHosts(S), pipeline, known_spammers)
       IN  /\ host' = [h \in Host |-> Restored(hosts[h])]
           /\ sp_htab' = {h \in Active \ S : hosts[h].spammer}
           /\ countries' = CountriesAfter(GroupedNow(countries, S), EndedHosts(S),
                                          pipeline, known_spammers)
           /\ totals' = EndedTotals(totals, S)
           /\ pipeline' = {}
  /\ UNCHANGED <<tm_hosts, today, records, reported>>

(* clear_month                                                             *)
NewMonth ==
  /\ reported
  /\ host' = NoHosts /\ sp_htab' = {} /\ pipeline' = {}
  /\ totals' = NoTotals /\ tm_hosts' = NoDays /\ countries' = NoVisits
  /\ today' = 1 /\ records' = 0 /\ reported' = FALSE

Next ==
  \/ \E h \in Host, spam, agent, target, over \in BOOLEAN :
       (spam => ~agent) /\ ProcRecord(h, spam, agent, target, over)
  \/ ProcessResolvedHosts
  \/ NextDay
  \/ CloseMonth
  \/ Restart
  \/ NewMonth

Spec == Init /\ [][Next]_vars

-----------------------------------------------------------------------------
(* Visits are started once and end once, as the visit of one kind of       *)
(* visitor, over months and runs; a host is counted once in a month and    *)
(* once on each of its days.                                               *)
TotalsBalance ==
  /\ totals.t_visits = totals.t_visits_end + Cardinality(Active)
  /\ totals.t_visits_end = totals.t_hvisits_end + totals.t_rvisits_end + totals.t_svisits_end
  /\ totals.t_hosts = Cardinality(Known)
  /\ tm_hosts[today] = Cardinality({h \in Known : host[h].day = today})

(* A host that is a robot and a spammer is counted as both.                *)
Mixed == {h \in Known : host[h].robot /\ host[h].spammer}

(* Conversions are those of people (CHANGES:256): no more visits are       *)
(* converted than people ended, and what is left of the hosts of a month   *)
(* when robots and spammers are taken away is never less than the hosts    *)
(* that were converted, unless a host is counted as both: the rate of      *)
(* converted hosts in the reports is not above 100%.                       *)
HostsArePeople ==
  /\ totals.t_hosts_conv <= totals.t_visits_conv
  /\ totals.t_visits_conv <= totals.t_hvisits_end
  /\ Mixed = {} => totals.t_hosts_conv + totals.t_rhosts + totals.t_shosts <= totals.t_hosts

(* The same of their hits.                                                 *)
ConversionsArePeople ==
  /\ HostsArePeople
  /\ Mixed = {} => totals.t_rhits + totals.t_spmhits <= totals.t_hit

(* Countries have the visits of people only, and all of them when the      *)
(* month is reported. Not those of hosts that are logged by name, which    *)
(* are never returned by the resolver, and not those of hosts that the     *)
(* DNS cache turned out to know as spammers.                               *)
CountriesArePeople ==
  /\ countries.visits <= totals.t_hvisits_end
  /\ reported /\ Known \cap Named = {} /\ (\A h \in Known : ~host[h].spammer) =>
       /\ countries.visits = totals.t_hvisits_end
       /\ countries.hits = totals.t_hit - totals.t_rhits
=============================================================================
