----------------------------- MODULE MCReports -----------------------------
(***************************************************************************)
(* One kind of items at a time: all small tables of it, with every         *)
(* configuration of its reports. Or no items, and all totals of a month.   *)
(***************************************************************************)
EXTENDS Reports

CONSTANTS
  MaxItems,  (* bound: items of a table                                  *)
  TopMax,    (* bound: rows of a table                                   *)
  Foci       (* kinds of items, and "month" for the totals               *)
CONSTANT HumanVisits  (* numbers of ended human visits of a month          *)

Table_ == {"urls", "urlsK", "entry", "exit", "downloads", "errors", "hosts", "hostsK",
            "asn", "referrers", "search", "users", "agents", "countries", "cities"}

HiddenKinds == {"urls", "hosts", "agents", "referrers", "users"}

(* What an item may be, apart from its node ID.                            *)
Shape(k) ==
  {[grp |-> g, hidden |-> h, robot |-> r, hits |-> n, xfer |-> 3 - n, visits |-> n,
    entry |-> n % 2, exit |-> (n + 1) % 2] :
     g \in (IF k \in Grouped THEN BOOLEAN ELSE {FALSE}),
     h \in (IF k \in HiddenKinds THEN BOOLEAN ELSE {FALSE}),
     r \in (IF k \in {"hosts", "agents"} THEN BOOLEAN ELSE {FALSE}),
     n \in (IF k \in {"cities", "asn"} THEN 0 .. 2 ELSE 1 .. 2)}

Shapes(k) == {s \in Shape(k) : (s.grp => ~s.hidden /\ ~s.robot) /\ (s.robot => ~s.hidden)}

Item(id, s) ==
  [nodeid |-> id, grp |-> s.grp, hidden |-> s.hidden, robot |-> s.robot, hits |-> s.hits,
   xfer |-> s.xfer, visits |-> s.visits, entry |-> s.entry, exit |-> s.exit]

(* Node IDs: a city has a geoname ID of one bit, below the two characters  *)
(* of its country, 5 to 7, with three bits each. The first has no country. *)
NodeId(k, i) == IF k = "cities" THEN <<1, (5 * 8 + 6) * 2 + 1, (6 * 8 + 5) * 2 + 1>>[i] ELSE i

(* Groups are made of regular items, so there are none without the others. *)
TablesOf(k) ==
  {S \in UNION {{{Item(NodeId(k, i), f[i]) : i \in 1 .. n} : f \in [1 .. n -> Shapes(k)]} :
                  n \in 1 .. MaxItems} : \E i \in S : ~i.grp}

TablesFor(k) ==
  CASE k = "urls" -> {"urls", "urlsK", "entry", "exit"}
    [] k = "hosts" -> {"hosts", "hostsK"}
    [] k = "month" -> {}
    [] OTHER -> {k}

(* Sizes of the tables: entry and exit tables go with the other tables.    *)
Sizes(k) ==
  {[t \in Table_ |-> IF t = "entry" /\ k = "urls" THEN f["urls"]
                     ELSE IF t = "exit" /\ k = "urls" THEN f["urlsK"]
                     ELSE IF t \in DOMAIN f THEN f[t] ELSE 0] :
     f \in [TablesFor(k) \ {"entry", "exit"} -> 0 .. TopMax]}

(* Reports without an option for a page of all items                       *)
NoPage == {"countries", "cities", "asn"}

Config(k, ntop, all, bundle, hosts, robots, formats) ==
  [ntop |-> ntop, all |-> all, bundle_groups |-> bundle, hide_hosts |-> hosts,
   hide_robots |-> robots, squid |-> k = "search", geoip_city |-> TRUE, asn_db |-> TRUE,
   filters |-> FALSE, targets |-> FALSE, stats |-> {}, graphs |-> {}, dump |-> {k},
   formats |-> formats]

(* How items of a kind are shown matters to the HTML report only; the      *)
(* others are written for one such configuration.                          *)
ItemConfigs(k) ==
  {Config(k, n, a, b, hh, hr, <<"html">>) :
     n \in Sizes(k), a \in SUBSET ({k} \ NoPage),
     b \in (IF k \in Grouped THEN BOOLEAN ELSE {FALSE}),
     hh \in (IF k = "hosts" THEN BOOLEAN ELSE {FALSE}),
     hr \in (IF k \in {"hosts", "agents"} THEN BOOLEAN ELSE {FALSE})}
  \cup {Config(k, [t \in Table_ |-> IF t \in TablesFor(k) THEN TopMax ELSE 0],
               {k} \ NoPage, TRUE, FALSE, FALSE, <<"html", "text", "tsv", "json">>)}

MonthConfigs ==
  {[Config("month", [t \in Table_ |-> 0], {}, FALSE, FALSE, FALSE, <<"json", "html">>)
      EXCEPT !.filters = f, !.targets = g, !.stats = s, !.graphs = c] :
     f \in BOOLEAN, g \in BOOLEAN,
     s \in {{"monthly", "daily", "hourly"}}, c \in {{}}}

NoItems == [k \in Kind |-> {}]

(* Totals of a month, without or with human visits, robots and so on, and  *)
(* with hits on any of its days; lday is 0 if it is not in the history.    *)
Months ==
  {[t_hvisits_end |-> h, t_visits |-> 1, t_visits_conv |-> c, t_rhits |-> r, t_spmhits |-> s,
    m_hitptime |-> p, responses |-> 2, days |-> d, lday |-> l] :
      h \in HumanVisits, c \in 0 .. 1, r \in 0 .. 1, s \in 0 .. 1, p \in 0 .. 1,
      d \in [1 .. 3 -> 0 .. 1], l \in 0 .. 3}

Month == [t_hvisits_end |-> 1, t_visits |-> 1, t_visits_conv |-> 0, t_rhits |-> 0,
          t_spmhits |-> 0, m_hitptime |-> 0, responses |-> 1, days |-> <<1>>, lday |-> 1]

Init ==
  /\ \E k \in Foci :
       IF k = "month"
       THEN /\ config \in MonthConfigs
            /\ database = NoItems
            /\ totals \in Months
       ELSE /\ config \in ItemConfigs(k)
            /\ \E S \in TablesOf(k) : database = [NoItems EXCEPT ![k] = S]
            /\ totals = Month
  /\ Starts

Spec == Init /\ [][Next]_vars /\ WF_vars(Next)
=============================================================================
