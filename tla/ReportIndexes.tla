--------------------------- MODULE ReportIndexes ---------------------------
(***************************************************************************)
(* What all reports are made of: the items of a month in the state         *)
(* database, the secondary indexes that put them in the order of a report  *)
(* (database_t::index_desc), and what the configuration hides.             *)
(*                                                                         *)
(* An item is a node of one of the tables below. It keeps the fields that  *)
(* decide whether and where it is reported.                                *)
(***************************************************************************)
EXTENDS Ranks, SequencesExt, FiniteSetsExt

CONSTANT MayFail   (* files that may fail to open                            *)

VARIABLES
  config,     (* the configuration of the run                              *)
  database,   (* the items of each table                                   *)
  totals      (* what the totals and the history say of the month          *)

Kind == {"urls", "hosts", "downloads", "agents", "referrers", "search",
         "users", "errors", "countries", "cities", "asn"}

(* Tables whose items may be grouped: these have OBJ_GRP nodes.            *)
Grouped == {"urls", "hosts", "agents", "referrers", "users"}

(* The fields of a table that are the keys of its secondary indexes, and   *)
(* those of the indexes that have groups only (sc_extract_group_cb).       *)
index_desc == [k \in Kind |->
  CASE k = "urls"      -> [all |-> {"hits", "xfer", "entry", "exit"}, groups |-> {"hits", "xfer"}]
    [] k = "hosts"     -> [all |-> {"hits", "xfer"}, groups |-> {"hits", "xfer"}]
    [] k = "agents"    -> [all |-> {"hits", "visits"}, groups |-> {"visits"}]
    [] k \in {"referrers", "users"} -> [all |-> {"hits"}, groups |-> {"hits"}]
    [] k \in {"search", "errors"}   -> [all |-> {"hits"}, groups |-> {}]
    [] k = "downloads" -> [all |-> {"xfer"}, groups |-> {}]
    [] OTHER           -> [all |-> {"visits"}, groups |-> {}]]

(* The order of an index: by key, and items with equal keys by node ID,    *)
(* in reverse for countries, cities and autonomous systems. A report reads *)
(* an index from its end.                                                  *)
Outranks(k, field, a, b) ==
  \/ a[field] > b[field]
  \/ /\ a[field] = b[field]
     /\ IF k \in {"countries", "cities", "asn"} THEN a.nodeid < b.nodeid
                                                ELSE a.nodeid > b.nodeid

IndexOrder(k, field, S) == {p \in S \X S : Outranks(k, field, p[1], p[2])}
ReadBack(k, field, S)   == Ranked(S, IndexOrder(k, field, S))

(* What a report reads of an index, where it skips all but the items of S. *)
IndexOf(k, field, S) == IF field \in index_desc[k].all THEN ReadBack(k, field, S) ELSE <<>>
GroupsOf(k, field)   == IF field \in index_desc[k].groups
                        THEN ReadBack(k, field, {n \in database[k] : n.grp}) ELSE <<>>

(* A traversal of a table itself, by node ID.                              *)
Forward(k) ==
  Ranked(database[k], {p \in database[k] \X database[k] : p[1].nodeid < p[2].nodeid})

Regulars(k) == {n \in database[k] : ~n.grp}
Take(s, n) == SubSeq(s, 1, IF n < Len(s) THEN n ELSE Len(s))

-----------------------------------------------------------------------------
(* state.totals counts the items of a table, hidden ones included, and its *)
(* groups apart.                                                           *)
Total(k) == Cardinality({n \in database[k] : ~n.grp})
GroupTotal(k) == Cardinality({n \in database[k] : n.grp})

(* u_entry and u_exit: unique entry and exit URLs.                         *)
UrlsWith(field) == Cardinality({n \in database["urls"] : ~n.grp /\ n[field] > 0})

(* t_srchits, the hits of all search strings                               *)
SearchHits == SumFunction([n \in database["search"] |-> n.hits])

(* Regular items that a report does not show: those that match one of the  *)
(* hiding patterns, and robots and hosts if they are hidden altogether.    *)
Hidden(k, n) ==
  \/ n.hidden
  \/ k = "hosts" /\ config.hide_hosts
  \/ k \in {"hosts", "agents"} /\ config.hide_robots /\ n.robot

Visible(k) == {n \in database[k] : n.grp \/ ~Hidden(k, n)}

-----------------------------------------------------------------------------
(* The days that are reported: from the first one with hits to the last    *)
(* day of the month in the history (lday). A month that is not in the      *)
(* history has lday 0 here.                                                *)
ReportedDays ==
  LET busy  == {d \in 1 .. totals.lday : totals.days[d] > 0}
      first == IF busy = {} THEN 1 ELSE Min(busy)
  IN  [i \in 1 .. totals.lday + 1 - first |-> first + i - 1]

(* Saturdays and Sundays, where wday is the day of the week of the first   *)
(* day of the month (tstamp_t::wday, Sunday is 0).                         *)
Weekend(wday, day) == (wday + day - 1) % 7 \in {6, 0}
=============================================================================
