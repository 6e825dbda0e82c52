----------------------------- MODULE ItemTables -----------------------------
(* What proc_logfile counts of a log record once its host is known: URLs,  *)
(* users, errors, referrers, user agents, search terms, and their groups.  *)
(* A record may be ignored, its search arguments are filtered and sorted,  *)
(* and a spammer leaves no referrer. A node that is not in memory is       *)
(* looked up in the database, so a table here is both. The lists of the    *)
(* configuration are the sets of names that their patterns match.          *)
EXTENDS Ranks, Sequences, SequencesExt, FiniteSetsExt, TLC

CONSTANTS
  Configs,     (* the configurations                                       *)
  Records,     (* the log records                                          *)
  NameOrder,   (* names of search arguments, as strncmp orders them        *)
  TextOrder,   (* arguments and their names with an equal sign, likewise   *)
  Page,        (* config_t::ispage: the URLs of pages                      *)
  Mangled(_),  (* filter_user_agent                                        *)
  Restarts,    (* whether the program may be stopped and started again     *)
  MaxRecords   (* bound: the records of all runs                           *)

(* The orders have the names and texts of all arguments, and the names of  *)
(* patterns; the text of an argument says what its name and value are.     *)
ASSUME ItemAssumption ==
  /\ NameOrder \in Seq(STRING) /\ TextOrder \in Seq(STRING)
  /\ IsInjective(NameOrder) /\ IsInjective(TextOrder)
  /\ \A r \in Records :
       /\ r.args \in Seq(ToSet(r.args))
       /\ \A a \in ToSet(r.args) : a.name \in ToSet(NameOrder) /\ a.text \in ToSet(TextOrder)
  /\ \A r, s \in Records : \A a \in ToSet(r.args), b \in ToSet(s.args) : a.text = b.text => a = b
  /\ \A c \in Configs : \A i \in DOMAIN c.ignored_urls : c.ignored_urls[i].name \in ToSet(NameOrder)

VARIABLES
  cfg,         (* the configuration                                        *)
  records,     (* how many records were read                               *)
  rec,         (* the last one                                             *)
  sp_htab,     (* hosts that were caught spamming                          *)
  hosts,       (* host nodes, by host                                      *)
  active,      (* hosts with an active visit                               *)
  tables,      (* the nodes of the other tables, by table, flag and key    *)
  totals       (* state.totals: t_hit, the entry counters, t_srchits and,  *)
               (* by table and flag, t_url, t_grp_urls and so on           *)

vars == <<cfg, records, rec, sp_htab, hosts, active, tables, totals>>

Table == {"url", "user", "err", "ref", "agent", "search"}
Flag  == {"REG", "GRP"}

NoRecord == [host |-> ""]
NoNodes  == [t \in Table |-> [f \in Flag |-> <<>>]]

(* init_counters *)
NoTotals ==
  [t_hit |-> 0, t_entry |-> 0, u_entry |-> 0, t_srchits |-> 0,
   nodes |-> [t \in Table |-> [f \in Flag |-> 0]]]

Init ==
  /\ cfg \in Configs
  /\ records = 0 /\ rec = NoRecord
  /\ sp_htab = {} /\ hosts = <<>> /\ active = {}
  /\ tables = NoNodes /\ totals = NoTotals

-----------------------------------------------------------------------------
(* Lists                                                                   *)

(* isinlistex, with whole names: an asterisk matches all.                  *)
InList(list, name) == name \in list \/ "*" \in list

Position(order, text) == CHOOSE i \in DOMAIN order : order[i] = text

(* find_node, called until it returns null: the first entry that matches   *)
(* and those that follow it as long as they match.                         *)
Found(list, name) ==
  LET matching == {i \in DOMAIN list : name \in list[i].names}
  IN  {i \in matching : \A j \in Min(matching) .. i : j \in matching}

(* filter_srchargs: an argument is a text, of a name and a value.          *)
Kept(arg) ==
  \/ "*" \in cfg.incl_srch_args
  \/ arg.name = "" /\ "*" \notin cfg.excl_srch_args
  \/ arg.name # "" /\ (InList(cfg.incl_srch_args, arg.name) \/ ~InList(cfg.excl_srch_args, arg.name))

KeptArgs(args) ==
  LET kept == {i \in DOMAIN args : Kept(args[i])}
      place == Ranked(kept, Ascending(kept))
  IN  [k \in DOMAIN place |-> args[place[k]]]

(* qsort by names: it leaves open in which order those of one name are.    *)
Sorted(args) ==
  \A i, j \in DOMAIN args :
    i < j => Position(NameOrder, args[i].name) <= Position(NameOrder, args[j].name)

Permuted(args, p) == [i \in DOMAIN args |-> args[p[i]]]

IsPermutation(p) == \A i, j \in DOMAIN p : i # j => p[i] # p[j]

ByName(args) ==
  Permuted(args, CHOOSE p \in [DOMAIN args -> DOMAIN args] :
                   IsPermutation(p) /\ Sorted(Permuted(args, p)))

NotFiltered == ~cfg.sort_srch_args /\ cfg.incl_srch_args = {} /\ cfg.excl_srch_args = {}

(* The arguments that a URL keeps (the variant leaves them in the order of *)
(* the log) and those that the list of ignored URLs is searched for.       *)
FilteredOnly(args) == IF NotFiltered THEN args ELSE KeptArgs(args)

Filtered(args) ==
  IF NotFiltered THEN args
  ELSE LET kept == KeptArgs(args)
       IN  IF cfg.sort_srch_args THEN ByName(kept) ELSE kept

SrArgs(args) ==
  IF NotFiltered \/ \A i \in DOMAIN cfg.ignored_urls : cfg.ignored_urls[i].name = "" THEN <<>>
  ELSE ByName(KeptArgs(args))

(* std::lower_bound by the whole text of arguments, which are sorted by    *)
(* their names. The variant ends one past it.                              *)
LowerBoundPast(args, key) ==
  Min({Len(args) + 1} \cup
      {i \in DOMAIN args : Position(TextOrder, args[i].text) > Position(TextOrder, key) /\ i > 1})

LowerBound(args, key) ==
  LET Search[len \in 0 .. Len(args)] ==
        [first \in 1 .. Len(args) + 1 - len |->
           IF len = 0 THEN first
           ELSE LET half == len \div 2
                    mid == first + half
                IN  IF Position(TextOrder, args[mid].text) < Position(TextOrder, key)
                    THEN Search[len - half - 1][mid + 1]
                    ELSE Search[half][first]]
  IN  Search[Len(args)][1]

(* check_ignore_url_list: a pattern may have the name of an argument, and  *)
(* a value. The key is the name with the equal sign.                       *)
HasArgument(args, p) ==
  IF p.value = "" THEN \E i \in DOMAIN args : args[i].name = p.name
  ELSE LET first == LowerBound(args, p.key)
       IN  \E i \in first .. Len(args) :
             /\ \A j \in first .. i : args[j].name = p.name
             /\ args[i].value = p.value

UrlIgnored(url, args) ==
  \E i \in Found(cfg.ignored_urls, url) :
    LET p == cfg.ignored_urls[i]
    IN  p.name = "" \/ (args # <<>> /\ HasArgument(args, p))

-----------------------------------------------------------------------------
(* Pre-processing of a record                                              *)

Proxy == cfg.type = "squid"

(* srch_string: the terms of the first argument that each entry of the     *)
(* search engine names, until one has the URL of another site              *)
(* (check_for_spam_urls).                                                  *)
Searched(site, query, spamcheck) ==
  LET Engine(i) == cfg.search_list[i]
      At(i) == {j \in DOMAIN query : query[j].name = Engine(i).name}
      Text(i) == query[Min(At(i))].value
      Next(st, i) ==
        IF st.spam \/ i \notin Found(cfg.search_list, site) \/ At(i) = {} THEN st
        ELSE IF Text(i) = "" THEN st
        ELSE IF spamcheck /\ Text(i) \in cfg.foreign THEN [st EXCEPT !.spam = TRUE]
        ELSE [st EXCEPT !.terms = Append(@, <<Engine(i).qualifier, Text(i)>>)]
  IN  FoldLeftDomain(LAMBDA st, i : Next(st, i), [terms |-> <<>>, spam |-> FALSE], cfg.search_list)

PartialReferrer(r) == cfg.ignore_referrer_partial /\ r.status = 206

Search(r) ==
  IF Proxy
  THEN Searched(r.url, IF r.status = 200 THEN r.args ELSE <<>>, FALSE)
  ELSE Searched(r.refer,
                IF r.refer \in cfg.spam_refs \/ PartialReferrer(r) THEN <<>> ELSE r.query, TRUE)

SpamNow(r) == ~Proxy /\ (r.refer \in cfg.spam_refs \/ Search(r).spam)

(* proc_index_alias *)
Aliased(url) == IF url \in DOMAIN cfg.index_alias THEN cfg.index_alias[url] ELSE url

(* The entry of the robot list that the user agent is in. It is looked up  *)
(* before agents are mangled.                                              *)
RobotAgent(r) == ~Proxy /\ ~SpamNow(r) /\ r.agent \in DOMAIN cfg.robots

Included(r) ==
  \/ r.host \in cfg.include_hosts \/ Aliased(r.url) \in cfg.include_urls
  \/ r.refer \in cfg.include_refs \/ r.agent \in cfg.include_agents
  \/ r.user \in cfg.include_users

(* The variant does not look at included records.                          *)
IgnoredAnyway(r) ==
  \/ cfg.ignore_robots /\ RobotAgent(r)
  \/ r.host \in cfg.ignored_hosts \/ r.agent \in cfg.ignored_agents
  \/ r.refer \in cfg.ignored_refs \/ r.user \in cfg.ignored_users
  \/ UrlIgnored(Aliased(r.url), SrArgs(r.args))

Ignored(r) == ~Included(r) /\ IgnoredAnyway(r)

-----------------------------------------------------------------------------
(* Counting a record                                                       *)

GoodUrl(r) == r.status \in {200, 206, 304}
HttpError(r) == r.status \div 100 \in {4, 5}

(* put_unode, put_inode, put_rcnode, put_rnode, put_anode and put_snode    *)
(* add a node or find it. A user agent has a visit from the start.         *)
Put(t, f, key, visit) == [table |-> t, flag |-> f, key |-> key, visit |-> visit]

After(nodes, p) ==
  LET v == IF p.visit THEN 1 ELSE 0
  IN  IF p.key \in DOMAIN nodes
      THEN [nodes EXCEPT ![p.key] = [count |-> @.count + 1, visits |-> @.visits + v]]
      ELSE [k \in DOMAIN nodes \cup {p.key} |->
              IF k = p.key THEN [count |-> 1, visits |-> IF p.table = "agent" THEN 1 ELSE v]
              ELSE nodes[k]]

If(condition, put) == IF condition THEN <<put>> ELSE <<>>

Url(path, args) == [path |-> path, args |-> [i \in DOMAIN args |-> args[i].text]]

(* The nodes of a record, in the order of the code.                        *)
NodesOf(r, c) ==
  LET url == Aliased(r.url)
      terms == Search(r).terms
  IN  If(GoodUrl(r), Put("url", "REG", Url(url, Filtered(r.args)), c.entry))
      \o If(GoodUrl(r) /\ r.user # "", Put("user", "REG", r.user, FALSE))
      \o If(HttpError(r) /\ "err" \in cfg.reports /\ r.method # "" /\ url # "",
            Put("err", "REG", <<r.method, url, r.status>>, FALSE))
      \o If("ref" \in cfg.reports /\ r.refer # "" /\ ~c.spammer /\ ~PartialReferrer(r),
            Put("ref", "REG", r.refer, c.newvisit))
      \o If("agent" \in cfg.reports /\ Mangled(r.agent) # "",
            Put("agent", "REG", Mangled(r.agent), c.newvisit))
      \o If("search" \in cfg.reports /\ terms # <<>>, Put("search", "REG", terms, c.newvisit))

GroupsOf(r, c) ==
  LET url == Aliased(r.url)
      agent == Mangled(r.agent)
      Group(list, name, t, visit) ==
        If(name \in DOMAIN list, Put(t, "GRP", list[name], visit))
  IN  Group(cfg.group_urls, url, "url", FALSE)
      \o (IF Proxy THEN Group(cfg.url_domains, url, "url", FALSE) ELSE <<>>)
      \o Group(cfg.group_refs, r.refer, "ref", c.newvisit)
      \o Group(cfg.group_agents, agent, "agent", c.newvisit)
      \o (IF c.robot /\ RobotAgent(r) /\ cfg.group_robots
          THEN Group(cfg.robots, r.agent, "agent", c.newvisit) ELSE <<>>)
      \o Group(cfg.group_users, r.user, "user", FALSE)

(* The variables newurl, newugrp and so on tell if the last put_ function  *)
(* of a table and flag added a node; they are counted once for a record.   *)
(* The variant counts a node that was found in the database.               *)
NewIfFirst(st, p) == [st.new EXCEPT ![p.table][p.flag] = TRUE]

NewOf(st, p) == [st.new EXCEPT ![p.table][p.flag] = p.key \notin DOMAIN st.tables[p.table][p.flag]]

(* What the put_ functions add to the tables, one after the other.         *)
WithPut(st, p) ==
  [tables |-> [st.tables EXCEPT ![p.table][p.flag] = After(@, p)], new |-> NewOf(st, p)]

Uncounted == [tables |-> tables, new |-> [t \in Table |-> [f \in Flag |-> FALSE]]]

Counted(puts) == FoldLeft(WithPut, Uncounted, puts)

(* The host of a record is a robot if its first user agent was one. The    *)
(* first suitable URL of a visit is its entry.                             *)
Context(r, new_visit, spammers) ==
  LET known == r.host \in DOMAIN hosts
      robot == IF known THEN hosts[r.host].robot ELSE RobotAgent(r)
      entered == known /\ ~new_visit /\ hosts[r.host].entry_url
      spammer == ~Proxy /\ r.host \in spammers
  IN  [newvisit |-> new_visit, spammer |-> spammer, robot |-> ~Proxy /\ robot,
       host_robot |-> robot, entered |-> entered,
       host_spammer |-> spammer \/ (known /\ hosts[r.host].spammer),
       entry |-> /\ GoodUrl(r) /\ ~(~Proxy /\ robot) /\ ~spammer
                 /\ ~cfg.page_entry \/ Aliased(r.url) \in Page
                 /\ ~entered]

(* proc_logfile. The visit of a host may be over when a record comes.      *)
Count(r, new_visit, spammers) ==
  LET c == Context(r, new_visit, spammers)
      url == Url(Aliased(r.url), Filtered(r.args))
      entries == tables.url.REG
      done == Counted(NodesOf(r, c) \o GroupsOf(r, c))
  IN  /\ hosts' = (r.host :> [robot |-> c.host_robot, spammer |-> c.host_spammer,
                            entry_url |-> c.entered \/ c.entry]) @@ hosts
      /\ active' = active \cup {r.host}
      /\ tables' = done.tables
      /\ totals' =
           [t_hit |-> totals.t_hit + 1,
            t_entry |-> totals.t_entry + (IF c.entry THEN 1 ELSE 0),
            u_entry |-> totals.u_entry
                          + (IF c.entry /\ (url \in DOMAIN entries => entries[url].visits = 0)
                             THEN 1 ELSE 0),
            t_srchits |-> totals.t_srchits
                            + (IF "search" \in cfg.reports /\ Search(r).terms # <<>> THEN 1 ELSE 0),
            nodes |-> [t \in Table |-> [f \in Flag |->
                         totals.nodes[t][f] + (IF done.new[t][f] THEN 1 ELSE 0)]]]

ReadRecord ==
  \E r \in Records, over \in BOOLEAN :
    LET spammers == IF SpamNow(r) THEN sp_htab \cup {r.host} ELSE sp_htab
    IN  /\ records < MaxRecords
        /\ records' = records + 1
        /\ rec' = r
        /\ sp_htab' = spammers
        /\ over => r.host \in active
        /\ IF Ignored(r) THEN UNCHANGED <<hosts, active, tables, totals>>
           ELSE Count(r, over \/ r.host \notin active, spammers)
        /\ UNCHANGED cfg

(* clear_month, when a record of another month comes: all visits end.      *)
NewMonth ==
  /\ records < MaxRecords /\ totals.t_hit > 0
  /\ sp_htab' = {} /\ hosts' = <<>> /\ active' = {}
  /\ tables' = NoNodes /\ totals' = NoTotals
  /\ UNCHANGED <<cfg, records, rec>>

(* The program ends and starts again: visits that were over have ended,    *)
(* and the spammers among the hosts with active visits are remembered.     *)
Restart ==
  /\ Restarts /\ records < MaxRecords /\ totals.t_hit > 0
  /\ \E S \in SUBSET active : active' = S /\ sp_htab' = {h \in S : hosts[h].spammer}
  /\ UNCHANGED <<cfg, records, rec, hosts, tables, totals>>

Done == records = MaxRecords /\ UNCHANGED vars

Next == ReadRecord \/ NewMonth \/ Restart \/ Done

Spec == Init /\ [][Next]_vars
-----------------------------------------------------------------------------
(* Properties                                                              *)

Visits(nodes) == SumFunction([k \in DOMAIN nodes |-> nodes[k].visits])
Counts(nodes) == SumFunction([k \in DOMAIN nodes |-> nodes[k].count])

(* The parts of TablesAddUp: counters of nodes, of entry URLs, of hits     *)
(* from search engines (t_url, t_grp_urls and so on, t_entry, t_srchits).  *)
NodesCounted(f) ==
  \A t \in Table : totals.nodes[t][f] = Cardinality(DOMAIN tables[t][f])

EntriesCounted ==
  LET urls == tables.url.REG
  IN  /\ totals.t_entry = Visits(urls)
      /\ totals.u_entry = Cardinality({k \in DOMAIN urls : urls[k].visits > 0})
      /\ totals.t_entry <= totals.t_hit

SearchesCounted == totals.t_srchits = Counts(tables.search.REG)

RepeatsName(url) ==
  \E r \in Records : \E i, j \in DOMAIN r.args :
    i # j /\ r.args[i].name = r.args[j].name
    /\ {r.args[i].text, r.args[j].text} \subseteq ToSet(url.args)

(* The totals of the month say what the tables hold: a node is counted     *)
(* when it is added and never when it was found, in memory or in the       *)
(* database, whatever visits, groups and runs came between; entry URLs,    *)
(* visits that were entered and hits from search engines add up likewise.  *)
(* ("update total host/URL/etc counters (htab size, minus group count)")   *)
TablesAddUp ==
  NodesCounted("REG") /\ NodesCounted("GRP") /\ EntriesCounted /\ SearchesCounted

(* Requests for one page are one URL: with sorted arguments, no two URLs   *)
(* of the table have one path and the same arguments in another order, be  *)
(* they logged before or after arguments were excluded (filter_srchargs).  *)
(* The order of arguments with one name is what qsort makes of it.         *)
SameUrlOnce ==
  \A u, v \in DOMAIN tables.url.REG :
    /\ cfg.sort_srch_args /\ u.path = v.path
    /\ ToSet(u.args) = ToSet(v.args) /\ Len(u.args) = Len(v.args)
    /\ ~RepeatsName(u)
    => u = v

(* What the configuration asks to leave out, as the documentation says it: *)
(* an entry with the name of an argument matches the whole name and, when  *)
(* it has a value, the whole value, in any argument that is not filtered;  *)
(* what is included is never ignored.                                      *)
Unwanted(r) ==
  /\ ~Included(r)
  /\ \/ r.host \in cfg.ignored_hosts \/ r.agent \in cfg.ignored_agents
     \/ r.refer \in cfg.ignored_refs \/ r.user \in cfg.ignored_users
     \/ cfg.ignore_robots /\ RobotAgent(r)
     \/ \E i \in Found(cfg.ignored_urls, Aliased(r.url)) :
          LET p == cfg.ignored_urls[i]
          IN  \/ p.name = ""
              \/ \E j \in DOMAIN r.args :
                   /\ Kept(r.args[j]) /\ r.args[j].name = p.name
                   /\ p.value \in {"", r.args[j].value}

(* A record that is to be ignored leaves no trace in what is reported, and *)
(* every other one is a hit, however its arguments are ordered and which   *)
(* of them are kept (check_ignore_url_list searches a sorted copy of them).*)
IgnoredOrCounted ==
  records' # records =>
    IF Unwanted(rec') THEN UNCHANGED <<hosts, active, tables, totals>>
    ELSE totals'.t_hit = totals.t_hit + 1

IgnoredNotCounted == [][IgnoredOrCounted]_vars
=============================================================================
