----------------------------- MODULE HtmlReport -----------------------------
(***************************************************************************)
(* The monthly HTML report (html_output.cpp): one page with a table per    *)
(* report that is configured, and pages with all items that some of the    *)
(* tables link to. Each table is written by one action; the file of an     *)
(* all-items page may fail to open.                                        *)
(*                                                                         *)
(* Columns, percentages, colours and the markup are left out.              *)
(***************************************************************************)
EXTENDS ReportIndexes, TLC

VARIABLES
  todo,    (* tables that write_monthly_report has still to write           *)
  page,    (* the tables on the page so far                                 *)
  pages    (* the all-items pages: table -> rows                            *)

htmlVars == <<todo, page, pages>>

-----------------------------------------------------------------------------
(* The tables to write, in the order of the page.                          *)
Configured(table) == IF config.ntop[table] > 0 THEN <<table>> ELSE <<>>

write_url_report == Configured("urls") \o Configured("urlsK") \o
                    Configured("entry") \o Configured("exit")
write_download_report   == Configured("downloads")
write_error_report      == Configured("errors")
write_host_report       == Configured("hosts") \o Configured("hostsK")
write_referrer_report   == Configured("referrers")
write_search_report     == Configured("search")
write_user_report       == Configured("users")
write_user_agent_report == Configured("agents")
write_country_report    == Configured("countries")
write_city_report       == IF config.geoip_city THEN Configured("cities") ELSE <<>>
write_asn_report        == IF config.asn_db THEN Configured("asn") ELSE <<>>

MonthlyReport ==
  (IF "monthly" \in config.stats THEN <<"monthly">> ELSE <<>>)
  \o (IF "daily" \in config.stats \cup config.graphs THEN <<"daily">> ELSE <<>>)
  \o (IF "hourly" \in config.stats \cup config.graphs THEN <<"hourly">> ELSE <<>>)
  \o write_url_report
  \o (IF config.squid THEN write_search_report ELSE <<>>)
  \o write_download_report \o write_error_report \o write_host_report
  \o write_asn_report \o write_referrer_report
  \o (IF config.squid THEN <<>> ELSE write_search_report)
  \o write_user_report \o write_user_agent_report
  \o write_country_report \o write_city_report

(* The menu at the top of the page: the anchors that it links to.          *)
ByTransfer == [urls |-> "urlsK", hosts |-> "hostsK"]

month_links ==
  LET On(t) == config.ntop[t] > 0
  IN  {t \in {"entry", "exit", "countries"} : On(t)}
      \cup {t \in {"urls", "hosts"} : On(t) \/ On(ByTransfer[t])}
      \cup {t \in {"search"} : On(t) /\ SearchHits > 0}
      \cup {t \in {"downloads", "errors", "referrers", "users", "agents"} :
              On(t) /\ Total(t) > 0}
      \cup {t \in {"asn"} : On(t) /\ config.asn_db}
      \cup {t \in {"cities"} : On(t) /\ config.geoip_city}
      \cup {t \in {"daily", "hourly"} : t \in config.stats \cup config.graphs}

(* A table of the page: the anchor it puts on the page, its rows and the   *)
(* all-items page it links to. None stands for no anchor and no link.      *)
None == "none"

HtmlInit == todo = <<>> /\ page = <<>> /\ pages = <<>>

(* write_monthly_report writes the page anew, and gives up if it cannot    *)
(* open it.                                                                *)
write_monthly_report ==
  /\ \/ todo' = MonthlyReport /\ page' = <<>>
     \/ "page" \in MayFail /\ UNCHANGED <<todo, page>>
  /\ UNCHANGED pages

-----------------------------------------------------------------------------
(* A table returns before it writes anything.                              *)
NoTable == todo' = Tail(todo) /\ UNCHANGED <<page, pages>>

Table(name, anchor, rows) ==
  /\ todo' = Tail(todo)
  /\ page' = Append(page, [name |-> name, anchor |-> anchor, rows |-> rows, link |-> None])
  /\ UNCHANGED pages

(* A table that links to a page with all items, if the page could be       *)
(* opened.                                                                 *)
TableAndPage(name, rows, kind, all) ==
  \/ /\ todo' = Tail(todo)
     /\ page' = Append(page, [name |-> name, anchor |-> kind, rows |-> rows, link |-> kind])
     /\ pages' = [k \in DOMAIN pages \cup {kind} |-> IF k = kind THEN all ELSE pages[k]]
  \/ /\ kind \in MayFail
     /\ Table(name, kind, rows)

(* All items are written to a page only if the table is full.              *)
(* Variant for mutation: groups are not counted.                           *)
ViewAllWithoutGroups(kind, rows, ntop) ==
  kind \in config.all /\ Len(rows) = ntop /\ Total(kind) > ntop

ViewAll(kind, rows, ntop) ==
  /\ kind \in config.all
  /\ Len(rows) = ntop
  /\ Total(kind) + GroupTotal(kind) > ntop

(* Variant for mutation: bundled groups are listed again.                  *)
TwiceBundled(kind, field, bundled, ntop) ==
  Take(bundled \o IndexOf(kind, field, Visible(kind)), ntop)

(* The rows of a table of regular items and groups: if groups are bundled  *)
(* they come first, from an index of their own.                            *)
TopRows(kind, field, bundled, ntop) ==
  LET shown == {n \in Visible(kind) : n.grp => ~config.bundle_groups}
  IN  Take(bundled \o IndexOf(kind, field, shown), ntop)

Bundled(kind, field) == IF config.bundle_groups THEN GroupsOf(kind, field) ELSE <<>>

(* An all-items page has the groups first, whether bundled or not.         *)
GroupsThenRegular(kind, field) ==
  GroupsOf(kind, field) \o IndexOf(kind, field, Visible(kind) \cap Regulars(kind))

AllItems(kind, field) == IndexOf(kind, field, database[kind])
-----------------------------------------------------------------------------
all_urls_page   == GroupsThenRegular("urls", "hits")
all_hosts_page  == GroupsThenRegular("hosts", "hits")
all_refs_page   == GroupsThenRegular("referrers", "hits")
all_agents_page == GroupsThenRegular("agents", "visits")
all_users_page  == GroupsThenRegular("users", "hits")
all_downloads_page == AllItems("downloads", "xfer")
all_errors_page    == AllItems("errors", "hits")
all_search_page    == AllItems("search", "hits")

(* Which of the two tables of a kind has the anchor and the link.          *)
(* Variant for mutation: never the table by transfer.                      *)
NotByTransfer(kind, flag) == ~flag

Leads(kind, flag) == ~flag \/ config.ntop[kind] = 0

(* URLs by hits or by transfer: the second table has an anchor and a link  *)
(* only if the first one is not configured.                                *)
top_urls_table(flag) ==
  LET name == IF flag THEN "urlsK" ELSE "urls"
      field == IF flag THEN "xfer" ELSE "hits"
      ntop == config.ntop[name]
      rows == TopRows("urls", field, Bundled("urls", field), ntop)
  IN  /\ todo # <<>> /\ Head(todo) = name
      /\ IF Total("urls") = 0 \/ rows = <<>> THEN NoTable
         ELSE IF ~Leads("urls", flag) THEN Table(name, None, rows)
         ELSE IF ViewAll("urls", rows, ntop)
              THEN TableAndPage(name, rows, "urls", all_urls_page)
         ELSE Table(name, "urls", rows)

(* Hosts by hits or by transfer. Groups are bundled only in the first.     *)
top_hosts_table(flag) ==
  LET name == IF flag THEN "hostsK" ELSE "hosts"
      ntop == config.ntop[name]
      rows == IF flag THEN TopRows("hosts", "xfer", <<>>, ntop)
                      ELSE TopRows("hosts", "hits", Bundled("hosts", "hits"), ntop)
  IN  /\ todo # <<>> /\ Head(todo) = name
      /\ IF Total("hosts") = 0 \/ rows = <<>> THEN NoTable
         ELSE IF ~Leads("hosts", flag) THEN Table(name, None, rows)
         ELSE IF ViewAll("hosts", rows, ntop)
              THEN TableAndPage(name, rows, "hosts", all_hosts_page)
         ELSE Table(name, "hosts", rows)

(* Entry and exit pages: as many rows as there are unique entry or exit    *)
(* URLs, without groups and hidden URLs.                                   *)
top_entry_table(flag) ==
  LET name == IF flag THEN "exit" ELSE "entry"
      shown == {n \in Visible("urls") : ~n.grp /\ n[name] > 0}
      limit == IF UrlsWith(name) > config.ntop[name] THEN config.ntop[name] ELSE UrlsWith(name)
      rows == Take(IndexOf("urls", name, shown), limit)
  IN  /\ todo # <<>> /\ Head(todo) = name
      /\ IF Total("urls") = 0 \/ UrlsWith(name) = 0 \/ rows = <<>> THEN NoTable
         ELSE Table(name, name, rows)

(* Referrers, user agents and users are written alike, by their own index. *)
TopTable(kind, field, all) ==
  LET ntop == config.ntop[kind]
      rows == TopRows(kind, field, Bundled(kind, field), ntop)
  IN  /\ todo # <<>> /\ Head(todo) = kind
      /\ IF Total(kind) = 0 \/ rows = <<>> THEN NoTable
         ELSE IF ViewAll(kind, rows, ntop) THEN TableAndPage(kind, rows, kind, all)
         ELSE Table(kind, kind, rows)

top_refs_table   == TopTable("referrers", "hits", all_refs_page)
top_agents_table == TopTable("agents", "visits", all_agents_page)
top_users_table  == TopTable("users", "hits", all_users_page)

(* Downloads, errors and search strings are neither grouped nor hidden.    *)
PlainTable(kind, field, empty, all) ==
  LET ntop == config.ntop[kind]
      rows == Take(AllItems(kind, field), ntop)
  IN  /\ todo # <<>> /\ Head(todo) = kind
      /\ IF empty THEN NoTable
         ELSE IF ViewAll(kind, rows, ntop) THEN TableAndPage(kind, rows, kind, all)
         ELSE Table(kind, kind, rows)

top_dl_table  == PlainTable("downloads", "xfer", Total("downloads") = 0, all_downloads_page)
top_err_table == PlainTable("errors", "hits", Total("errors") = 0, all_errors_page)
top_search_table == PlainTable("search", "hits", SearchHits = 0 \/ Total("search") = 0,
                               all_search_page)

(* Countries with hits; the table of country names is never empty, so that *)
(* the report is always written.                                           *)
top_ctry_table ==
  LET active == Cardinality({n \in database["countries"] : n.hits > 0})
      limit == IF active > config.ntop["countries"] THEN config.ntop["countries"] ELSE active
  IN  /\ todo # <<>> /\ Head(todo) = "countries"
      /\ Table("countries", "countries", Take(AllItems("countries", "visits"), limit))

(* Cities and autonomous systems are skipped, with their number, if they   *)
(* have no hits.                                                           *)
ActiveTable(kind) ==
  LET top == Take(AllItems(kind, "visits"), config.ntop[kind])
  IN  /\ todo # <<>> /\ Head(todo) = kind
      /\ Table(kind, kind, IndexOf(kind, "visits", {n \in ToSet(top) : n.hits # 0}))

top_city_table == ActiveTable("cities")
top_asn_table  == ActiveTable("asn")

-----------------------------------------------------------------------------
(* Totals of the month, its days and its hours. The section of days and    *)
(* that of hours is there if either its chart or its table is.             *)
MonthSections ==
  LET When(condition, name) == IF condition THEN <<name>> ELSE <<>>
  IN  <<"totals">>
      \o When(config.filters, "humans")
      \o When(config.filters /\ config.targets, "converted")
      \o When(config.filters /\ totals.t_hvisits_end > 0, "human visits")
      \o When(totals.t_rhits > 0, "robots")
      \o When(totals.t_spmhits > 0, "spammers")
      \o When(totals.m_hitptime > 0, "timing")
      \o <<"averages">>
      \o When(totals.t_visits > 0, "visits")
      \o <<"codes">>

month_total_table ==
  /\ todo # <<>> /\ Head(todo) = "monthly"
  /\ Table("monthly", None, MonthSections)

daily_total_table ==
  /\ todo # <<>> /\ Head(todo) = "daily"
  /\ Table("daily", "daily", IF "daily" \in config.stats THEN ReportedDays ELSE <<>>)

hourly_total_table ==
  /\ todo # <<>> /\ Head(todo) = "hourly"
  /\ Table("hourly", "hourly", IF "hourly" \in config.stats
                              THEN [i \in 1 .. 24 |-> i - 1] ELSE <<>>)

(* Variant for mutation: a month that starts with a Sunday has no day 0.   *)
JsNoSunday(wday, last_day) ==
  UNION {IF i < last_day THEN {i, i + 1} ELSE {i} :
           i \in {j \in 1 .. last_day : j % 7 = (7 - wday) % 7}}

(* The weekends of the daily chart: every seven days from the Saturday     *)
(* (day 0 if the month starts with a Sunday), both days if both are in the *)
(* month. wday is the day of the week of day 1, Monday is 1 (wday_iso).    *)
JsWeekends(wday, last_day) ==
  LET saturdays == {i \in 0 .. last_day : i % 7 = (7 - wday) % 7 /\ i >= 7 - wday}
  IN  UNION {IF i > 0 /\ i < last_day THEN {i, i + 1}
             ELSE {IF i = 0 THEN i + 1 ELSE i} : i \in saturdays}

NextTable ==
  \/ month_total_table \/ daily_total_table \/ hourly_total_table
  \/ \E flag \in BOOLEAN :
       top_urls_table(flag) \/ top_entry_table(flag) \/ top_hosts_table(flag)
  \/ top_dl_table \/ top_err_table \/ top_search_table
  \/ top_refs_table \/ top_agents_table \/ top_users_table
  \/ top_ctry_table \/ top_city_table \/ top_asn_table
=============================================================================
