----------------------------- MODULE DumpOutput -----------------------------
(***************************************************************************)
(* The tab-separated report (dump_output.cpp): a file per table that is    *)
(* configured (DumpURLs, ...), with all its items except groups, hidden    *)
(* ones included, in the order of a report.                                *)
(***************************************************************************)
EXTENDS ReportIndexes

VARIABLES
  dumps,   (* tables that write_monthly_report has still to dump            *)
  tsv      (* the files: table -> items                                     *)

dumpVars == <<dumps, tsv>>

DumpInit == dumps = <<>> /\ tsv = [k \in Kind |-> <<>>]

write_monthly_report ==
  /\ dumps' = Selected(<<"downloads", "urls", "errors", "hosts", "referrers", "search",
                         "users", "agents", "countries", "cities", "asn">>, config.dump)
  /\ UNCHANGED tsv

-----------------------------------------------------------------------------
(* A file that cannot be opened is left out.                               *)
Dump(kind, items) ==
  /\ dumps # <<>> /\ Head(dumps) = kind
  /\ dumps' = Tail(dumps)
  /\ \/ tsv' = [tsv EXCEPT ![kind] = items]
     \/ kind \in MayFail /\ UNCHANGED tsv

dump_all_hosts     == Dump("hosts", IndexOf("hosts", "hits", Regulars("hosts")))
dump_all_urls      == Dump("urls", IndexOf("urls", "hits", Regulars("urls")))
(* Variant for mutation: groups are dumped.                                *)
RefsWithGroups     == Dump("referrers", IndexOf("referrers", "hits", database["referrers"]))
dump_all_refs      == Dump("referrers", IndexOf("referrers", "hits", Regulars("referrers")))
dump_all_downloads == Dump("downloads", IndexOf("downloads", "xfer", database["downloads"]))
dump_all_errors    == Dump("errors", IndexOf("errors", "hits", database["errors"]))
dump_all_agents    == Dump("agents", IndexOf("agents", "hits", Regulars("agents")))
dump_all_users     == Dump("users", IndexOf("users", "hits", Regulars("users")))
dump_all_search    == Dump("search", IndexOf("search", "hits", database["search"]))
dump_all_cities    == Dump("cities", IndexOf("cities", "visits", database["cities"]))
dump_all_asn       == Dump("asn", IndexOf("asn", "visits", database["asn"]))
dump_all_countries == Dump("countries", IndexOf("countries", "visits", database["countries"]))

NextDump ==
  \/ dump_all_hosts \/ dump_all_urls \/ dump_all_refs \/ dump_all_downloads
  \/ dump_all_errors \/ dump_all_agents \/ dump_all_users \/ dump_all_search
  \/ dump_all_cities \/ dump_all_asn \/ dump_all_countries
=============================================================================
