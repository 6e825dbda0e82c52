----------------------------- MODULE JsonOutput -----------------------------
(***************************************************************************)
(* The JSON report (json_output.cpp): a file with the totals of the month  *)
(* and a file per table, with all its items, groups and hidden items       *)
(* included, in the order of their identifiers.                            *)
(*                                                                         *)
(* A JSON text is the sequence of its braces, written "(" and ")", its     *)
(* brackets and its commas, written "+"; a member or an element without    *)
(* structure is "m".                                                       *)
(***************************************************************************)
EXTENDS ReportIndexes

CONSTANTS
  NodeIds,      (* node IDs that an identifier has room for, 2^47           *)
  GeonameIds,   (* values of the part of a city's node ID below its country *)
                (* code, 2^32                                               *)
  CharIds,      (* values of a character of the code in a node ID, 2^16     *)
  LetterIds,    (* values of a letter of the code in a compact one, 2^5     *)
  FirstLetter   (* the character "a"                                        *)

VARIABLES
  steps,    (* files that write_monthly_report has still to write           *)
  json      (* the files: a text, or the items of a table                    *)

jsonVars == <<steps, json>>

When(condition, text) == IF condition THEN text ELSE <<>>

(* The loop that all arrays are written by: a comma before all elements    *)
(* but the first.                                                          *)
Array(n) ==
  LET text[i \in 0 .. n] ==
        IF i = 0 THEN <<"[">> ELSE text[i - 1] \o When(i > 1, <<"+">>) \o <<"(", "m", ")">>
  IN  text[n] \o <<"]">>

(* Year, month (four bits) and node ID in one number; a node ID with more  *)
(* bits than are left for it is reported and spoils the month.             *)
get_json_id(year, month, node_id) ==
  (year * 16 + month) * NodeIds + node_id

(* The node ID of a city is too large for that: it has a country code of   *)
(* two characters above a geoname ID, or no country. The code is packed    *)
(* into five bits per letter.                                              *)
Country(nodeid) == nodeid \div GeonameIds
Letter(char) == char - FirstLetter + 1

compact_nodeid(nodeid) ==
  LET first == Letter(Country(nodeid) \div CharIds)
      second == Letter(Country(nodeid) % CharIds)
  IN  IF Country(nodeid) = 0
      THEN nodeid
      ELSE (first * LetterIds + second) * GeonameIds + (nodeid % GeonameIds)

(* The _id that an item of a table has in the report of a month            *)
ItemId(k, year, month, n) ==
  get_json_id(year, month, IF k = "cities" THEN compact_nodeid(n.nodeid) ELSE n.nodeid)

-----------------------------------------------------------------------------
(* The totals of the month. Sections are left out if there is nothing to   *)
(* report in them.                                                         *)
Humans ==
  <<"(", "m", "+">>
  \o When(config.targets, <<"(", "m", ")", "+">>)
  \o When(totals.t_hvisits_end > 0,
          <<"(", "m">> \o When(totals.t_visits_conv > 0, <<"+", "m">>) \o <<")">>)
  \o <<")", "+">>

Averages ==
  <<"(", "(", "m", ")", "+", "(", "m", ")", "+">>
  \o When(totals.t_visits > 0,
          <<"(", "m">> \o When(totals.t_visits_conv > 0, <<"+", "m">>) \o <<")">>)
  \o <<")", "+">>

Usage ==
  <<"(", "m", "+", "(", "m", ")", "+">>
  \o When(config.filters, Humans)
  \o When(totals.t_rhits > 0, <<"(", "m", ")", "+">>)
  \o When(totals.t_spmhits > 0, <<"(", "m", ")", "+">>)
  \o Averages
  \o <<"(">> \o When(totals.m_hitptime > 0, <<"(", "m", ")", "+">>)
  \o Array(totals.responses) \o <<")", ")">>

JsonInit == steps = <<>> /\ json = [f \in Kind \cup {"usage", "daily", "hourly"} |-> <<>>]

write_monthly_report ==
  /\ steps' = <<"usage", "daily", "hourly", "downloads", "urls", "errors", "hosts",
                "referrers", "search", "users", "agents", "countries", "cities", "asn">>
  /\ UNCHANGED json

-----------------------------------------------------------------------------
(* A file that cannot be opened is left out.                               *)
File(name, content) ==
  /\ steps # <<>> /\ Head(steps) = name
  /\ steps' = Tail(steps)
  /\ \/ json' = [json EXCEPT ![name] = content]
     \/ name \in MayFail /\ UNCHANGED json

dump_totals == File("usage", Usage)

(* The file of days is left empty if the month is not in the history.      *)
dump_daily  == File("daily", When(totals.lday > 0, Array(Len(ReportedDays))))
dump_hourly == File("hourly", Array(24))

dump_all_hosts     == File("hosts", Forward("hosts"))
dump_all_urls      == File("urls", Forward("urls"))
dump_all_refs      == File("referrers", Forward("referrers"))
dump_all_downloads == File("downloads", Forward("downloads"))
dump_all_errors    == File("errors", Forward("errors"))
dump_all_agents    == File("agents", Forward("agents"))
dump_all_users     == File("users", Forward("users"))
dump_all_search    == File("search", Forward("search"))
dump_all_cities    == File("cities", Forward("cities"))
dump_all_asn       == File("asn", Forward("asn"))
dump_all_countries == File("countries", Forward("countries"))

NextFile ==
  \/ dump_totals \/ dump_daily \/ dump_hourly
  \/ dump_all_hosts \/ dump_all_urls \/ dump_all_refs \/ dump_all_downloads
  \/ dump_all_errors \/ dump_all_agents \/ dump_all_users \/ dump_all_search
  \/ dump_all_cities \/ dump_all_asn \/ dump_all_countries
=============================================================================
