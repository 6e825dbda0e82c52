------------------------------ MODULE Reports ------------------------------
(***************************************************************************)
(* The reports of a month: the output engines that the configuration asks  *)
(* for, and what each of them writes about the same items. The items and   *)
(* the configuration do not change while reports are written.              *)
(***************************************************************************)
EXTENDS HtmlReport

CONSTANTS          (* of JsonOutput, with the sizes of identifiers           *)
  NodeIds, GeonameIds, CharIds, LetterIds, FirstLetter

ASSUME IdsAssumption == {NodeIds, GeonameIds, CharIds, LetterIds, FirstLetter} \subseteq Nat \ {0}

VARIABLES dumps, tsv, steps, json,
  output,    (* engines that have still to write their report              *)
  writing    (* the engine that is writing, or None                        *)

Tsv  == INSTANCE DumpOutput
Json == INSTANCE JsonOutput

vars == <<config, database, totals, todo, page, pages, dumps, tsv, steps, json, output, writing>>

(* Engines are set up in the order of the formats; unknown ones are        *)
(* reported and ignored.                                                   *)
init_output_engines == Selected(config.formats, {"html", "tsv", "json"})

Starts ==
  /\ HtmlInit /\ Tsv!DumpInit /\ Json!JsonInit
  /\ output = init_output_engines
  /\ writing = None

(* write_monthly_report of the main program: one engine after the other.   *)
write_report ==
  /\ writing = None /\ output # <<>>
  /\ writing' = Head(output) /\ output' = Tail(output)
  /\ IF Head(output) = "html" THEN write_monthly_report ELSE UNCHANGED htmlVars
  /\ IF Head(output) = "tsv" THEN Tsv!write_monthly_report ELSE UNCHANGED <<dumps, tsv>>
  /\ IF Head(output) = "json" THEN Json!write_monthly_report ELSE UNCHANGED <<steps, json>>

Engine ==
  \/ writing = "html" /\ NextTable /\ UNCHANGED <<dumps, tsv, steps, json>>
  \/ writing = "tsv" /\ Tsv!NextDump /\ UNCHANGED <<todo, page, pages, steps, json>>
  \/ writing = "json" /\ Json!NextFile /\ UNCHANGED <<todo, page, pages, dumps, tsv>>

Written ==
  /\ writing # None /\ todo = <<>> /\ dumps = <<>> /\ steps = <<>>
  /\ writing' = None
  /\ UNCHANGED <<todo, page, pages, dumps, tsv, steps, json, output>>

Next ==
  /\ \/ write_report
     \/ Engine /\ UNCHANGED <<output, writing>>
     \/ Written
  /\ UNCHANGED <<config, database, totals>>

(* The reports of one month, whatever it has and however it is configured. *)
Reporting == Starts /\ [][Next]_vars

(* A month and a configuration: items have node IDs and counters, groups   *)
(* are made of other items, only some kinds have groups or hiding patterns *)
(* and only some have an option for a page of all items.                   *)
ReportInput ==
  /\ config.formats \in Seq(STRING)
  /\ config.all \subseteq Kind \ {"countries", "cities", "asn"}
  /\ \A name \in Kind \cup {"urlsK", "hostsK"} : config.ntop[name] \in Nat
  /\ \A k \in Kind :
       /\ IsFiniteSet(database[k])
       /\ \A n \in database[k] :
            /\ n.nodeid \in Nat /\ n.hits \in Nat /\ n.xfer \in Nat /\ n.visits \in Nat
            /\ n.grp \in BOOLEAN
            /\ n.grp \/ n.hidden => k \in Grouped
            /\ n.grp => \E m \in database[k] : ~m.grp
       /\ \A n, m \in database[k] : n.nodeid = m.nodeid => n = m

-----------------------------------------------------------------------------
Done == writing = None /\ output = <<>>

Tables == ToSet(page)
Rows(table) == ToSet(table.rows)

(* The tables that list the items of a kind in full, up to their size.     *)
ListOf(k) == {k} \cup (IF k \in DOMAIN ByTransfer THEN {ByTransfer[k]} ELSE {})
Listed(table) == \E k \in Kind : table.name \in ListOf(k)

KindOf(name) ==
  CASE name = "urlsK" -> "urls" [] name = "hostsK" -> "hosts" [] OTHER -> name

(* What a reader of the report finds of a kind: the rows of its tables and *)
(* those of the all-items page, if a table links to it.                    *)
Reachable(k) ==
  UNION {Rows(t) \cup (IF t.link = None THEN {} ELSE ToSet(pages[t.link])) :
           t \in {u \in Tables : u.name \in ListOf(k)}}

(* Bundled groups of hosts are not in the table by transfer, though README *)
(* says that groups cannot be hidden (README.md:2764).                     *)
GroupsLeftOut(k, n) ==
  k = "hosts" /\ n.grp /\ config.bundle_groups /\ config.ntop["hosts"] = 0

Wanted(k) == {n \in Visible(k) : n.hits > 0 /\ ~GroupsLeftOut(k, n)}

(* Every item that is not hidden can be found: with a page of all items    *)
(* configured (AllSites, AllURLs, ...), a table either has all of them or  *)
(* links to that page. If only the table by transfer is configured this is *)
(* its task.                                                               *)
AllVisibleReachable ==
  Done /\ page # <<>> =>
    \A k \in config.all :
      (\E name \in ListOf(k) : config.ntop[name] > 0) /\ k \notin MayFail
        => Wanted(k) \subseteq Reachable(k)

(* The order of a table: groups first if they are bundled.                 *)
Field(name) ==
  CASE name \in {"urlsK", "hostsK", "downloads"} -> "xfer"
    [] name \in {"agents", "countries", "cities", "asn"} -> "visits"
    [] OTHER -> "hits"

Above(name, a, b) ==
  IF config.bundle_groups /\ a.grp # b.grp THEN a.grp
  ELSE Outranks(KindOf(name), Field(name), a, b)

TopOfList(name, rows) ==
  /\ \A i, j \in DOMAIN rows : i < j => Above(name, rows[i], rows[j])
  /\ \A a \in Visible(KindOf(name)) \ ToSet(rows), b \in ToSet(rows) :
       a.hits > 0 /\ ~(name = "hostsK" /\ config.bundle_groups /\ a.grp) => Above(name, b, a)
  /\ Len(rows) <= config.ntop[name]
  /\ ToSet(rows) \subseteq Visible(KindOf(name))

(* A table shows the top of its list, and nothing that is shown is         *)
(* outranked by a visible item that is not.                                *)
TopIsTop == \A t \in Tables : Listed(t) => TopOfList(t.name, t.rows)

(* Links lead somewhere: the items of a table are on the page that it      *)
(* links to, there is exactly one anchor for the tables of a kind, and the *)
(* menu at the top of the page has every anchor. (Not every link of the    *)
(* menu has an anchor: a table without rows is left out.)                  *)
LinksLead ==
  /\ \A t \in Tables : t.link # None =>
       t.link \in DOMAIN pages /\ Rows(t) \subseteq ToSet(pages[t.link])
  /\ \A i \in DOMAIN page : Listed(page[i]) =>
       Cardinality({j \in DOMAIN page : page[j].anchor = KindOf(page[i].name)}) = 1
  /\ \A i, j \in DOMAIN page : page[i].anchor = page[j].anchor /\ page[i].anchor # None => i = j
  /\ Done /\ page # <<>> => {page[i].anchor : i \in DOMAIN page} \ {None} \subseteq month_links

(* The engines agree: what the HTML report shows of a table is in the      *)
(* other reports, the tab-separated file has the JSON items without their  *)
(* groups, and no two JSON items of a file have the same _id.              *)
EnginesAgree ==
  Done =>
    \A k \in Kind \ MayFail :
      LET items == ToSet(tsv[k])  objects == ToSet(json[k])
          both == {"tsv", "json"} \subseteq ToSet(config.formats) /\ k \in config.dump
      IN  /\ "json" \in ToSet(config.formats) => Reachable(k) \subseteq objects
          /\ both => items = {n \in objects : ~n.grp}
          /\ Len(tsv[k]) = Cardinality(items) /\ Len(json[k]) = Cardinality(objects)
          /\ \A n, m \in objects, month1, month2 \in {1, 2, 12}, year1, year2 \in {1, 2} :
               Json!ItemId(k, year1, month1, n) = Json!ItemId(k, year2, month2, m)
                 => n = m /\ month1 = month2 /\ year1 = year2

(* Elements, commas and brackets of a JSON text are where they may be.     *)
Element == {"m", "(", "["}
WellFormed(text) ==
  \A i \in 1 .. Len(text) - 1 :
    CASE text[i] \in {"m", ")", "]"} -> text[i + 1] \in {"+", ")", "]"}
      [] text[i] = "+"               -> text[i + 1] \in Element
      [] OTHER                       -> text[i + 1] \in Element \cup {")", "]"}

(* Every day with hits is reported, by all engines, the days that the      *)
(* daily table shows as weekends are those of the daily chart, and the     *)
(* JSON totals are well-formed, unless no visit of a person has ended.     *)
DaysReported ==
  /\ \A t \in Tables : t.name = "daily" /\ "daily" \in config.stats =>
       /\ {d \in 1 .. totals.lday : totals.days[d] > 0} \subseteq Rows(t)
       /\ json["daily"] # <<>> =>
            Cardinality({i \in DOMAIN json["daily"] : json["daily"][i] = "m"}) = Len(t.rows)
       /\ \A wday \in 1 .. 7, last \in 28 .. 31 :
            JsWeekends(wday, last) = {d \in 1 .. last : Weekend(wday % 7, d)}
  /\ WellFormed(json["daily"]) /\ WellFormed(json["hourly"])
  /\ totals.t_hvisits_end > 0 => WellFormed(json["usage"])
=============================================================================
