---------------------------- MODULE StateEngine ----------------------------
(***************************************************************************)
(* The monthly state of the log processor: the host, URL and download      *)
(* tables that webalizer_t fills from log records, the state database      *)
(* behind them (state_t, preserve.cpp), and what moves nodes between the   *)
(* two: loading a node when it is seen again, swapping old nodes out,      *)
(* saving the state at the end of a run, restoring it at the start of the  *)
(* next one, and rolling the database over at the end of a month.          *)
(*                                                                         *)
(* One application thread does all of it. A log record takes three steps   *)
(* (host, URL, download), the end of a month or of a run takes four        *)
(* (visits, downloads, save, clear); pc is the next one.                   *)
(*                                                                         *)
(* Runs are incremental. Of a node the module keeps what decides its way   *)
(* between memory and the database and one counter that must survive it.   *)
(* Hosts are resolved at once (HostPipeline has the DNS resolver).         *)
(***************************************************************************)
EXTENDS Integers, FiniteSets, Functions

CONSTANTS
  Host, Url,        (* IP addresses, URL paths                             *)
  NoUrl,            (* lasturl is nullptr                                  *)
  Kind,             (* log records in play: "page", "download", "error"    *)
  VisitTimeout,     (* config.visit_timeout                                *)
  DownloadTimeout,  (* config.download_timeout                             *)
  MaxVisitLength,   (* config.max_visit_length, 0 for none                 *)
  CanInterrupt,     (* Ctrl-C may end the last run of a month              *)
  MonthLength,      (* time units in a month                               *)
  MaxTime,          (* bound: last time stamp of the logs                  *)
  MaxHits           (* bound: log records in a month                       *)

ASSUME StateAssumption ==
  /\ IsFiniteSet(Host) /\ IsFiniteSet(Url) /\ NoUrl \notin Url
  /\ Kind \subseteq {"page", "download", "error"}
  /\ VisitTimeout \in Nat \ {0} /\ DownloadTimeout \in Nat \ {0}
  /\ MaxVisitLength \in Nat
  /\ CanInterrupt \in BOOLEAN
  /\ MonthLength \in Nat \ {0} /\ MaxTime \in Nat /\ MaxHits \in Nat

VARIABLES
  pc,        (* next step of proc_logfile or end_month                     *)
  why,       (* what ends: a month, a run, the last run of a month, or a   *)
             (* month by --end-month                                       *)
  rec,       (* the log record being processed                             *)
  good,      (* total_good > 0                                             *)
  hm_htab,   (* hosts in memory                                            *)
  visit,     (* hosts' active visits                                       *)
  um_htab,   (* URLs in memory                                             *)
  dl_htab,   (* download jobs in memory, one per host                      *)
  download,  (* their active downloads                                     *)
  v_ended, dl_ended,  (* ended visits and downloads to delete on save      *)
  totals,    (* state.totals                                               *)
  db,        (* the state database                                         *)
  error      (* message of the exception that ended the run                *)

memVars == <<hm_htab, visit, um_htab, dl_htab, download, v_ended, dl_ended, totals>>
vars == <<pc, why, rec, good, memVars, db, error>>

NoTime == -1      (* a null time stamp                                     *)
Time == 0 .. MaxTime
Month(t) == t \div MonthLength

Record == [host : Host, tstamp : Time, kind : Kind, url : Url]
NoRecord == [tstamp |-> NoTime]

ZeroTotals == [cur_tstamp |-> NoTime, t_hit |-> 0, t_visits |-> 0, t_visits_end |-> 0,
               t_exit |-> 0, u_exit |-> 0, t_dlcount |-> 0]

Table(K, R) == UNION {[S -> R] : S \in SUBSET K}
Empty == [x \in {} |-> x]
Put(table, k, node) == [x \in DOMAIN table \cup {k} |-> IF x = k THEN node ELSE table[x]]
Remove(table, S) == Restrict(table, DOMAIN table \ S)

(* A database after database_t::open made or truncated it: no totals means *)
(* no system node.                                                         *)
NewDb == [totals |-> ZeroTotals, hosts |-> Empty, visits |-> Empty, urls |-> Empty,
          downloads |-> Empty, active_downloads |-> Empty]

Init ==
  /\ pc = "off" /\ why = "run" /\ good = FALSE
  /\ rec = NoRecord
  /\ hm_htab = Empty /\ visit = Empty /\ um_htab = Empty
  /\ dl_htab = Empty /\ download = Empty
  /\ v_ended = [h \in Host |-> 0] /\ dl_ended = [h \in Host |-> 0]
  /\ totals = ZeroTotals
  /\ db = NewDb
  /\ error = "none"

-----------------------------------------------------------------------------
(* Ending visits and downloads                                             *)

(* update_visit: visit v is over at time t. The variant is late, and knows *)
(* no maximum length.                                                      *)
LateVisitOver(v, t) == t = NoTime \/ t - v.end > VisitTimeout

VisitOver(v, t) ==
  \/ t = NoTime
  \/ t - v.end >= VisitTimeout
  \/ MaxVisitLength > 0 /\ v.end - v.start >= MaxVisitLength

LastUrlOf(S, u) == {h \in S : visit[h].lasturl = u}

(* end_visit for the hosts of S: what becomes of the tables. The visit of  *)
(* a host is counted in it, its last URL gets an exit, and a visit that    *)
(* came from the database will be deleted there. The variants do not mark  *)
(* the URL as modified and queue every visit for deletion.                 *)
HostsAfter(S) ==
  [h \in DOMAIN hm_htab |->
     IF h \in S THEN [hm_htab[h] EXCEPT !.count = @ + visit[h].hits, !.dirty = TRUE]
                ELSE hm_htab[h]]

CleanUrlsAfter(S) ==
  [u \in DOMAIN um_htab |->
     LET n == Cardinality(LastUrlOf(S, u))
     IN  [um_htab[u] EXCEPT !.exit = @ + n, !.vstref = @ - n]]

UrlsAfter(S) ==
  [u \in DOMAIN um_htab |->
     LET n == Cardinality(LastUrlOf(S, u))
     IN  IF n = 0 THEN um_htab[u]
         ELSE [um_htab[u] EXCEPT !.exit = @ + n, !.vstref = @ - n, !.dirty = TRUE]]

AnyVisitEndedAfter(S) == [h \in Host |-> IF h \in S THEN v_ended[h] + 1 ELSE v_ended[h]]

VisitEndedAfter(S) ==
  [h \in Host |-> IF h \in S /\ visit[h].storage THEN v_ended[h] + 1 ELSE v_ended[h]]

TotalsAfter(S) ==
  [totals EXCEPT
     !.t_visits_end = @ + Cardinality(S),
     !.t_exit = @ + Cardinality({h \in S : visit[h].lasturl # NoUrl}),
     !.u_exit = @ + Cardinality({u \in DOMAIN um_htab :
                                   um_htab[u].exit = 0 /\ LastUrlOf(S, u) # {}})]

(* update_download: download d is over at time t. A null time stamp ends   *)
(* none.                                                                   *)
DownloadOver(d, t) == t # NoTime /\ t - d.tstamp >= DownloadTimeout

(* end_download for the download jobs of S                                 *)
DownloadsAfter(S) ==
  [h \in DOMAIN dl_htab |->
     IF h \in S THEN [dl_htab[h] EXCEPT !.count = @ + 1, !.sumhits = @ + download[h].hits,
                                        !.dirty = TRUE]
                ELSE dl_htab[h]]

DownloadEndedAfter(S) ==
  [h \in Host |-> IF h \in S /\ download[h].storage THEN dl_ended[h] + 1 ELSE dl_ended[h]]

-----------------------------------------------------------------------------
(* One log record                                                          *)

NextMonth(t) == totals.cur_tstamp # NoTime /\ Month(totals.cur_tstamp) # Month(t)

(* A record that was not processed in an earlier run: the first one of a   *)
(* run has to be later than the last one of the run before, the others may *)
(* have the same time stamp. When it is in another month the month is      *)
(* closed: for the first record of a run, if no visit is active, the       *)
(* report of the run before is kept and the database only rolled over.     *)
ReadRecord(r) ==
  /\ pc = "read"
  /\ IF good THEN r.tstamp >= totals.cur_tstamp ELSE r.tstamp > totals.cur_tstamp
  /\ NextMonth(r.tstamp) \/ totals.t_hit < MaxHits
  /\ rec' = r
  /\ good' = TRUE
  /\ \/ ~NextMonth(r.tstamp) /\ pc' = "host" /\ why' = why
     \/ /\ NextMonth(r.tstamp) /\ ~good /\ totals.t_visits = totals.t_visits_end
        /\ pc' = "clear" /\ why' = "month"
     \/ /\ NextMonth(r.tstamp) /\ (good \/ totals.t_visits # totals.t_visits_end)
        /\ pc' = "visits" /\ why' = "month"
  /\ UNCHANGED <<memVars, db, error>>

(* What is left of a run in memory                                         *)
ClearTables ==
  /\ hm_htab' = Empty /\ visit' = Empty /\ um_htab' = Empty
  /\ dl_htab' = Empty /\ download' = Empty
  /\ v_ended' = [h \in Host |-> 0] /\ dl_ended' = [h \in Host |-> 0]

LeaveRun ==
  /\ pc' = "off" /\ why' = "run" /\ rec' = NoRecord /\ good' = FALSE
  /\ ClearTables
  /\ totals' = ZeroTotals

Throw(message) == LeaveRun /\ db' = db /\ error' = message

(* The host node of the record: from memory, from the database, or new     *)
LoadedHost(h) ==
  IF h \in DOMAIN hm_htab THEN HostsAfter({})[h]
  ELSE IF h \in DOMAIN db.hosts
    THEN [count |-> db.hosts[h].count, visits |-> db.hosts[h].visits,
          tstamp |-> NoTime, dirty |-> FALSE, dlref |-> 0]
    ELSE [count |-> 0, visits |-> 0, tstamp |-> NoTime, dirty |-> TRUE, dlref |-> 0]

NewVisit(t) == [hits |-> 1, start |-> t, end |-> t, lasturl |-> NoUrl,
                storage |-> FALSE, dirty |-> TRUE]

(* state_t::set_tstamp and put_hnode, and the hit and visit totals. An     *)
(* active visit that is over ends, and one with this record starts. The    *)
(* variant starts the new visit and forgets the one that is over.          *)
VisitStarts(h, t) == h \in DOMAIN visit => VisitOver(visit[h], t)
ForgottenNow(h, t) == {x \in {h} : FALSE}
EndingNow(h, t) == {x \in {h} \cap DOMAIN visit : VisitOver(visit[x], t)}

PutHNode ==
  LET h == rec.host
      t == rec.tstamp
      S == EndingNow(h, t)
      new == VisitStarts(h, t)
      node == IF h \in DOMAIN hm_htab THEN HostsAfter(S)[h] ELSE LoadedHost(h)
  IN
  /\ pc = "host"
  /\ IF h \notin DOMAIN hm_htab /\ h \in DOMAIN db.hosts /\ db.hosts[h].active
       THEN Throw("new host with an active visit")
       ELSE
         /\ pc' = "url"
         /\ hm_htab' = Put(hm_htab, h, [node EXCEPT !.tstamp = t, !.dirty = TRUE,
                                                    !.visits = IF new THEN @ + 1 ELSE @])
         /\ visit' = Put(visit, h,
                         IF new THEN NewVisit(t)
                                ELSE [visit[h] EXCEPT !.hits = @ + 1, !.end = t, !.dirty = TRUE])
         /\ um_htab' = UrlsAfter(S)
         /\ v_ended' = VisitEndedAfter(S)
         /\ totals' = [TotalsAfter(S) EXCEPT !.cur_tstamp = t, !.t_hit = @ + 1,
                                             !.t_visits = IF new THEN @ + 1 ELSE @]
         /\ UNCHANGED <<why, rec, good, dl_htab, download, dl_ended, db, error>>

LoadedUrl(u) ==
  IF u \in DOMAIN um_htab THEN um_htab[u]
  ELSE [exit |-> IF u \in DOMAIN db.urls THEN db.urls[u].exit ELSE 0,
        vstref |-> 0, tstamp |-> NoTime, dirty |-> TRUE]

(* vnode_t::set_lasturl                                                    *)
LastUrlSet(table, old, u) ==
  [x \in DOMAIN table |->
     [table[x] EXCEPT !.vstref = @ + (IF x = u THEN 1 ELSE 0) - (IF x = old THEN 1 ELSE 0)]]

(* put_unode and, for a page, set_last_url                                 *)
PutUNode ==
  LET u == rec.url
      h == rec.host
      table == Put(um_htab, u, [LoadedUrl(u) EXCEPT !.tstamp = rec.tstamp, !.dirty = TRUE])
  IN
  /\ pc = "url"
  /\ pc' = IF rec.kind = "download" THEN "download" ELSE "swap"
  /\ CASE rec.kind = "error" -> UNCHANGED <<um_htab, visit>>
       [] rec.kind = "download" -> um_htab' = table /\ visit' = visit
       [] rec.kind = "page" -> /\ um_htab' = LastUrlSet(table, visit[h].lasturl, u)
                               /\ visit' = [visit EXCEPT ![h].lasturl = u]
  /\ UNCHANGED <<why, rec, good, hm_htab, dl_htab, download, v_ended, dl_ended, totals, db, error>>

LoadedDownload(h) ==
  IF h \in DOMAIN dl_htab THEN dl_htab[h]
  ELSE IF h \in DOMAIN db.downloads
    THEN [count |-> db.downloads[h].count, sumhits |-> db.downloads[h].sumhits,
          tstamp |-> NoTime, dirty |-> TRUE]
    ELSE [count |-> 0, sumhits |-> 0, tstamp |-> NoTime, dirty |-> TRUE]

(* put_dlnode for the download job of the record's host                    *)
PutDLNode ==
  LET h == rec.host
      t == rec.tstamp
      S == {x \in {h} \cap DOMAIN download : DownloadOver(download[x], t)}
      known == h \in DOMAIN dl_htab
      node == IF known THEN DownloadsAfter(S)[h] ELSE LoadedDownload(h)
      continued == h \in DOMAIN download \ S
  IN
  /\ pc = "download"
  /\ IF ~known /\ h \in DOMAIN db.downloads /\ db.downloads[h].active
       THEN Throw("invalid active download state")
       ELSE
         /\ pc' = "swap"
         /\ dl_htab' = Put(dl_htab, h, [node EXCEPT !.tstamp = t, !.dirty = TRUE])
         /\ download' = Put(download, h,
                            IF continued
                              THEN [download[h] EXCEPT !.hits = @ + 1, !.tstamp = t, !.dirty = TRUE]
                              ELSE [hits |-> 1, tstamp |-> t, storage |-> FALSE, dirty |-> TRUE])
         /\ hm_htab' = IF known THEN hm_htab ELSE [hm_htab EXCEPT ![h].dlref = @ + 1]
         /\ dl_ended' = DownloadEndedAfter(S)
         /\ totals' = [totals EXCEPT !.t_dlcount = @ + Cardinality(S)]
         /\ UNCHANGED <<why, rec, good, visit, um_htab, v_ended, db, error>>

-----------------------------------------------------------------------------
(* state_t::swap_out, which may follow any record: nodes last seen at or   *)
(* before SwapLimit leave memory, oldest first, as many as it takes to be  *)
(* within the limit on memory. Downloads go first, then hosts, then URLs.  *)
(* The variant knows no limit.                                             *)

NoSwapLimit == rec.tstamp
SwapLimit == rec.tstamp - 2 * VisitTimeout

Oldest(table, S, kept) ==
  /\ S \subseteq {x \in DOMAIN table : table[x].tstamp <= SwapLimit} \ kept
  /\ \A x \in S, y \in DOMAIN table \ kept : table[y].tstamp < table[x].tstamp => y \in S

(* A download in progress ends, ...                                        *)
SwapOutDownloads(S) ==
  LET nodes == DownloadsAfter(S \cap DOMAIN download)
      saved == {h \in S : nodes[h].dirty}
  IN
  /\ pc = "swap" /\ pc' = "swap_hosts"
  /\ Oldest(dl_htab, S, {})
  /\ dl_htab' = Remove(dl_htab, S)
  /\ download' = Remove(download, S)
  /\ dl_ended' = DownloadEndedAfter(S \cap DOMAIN download)
  /\ hm_htab' = [h \in DOMAIN hm_htab |->
                   IF h \in S THEN [hm_htab[h] EXCEPT !.dlref = @ - 1] ELSE hm_htab[h]]
  /\ totals' = [totals EXCEPT !.t_dlcount = @ + Cardinality(S \cap DOMAIN download)]
  /\ db' = [db EXCEPT !.downloads =
              [h \in DOMAIN @ \cup saved |->
                 IF h \in saved
                   THEN [count |-> nodes[h].count, sumhits |-> nodes[h].sumhits, active |-> FALSE]
                   ELSE @[h]]]
  /\ UNCHANGED <<why, rec, good, visit, um_htab, v_ended, error>>

(* ... hosts with download jobs in memory stay (eval_hnode_cb), and the    *)
(* visit of one that leaves ends, ...                                      *)
Pinned == {h \in DOMAIN hm_htab : hm_htab[h].dlref > 0}

SwapOutHosts(S) ==
  LET ended == S \cap DOMAIN visit
      nodes == HostsAfter(ended)
      saved == {h \in S : nodes[h].dirty}
  IN
  /\ pc = "swap_hosts" /\ pc' = "swap_urls"
  /\ Oldest(hm_htab, S, Pinned)
  /\ hm_htab' = Remove(hm_htab, S)
  /\ visit' = Remove(visit, S)
  /\ um_htab' = UrlsAfter(ended)
  /\ v_ended' = VisitEndedAfter(ended)
  /\ totals' = TotalsAfter(ended)
  /\ db' = [db EXCEPT !.hosts =
              [h \in DOMAIN @ \cup saved |->
                 IF h \in saved
                   THEN [count |-> nodes[h].count, visits |-> nodes[h].visits, active |-> FALSE]
                   ELSE @[h]]]
  /\ UNCHANGED <<why, rec, good, dl_htab, download, dl_ended, error>>

(* ... and URLs that are the last one of a visit stay (eval_unode_cb). The *)
(* variant forgets that.                                                   *)
NotReferenced == {u \in DOMAIN um_htab : FALSE}
Referenced == {u \in DOMAIN um_htab : um_htab[u].vstref # 0}

SwapOutUrls(S) ==
  /\ pc = "swap_urls" /\ pc' = "read" /\ rec' = NoRecord
  /\ Oldest(um_htab, S, Referenced)
  /\ um_htab' = Remove(um_htab, S)
  /\ LET saved == {u \in S : um_htab[u].dirty}
     IN  db' = [db EXCEPT !.urls =
                  [u \in DOMAIN @ \cup saved |->
                     IF u \in saved THEN [exit |-> um_htab[u].exit] ELSE @[u]]]
  /\ UNCHANGED <<why, good, hm_htab, visit, dl_htab, download, v_ended, dl_ended, totals, error>>

-----------------------------------------------------------------------------
(* The end of a month or of a run                                          *)

(* The log files are read, or Ctrl-C was pressed. Only the last run of a   *)
(* month (--last-log) ends all visits.                                     *)
EndOfLogs ==
  /\ pc = "read" /\ good
  /\ pc' = "visits"
  /\ why' \in {"run", "last"}
  /\ UNCHANGED <<rec, good, memVars, db, error>>

(* update_visits. The variant ends only those that are over.               *)
VisitsTimedOut == {h \in DOMAIN visit : VisitOver(visit[h], totals.cur_tstamp)}

VisitsOver ==
  {h \in DOMAIN visit : VisitOver(visit[h], IF why = "run" THEN totals.cur_tstamp ELSE NoTime)}

UpdateVisits ==
  /\ pc = "visits" /\ pc' = "downloads"
  /\ hm_htab' = HostsAfter(VisitsOver)
  /\ visit' = Remove(visit, VisitsOver)
  /\ um_htab' = UrlsAfter(VisitsOver)
  /\ v_ended' = VisitEndedAfter(VisitsOver)
  /\ totals' = TotalsAfter(VisitsOver)
  /\ UNCHANGED <<why, rec, good, dl_htab, download, dl_ended, db, error>>

(* update_downloads: --end-month passes a null time stamp                  *)
DownloadsOver ==
  {h \in DOMAIN download : DownloadOver(download[h], IF why = "end" THEN NoTime ELSE totals.cur_tstamp)}

UpdateDownloads ==
  /\ pc = "downloads" /\ pc' = "save"
  /\ dl_htab' = DownloadsAfter(DownloadsOver)
  /\ download' = Remove(download, DownloadsOver)
  /\ dl_ended' = DownloadEndedAfter(DownloadsOver)
  /\ totals' = [totals EXCEPT !.t_dlcount = @ + Cardinality(DownloadsOver)]
  /\ UNCHANGED <<why, rec, good, hm_htab, visit, um_htab, v_ended, db, error>>

(* save_state: delete what ended, store what is dirty, clear the tables.   *)
(* The variant stores before it deletes. A failure half way leaves a       *)
(* database that cannot be recovered, as save_state's comment says.        *)
Ended(counts) == {h \in Host : counts[h] > 0}

Dirty(nodes) == {k \in DOMAIN nodes : nodes[k].dirty}

DeletedLastTable(old, ended, nodes, rows) ==
  [k \in (DOMAIN old \cup Dirty(nodes)) \ ended |-> IF k \in Dirty(nodes) THEN rows[k] ELSE old[k]]

SavedTable(old, ended, nodes, rows) ==
  [k \in (DOMAIN old \ ended) \cup Dirty(nodes) |-> IF k \in Dirty(nodes) THEN rows[k] ELSE old[k]]

HostRows ==
  [h \in DOMAIN hm_htab |-> [count |-> hm_htab[h].count, visits |-> hm_htab[h].visits,
                             active |-> h \in DOMAIN visit]]
VisitRows ==
  [h \in DOMAIN visit |-> [hits |-> visit[h].hits, start |-> visit[h].start, end |-> visit[h].end,
                           lasturl |-> visit[h].lasturl]]
UrlRows == [u \in DOMAIN um_htab |-> [exit |-> um_htab[u].exit]]
DownloadRows ==
  [h \in DOMAIN dl_htab |-> [count |-> dl_htab[h].count, sumhits |-> dl_htab[h].sumhits,
                             active |-> h \in DOMAIN download]]
ActiveRows ==
  [h \in DOMAIN download |-> [hits |-> download[h].hits, tstamp |-> download[h].tstamp]]

SavedDb ==
  [totals           |-> totals,
   hosts            |-> SavedTable(db.hosts, {}, hm_htab, HostRows),
   visits           |-> SavedTable(db.visits, Ended(v_ended), visit, VisitRows),
   urls             |-> SavedTable(db.urls, {}, um_htab, UrlRows),
   downloads        |-> SavedTable(db.downloads, {}, dl_htab, DownloadRows),
   active_downloads |-> SavedTable(db.active_downloads, Ended(dl_ended), download, ActiveRows)]

(* Deleting a row that is not there is an error                            *)
CanDelete(counts, table) == \A h \in Host : counts[h] > 0 => counts[h] = 1 /\ h \in DOMAIN table

SaveState ==
  /\ pc = "save"
  /\ IF CanDelete(v_ended, db.visits) /\ CanDelete(dl_ended, db.active_downloads)
       THEN /\ db' = SavedDb
            /\ error' = error
            /\ IF why = "run"
                 THEN LeaveRun
                 ELSE /\ pc' = "clear"
                      /\ ClearTables
                      /\ UNCHANGED <<why, rec, good, totals>>
       ELSE Throw("delete ended visit or download")

(* clear_month: the database gets the name of the month and a new one is   *)
(* opened                                                                  *)
ClearMonth ==
  /\ pc = "clear"
  /\ db' = NewDb
  /\ error' = error
  /\ IF why = "month"
       THEN /\ pc' = "host" /\ why' = "run"
            /\ ClearTables
            /\ totals' = ZeroTotals
            /\ UNCHANGED <<rec, good>>
       ELSE LeaveRun

(* Ctrl-C in the last run of a month: the database is not rolled over.     *)
Interrupted ==
  /\ pc = "clear" /\ why = "last" /\ CanInterrupt
  /\ LeaveRun
  /\ UNCHANGED <<db, error>>

(* No record was good: nothing is saved.                                   *)
Leave ==
  /\ pc = "read" /\ ~good
  /\ LeaveRun
  /\ UNCHANGED <<db, error>>

-----------------------------------------------------------------------------
(* The start of a run                                                      *)

(* restore_state: active visits with their hosts and last URLs, then       *)
(* active downloads with their download jobs, whose hosts have to be there *)
Restorable ==
  /\ \A h \in DOMAIN db.visits :
       /\ h \in DOMAIN db.hosts /\ db.hosts[h].active
       /\ db.visits[h].lasturl # NoUrl => db.visits[h].lasturl \in DOMAIN db.urls
  /\ \A h \in DOMAIN db.active_downloads : h \in DOMAIN db.downloads /\ h \in DOMAIN db.hosts

HostsOfDownloads == DOMAIN db.active_downloads

RestoreState ==
  LET at == db.totals.cur_tstamp
      lasturls == {db.visits[h].lasturl : h \in DOMAIN db.visits} \ {NoUrl}
  IN
  /\ hm_htab' = [h \in DOMAIN db.visits |->
                   [count |-> db.hosts[h].count, visits |-> db.hosts[h].visits, tstamp |-> at,
                    dirty |-> FALSE, dlref |-> IF h \in HostsOfDownloads THEN 1 ELSE 0]]
  /\ visit' = [h \in DOMAIN db.visits |->
                 [hits |-> db.visits[h].hits, start |-> db.visits[h].start,
                  end |-> db.visits[h].end, lasturl |-> db.visits[h].lasturl,
                  storage |-> TRUE, dirty |-> FALSE]]
  /\ um_htab' = [u \in lasturls |->
                   [exit |-> db.urls[u].exit, tstamp |-> at, dirty |-> FALSE,
                    vstref |-> Cardinality({h \in DOMAIN db.visits : db.visits[h].lasturl = u})]]
  /\ dl_htab' = [h \in DOMAIN db.active_downloads |->
                   [count |-> db.downloads[h].count, sumhits |-> db.downloads[h].sumhits,
                    tstamp |-> at, dirty |-> FALSE]]
  /\ download' = [h \in DOMAIN db.active_downloads |->
                    [hits |-> db.active_downloads[h].hits,
                     tstamp |-> db.active_downloads[h].tstamp, storage |-> TRUE, dirty |-> FALSE]]

(* A run that processes logs, or one that ends the month                   *)
Initialize ==
  /\ pc = "off"
  /\ error' = "none"
  /\ \/ pc' = "read" /\ why' = "run"
     \/ pc' = "visits" /\ why' = "end" /\ db.totals.cur_tstamp # NoTime
  /\ totals' = db.totals
  /\ Restorable /\ HostsOfDownloads \subseteq DOMAIN db.visits
  /\ RestoreState
  /\ v_ended' = [h \in Host |-> 0] /\ dl_ended' = [h \in Host |-> 0]
  /\ UNCHANGED <<rec, good, db>>

InitializeFails ==
  /\ pc = "off"
  /\ ~(Restorable /\ HostsOfDownloads \subseteq DOMAIN db.visits)
  /\ Throw("bad data")

-----------------------------------------------------------------------------
Next ==
  \/ Initialize
  \/ InitializeFails
  \/ \E r \in Record : (r.kind \in Kind /\ ReadRecord(r))
  \/ PutHNode
  \/ PutUNode
  \/ PutDLNode
  \/ \E S \in SUBSET DOMAIN dl_htab : SwapOutDownloads(S)
  \/ \E S \in SUBSET DOMAIN hm_htab : SwapOutHosts(S)
  \/ \E S \in SUBSET DOMAIN um_htab : SwapOutUrls(S)
  \/ EndOfLogs
  \/ UpdateVisits
  \/ UpdateDownloads
  \/ SaveState
  \/ ClearMonth
  \/ Interrupted
  \/ Leave

Spec == Init /\ [][Next]_vars

-----------------------------------------------------------------------------
(* Properties                                                              *)

(* No pointer dangles: the host of a visit, the last URL of a visit, the   *)
(* download job of an active download and the host of a download job are   *)
(* in memory, and the reference counts that keep them there are exact.     *)
ReferencesCounted ==
  /\ DOMAIN visit \subseteq DOMAIN hm_htab
  /\ \A h \in DOMAIN visit : visit[h].lasturl \in DOMAIN um_htab \cup {NoUrl}
  /\ \A u \in DOMAIN um_htab : um_htab[u].vstref = Cardinality(LastUrlOf(DOMAIN visit, u))
  /\ DOMAIN download \subseteq DOMAIN dl_htab
  /\ DOMAIN dl_htab \subseteq DOMAIN hm_htab
  /\ \A h \in DOMAIN hm_htab : hm_htab[h].dlref = IF h \in DOMAIN dl_htab THEN 1 ELSE 0

(* A node that is not marked as modified is in the database as it is in    *)
(* memory, so that nothing is lost when it leaves memory without being     *)
(* stored.                                                                 *)
StoredAs(nodes, stored, rows) ==
  \A k \in DOMAIN nodes \ Dirty(nodes) : k \in DOMAIN stored /\ stored[k] = rows[k]

CleanIsStored ==
  /\ StoredAs(hm_htab, db.hosts, HostRows)
  /\ StoredAs(visit, db.visits, VisitRows)
  /\ StoredAs(um_htab, db.urls, UrlRows)
  /\ StoredAs(dl_htab, db.downloads, DownloadRows)
  /\ StoredAs(download, db.active_downloads, ActiveRows)

(* Between runs the database is whole: a visit row for exactly the hosts   *)
(* that are marked as active, with its last URL, and the same for          *)
(* downloads.                                                              *)
DatabaseWhole ==
  pc = "off" =>
    /\ DOMAIN db.visits = {h \in DOMAIN db.hosts : db.hosts[h].active}
    /\ \A h \in DOMAIN db.visits : db.visits[h].lasturl \in DOMAIN db.urls \cup {NoUrl}
    /\ DOMAIN db.active_downloads = {h \in DOMAIN db.downloads : db.downloads[h].active}
    /\ DOMAIN db.downloads \subseteq DOMAIN db.hosts

(* None of the consistency checks that throw ever fails.                   *)
NothingThrows == error = "none"

(* Hits, visits, exits and downloads of the current month, wherever the    *)
(* nodes are                                                               *)
InMemory == pc \notin {"off", "clear"}
Current == IF pc = "off" THEN db.totals ELSE totals
ActiveVisits == IF InMemory THEN DOMAIN visit ELSE DOMAIN db.visits

HitsOf(h) ==
  IF InMemory /\ h \in DOMAIN hm_htab
    THEN hm_htab[h].count + (IF h \in DOMAIN visit THEN visit[h].hits ELSE 0)
    ELSE (IF h \in DOMAIN db.hosts THEN db.hosts[h].count ELSE 0)
         + (IF ~InMemory /\ h \in DOMAIN db.visits THEN db.visits[h].hits ELSE 0)

VisitsOf(h) ==
  IF InMemory /\ h \in DOMAIN hm_htab THEN hm_htab[h].visits
  ELSE IF h \in DOMAIN db.hosts THEN db.hosts[h].visits ELSE 0

ExitsOf(u) ==
  IF InMemory /\ u \in DOMAIN um_htab THEN um_htab[u].exit
  ELSE IF u \in DOMAIN db.urls THEN db.urls[u].exit ELSE 0

DownloadsOf(h) ==
  IF InMemory /\ h \in DOMAIN dl_htab THEN dl_htab[h].count
  ELSE IF h \in DOMAIN db.downloads THEN db.downloads[h].count ELSE 0

(* "The sum of all hits of all visits must match the total number of       *)
(* hits", and visits started, visits ended and active visits add up, at    *)
(* every step and across runs.                                             *)
HitsAccounted ==
  /\ Current.t_hit = SumFunction([h \in Host |-> HitsOf(h)])
  /\ Current.t_visits = SumFunction([h \in Host |-> VisitsOf(h)])
  /\ Current.t_visits = Current.t_visits_end + Cardinality(ActiveVisits)

(* Exits and exit URLs in the totals are those of the URLs, and finished   *)
(* downloads those of the download jobs.                                   *)
ExitsAccounted ==
  /\ Current.t_exit = SumFunction([u \in Url |-> ExitsOf(u)])
  /\ Current.u_exit = Cardinality({u \in Url : ExitsOf(u) > 0})

DownloadsAccounted == Current.t_dlcount = SumFunction([h \in Host |-> DownloadsOf(h)])

(* The totals of a month are what its hosts, visits, URLs and downloads    *)
(* say, wherever these are: in memory, swapped out, saved or restored.     *)
TotalsAccounted == HitsAccounted /\ ExitsAccounted /\ DownloadsAccounted

(* No visit is active in a database that is rolled over.                   *)
MonthClosed ==
  pc = "clear" => /\ db.totals.t_visits = db.totals.t_visits_end
                  /\ db.visits = Empty
                  /\ \A h \in DOMAIN db.hosts : ~db.hosts[h].active

(* Hits and visits are those of Sessions, whatever is swapped out, saved   *)
(* and restored in between.                                                *)
StartOf(h) ==
  IF InMemory THEN IF h \in DOMAIN visit THEN visit[h].start ELSE NoTime
  ELSE IF h \in DOMAIN db.visits THEN db.visits[h].start ELSE NoTime

LastOf(h) ==
  IF InMemory THEN IF h \in DOMAIN visit THEN visit[h].end ELSE NoTime
  ELSE IF h \in DOMAIN db.visits THEN db.visits[h].end ELSE NoTime

Session == INSTANCE Sessions WITH
             now <- Current.cur_tstamp,
             hits <- [h \in Host |-> HitsOf(h)],
             visits <- [h \in Host |-> VisitsOf(h)],
             start <- [h \in Host |-> StartOf(h)],
             last <- [h \in Host |-> LastOf(h)]

ImplementsSessions == Session!Spec

(* Swapping out ends only downloads that have reached their timeout.       *)
SwapEndsOldDownloads ==
  [][pc = "swap" /\ pc' = "swap_hosts" =>
       \A h \in DOMAIN download \ DOMAIN download' : DownloadOver(download[h], rec.tstamp)]_vars
=============================================================================
