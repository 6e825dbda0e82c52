------------------------ MODULE StateSessionProofs ------------------------
(***************************************************************************)
(* Theorems about times in StateEngine: swap_out ends no download that may *)
(* still go on, a run that is not interrupted finds a database that it can *)
(* restore, and the hits and visits of each host are those of Sessions,    *)
(* which knows neither memory, database nor runs. At the end, the totals   *)
(* of the month are the sums over its hosts, URLs and download jobs.       *)
(***************************************************************************)
EXTENDS StateEngineProofs, SumsAndRanks

-----------------------------------------------------------------------------
(* Times                                                                   *)

(* Nodes are not younger than the last record, nor visits and downloads    *)
(* than the nodes they are in.                                             *)
Times ==
  /\ \A h \in DOMAIN visit :
       visit[h].end <= totals.cur_tstamp /\ visit[h].end <= hm_htab[h].tstamp
  /\ \A h \in DOMAIN download :
       download[h].tstamp <= totals.cur_tstamp /\ download[h].tstamp <= dl_htab[h].tstamp
  /\ pc = "host" => totals.cur_tstamp <= rec.tstamp
  /\ Busy /\ pc # "host" => totals.cur_tstamp = rec.tstamp

SavedTimes ==
  /\ \A h \in DOMAIN db.visits : db.visits[h].end <= db.totals.cur_tstamp
  /\ \A h \in DOMAIN db.active_downloads : db.active_downloads[h].tstamp <= db.totals.cur_tstamp

(* Time stamps are integers.                                               *)
LEMMA TimesTyped ==
  ASSUME TypeOK
  PROVE  /\ totals.cur_tstamp \in Int /\ totals.cur_tstamp >= NoTime
         /\ db.totals.cur_tstamp \in Int /\ db.totals.cur_tstamp >= NoTime
         /\ \A h \in DOMAIN visit : visit[h].end \in Nat /\ visit[h].start \in Nat
         /\ \A h \in DOMAIN hm_htab : hm_htab[h].tstamp \in Int
         /\ \A h \in DOMAIN download : download[h].tstamp \in Nat
         /\ \A h \in DOMAIN dl_htab : dl_htab[h].tstamp \in Int
         /\ \A h \in DOMAIN db.visits : db.visits[h].end \in Nat /\ db.visits[h].start \in Nat
         /\ \A h \in DOMAIN db.active_downloads : db.active_downloads[h].tstamp \in Nat
<1>0. Time \subseteq Nat /\ \A t \in Stamp : t \in Int /\ t >= NoTime
  BY StateAssumption DEF Time, Stamp, NoTime
<1>1. db \in Database /\ totals \in Totals
  BY DEF TypeOK
<1>2. db.totals \in Totals
  BY <1>1, DatabaseIs
<1>3. /\ totals.cur_tstamp \in Int /\ totals.cur_tstamp >= NoTime
      /\ db.totals.cur_tstamp \in Int /\ db.totals.cur_tstamp >= NoTime
  BY <1>0, <1>1, <1>2 DEF Totals
<1>4. \A h \in DOMAIN visit : visit[h] \in Visit
  BY TableAt DEF TypeOK, Tables
<1>5. \A h \in DOMAIN hm_htab : hm_htab[h] \in HostNode
  BY TableAt DEF TypeOK, Tables
<1>6. \A h \in DOMAIN download : download[h] \in Download
  BY TableAt DEF TypeOK, Tables
<1>7. \A h \in DOMAIN dl_htab : dl_htab[h] \in DownloadNode
  BY TableAt DEF TypeOK, Tables
<1>8. db.visits \in Table(Host, VisitRow) /\ db.active_downloads \in Table(Host, ActiveRow)
  BY <1>1, DatabaseIs
<1>9. \A h \in DOMAIN db.visits : db.visits[h] \in VisitRow
  BY <1>8, TableAt
<1>10. \A h \in DOMAIN db.active_downloads : db.active_downloads[h] \in ActiveRow
  BY <1>8, TableAt
<1>11. \A h \in DOMAIN visit : visit[h].end \in Nat /\ visit[h].start \in Nat
  BY <1>0, <1>4 DEF Visit
<1>12. \A h \in DOMAIN hm_htab : hm_htab[h].tstamp \in Int
  BY <1>0, <1>5 DEF HostNode
<1>13. \A h \in DOMAIN download : download[h].tstamp \in Nat
  BY <1>0, <1>6 DEF Download
<1>14. \A h \in DOMAIN dl_htab : dl_htab[h].tstamp \in Int
  BY <1>0, <1>7 DEF DownloadNode
<1>15. \A h \in DOMAIN db.visits : db.visits[h].end \in Nat /\ db.visits[h].start \in Nat
  BY <1>0, <1>9 DEF VisitRow
<1>16. \A h \in DOMAIN db.active_downloads : db.active_downloads[h].tstamp \in Nat
  BY <1>0, <1>10 DEF ActiveRow
<1>. QED
  BY <1>3, <1>11, <1>12, <1>13, <1>14, <1>15, <1>16

(* A record has a time.                                                    *)
LEMMA RecTime ==
  ASSUME TypeOK, Busy
  PROVE  rec.tstamp \in Nat
<1>1. rec.tstamp \in Time
  BY RecIs
<1>. QED
  BY <1>1, StateAssumption DEF Time

(* The rows that save_state leaves are those of the nodes in memory.       *)
LEMMA SavedFields ==
  ASSUME TypeOK, Stored, RowsKept, pc = "save"
  PROVE  /\ \A h \in DOMAIN visit :
              /\ SavedDb.visits[h].end = visit[h].end /\ SavedDb.visits[h].start = visit[h].start
              /\ SavedDb.visits[h].hits = visit[h].hits
         /\ \A h \in DOMAIN download : SavedDb.active_downloads[h].tstamp = download[h].tstamp
         /\ SavedDb.totals = totals
<1>1. /\ SavedDb.visits = SavedTable(db.visits, Ended(v_ended), visit, VisitRows)
      /\ SavedDb.active_downloads =
           SavedTable(db.active_downloads, Ended(dl_ended), download, ActiveRows)
      /\ SavedDb.totals = totals
  BY DEF SavedDb
<1>2. ASSUME NEW h \in DOMAIN visit
      PROVE  /\ SavedDb.visits[h].end = visit[h].end /\ SavedDb.visits[h].start = visit[h].start
             /\ SavedDb.visits[h].hits = visit[h].hits
  <2>1. CASE h \in Dirty(visit)
    <3>1. SavedDb.visits[h] = VisitRows[h]
      BY <1>1, <2>1 DEF SavedTable
    <3>. QED
      BY <3>1 DEF VisitRows
  <2>2. CASE h \notin Dirty(visit)
    <3>1. h \in DOMAIN SavedDb.visits
      BY SavedVisits
    <3>2. SavedDb.visits[h] = db.visits[h]
      BY <1>1, <2>2, <3>1 DEF SavedTable
    <3>. QED
      BY <2>2, <3>2 DEF Dirty, Stored, VisitsStored
  <2>. QED
    BY <2>1, <2>2
<1>3. ASSUME NEW h \in DOMAIN download
      PROVE  SavedDb.active_downloads[h].tstamp = download[h].tstamp
  <2>1. CASE h \in Dirty(download)
    <3>1. SavedDb.active_downloads[h] = ActiveRows[h]
      BY <1>1, <2>1 DEF SavedTable
    <3>. QED
      BY <3>1 DEF ActiveRows
  <2>2. CASE h \notin Dirty(download)
    <3>1. h \in DOMAIN SavedDb.active_downloads
      BY SavedActiveDownloads
    <3>2. SavedDb.active_downloads[h] = db.active_downloads[h]
      BY <1>1, <2>2, <3>1 DEF SavedTable
    <3>. QED
      BY <2>2, <3>2 DEF Dirty, Stored, ActiveStored
  <2>. QED
    BY <2>1, <2>2
<1>. QED
  BY <1>1, <1>2, <1>3

(* The database of active visits and downloads changes when the state is   *)
(* saved or the month rolled over.                                         *)
LEMMA ActiveRowsSame ==
  ASSUME TypeOK, [Next]_vars, pc \notin {"save", "clear"}
  PROVE  /\ db'.totals = db.totals /\ db'.visits = db.visits
         /\ db'.active_downloads = db.active_downloads
<1>1. CASE \E S \in SUBSET DOMAIN dl_htab : SwapOutDownloads(S)
  BY <1>1, SwapOutDownloadsDb
<1>2. CASE \E S \in SUBSET DOMAIN hm_htab : SwapOutHosts(S)
  BY <1>2, SwapOutHostsDb
<1>3. CASE \E S \in SUBSET DOMAIN um_htab : SwapOutUrls(S)
  BY <1>3, SwapOutUrlsIs
<1>4. CASE db' = db
  BY <1>4
<1>. QED
  BY <1>1, <1>2, <1>3, <1>4 DEF Next, Initialize, InitializeFails, ReadRecord, PutHNode, PutUNode,
     PutDLNode, EndOfLogs, UpdateVisits, UpdateDownloads, SaveState, ClearMonth, Interrupted,
     Leave, Throw, vars

(* Every step keeps the times in the database, of a run that was saved.    *)
LEMMA SavedTimesStep ==
  ASSUME TypeOK, Stored, RowsKept, Times, SavedTimes, [Next]_vars
  PROVE  SavedTimes'
<1>1. CASE SaveState
  <2>1. pc = "save" /\ db' = SavedDb
    BY <1>1, DeletesSucceed DEF SaveState
  <2>2. DOMAIN db'.visits = DOMAIN visit /\ DOMAIN db'.active_downloads = DOMAIN download
    BY <2>1, SavedVisits, SavedActiveDownloads
  <2>3. /\ \A h \in DOMAIN visit : db'.visits[h].end = visit[h].end
        /\ \A h \in DOMAIN download : db'.active_downloads[h].tstamp = download[h].tstamp
        /\ db'.totals = totals
    BY <2>1, SavedFields
  <2>. QED
    BY <2>2, <2>3 DEF Times, SavedTimes
<1>2. CASE ClearMonth
  BY <1>2 DEF ClearMonth, NewDb, Empty, SavedTimes
<1>3. CASE Interrupted \/ UNCHANGED vars
  BY <1>3 DEF Interrupted, vars, SavedTimes
<1>4. CASE pc \notin {"save", "clear"}
  BY <1>4, ActiveRowsSame DEF SavedTimes
<1>. QED
  BY <1>1, <1>2, <1>3, <1>4 DEF Next, Initialize, InitializeFails, ReadRecord, PutHNode, PutUNode,
     PutDLNode, SwapOutDownloads, SwapOutHosts, SwapOutUrls, EndOfLogs, UpdateVisits,
     UpdateDownloads, Leave

(* Every step keeps the times in memory.                                   *)
LEMMA TimesStep ==
  ASSUME TypeOK, References, InactiveInDb, Times, SavedTimes, [Next]_vars
  PROVE  Times'
<1>0. DOMAIN Empty = {}
  BY DEF Empty
<1>1. CASE Initialize
  <2>1. /\ Restorable /\ RestoreState /\ totals' = db.totals
        /\ pc' \in {"read", "visits"}
    BY <1>1 DEF Initialize
  <2>2. /\ DOMAIN visit' = DOMAIN db.visits
        /\ \A h \in DOMAIN db.visits : /\ visit'[h].end = db.visits[h].end
                                       /\ hm_htab'[h].tstamp = db.totals.cur_tstamp
    BY <2>1, RestoreHosts
  <2>3. /\ DOMAIN download' = DOMAIN db.active_downloads
        /\ \A h \in DOMAIN db.active_downloads :
             /\ download'[h].tstamp = db.active_downloads[h].tstamp
             /\ dl_htab'[h].tstamp = db.totals.cur_tstamp
    BY <2>1, RestoreDownloads
  <2>. QED
    BY <2>1, <2>2, <2>3 DEF Times, SavedTimes, Busy
<1>2. CASE ClearTables /\ pc' \notin {"host", "url", "download", "swap", "swap_hosts", "swap_urls"}
  BY <1>0, <1>2 DEF ClearTables, Times, Busy
<1>3. CASE \E r \in Record : r.kind \in Kind /\ ReadRecord(r)
  <2>1. PICK r \in Record : ReadRecord(r)
    BY <1>3
  <2>2. /\ UNCHANGED memVars /\ rec' = r /\ r.tstamp >= totals.cur_tstamp
        /\ pc' \in {"host", "clear", "visits"}
    BY <2>1, TimesTyped, StateAssumption DEF ReadRecord, Record, Time
  <2>. QED
    BY <2>2 DEF memVars, Times, Busy
<1>4. CASE PutHNode
  <2>. DEFINE h == rec.host
  <2>1. ~NewHostActive
    BY <1>4, LoadsSucceed
  <2>2. /\ UNCHANGED <<rec, dl_htab, download>> /\ pc' = "url"
        /\ totals.cur_tstamp <= rec.tstamp
    BY <1>4, <2>1 DEF PutHNode, NewHostActive, Times
  <2>3. /\ \A x \in DOMAIN hm_htab \ {h} : hm_htab'[x] = hm_htab[x]
        /\ hm_htab'[h].tstamp = rec.tstamp
    BY <1>4, <2>1, PutHNodeHost
  <2>4. /\ DOMAIN visit' = DOMAIN visit \cup {h}
        /\ \A x \in DOMAIN visit \ {h} : visit'[x] = visit[x]
        /\ visit'[h].end = rec.tstamp
    BY <1>4, <2>1, PutHNodeVisit
  <2>5. totals'.cur_tstamp = rec.tstamp
    BY <1>4, <2>1, PutHNodeTotals
  <2>6. rec.tstamp \in Nat
    BY <1>4, RecTime DEF PutHNode, Busy
  <2>7. \A x \in DOMAIN visit' : visit'[x].end <= totals'.cur_tstamp /\ visit'[x].end <= hm_htab'[x].tstamp
    BY <2>2, <2>3, <2>4, <2>5, <2>6, TimesTyped DEF Times, References, HostsReferenced
  <2>8. \A x \in DOMAIN download : download[x].tstamp <= totals'.cur_tstamp
    BY <2>2, <2>5, <2>6, TimesTyped DEF Times
  <2>. QED
    BY <2>2, <2>5, <2>7, <2>8 DEF Times, Busy
<1>5. CASE PutUNode
  <2>1. rec.kind \in {"page", "download", "error"}
    BY <1>5, RecIs DEF PutUNode, Busy
  <2>2. /\ UNCHANGED <<rec, totals, hm_htab, dl_htab, download>>
        /\ pc = "url" /\ pc' \in {"download", "swap"}
        /\ rec.kind # "page" => visit' = visit
    BY <1>5, <2>1 DEF PutUNode
  <2>3. /\ DOMAIN visit' = DOMAIN visit
        /\ \A x \in DOMAIN visit : visit'[x].end = visit[x].end
    BY <1>5, <2>1, <2>2, PutUNodeVisit
  <2>. QED
    BY <2>2, <2>3 DEF Times, Busy
<1>6. CASE PutDLNode
  <2>. DEFINE h == rec.host
  <2>1. ~NewDownloadActive
    BY <1>6, LoadsSucceed
  <2>2. /\ UNCHANGED <<rec, visit>> /\ pc = "download" /\ pc' = "swap"
        /\ totals' = [totals EXCEPT !.t_dlcount = @ + Cardinality(EndingDownload)]
    BY <1>6, <2>1 DEF PutDLNode, NewDownloadActive, EndingDownload
  <2>3. EndingDownload \subseteq Host
    BY <1>6, RecIs DEF PutDLNode, Busy, EndingDownload
  <2>4. totals'.cur_tstamp = totals.cur_tstamp /\ totals.cur_tstamp = rec.tstamp
    BY <2>2, <2>3, DownloadTotals DEF Times, Busy
  <2>5. DOMAIN visit \subseteq DOMAIN hm_htab /\ \A x \in DOMAIN hm_htab : hm_htab'[x].tstamp = hm_htab[x].tstamp
    BY <1>6, <2>1, PutDLNodeHost DEF References, HostsReferenced
  <2>6. /\ \A x \in DOMAIN dl_htab \ {h} : dl_htab'[x] = dl_htab[x]
        /\ dl_htab'[h].tstamp = rec.tstamp
        /\ DOMAIN download' = DOMAIN download \cup {h}
        /\ \A x \in DOMAIN download \ {h} : download'[x] = download[x]
        /\ download'[h].tstamp = rec.tstamp
    BY <1>6, <2>1, PutDLNodeDownload
  <2>7. \A x \in DOMAIN visit' : visit'[x].end <= totals'.cur_tstamp /\ visit'[x].end <= hm_htab'[x].tstamp
    BY <2>2, <2>4, <2>5 DEF Times
  <2>8. rec.tstamp \in Nat
    BY <1>6, RecTime DEF PutDLNode, Busy
  <2>9. \A x \in DOMAIN download' :
          download'[x].tstamp <= totals'.cur_tstamp /\ download'[x].tstamp <= dl_htab'[x].tstamp
    BY <2>4, <2>6, <2>8 DEF Times, References, HostsReferenced
  <2>. QED
    BY <2>2, <2>4, <2>7, <2>9 DEF Times, Busy
<1>7. CASE \E S \in SUBSET DOMAIN dl_htab : SwapOutDownloads(S)
  <2>1. PICK S \in SUBSET DOMAIN dl_htab : SwapOutDownloads(S)
    BY <1>7
  <2>2. /\ UNCHANGED <<rec, visit>> /\ pc = "swap" /\ pc' = "swap_hosts"
        /\ totals' = [totals EXCEPT !.t_dlcount = @ + Cardinality(S \cap DOMAIN download)]
    BY <2>1 DEF SwapOutDownloads
  <2>3. S \cap DOMAIN download \subseteq Host
    BY TableIs DEF TypeOK, Tables
  <2>4. totals'.cur_tstamp = totals.cur_tstamp /\ totals.cur_tstamp = rec.tstamp
    BY <2>2, <2>3, DownloadTotals DEF Times, Busy
  <2>5. /\ DOMAIN visit \subseteq DOMAIN hm_htab
        /\ \A x \in DOMAIN hm_htab : hm_htab'[x].tstamp = hm_htab[x].tstamp
        /\ \A x \in DOMAIN dl_htab \ S : dl_htab'[x] = dl_htab[x]
        /\ DOMAIN download' = DOMAIN download \ S
        /\ \A x \in DOMAIN download \ S : download'[x] = download[x]
    BY <2>1, SwapOutDownloadsIs DEF References, HostsReferenced
  <2>6. \A x \in DOMAIN visit' : visit'[x].end <= totals'.cur_tstamp /\ visit'[x].end <= hm_htab'[x].tstamp
    BY <2>2, <2>4, <2>5 DEF Times
  <2>7. \A x \in DOMAIN download' :
          download'[x].tstamp <= totals'.cur_tstamp /\ download'[x].tstamp <= dl_htab'[x].tstamp
    BY <2>4, <2>5 DEF Times, References, HostsReferenced
  <2>. QED
    BY <2>2, <2>4, <2>6, <2>7 DEF Times, Busy
<1>8. CASE \E S \in SUBSET DOMAIN hm_htab : SwapOutHosts(S)
  <2>1. PICK S \in SUBSET DOMAIN hm_htab : SwapOutHosts(S)
    BY <1>8
  <2>. DEFINE ended == S \cap DOMAIN visit
  <2>2. /\ UNCHANGED <<rec, dl_htab, download>> /\ pc = "swap_hosts" /\ pc' = "swap_urls"
        /\ totals' = TotalsAfter(ended)
    BY <2>1 DEF SwapOutHosts
  <2>3. ended \subseteq DOMAIN visit
    OBVIOUS
  <2>4. totals'.cur_tstamp = totals.cur_tstamp
    BY <2>2, <2>3, TotalsAfterIs
  <2>5. /\ \A x \in DOMAIN hm_htab \ S : hm_htab'[x] = hm_htab[x]
        /\ DOMAIN visit' = DOMAIN visit \ S
        /\ \A x \in DOMAIN visit \ S : visit'[x] = visit[x]
    BY <2>1, SwapOutHostsIs
  <2>. HIDE DEF ended
  <2>6. \A x \in DOMAIN visit' : visit'[x].end <= totals'.cur_tstamp /\ visit'[x].end <= hm_htab'[x].tstamp
    BY <2>4, <2>5 DEF Times, References, HostsReferenced
  <2>. QED
    BY <2>2, <2>4, <2>6 DEF Times, Busy
<1>9. CASE \E S \in SUBSET DOMAIN um_htab : SwapOutUrls(S)
  BY <1>9 DEF SwapOutUrls, Times, Busy
<1>10. CASE EndOfLogs
  BY <1>10 DEF EndOfLogs, memVars, Times, Busy
<1>11. CASE UpdateVisits
  <2>1. /\ UNCHANGED <<dl_htab, download>> /\ pc' = "downloads"
        /\ totals' = TotalsAfter(VisitsOver) /\ hm_htab' = HostsAfter(VisitsOver)
    BY <1>11 DEF UpdateVisits
  <2>2. /\ VisitsOver \subseteq DOMAIN visit
        /\ DOMAIN visit' = DOMAIN visit \ VisitsOver
        /\ \A x \in DOMAIN visit \ VisitsOver : visit'[x] = visit[x]
    BY <1>11, UpdateVisitsIs
  <2>3. totals'.cur_tstamp = totals.cur_tstamp
    BY <2>1, <2>2, TotalsAfterIs
  <2>4. \A x \in DOMAIN hm_htab : hm_htab'[x].tstamp = hm_htab[x].tstamp
    BY <2>1, <2>2, HostsAfterIs
  <2>5. \A x \in DOMAIN visit' : visit'[x].end <= totals'.cur_tstamp /\ visit'[x].end <= hm_htab'[x].tstamp
    BY <2>2, <2>3, <2>4 DEF Times, References, HostsReferenced
  <2>. QED
    BY <2>1, <2>3, <2>5 DEF Times, Busy
<1>12. CASE UpdateDownloads
  <2>1. /\ UNCHANGED <<hm_htab, visit>> /\ pc' = "save"
        /\ totals' = [totals EXCEPT !.t_dlcount = @ + Cardinality(DownloadsOver)]
        /\ dl_htab' = DownloadsAfter(DownloadsOver)
    BY <1>12 DEF UpdateDownloads
  <2>2. /\ DownloadsOver \subseteq DOMAIN download
        /\ DOMAIN download' = DOMAIN download \ DownloadsOver
        /\ \A x \in DOMAIN download \ DownloadsOver : download'[x] = download[x]
    BY <1>12, UpdateDownloadsIs
  <2>3. DownloadsOver \subseteq Host
    BY TableIs DEF TypeOK, Tables, DownloadsOver
  <2>4. totals'.cur_tstamp = totals.cur_tstamp
    BY <2>1, <2>3, DownloadTotals
  <2>5. \A x \in DOMAIN dl_htab \ DownloadsOver : dl_htab'[x] = dl_htab[x]
    BY <2>1, <2>2, DownloadsAfterIs
  <2>6. \A x \in DOMAIN download' :
          download'[x].tstamp <= totals'.cur_tstamp /\ download'[x].tstamp <= dl_htab'[x].tstamp
    BY <2>2, <2>4, <2>5 DEF Times, References, HostsReferenced
  <2>. QED
    BY <2>1, <2>4, <2>6 DEF Times, Busy
<1>13. CASE SaveState
  BY <1>2, <1>13 DEF SaveState, Throw, LeaveRun
<1>14. CASE ClearMonth
  <2>1. CASE why = "month"
    <3>1. ClearTables /\ pc' = "host" /\ totals' = ZeroTotals /\ rec' = rec
      BY <1>14, <2>1 DEF ClearMonth
    <3>2. rec.tstamp \in Nat
      BY <2>1, StateAssumption DEF TypeOK, Control, Record, Time
    <3>3. totals'.cur_tstamp <= rec'.tstamp
      BY <3>1, <3>2 DEF ZeroTotals, NoTime
    <3>. QED
      BY <1>0, <3>1, <3>3 DEF ClearTables, Times, Busy
  <2>2. CASE why # "month"
    BY <1>2, <1>14, <2>2 DEF ClearMonth, LeaveRun
  <2>. QED
    BY <2>1, <2>2
<1>15. CASE InitializeFails \/ Interrupted \/ Leave
  BY <1>2, <1>15 DEF InitializeFails, Interrupted, Leave, Throw, LeaveRun
<1>16. CASE UNCHANGED vars
  BY <1>16 DEF vars, memVars, Times, Busy
<1>. QED
  BY <1>1, <1>3, <1>4, <1>5, <1>6, <1>7, <1>8, <1>9, <1>10, <1>11, <1>12, <1>13, <1>14, <1>15,
     <1>16 DEF Next

(* They hold at the start.                                                 *)
LEMMA TimesInit == Init => Times /\ SavedTimes
<1>1. DOMAIN Empty = {}
  BY DEF Empty
<1>. QED
  BY <1>1 DEF Init, Times, SavedTimes, NewDb, Busy

(* Nothing in memory or in the database is younger than the last record,   *)
(* nor a visit or a download than the node it belongs to.                  *)
THEOREM TimesKept == Spec => [](Times /\ SavedTimes)
<1>1. ASSUME TypeOK, References, Books, Times, SavedTimes, [Next]_vars
      PROVE  Times' /\ SavedTimes'
  BY <1>1, TimesStep, SavedTimesStep DEF Books
<1>. QED
  BY <1>1, TimesInit, BooksKept, PTL DEF Spec

-----------------------------------------------------------------------------
(* Downloads                                                               *)

(* Download jobs that are swapped out have no download that could still    *)
(* go on.                                                                  *)
LEMMA SwapOnTime ==
  ASSUME TypeOK, References, Times, DownloadTimeout <= 2 * VisitTimeout, [Next]_vars,
         pc = "swap", pc' = "swap_hosts", NEW h \in DOMAIN download \ DOMAIN download'
  PROVE  DownloadOver(download[h], rec.tstamp)
<1>1. PICK S \in SUBSET DOMAIN dl_htab : SwapOutDownloads(S)
  BY DEF Next, Initialize, InitializeFails, ReadRecord, PutHNode, PutUNode, PutDLNode,
         SwapOutHosts, SwapOutUrls, EndOfLogs, UpdateVisits, UpdateDownloads, SaveState,
         ClearMonth, Interrupted, Leave, vars
<1>2. h \in S
  <2>1. DOMAIN download' = DOMAIN download \ S
    BY <1>1, SwapOutDownloadsIs
  <2>. QED
    BY <2>1
<1>3. dl_htab[h].tstamp <= rec.tstamp - 2 * VisitTimeout
  BY <1>1, <1>2 DEF SwapOutDownloads, Oldest, SwapLimit
<1>4. h \in DOMAIN dl_htab /\ download[h].tstamp <= dl_htab[h].tstamp
  BY DEF Times, References, HostsReferenced
<1>5. rec.tstamp \in Nat
  BY RecTime DEF Busy
<1>6. dl_htab[h].tstamp \in Int /\ download[h].tstamp \in Nat
  BY <1>4, TimesTyped
<1>7. VisitTimeout \in Nat /\ DownloadTimeout \in Nat
  BY StateAssumption
<1>8. rec.tstamp - download[h].tstamp >= DownloadTimeout
  BY <1>3, <1>4, <1>5, <1>6, <1>7
<1>. QED
  BY <1>5, <1>8 DEF DownloadOver, NoTime

(* swap_out ends no download that a record could still continue, unless    *)
(* downloads may pause for more than twice the visit timeout.              *)
THEOREM SwapsOnTime ==
  ASSUME DownloadTimeout <= 2 * VisitTimeout
  PROVE  Spec => SwapEndsOldDownloads
<1>1. ASSUME TypeOK, References, Times, [Next]_vars
      PROVE  [pc = "swap" /\ pc' = "swap_hosts" =>
                \A h \in DOMAIN download \ DOMAIN download' :
                  DownloadOver(download[h], rec.tstamp)]_vars
  BY <1>1, SwapOnTime
<1>. QED
  BY <1>1, BooksKept, TimesKept, PTL DEF Spec, SwapEndsOldDownloads

(* While a month lasts every active download is part of an active visit,   *)
(* or has reached its own timeout when the visits of a run have ended.     *)
DownloadInVisit(h) == h \in DOMAIN visit /\ download[h].tstamp <= visit[h].end

DownloadsInVisits ==
  \A h \in DOMAIN download :
    \/ pc \in {"downloads", "save"} /\ why # "run"
    \/ pc = "downloads" /\ DownloadOver(download[h], totals.cur_tstamp)
    \/ DownloadInVisit(h)

SavedInVisits ==
  pc = "off" \/ (pc = "read" /\ ~good) =>
    \A h \in DOMAIN db.active_downloads :
      h \in DOMAIN db.visits /\ db.active_downloads[h].tstamp <= db.visits[h].end

(* Every step keeps active downloads within active visits.                 *)
LEMMA DownloadsInVisitsStep ==
  ASSUME DownloadTimeout <= VisitTimeout, MaxVisitLength = 0,
         TypeOK, References, InactiveInDb, Times, DownloadsInVisits, SavedInVisits, [Next]_vars
  PROVE  DownloadsInVisits'
<1>. USE DEF DownloadsInVisits, DownloadInVisit
<1>0. DOMAIN Empty = {}
  BY DEF Empty
<1>1. CASE Initialize
  <2>1. Restorable /\ RestoreState /\ pc = "off"
    BY <1>1 DEF Initialize
  <2>2. /\ DOMAIN visit' = DOMAIN db.visits
        /\ \A h \in DOMAIN db.visits : visit'[h].end = db.visits[h].end
    BY <2>1, RestoreHosts
  <2>3. /\ DOMAIN download' = DOMAIN db.active_downloads
        /\ \A h \in DOMAIN db.active_downloads : download'[h].tstamp = db.active_downloads[h].tstamp
    BY <2>1, RestoreDownloads
  <2>. QED
    BY <2>1, <2>2, <2>3 DEF SavedInVisits
<1>2. CASE ClearTables
  BY <1>0, <1>2 DEF ClearTables
<1>3. CASE \E r \in Record : r.kind \in Kind /\ ReadRecord(r)
  BY <1>3 DEF ReadRecord, memVars
<1>4. CASE PutHNode
  <2>. DEFINE h == rec.host
  <2>1. ~NewHostActive
    BY <1>4, LoadsSucceed
  <2>2. download' = download /\ pc = "host" /\ totals.cur_tstamp <= rec.tstamp
    BY <1>4, <2>1 DEF PutHNode, NewHostActive, Times
  <2>3. /\ DOMAIN visit' = DOMAIN visit \cup {h}
        /\ \A x \in DOMAIN visit \ {h} : visit'[x] = visit[x]
        /\ visit'[h].end = rec.tstamp
    BY <1>4, <2>1, PutHNodeVisit
  <2>4. \A x \in DOMAIN download : download[x].tstamp <= rec.tstamp
    <3>1. rec.tstamp \in Nat
      BY <2>2, RecTime DEF Busy
    <3>. QED
      BY <2>2, <3>1, TimesTyped DEF Times
  <2>. QED
    BY <2>2, <2>3, <2>4
<1>5. CASE PutUNode
  <2>1. rec.kind \in {"page", "download", "error"}
    BY <1>5, RecIs DEF PutUNode, Busy
  <2>2. download' = download /\ pc = "url" /\ (rec.kind # "page" => visit' = visit)
    BY <1>5, <2>1 DEF PutUNode
  <2>3. /\ DOMAIN visit' = DOMAIN visit
        /\ \A x \in DOMAIN visit : visit'[x].end = visit[x].end
    BY <1>5, <2>1, <2>2, PutUNodeVisit
  <2>. QED
    BY <2>2, <2>3
<1>6. CASE PutDLNode
  <2>. DEFINE h == rec.host
  <2>1. ~NewDownloadActive
    BY <1>6, LoadsSucceed
  <2>2. visit' = visit /\ pc = "download"
    BY <1>6, <2>1 DEF PutDLNode, NewDownloadActive
  <2>3. h \in DOMAIN visit /\ visit[h].end = rec.tstamp
    BY <2>2 DEF References, HasVisit
  <2>4. /\ DOMAIN download' = DOMAIN download \cup {h}
        /\ \A x \in DOMAIN download \ {h} : download'[x] = download[x]
        /\ download'[h].tstamp = rec.tstamp
    BY <1>6, <2>1, PutDLNodeDownload
  <2>5. rec.tstamp \in Nat
    BY <2>2, RecTime DEF Busy
  <2>. QED
    BY <2>2, <2>3, <2>4, <2>5
<1>7. CASE \E S \in SUBSET DOMAIN dl_htab : SwapOutDownloads(S)
  <2>1. PICK S \in SUBSET DOMAIN dl_htab : SwapOutDownloads(S)
    BY <1>7
  <2>2. visit' = visit /\ pc = "swap"
    BY <2>1 DEF SwapOutDownloads
  <2>3. /\ DOMAIN download' = DOMAIN download \ S
        /\ \A x \in DOMAIN download \ S : download'[x] = download[x]
    BY <2>1, SwapOutDownloadsIs
  <2>. QED
    BY <2>2, <2>3
<1>8. CASE \E S \in SUBSET DOMAIN hm_htab : SwapOutHosts(S)
  <2>1. PICK S \in SUBSET DOMAIN hm_htab : SwapOutHosts(S)
    BY <1>8
  <2>2. download' = download /\ pc = "swap_hosts"
    BY <2>1 DEF SwapOutHosts
  <2>3. /\ DOMAIN visit' = DOMAIN visit \ S
        /\ \A x \in DOMAIN visit \ S : visit'[x] = visit[x]
        /\ \A x \in S : hm_htab[x].dlref <= 0
    BY <2>1, SwapOutHostsIs
  <2>4. \A x \in DOMAIN download : x \notin S
    BY <2>1, <2>3 DEF References, HostsReferenced
  <2>. QED
    BY <2>2, <2>3, <2>4
<1>9. CASE \E S \in SUBSET DOMAIN um_htab : SwapOutUrls(S)
  BY <1>9 DEF SwapOutUrls
<1>10. CASE EndOfLogs
  BY <1>10 DEF EndOfLogs, memVars
<1>11. CASE UpdateVisits
  <2>1. /\ download' = download /\ pc = "visits" /\ pc' = "downloads" /\ why' = why
        /\ totals' = TotalsAfter(VisitsOver)
    BY <1>11 DEF UpdateVisits
  <2>2. /\ VisitsOver \subseteq DOMAIN visit
        /\ DOMAIN visit' = DOMAIN visit \ VisitsOver
        /\ \A x \in DOMAIN visit \ VisitsOver : visit'[x] = visit[x]
    BY <1>11, UpdateVisitsIs
  <2>3. totals'.cur_tstamp = totals.cur_tstamp
    BY <2>1, <2>2, TotalsAfterIs
  <2>4. ASSUME why = "run", NEW h \in DOMAIN download, h \in VisitsOver
        PROVE  DownloadOver(download[h], totals.cur_tstamp)
    <3>1. h \in DOMAIN visit /\ download[h].tstamp <= visit[h].end
      BY <2>1
    <3>2. visit[h].end <= totals.cur_tstamp
      BY <3>1 DEF Times
    <3>3. /\ totals.cur_tstamp \in Int /\ visit[h].end \in Nat /\ download[h].tstamp \in Nat
          /\ VisitTimeout \in Nat /\ DownloadTimeout \in Nat
      BY <3>1, TimesTyped, StateAssumption
    <3>4. totals.cur_tstamp # NoTime
      BY <3>2, <3>3 DEF NoTime
    <3>5. totals.cur_tstamp - visit[h].end >= VisitTimeout
      BY <2>4, <3>4, <3>3 DEF VisitsOver, VisitOver
    <3>. QED
      BY <3>1, <3>3, <3>4, <3>5 DEF DownloadOver
  <2>. QED
    BY <2>1, <2>2, <2>3, <2>4
<1>12. CASE UpdateDownloads
  <2>1. visit' = visit /\ pc = "downloads" /\ pc' = "save" /\ why' = why
    BY <1>12 DEF UpdateDownloads
  <2>2. /\ DOMAIN download' = DOMAIN download \ DownloadsOver
        /\ \A x \in DOMAIN download \ DownloadsOver : download'[x] = download[x]
    BY <1>12, UpdateDownloadsIs
  <2>3. why = "run" => \A x \in DOMAIN download \ DownloadsOver :
                          ~DownloadOver(download[x], totals.cur_tstamp)
    BY DEF DownloadsOver
  <2>. QED
    BY <2>1, <2>2, <2>3
<1>13. CASE SaveState
  BY <1>2, <1>13 DEF SaveState, Throw, LeaveRun
<1>14. CASE ClearMonth
  BY <1>2, <1>14 DEF ClearMonth, LeaveRun
<1>15. CASE InitializeFails \/ Interrupted \/ Leave
  BY <1>2, <1>15 DEF InitializeFails, Interrupted, Leave, Throw, LeaveRun
<1>16. CASE UNCHANGED vars
  BY <1>16 DEF vars, memVars
<1>. QED
  BY <1>1, <1>3, <1>4, <1>5, <1>6, <1>7, <1>8, <1>9, <1>10, <1>11, <1>12, <1>13, <1>14, <1>15,
     <1>16 DEF Next

(* So does it in the database.                                             *)
LEMMA SavedInVisitsStep ==
  ASSUME ~CanInterrupt, TypeOK, Stored, RowsKept, InactiveInDb, Untouched, DownloadsInVisits,
         SavedInVisits, [Next]_vars
  PROVE  SavedInVisits'
<1>1. CASE Initialize
  BY <1>1 DEF Initialize, SavedInVisits
<1>2. CASE pc' \notin {"off", "read"}
  BY <1>2 DEF SavedInVisits
<1>3. CASE \E r \in Record : r.kind \in Kind /\ ReadRecord(r)
  BY <1>2, <1>3 DEF ReadRecord
<1>4. CASE PutHNode \/ PutDLNode
  BY <1>2, <1>4, LoadsSucceed DEF PutHNode, PutDLNode, NewHostActive, NewDownloadActive
<1>5. CASE \E S \in SUBSET DOMAIN um_htab : SwapOutUrls(S)
  BY <1>5 DEF SwapOutUrls, Untouched, Busy, SavedInVisits
<1>6. CASE SaveState
  <2>1. CASE why = "run"
    <3>1. pc = "save" /\ db' = SavedDb
      BY <1>6, DeletesSucceed DEF SaveState
    <3>2. \A h \in DOMAIN download : h \in DOMAIN visit /\ download[h].tstamp <= visit[h].end
      BY <2>1, <3>1 DEF DownloadsInVisits, DownloadInVisit
    <3>3. DOMAIN db'.visits = DOMAIN visit /\ DOMAIN db'.active_downloads = DOMAIN download
      BY <3>1, SavedVisits, SavedActiveDownloads
    <3>4. /\ \A h \in DOMAIN visit : db'.visits[h].end = visit[h].end
          /\ \A h \in DOMAIN download : db'.active_downloads[h].tstamp = download[h].tstamp
      BY <3>1, SavedFields
    <3>. QED
      BY <3>2, <3>3, <3>4 DEF SavedInVisits
  <2>2. CASE why # "run"
    BY <1>2, <1>6, <2>2, DeletesSucceed DEF SaveState
  <2>. QED
    BY <2>1, <2>2
<1>7. CASE ClearMonth
  BY <1>7 DEF ClearMonth, NewDb, Empty, SavedInVisits
<1>8. CASE InitializeFails \/ Leave
  BY <1>8 DEF InitializeFails, Leave, Throw, SavedInVisits
<1>9. CASE Interrupted
  BY <1>9 DEF Interrupted
<1>10. CASE UNCHANGED vars
  BY <1>10 DEF vars, SavedInVisits
<1>. QED
  BY <1>1, <1>2, <1>3, <1>4, <1>5, <1>6, <1>7, <1>8, <1>9, <1>10 DEF Next, PutUNode,
     SwapOutDownloads, SwapOutHosts, EndOfLogs, UpdateVisits, UpdateDownloads

(* With downloads that end within visits every database can be restored.   *)
LEMMA NothingThrowsStep ==
  ASSUME TypeOK, RowsKept, InactiveInDb, WholeAtEnd, SavedInVisits, NothingThrows, [Next]_vars
  PROVE  NothingThrows'
<1>1. CASE PutHNode \/ PutDLNode
  BY <1>1, LoadsSucceed DEF PutHNode, PutDLNode, NewHostActive, NewDownloadActive, NothingThrows
<1>2. CASE SaveState
  BY <1>2, DeletesSucceed DEF SaveState, NothingThrows
<1>3. CASE InitializeFails
  <2>1. pc = "off" /\ ~(Restorable /\ HostsOfDownloads \subseteq DOMAIN db.visits)
    BY <1>3 DEF InitializeFails
  <2>2. Whole(db) /\ HostsOfDownloads \subseteq DOMAIN db.visits
    BY <2>1 DEF WholeAtEnd, SavedInVisits, HostsOfDownloads
  <2>. QED
    BY <2>1, <2>2 DEF Whole, Restorable
<1>4. CASE error' \in {error, "none"}
  BY <1>4 DEF NothingThrows
<1>5. CASE UNCHANGED vars
  BY <1>5 DEF vars, NothingThrows
<1>. QED
  BY <1>1, <1>2, <1>3, <1>4, <1>5 DEF Next, Initialize, ReadRecord, PutUNode,
     SwapOutDownloads, SwapOutHosts, SwapOutUrls, EndOfLogs, UpdateVisits, UpdateDownloads,
     ClearMonth, Interrupted, Leave

(* When downloads time out no later than visits, visits have no maximum    *)
(* length and the last run of a month is not interrupted, no check throws: *)
(* restore_state finds every active download in an active visit.           *)
THEOREM NoErrors ==
  ASSUME DownloadTimeout <= VisitTimeout, MaxVisitLength = 0, ~CanInterrupt
  PROVE  Spec => []NothingThrows
<1>1. Init => DownloadsInVisits /\ SavedInVisits /\ NothingThrows
  <2>1. DOMAIN Empty = {}
    BY DEF Empty
  <2>. QED
    BY <2>1 DEF Init, DownloadsInVisits, SavedInVisits, NothingThrows, NewDb
<1>2. ASSUME TypeOK, References, Books, Times, DownloadsInVisits, SavedInVisits, NothingThrows,
             [Next]_vars
      PROVE  DownloadsInVisits' /\ SavedInVisits' /\ NothingThrows'
  BY <1>2, DownloadsInVisitsStep, SavedInVisitsStep, NothingThrowsStep DEF Books
<1>. QED
  BY <1>1, <1>2, BooksKept, TimesKept, PTL DEF Spec

-----------------------------------------------------------------------------
(* Sessions                                                                *)

(* What the database alone says of a host                                  *)
StoredHits(h) == IF h \in DOMAIN db.hosts THEN db.hosts[h].count ELSE 0
StoredVisits(h) == IF h \in DOMAIN db.hosts THEN db.hosts[h].visits ELSE 0
ActiveHits(h) == IF h \in DOMAIN db.visits THEN db.visits[h].hits ELSE 0
StoredStart(h) == IF h \in DOMAIN db.visits THEN db.visits[h].start ELSE NoTime
StoredLast(h) == IF h \in DOMAIN db.visits THEN db.visits[h].end ELSE NoTime

(* HitsOf and VisitsOf, in memory and in the database                      *)
MemoryView ==
  \A h \in Host :
    /\ h \in DOMAIN hm_htab =>
         /\ h \in DOMAIN visit => HitsOf(h) = hm_htab[h].count + visit[h].hits
         /\ h \notin DOMAIN visit => HitsOf(h) = hm_htab[h].count
         /\ VisitsOf(h) = hm_htab[h].visits
    /\ h \notin DOMAIN hm_htab => HitsOf(h) = StoredHits(h) /\ VisitsOf(h) = StoredVisits(h)
    /\ h \in DOMAIN visit => StartOf(h) = visit[h].start /\ LastOf(h) = visit[h].end
    /\ h \notin DOMAIN visit => StartOf(h) = NoTime /\ LastOf(h) = NoTime

DatabaseView ==
  \A h \in Host :
    /\ HitsOf(h) = StoredHits(h) + ActiveHits(h) /\ VisitsOf(h) = StoredVisits(h)
    /\ StartOf(h) = StoredStart(h) /\ LastOf(h) = StoredLast(h)

(* What is counted for a host are numbers.                                 *)
LEMMA CountsTyped ==
  ASSUME TypeOK
  PROVE  /\ \A h \in DOMAIN hm_htab : hm_htab[h].count \in Nat /\ hm_htab[h].visits \in Nat
         /\ \A h \in DOMAIN visit : visit[h].hits \in Nat
         /\ \A h : StoredHits(h) \in Nat /\ StoredVisits(h) \in Nat /\ ActiveHits(h) \in Nat
         /\ DOMAIN hm_htab \subseteq Host /\ DOMAIN visit \subseteq Host
         /\ DOMAIN db.hosts \subseteq Host /\ DOMAIN db.visits \subseteq Host
<1>1. \A h \in DOMAIN hm_htab : h \in Host /\ hm_htab[h] \in HostNode
  BY TableAt DEF TypeOK, Tables
<1>2. \A h \in DOMAIN visit : h \in Host /\ visit[h] \in Visit
  BY TableAt DEF TypeOK, Tables
<1>3. db.hosts \in Table(Host, HostRow) /\ db.visits \in Table(Host, VisitRow)
  BY DatabaseIs DEF TypeOK
<1>4. \A h \in DOMAIN db.hosts : h \in Host /\ db.hosts[h] \in HostRow
  BY <1>3, TableAt
<1>5. \A h \in DOMAIN db.visits : h \in Host /\ db.visits[h] \in VisitRow
  BY <1>3, TableAt
<1>6. \A h \in DOMAIN hm_htab : hm_htab[h].count \in Nat /\ hm_htab[h].visits \in Nat
  BY <1>1 DEF HostNode
<1>7. \A h \in DOMAIN visit : visit[h].hits \in Nat
  BY <1>2 DEF Visit
<1>8. \A h : StoredHits(h) \in Nat /\ StoredVisits(h) \in Nat
  BY <1>4 DEF HostRow, StoredHits, StoredVisits
<1>9. \A h : ActiveHits(h) \in Nat
  BY <1>5 DEF VisitRow, ActiveHits
<1>. QED
  BY <1>1, <1>2, <1>4, <1>5, <1>6, <1>7, <1>8, <1>9

(* A host is seen in memory while that has the tables, and in the          *)
(* database else.                                                          *)
LEMMA Views ==
  TypeOK => /\ InMemory => MemoryView
            /\ ~InMemory => DatabaseView
<1>. SUFFICES ASSUME TypeOK
              PROVE  /\ InMemory => MemoryView
                     /\ ~InMemory => DatabaseView
  OBVIOUS
<1>1. ASSUME InMemory, NEW h \in Host
      PROVE  /\ h \in DOMAIN hm_htab =>
                  /\ h \in DOMAIN visit => HitsOf(h) = hm_htab[h].count + visit[h].hits
                  /\ h \notin DOMAIN visit => HitsOf(h) = hm_htab[h].count
                  /\ VisitsOf(h) = hm_htab[h].visits
             /\ h \notin DOMAIN hm_htab => HitsOf(h) = StoredHits(h) /\ VisitsOf(h) = StoredVisits(h)
  <2>1. CASE h \in DOMAIN hm_htab
    BY <1>1, <2>1, CountsTyped DEF HitsOf, VisitsOf
  <2>2. CASE h \notin DOMAIN hm_htab
    <3>1. StoredHits(h) \in Nat
      BY CountsTyped
    <3>. QED
      BY <1>1, <2>2, <3>1 DEF HitsOf, VisitsOf, StoredHits, StoredVisits
  <2>. QED
    BY <2>1, <2>2
<1>2. InMemory => MemoryView
  BY <1>1 DEF MemoryView, StartOf, LastOf
<1>3. ~InMemory => DatabaseView
  BY DEF DatabaseView, HitsOf, VisitsOf, StartOf, LastOf, StoredHits, StoredVisits, ActiveHits,
         StoredStart, StoredLast
<1>. QED
  BY <1>2, <1>3

(* So it is after a step.                                                  *)
LEMMA ViewsNext ==
  TypeOK' => /\ InMemory' => MemoryView'
             /\ ~InMemory' => DatabaseView'
BY Views, PTL

(* The same hits, visits and times of every host: Sessions stutters.       *)
Stutters ==
  /\ Current'.cur_tstamp = Current.cur_tstamp
  /\ \A h \in Host : /\ HitsOf(h)' = HitsOf(h) /\ VisitsOf(h)' = VisitsOf(h)
                     /\ StartOf(h)' = StartOf(h) /\ LastOf(h)' = LastOf(h)

(* A step that changes nothing of what is seen is none of Sessions.        *)
LEMMA StuttersIs ==
  ASSUME Stutters
  PROVE  UNCHANGED Session!sessionVars
BY DEF Stutters, Session!sessionVars

(* It is such a step that leaves hosts, their counts and visits.           *)
LEMMA StuttersInMemory ==
  ASSUME TypeOK, TypeOK', InMemory, InMemory', totals'.cur_tstamp = totals.cur_tstamp,
         DOMAIN hm_htab' = DOMAIN hm_htab, DOMAIN visit' = DOMAIN visit, db'.hosts = db.hosts,
         \A h \in DOMAIN hm_htab :
           hm_htab'[h].count = hm_htab[h].count /\ hm_htab'[h].visits = hm_htab[h].visits,
         \A h \in DOMAIN visit :
           /\ visit'[h].hits = visit[h].hits
           /\ visit'[h].start = visit[h].start /\ visit'[h].end = visit[h].end
  PROVE  Stutters
<1>1. MemoryView /\ MemoryView'
  BY Views, ViewsNext
<1>2. Current'.cur_tstamp = Current.cur_tstamp
  BY DEF Current, InMemory
<1>3. \A h \in Host : StoredHits(h)' = StoredHits(h) /\ StoredVisits(h)' = StoredVisits(h)
  BY DEF StoredHits, StoredVisits
<1>4. ASSUME NEW h \in Host
      PROVE  /\ HitsOf(h)' = HitsOf(h) /\ VisitsOf(h)' = VisitsOf(h)
             /\ StartOf(h)' = StartOf(h) /\ LastOf(h)' = LastOf(h)
  BY <1>1, <1>3 DEF MemoryView
<1>. QED
  BY <1>2, <1>4 DEF Stutters

(* A record is a hit of its host.                                          *)
LEMMA PutHNodeHits ==
  ASSUME TypeOK, References, InactiveInDb, Times, TypeOK', PutHNode,
         NEW h, NEW t, h = rec.host, t = rec.tstamp
  PROVE  h \in Host /\ t \in Nat /\ Session!Hit(h, t) /\ (Session!Over(h, t) <=> Starts)
<1>1. h \in Host /\ t \in Nat
  BY RecIs, RecTime DEF PutHNode, Busy
<1>2. ~NewHostActive
  BY LoadsSucceed
<1>3. /\ InMemory /\ InMemory' /\ db' = db /\ pc = "host" /\ Current = totals /\ Current' = totals'
  BY <1>2 DEF PutHNode, NewHostActive, InMemory, Current
<1>4. MemoryView /\ MemoryView'
  BY <1>3, Views, ViewsNext
<1>5. /\ DOMAIN hm_htab' = DOMAIN hm_htab \cup {h}
      /\ \A x \in DOMAIN hm_htab \ {h} : hm_htab'[x] = hm_htab[x]
      /\ h \in DOMAIN hm_htab =>
           /\ hm_htab'[h].count = HostsAfter(Ending)[h].count
           /\ hm_htab'[h].visits = hm_htab[h].visits + (IF Starts THEN 1 ELSE 0)
      /\ h \notin DOMAIN hm_htab =>
           /\ hm_htab'[h].count = LoadedHost(h).count
           /\ hm_htab'[h].visits = LoadedHost(h).visits + (IF Starts THEN 1 ELSE 0)
  BY <1>2, PutHNodeHost
<1>6. /\ DOMAIN visit' = DOMAIN visit \cup {h}
      /\ \A x \in DOMAIN visit \ {h} : visit'[x] = visit[x]
      /\ visit'[h].end = t
      /\ Starts => visit'[h].start = t /\ visit'[h].hits = 1
      /\ ~Starts => visit'[h].start = visit[h].start /\ visit'[h].hits = visit[h].hits + 1
  BY <1>2, PutHNodeVisit
<1>7. /\ Ending \subseteq DOMAIN visit /\ DOMAIN visit \subseteq DOMAIN hm_htab
      /\ Starts <=> (h \in DOMAIN visit => h \in Ending)
  BY EndingIs DEF References, HostsReferenced
<1>8. h \in DOMAIN hm_htab =>
        HostsAfter(Ending)[h].count =
          IF h \in Ending THEN hm_htab[h].count + visit[h].hits ELSE hm_htab[h].count
  BY <1>7, HostsAfterIs
<1>9. h \notin DOMAIN hm_htab =>
        LoadedHost(h).count = StoredHits(h) /\ LoadedHost(h).visits = StoredVisits(h)
  BY <1>1, LoadedHostIs DEF StoredHits, StoredVisits
<1>10. \A x \in Host : StoredHits(x)' = StoredHits(x) /\ StoredVisits(x)' = StoredVisits(x)
  BY <1>3 DEF StoredHits, StoredVisits
<1>11. HitsOf(h)' = HitsOf(h) + 1
  <2>1. HitsOf(h)' = hm_htab'[h].count + visit'[h].hits
    BY <1>1, <1>4, <1>5, <1>6 DEF MemoryView
  <2>2. CASE h \in Ending
    <3>1. Starts /\ h \in DOMAIN visit /\ h \in DOMAIN hm_htab
      BY <1>7, <2>2
    <3>2. HitsOf(h) = hm_htab[h].count + visit[h].hits
      BY <1>1, <1>4, <3>1 DEF MemoryView
    <3>3. hm_htab[h].count \in Nat /\ visit[h].hits \in Nat
      BY <3>1, CountsTyped
    <3>. QED
      BY <1>5, <1>6, <1>8, <2>1, <2>2, <3>1, <3>2, <3>3
  <2>3. CASE h \in DOMAIN visit /\ h \notin Ending
    <3>1. ~Starts /\ h \in DOMAIN hm_htab
      BY <1>7, <2>3
    <3>2. HitsOf(h) = hm_htab[h].count + visit[h].hits
      BY <1>1, <1>4, <2>3, <3>1 DEF MemoryView
    <3>3. hm_htab[h].count \in Nat /\ visit[h].hits \in Nat
      BY <2>3, <3>1, CountsTyped
    <3>. QED
      BY <1>5, <1>6, <1>8, <2>1, <2>3, <3>1, <3>2, <3>3
  <2>4. CASE h \notin DOMAIN visit /\ h \in DOMAIN hm_htab
    <3>1. Starts /\ h \notin Ending
      BY <1>7, <2>4
    <3>2. HitsOf(h) = hm_htab[h].count
      BY <1>1, <1>4, <2>4 DEF MemoryView
    <3>. QED
      BY <1>5, <1>6, <1>8, <2>1, <2>4, <3>1, <3>2
  <2>5. CASE h \notin DOMAIN hm_htab
    <3>1. Starts
      BY <1>7, <2>5
    <3>2. HitsOf(h) = StoredHits(h)
      BY <1>1, <1>4, <2>5 DEF MemoryView
    <3>. QED
      BY <1>5, <1>6, <1>9, <2>1, <2>5, <3>1, <3>2
  <2>. QED
    BY <1>7, <2>2, <2>3, <2>4, <2>5
<1>12. VisitsOf(h)' = VisitsOf(h) + (IF Starts THEN 1 ELSE 0)
  <2>1. VisitsOf(h)' = hm_htab'[h].visits
    BY <1>1, <1>4, <1>5 DEF MemoryView
  <2>2. VisitsOf(h) = IF h \in DOMAIN hm_htab THEN hm_htab[h].visits ELSE StoredVisits(h)
    BY <1>1, <1>4 DEF MemoryView
  <2>. QED
    BY <1>5, <1>9, <2>1, <2>2
<1>13. /\ LastOf(h)' = t
       /\ StartOf(h)' = IF Starts THEN t ELSE StartOf(h)
  BY <1>1, <1>4, <1>6, <1>7 DEF MemoryView
<1>14. ASSUME NEW x \in Host, x # h
       PROVE  /\ HitsOf(x)' = HitsOf(x) /\ VisitsOf(x)' = VisitsOf(x)
              /\ StartOf(x)' = StartOf(x) /\ LastOf(x)' = LastOf(x)
  <2>1. /\ x \in DOMAIN hm_htab' <=> x \in DOMAIN hm_htab
        /\ x \in DOMAIN visit' <=> x \in DOMAIN visit
        /\ x \in DOMAIN hm_htab => hm_htab'[x] = hm_htab[x]
        /\ x \in DOMAIN visit => visit'[x] = visit[x]
    BY <1>5, <1>6, <1>14
  <2>. QED
    BY <1>4, <1>10, <2>1 DEF MemoryView
<1>15. Session!Over(h, t) <=> Starts
  <2>1. CASE h \in DOMAIN visit
    <3>1. LastOf(h) = visit[h].end /\ StartOf(h) = visit[h].start
      BY <1>1, <1>4, <2>1 DEF MemoryView
    <3>2. visit[h].end \in Nat
      BY <2>1, TimesTyped
    <3>. QED
      BY <1>1, <2>1, <3>1, <3>2 DEF Session!Over, Session!None, Starts, VisitStarts, VisitOver, NoTime
  <2>2. CASE h \notin DOMAIN visit
    <3>1. LastOf(h) = NoTime
      BY <1>1, <1>4, <2>2 DEF MemoryView
    <3>. QED
      BY <1>1, <2>2, <3>1 DEF Session!Over, Session!None, Starts, VisitStarts, NoTime
  <2>. QED
    BY <2>1, <2>2
<1>16. Current.cur_tstamp <= t /\ Current'.cur_tstamp = t
  BY <1>2, <1>3, PutHNodeTotals DEF Times
<1>17. Current.cur_tstamp \in Int
  BY <1>3, TimesTyped
<1>18. [x \in Host |-> HitsOf(x)]' = [[x \in Host |-> HitsOf(x)] EXCEPT ![h] = @ + 1]
  BY <1>1, <1>11, <1>14
<1>19. [x \in Host |-> LastOf(x)]' = [[x \in Host |-> LastOf(x)] EXCEPT ![h] = t]
  BY <1>1, <1>13, <1>14
<1>20. CASE Starts
  <2>1. [x \in Host |-> StartOf(x)]' = [[x \in Host |-> StartOf(x)] EXCEPT ![h] = t]
    BY <1>1, <1>13, <1>14, <1>20
  <2>2. [x \in Host |-> VisitsOf(x)]' = [[x \in Host |-> VisitsOf(x)] EXCEPT ![h] = @ + 1]
    BY <1>1, <1>12, <1>14, <1>20
  <2>. QED
    BY <1>1, <1>15, <1>16, <1>17, <1>18, <1>19, <1>20, <2>1, <2>2 DEF Session!Hit
<1>21. CASE ~Starts
  <2>1. [x \in Host |-> StartOf(x)]' = [x \in Host |-> StartOf(x)]
    BY <1>1, <1>13, <1>14, <1>21
  <2>2. VisitsOf(h) \in Nat
    BY <1>1, <1>4, CountsTyped DEF MemoryView
  <2>3. [x \in Host |-> VisitsOf(x)]' = [x \in Host |-> VisitsOf(x)]
    BY <1>1, <1>12, <1>14, <1>21, <2>2
  <2>. QED
    BY <1>1, <1>15, <1>16, <1>17, <1>18, <1>19, <1>21, <2>1, <2>3 DEF Session!Hit
<1>. QED
  BY <1>1, <1>15, <1>20, <1>21

(* What is in memory is what the database has: nothing changes when it     *)
(* leaves memory.                                                          *)
LEMMA StuttersWhenStored ==
  ASSUME TypeOK, TypeOK', HostsReferenced, InMemory, ~InMemory',
         Current'.cur_tstamp = totals.cur_tstamp,
         DOMAIN db'.hosts = DOMAIN db.hosts \cup DOMAIN hm_htab,
         \A h \in DOMAIN hm_htab :
           db'.hosts[h].count = hm_htab[h].count /\ db'.hosts[h].visits = hm_htab[h].visits,
         \A h \in DOMAIN db.hosts \ DOMAIN hm_htab : db'.hosts[h] = db.hosts[h],
         DOMAIN db'.visits = DOMAIN visit,
         \A h \in DOMAIN visit :
           /\ db'.visits[h].hits = visit[h].hits
           /\ db'.visits[h].start = visit[h].start /\ db'.visits[h].end = visit[h].end
  PROVE  Stutters
<1>1. MemoryView /\ DatabaseView'
  BY Views, ViewsNext
<1>2. Current'.cur_tstamp = Current.cur_tstamp
  BY DEF Current, InMemory
<1>3. ASSUME NEW h \in Host
      PROVE  /\ HitsOf(h)' = HitsOf(h) /\ VisitsOf(h)' = VisitsOf(h)
             /\ StartOf(h)' = StartOf(h) /\ LastOf(h)' = LastOf(h)
  <2>1. /\ HitsOf(h)' = StoredHits(h)' + ActiveHits(h)' /\ VisitsOf(h)' = StoredVisits(h)'
        /\ StartOf(h)' = StoredStart(h)' /\ LastOf(h)' = StoredLast(h)'
    BY <1>1 DEF DatabaseView
  <2>2. /\ h \in DOMAIN hm_htab =>
             StoredHits(h)' = hm_htab[h].count /\ StoredVisits(h)' = hm_htab[h].visits
        /\ h \notin DOMAIN hm_htab =>
             StoredHits(h)' = StoredHits(h) /\ StoredVisits(h)' = StoredVisits(h)
    BY DEF StoredHits, StoredVisits
  <2>3. /\ ActiveHits(h)' = IF h \in DOMAIN visit THEN visit[h].hits ELSE 0
        /\ StoredStart(h)' = IF h \in DOMAIN visit THEN visit[h].start ELSE NoTime
        /\ StoredLast(h)' = IF h \in DOMAIN visit THEN visit[h].end ELSE NoTime
    BY DEF ActiveHits, StoredStart, StoredLast
  <2>4. h \in DOMAIN visit => h \in DOMAIN hm_htab
    BY DEF HostsReferenced
  <2>5. /\ StoredHits(h) \in Nat
        /\ h \in DOMAIN hm_htab => hm_htab[h].count \in Nat
    BY CountsTyped
  <2>. QED
    BY <1>1, <2>1, <2>2, <2>3, <2>4, <2>5 DEF MemoryView
<1>. QED
  BY <1>2, <1>3 DEF Stutters

(* A run without a good record saves nothing, and need not.                *)
LEMMA NothingToSave ==
  ASSUME TypeOK, References, Stored, RowsKept, Untouched, pc = "read", ~good, db' = db
  PROVE  /\ totals = db.totals
         /\ DOMAIN db'.hosts = DOMAIN db.hosts \cup DOMAIN hm_htab
         /\ \A h \in DOMAIN hm_htab :
              db'.hosts[h].count = hm_htab[h].count /\ db'.hosts[h].visits = hm_htab[h].visits
         /\ DOMAIN db'.visits = DOMAIN visit
         /\ \A h \in DOMAIN visit :
              /\ db'.visits[h].hits = visit[h].hits
              /\ db'.visits[h].start = visit[h].start /\ db'.visits[h].end = visit[h].end
<1>1. /\ totals = db.totals
      /\ \A h \in Host : v_ended[h] = 0
      /\ \A h \in DOMAIN hm_htab : ~hm_htab[h].dirty
      /\ \A h \in DOMAIN visit : ~visit[h].dirty
  BY DEF Untouched
<1>2. \A h \in DOMAIN hm_htab :
        /\ h \in DOMAIN db.hosts
        /\ db.hosts[h].count = hm_htab[h].count /\ db.hosts[h].visits = hm_htab[h].visits
  BY <1>1 DEF Stored, HostsStored
<1>3. \A h \in DOMAIN visit :
        /\ h \in DOMAIN db.visits
        /\ db.visits[h].hits = visit[h].hits
        /\ db.visits[h].start = visit[h].start /\ db.visits[h].end = visit[h].end
  BY <1>1 DEF Stored, VisitsStored
<1>4. RowsOf(v_ended, visit, db.visits)
  BY DEF RowsKept, InMemory
<1>5. DOMAIN db.visits \subseteq Host
  BY CountsTyped
<1>6. DOMAIN db.visits \subseteq DOMAIN visit
  BY <1>1, <1>4, <1>5 DEF RowsOf
<1>. QED
  BY <1>1, <1>2, <1>3, <1>6

(* save_state stores the counts of the hosts that are in memory, ...       *)
LEMMA SavedCounts ==
  ASSUME TypeOK, References, Stored, InactiveInDb, pc = "save"
  PROVE  /\ \A h \in DOMAIN hm_htab :
              /\ SavedDb.hosts[h].count = hm_htab[h].count
              /\ SavedDb.hosts[h].visits = hm_htab[h].visits
         /\ \A h \in DOMAIN db.hosts \ DOMAIN hm_htab : SavedDb.hosts[h] = db.hosts[h]
<1>1. SavedDb.hosts = SavedTable(db.hosts, {}, hm_htab, HostRows)
  BY DEF SavedDb
<1>2. /\ \A h \in Dirty(hm_htab) : SavedDb.hosts[h] = HostRows[h]
      /\ \A h \in DOMAIN db.hosts \ Dirty(hm_htab) : SavedDb.hosts[h] = db.hosts[h]
  BY <1>1 DEF SavedTable
<1>3. Dirty(hm_htab) \subseteq DOMAIN hm_htab
  BY DEF Dirty
<1>4. ASSUME NEW h \in DOMAIN hm_htab
      PROVE  /\ SavedDb.hosts[h].count = hm_htab[h].count
             /\ SavedDb.hosts[h].visits = hm_htab[h].visits
  <2>1. CASE h \in Dirty(hm_htab)
    <3>1. HostRows[h].count = hm_htab[h].count /\ HostRows[h].visits = hm_htab[h].visits
      BY DEF HostRows
    <3>. QED
      BY <1>2, <2>1, <3>1
  <2>2. CASE h \notin Dirty(hm_htab)
    BY <1>2, <2>2 DEF Dirty, Stored, HostsStored
  <2>. QED
    BY <2>1, <2>2
<1>. QED
  BY <1>2, <1>3, <1>4

(* ... so that nothing changes.                                            *)
LEMMA SaveStutters ==
  ASSUME TypeOK, TypeOK', References, Stored, RowsKept, InactiveInDb, SaveState
  PROVE  Stutters
<1>1. /\ pc = "save" /\ db' = SavedDb /\ ~InMemory' /\ InMemory
      /\ pc' = "off" \/ (pc' = "clear" /\ totals' = totals)
  BY DeletesSucceed DEF SaveState, LeaveRun, InMemory
<1>2. db'.totals = totals
  BY <1>1, SavedFields
<1>3. Current'.cur_tstamp = totals.cur_tstamp
  BY <1>1, <1>2 DEF Current
<1>4. DOMAIN SavedDb.hosts = DOMAIN db.hosts \cup DOMAIN hm_htab
  BY <1>1, SavedHostRows
<1>5. DOMAIN SavedDb.visits = DOMAIN visit
  BY <1>1, SavedVisits
<1>6. HostsReferenced
  BY DEF References
<1>. QED
  BY <1>1, <1>3, <1>4, <1>5, <1>6, SavedCounts, SavedFields, StuttersWhenStored

(* restore_state loads what the database has.                              *)
LEMMA RestoreStutters ==
  ASSUME TypeOK, TypeOK', Initialize
  PROVE  Stutters
<1>1. /\ pc = "off" /\ pc' \in {"read", "visits"} /\ db' = db /\ totals' = db.totals
      /\ Restorable /\ RestoreState
  BY DEF Initialize
<1>2. DatabaseView /\ MemoryView'
  BY <1>1, Views, ViewsNext DEF InMemory
<1>3. Current'.cur_tstamp = Current.cur_tstamp
  BY <1>1 DEF Current
<1>4. \A h \in DOMAIN db.visits : h \in DOMAIN db.hosts
  BY <1>1 DEF Restorable
<1>5. /\ DOMAIN hm_htab' = DOMAIN db.visits /\ DOMAIN visit' = DOMAIN db.visits
      /\ \A h \in DOMAIN db.visits :
           /\ hm_htab'[h].count = db.hosts[h].count /\ hm_htab'[h].visits = db.hosts[h].visits
           /\ visit'[h].hits = db.visits[h].hits
           /\ visit'[h].start = db.visits[h].start /\ visit'[h].end = db.visits[h].end
  BY <1>1, RestoreHosts
<1>6. ASSUME NEW h \in Host
      PROVE  /\ HitsOf(h)' = HitsOf(h) /\ VisitsOf(h)' = VisitsOf(h)
             /\ StartOf(h)' = StartOf(h) /\ LastOf(h)' = LastOf(h)
  <2>1. /\ HitsOf(h) = StoredHits(h) + ActiveHits(h) /\ VisitsOf(h) = StoredVisits(h)
        /\ StartOf(h) = StoredStart(h) /\ LastOf(h) = StoredLast(h)
    BY <1>2 DEF DatabaseView
  <2>2. StoredHits(h)' = StoredHits(h) /\ StoredVisits(h)' = StoredVisits(h)
    BY <1>1 DEF StoredHits, StoredVisits
  <2>3. CASE h \in DOMAIN db.visits
    <3>1. /\ StoredHits(h) = db.hosts[h].count /\ StoredVisits(h) = db.hosts[h].visits
          /\ ActiveHits(h) = db.visits[h].hits
          /\ StoredStart(h) = db.visits[h].start /\ StoredLast(h) = db.visits[h].end
      BY <1>4, <2>3 DEF StoredHits, StoredVisits, ActiveHits, StoredStart, StoredLast
    <3>. QED
      BY <1>2, <1>5, <2>1, <2>3, <3>1 DEF MemoryView
  <2>4. CASE h \notin DOMAIN db.visits
    <3>1. ActiveHits(h) = 0 /\ StoredStart(h) = NoTime /\ StoredLast(h) = NoTime
      BY <2>4 DEF ActiveHits, StoredStart, StoredLast
    <3>2. StoredHits(h) \in Nat
      BY CountsTyped
    <3>. QED
      BY <1>2, <1>5, <2>1, <2>2, <2>4, <3>1, <3>2 DEF MemoryView
  <2>. QED
    BY <2>3, <2>4
<1>. QED
  BY <1>3, <1>6 DEF Stutters

(* The visits of S end, and hosts may leave memory: their hits and visits  *)
(* stay what they are.                                                     *)
AfterEnd(h, S) == hm_htab[h].count + (IF h \in S THEN visit[h].hits ELSE 0)

VisitsEndFor(S) ==
  /\ Current'.cur_tstamp = Current.cur_tstamp
  /\ \A h \in Host : /\ HitsOf(h)' = HitsOf(h) /\ VisitsOf(h)' = VisitsOf(h)
                     /\ StartOf(h)' = IF h \in S THEN NoTime ELSE StartOf(h)
                     /\ LastOf(h)' = IF h \in S THEN NoTime ELSE LastOf(h)

(* Visits of S end when their hosts, in memory or swapped out, get their   *)
(* hits.                                                                   *)
LEMMA EndsVisits ==
  ASSUME TypeOK, TypeOK', HostsReferenced, InMemory, InMemory',
         totals'.cur_tstamp = totals.cur_tstamp,
         NEW S, S \subseteq DOMAIN visit, DOMAIN visit' = DOMAIN visit \ S,
         \A h \in DOMAIN visit \ S : visit'[h] = visit[h],
         DOMAIN visit' \subseteq DOMAIN hm_htab', DOMAIN hm_htab' \subseteq DOMAIN hm_htab,
         \A h \in DOMAIN hm_htab' :
           hm_htab'[h].count = AfterEnd(h, S) /\ hm_htab'[h].visits = hm_htab[h].visits,
         \A h \in DOMAIN hm_htab \ DOMAIN hm_htab' :
           /\ h \in DOMAIN db'.hosts
           /\ db'.hosts[h].count = AfterEnd(h, S) /\ db'.hosts[h].visits = hm_htab[h].visits,
         \A h \in Host \ DOMAIN hm_htab :
           /\ h \in DOMAIN db'.hosts <=> h \in DOMAIN db.hosts
           /\ h \in DOMAIN db.hosts => db'.hosts[h] = db.hosts[h]
  PROVE  VisitsEndFor(S)
<1>1. MemoryView /\ MemoryView'
  BY Views, ViewsNext
<1>2. Current'.cur_tstamp = Current.cur_tstamp
  BY DEF Current, InMemory
<1>3. ASSUME NEW h \in Host
      PROVE  HitsOf(h)' = HitsOf(h) /\ VisitsOf(h)' = VisitsOf(h)
  <2>1. CASE h \in DOMAIN hm_htab'
    <3>1. h \in DOMAIN hm_htab /\ h \in Host
      BY <2>1
    <3>2. /\ hm_htab[h].count \in Nat
          /\ h \in DOMAIN visit => visit[h].hits \in Nat
      BY <3>1, CountsTyped
    <3>3. /\ hm_htab'[h].count = AfterEnd(h, S) /\ hm_htab'[h].visits = hm_htab[h].visits
      BY <2>1
    <3>4. /\ h \in DOMAIN visit' <=> h \in DOMAIN visit /\ h \notin S
          /\ h \in DOMAIN visit' => visit'[h] = visit[h]
      OBVIOUS
    <3>. QED
      BY <1>1, <2>1, <3>1, <3>2, <3>3, <3>4 DEF MemoryView, AfterEnd
  <2>2. CASE h \in DOMAIN hm_htab \ DOMAIN hm_htab'
    <3>1. h \notin DOMAIN visit' /\ (h \in DOMAIN visit => h \in S)
      BY <2>2
    <3>2. hm_htab[h].count \in Nat
      BY <2>2, CountsTyped
    <3>3. StoredHits(h)' = AfterEnd(h, S) /\ StoredVisits(h)' = hm_htab[h].visits
      BY <2>2 DEF StoredHits, StoredVisits
    <3>. QED
      BY <1>1, <2>2, <3>1, <3>2, <3>3 DEF MemoryView, AfterEnd
  <2>3. CASE h \notin DOMAIN hm_htab
    <3>1. StoredHits(h)' = StoredHits(h) /\ StoredVisits(h)' = StoredVisits(h)
      BY <2>3 DEF StoredHits, StoredVisits
    <3>. QED
      BY <1>1, <2>3, <3>1 DEF MemoryView
  <2>. QED
    BY <2>1, <2>2, <2>3
<1>4. ASSUME NEW h \in Host
      PROVE  /\ StartOf(h)' = IF h \in S THEN NoTime ELSE StartOf(h)
             /\ LastOf(h)' = IF h \in S THEN NoTime ELSE LastOf(h)
  BY <1>1 DEF MemoryView
<1>. QED
  BY <1>2, <1>3, <1>4 DEF VisitsEndFor

(* If they timed out this is EndOver.                                      *)
LEMMA EndIsEndOver ==
  ASSUME NEW S \in SUBSET Host, VisitsEndFor(S), \A h \in S : Session!Over(h, Current.cur_tstamp)
  PROVE  Session!EndOver(S)
BY DEF VisitsEndFor, Session!EndOver, Session!None, NoTime

(* If they are all visits this is EndAll.                                  *)
LEMMA EndIsEndAll ==
  ASSUME VisitsEndFor(DOMAIN visit), InMemory
  PROVE  Session!EndAll
<1>1. ASSUME NEW h \in Host
      PROVE  StartOf(h)' = NoTime /\ LastOf(h)' = NoTime
  BY DEF VisitsEndFor, StartOf, LastOf
<1>. QED
  BY <1>1 DEF VisitsEndFor, Session!EndAll, Session!None, NoTime

(* What update_visit finds to be over is over.                             *)
LEMMA OverIsOver ==
  ASSUME TypeOK, InMemory, NEW h \in DOMAIN visit, h \in Host, VisitOver(visit[h], totals.cur_tstamp),
         totals.cur_tstamp # NoTime
  PROVE  Session!Over(h, Current.cur_tstamp)
<1>1. /\ LastOf(h) = visit[h].end /\ StartOf(h) = visit[h].start
      /\ Current.cur_tstamp = totals.cur_tstamp
  BY DEF LastOf, StartOf, Current, InMemory
<1>. QED
  BY <1>1 DEF VisitOver, Session!Over, Session!None, NoTime

(* swap_out ends visits that are over.                                     *)
LEMMA SwapOutHostsEnds ==
  ASSUME TypeOK, TypeOK', References, Stored, Times,
         NEW S, S \subseteq DOMAIN hm_htab, SwapOutHosts(S)
  PROVE  Session!EndOver(S \cap DOMAIN visit)
<1>. DEFINE E == S \cap DOMAIN visit
<1>1. /\ pc = "swap_hosts" /\ InMemory /\ InMemory' /\ Busy
      /\ totals' = TotalsAfter(E)
      /\ \A x \in S : hm_htab[x].tstamp <= SwapLimit
  BY DEF SwapOutHosts, InMemory, Oldest, Busy
<1>2. totals'.cur_tstamp = totals.cur_tstamp /\ totals.cur_tstamp = rec.tstamp
  BY <1>1, TotalsAfterIs DEF Times
<1>3. /\ DOMAIN hm_htab' = DOMAIN hm_htab \ S
      /\ \A x \in DOMAIN hm_htab \ S : hm_htab'[x] = hm_htab[x]
      /\ DOMAIN visit' = DOMAIN visit \ S
      /\ \A x \in DOMAIN visit \ S : visit'[x] = visit[x]
  BY SwapOutHostsIs
<1>4. \A h \in DOMAIN hm_htab : HostsAfter(E)[h].count = AfterEnd(h, E)
  <2>1. ASSUME NEW h \in DOMAIN hm_htab
        PROVE  HostsAfter(E)[h].count = AfterEnd(h, E)
    <3>1. /\ h \notin E => HostsAfter(E)[h] = hm_htab[h]
          /\ h \in E => HostsAfter(E)[h].count = hm_htab[h].count + visit[h].hits
      BY HostsAfterIs
    <3>2. hm_htab[h].count \in Nat
      BY CountsTyped
    <3>. QED
      BY <3>1, <3>2 DEF AfterEnd
  <2>. QED
    BY <2>1
<1>5. HostsReferenced
  BY DEF References
<1>6. ASSUME NEW h \in S
      PROVE  /\ h \in DOMAIN db'.hosts
             /\ db'.hosts[h].count = AfterEnd(h, E) /\ db'.hosts[h].visits = hm_htab[h].visits
  <2>1. CASE h \in SavedHosts(S)
    <3>1. /\ db'.hosts[h].count = HostsAfter(E)[h].count /\ db'.hosts[h].visits = hm_htab[h].visits
          /\ DOMAIN db'.hosts = DOMAIN db.hosts \cup SavedHosts(S)
      BY <2>1, SwapOutHostsDb
    <3>. QED
      BY <1>4, <1>6, <2>1, <3>1
  <2>2. CASE h \notin SavedHosts(S)
    <3>1. h \notin DOMAIN visit /\ ~hm_htab[h].dirty
      BY <2>2, SwapOutHostsDb
    <3>2. /\ h \in DOMAIN db.hosts
          /\ db.hosts[h].count = hm_htab[h].count /\ db.hosts[h].visits = hm_htab[h].visits
      BY <1>6, <3>1 DEF Stored, HostsStored
    <3>3. h \in DOMAIN db'.hosts /\ db'.hosts[h] = db.hosts[h]
      BY <2>2, <3>2, SwapOutHostsDb
    <3>4. hm_htab[h].count \in Nat
      BY <1>6, CountsTyped
    <3>. QED
      BY <3>1, <3>2, <3>3, <3>4 DEF AfterEnd
  <2>. QED
    BY <2>1, <2>2
<1>7. ASSUME NEW h \in DOMAIN hm_htab'
      PROVE  hm_htab'[h].count = AfterEnd(h, E) /\ hm_htab'[h].visits = hm_htab[h].visits
  <2>1. h \in DOMAIN hm_htab /\ h \notin E /\ hm_htab'[h] = hm_htab[h]
    BY <1>3
  <2>2. hm_htab[h].count \in Nat
    BY <2>1, CountsTyped
  <2>. QED
    BY <2>1, <2>2 DEF AfterEnd
<1>8. SavedHosts(S) \subseteq S
  BY DEF SavedHosts
<1>9. ASSUME NEW h \in Host \ DOMAIN hm_htab
      PROVE  /\ h \in DOMAIN db'.hosts <=> h \in DOMAIN db.hosts
             /\ h \in DOMAIN db.hosts => db'.hosts[h] = db.hosts[h]
  <2>1. h \notin SavedHosts(S)
    BY <1>8
  <2>. QED
    BY <2>1, SwapOutHostsDb
<1>10. DOMAIN visit' \subseteq DOMAIN hm_htab' /\ DOMAIN visit' = DOMAIN visit \ E
  BY <1>3, <1>5 DEF HostsReferenced
<1>11. VisitsEndFor(E)
  BY <1>1, <1>2, <1>3, <1>5, <1>6, <1>7, <1>9, <1>10, EndsVisits
<1>12. ASSUME NEW h \in E
       PROVE  Session!Over(h, Current.cur_tstamp)
  <2>1. /\ visit[h].end \in Nat /\ hm_htab[h].tstamp \in Int /\ totals.cur_tstamp \in Int
        /\ totals.cur_tstamp >= NoTime /\ rec.tstamp \in Nat
    BY <1>1, TimesTyped, RecTime
  <2>2. visit[h].end <= hm_htab[h].tstamp
    BY DEF Times
  <2>3. VisitTimeout \in Nat
    BY StateAssumption
  <2>4. rec.tstamp - visit[h].end >= VisitTimeout
    BY <1>1, <2>1, <2>2, <2>3 DEF SwapLimit
  <2>5. VisitOver(visit[h], totals.cur_tstamp)
    BY <1>2, <2>4 DEF VisitOver
  <2>6. totals.cur_tstamp # NoTime
    BY <1>2, <2>1 DEF NoTime
  <2>7. h \in Host
    BY CountsTyped
  <2>. QED
    BY <1>1, <2>5, <2>6, <2>7, OverIsOver
<1>13. E \in SUBSET Host
  BY CountsTyped
<1>. QED
  BY <1>11, <1>12, <1>13, EndIsEndOver

(* update_visits ends those that are over, or all.                         *)
LEMMA UpdateVisitsEnds ==
  ASSUME TypeOK, TypeOK', References, Times, UpdateVisits
  PROVE  (\E S \in SUBSET Host : Session!EndOver(S)) \/ Session!EndAll
<1>1. /\ pc = "visits" /\ InMemory /\ InMemory' /\ db' = db
      /\ hm_htab' = HostsAfter(VisitsOver) /\ totals' = TotalsAfter(VisitsOver)
  BY DEF UpdateVisits, InMemory
<1>2. /\ VisitsOver \subseteq DOMAIN visit
      /\ DOMAIN visit' = DOMAIN visit \ VisitsOver
      /\ \A x \in DOMAIN visit \ VisitsOver : visit'[x] = visit[x]
  BY UpdateVisitsIs
<1>3. totals'.cur_tstamp = totals.cur_tstamp
  BY <1>1, <1>2, TotalsAfterIs
<1>4. DOMAIN hm_htab' = DOMAIN hm_htab
  BY <1>1, <1>2, HostsAfterIs
<1>5. ASSUME NEW h \in DOMAIN hm_htab'
      PROVE  hm_htab'[h].count = AfterEnd(h, VisitsOver) /\ hm_htab'[h].visits = hm_htab[h].visits
  <2>1. /\ h \notin VisitsOver => hm_htab'[h] = hm_htab[h]
        /\ h \in VisitsOver => hm_htab'[h].count = hm_htab[h].count + visit[h].hits
        /\ hm_htab'[h].visits = hm_htab[h].visits
    BY <1>1, <1>2, <1>4, HostsAfterIs
  <2>2. hm_htab[h].count \in Nat
    BY <1>4, CountsTyped
  <2>. QED
    BY <2>1, <2>2 DEF AfterEnd
<1>6. HostsReferenced
  BY DEF References
<1>7. DOMAIN visit' \subseteq DOMAIN hm_htab'
  BY <1>2, <1>4, <1>6 DEF HostsReferenced
<1>8. VisitsEndFor(VisitsOver)
  BY <1>1, <1>2, <1>3, <1>4, <1>5, <1>6, <1>7, EndsVisits
<1>9. CASE why = "run"
  <2>1. ASSUME NEW h \in VisitsOver
        PROVE  Session!Over(h, Current.cur_tstamp)
    <3>1. h \in DOMAIN visit /\ h \in Host
      BY <1>2, CountsTyped
    <3>2. VisitOver(visit[h], totals.cur_tstamp)
      BY <1>9 DEF VisitsOver
    <3>3. visit[h].end \in Nat /\ visit[h].end <= totals.cur_tstamp /\ totals.cur_tstamp \in Int
      BY <3>1, TimesTyped DEF Times
    <3>4. totals.cur_tstamp # NoTime
      BY <3>3 DEF NoTime
    <3>. QED
      BY <1>1, <3>1, <3>2, <3>4, OverIsOver
  <2>2. VisitsOver \in SUBSET Host
    BY <1>2, CountsTyped
  <2>. QED
    BY <1>8, <2>1, <2>2, EndIsEndOver
<1>10. CASE why # "run"
  <2>1. VisitsOver = DOMAIN visit
    BY <1>10 DEF VisitsOver, VisitOver
  <2>. QED
    BY <1>1, <1>8, <2>1, EndIsEndAll
<1>. QED
  BY <1>9, <1>10

(* A database that is rolled over has the totals of the month.             *)
TotalsSaved == pc = "clear" => totals = db.totals

(* Every step keeps the totals in the database those of the last run that  *)
(* saved.                                                                  *)
LEMMA TotalsSavedStep ==
  ASSUME TypeOK, RowsKept, Untouched, TotalsSaved, [Next]_vars
  PROVE  TotalsSaved'
<1>1. CASE SaveState
  BY <1>1, DeletesSucceed DEF SaveState, SavedDb, LeaveRun, TotalsSaved
<1>2. CASE \E r \in Record : r.kind \in Kind /\ ReadRecord(r)
  BY <1>2 DEF ReadRecord, memVars, Untouched, TotalsSaved
<1>3. CASE UNCHANGED vars
  BY <1>3 DEF vars, memVars, TotalsSaved
<1>4. CASE pc' # "clear"
  BY <1>4 DEF TotalsSaved
<1>. QED
  BY <1>1, <1>2, <1>3, <1>4 DEF Next, Initialize, InitializeFails, PutHNode, PutUNode, PutDLNode,
     SwapOutDownloads, SwapOutHosts, SwapOutUrls, EndOfLogs, UpdateVisits, UpdateDownloads,
     ClearMonth, Interrupted, Leave, Throw, LeaveRun

(* The month's counts start anew.                                          *)
LEMMA ClearIsNewMonth ==
  ASSUME TypeOK, TypeOK', MonthClosed, ClearMonth
  PROVE  Session!NewMonth
<1>0. DOMAIN Empty = {}
  BY DEF Empty
<1>1. /\ pc = "clear" /\ db' = NewDb
      /\ hm_htab' = Empty /\ visit' = Empty
      /\ pc' = "off" \/ (pc' = "host" /\ totals' = ZeroTotals)
  BY DEF ClearMonth, LeaveRun, ClearTables
<1>2. db.visits = Empty /\ db'.hosts = Empty /\ db'.visits = Empty /\ db'.totals = ZeroTotals
  BY <1>1 DEF MonthClosed, NewDb
<1>3. Current'.cur_tstamp = NoTime
  BY <1>1, <1>2 DEF Current, ZeroTotals
<1>4. DatabaseView
  BY <1>1, Views DEF InMemory
<1>5. ASSUME NEW h \in Host
      PROVE  StartOf(h) = NoTime /\ LastOf(h) = NoTime
  BY <1>0, <1>2, <1>4 DEF DatabaseView, StoredStart, StoredLast
<1>6. ASSUME NEW h \in Host
      PROVE  /\ HitsOf(h)' = 0 /\ VisitsOf(h)' = 0
             /\ StartOf(h)' = NoTime /\ LastOf(h)' = NoTime
  BY <1>0, <1>1, <1>2 DEF HitsOf, VisitsOf, StartOf, LastOf
<1>. QED
  BY <1>3, <1>5, <1>6 DEF Session!NewMonth, Session!None, NoTime

(* The same view of the database                                           *)
LEMMA StuttersInDatabase ==
  ASSUME TypeOK, TypeOK', ~InMemory, ~InMemory', db' = db,
         Current'.cur_tstamp = Current.cur_tstamp
  PROVE  Stutters
<1>1. DatabaseView /\ DatabaseView'
  BY Views, ViewsNext
<1>2. \A h \in Host :
        /\ StoredHits(h)' = StoredHits(h) /\ StoredVisits(h)' = StoredVisits(h)
        /\ ActiveHits(h)' = ActiveHits(h)
        /\ StoredStart(h)' = StoredStart(h) /\ StoredLast(h)' = StoredLast(h)
  BY DEF StoredHits, StoredVisits, ActiveHits, StoredStart, StoredLast
<1>. QED
  BY <1>1, <1>2 DEF DatabaseView, Stutters

(* Before a record is counted                                              *)
LEMMA ReadStutters ==
  ASSUME TypeOK, TypeOK', References, Stored, RowsKept, Untouched,
         NEW r \in Record, ReadRecord(r)
  PROVE  Stutters
<1>1. pc = "read" /\ InMemory /\ UNCHANGED <<memVars, db>>
  BY DEF ReadRecord, InMemory
<1>2. CASE pc' = "clear"
  <2>1. ~good /\ ~InMemory' /\ Current'.cur_tstamp = totals.cur_tstamp
    BY <1>1, <1>2 DEF ReadRecord, InMemory, Current, memVars
  <2>2. HostsReferenced
    BY DEF References
  <2>3. db' = db
    BY <1>1
  <2>. QED
    BY <1>1, <2>1, <2>2, <2>3, NothingToSave, StuttersWhenStored
<1>3. CASE pc' # "clear"
  <2>1. InMemory'
    BY <1>3 DEF ReadRecord, InMemory
  <2>. QED
    BY <1>1, <2>1, StuttersInMemory DEF memVars
<1>. QED
  BY <1>2, <1>3

(* A step that neither counts a record nor starts a month ends visits, or  *)
(* is none of Sessions.                                                    *)
LEMMA QuietStep ==
  ASSUME TypeOK, TypeOK', References, Books, Times, TotalsSaved, [Next]_vars,
         ~PutHNode, ~ClearMonth
  PROVE  \/ UNCHANGED Session!sessionVars
         \/ \E S \in SUBSET Host : Session!EndOver(S)
         \/ Session!EndAll
<1>. USE DEF Books
<1>0. Stutters => UNCHANGED Session!sessionVars
  BY StuttersIs
<1>1. CASE Initialize
  BY <1>0, <1>1, RestoreStutters
<1>2. CASE InitializeFails
  <2>1. Stutters
    BY <1>2, StuttersInDatabase DEF InitializeFails, Throw, LeaveRun, InMemory, Current
  <2>. QED
    BY <1>0, <2>1
<1>3. CASE \E r \in Record : r.kind \in Kind /\ ReadRecord(r)
  BY <1>0, <1>3, ReadStutters
<1>5. CASE PutUNode
  <2>1. /\ InMemory /\ InMemory' /\ UNCHANGED <<totals, hm_htab, db>>
        /\ rec.kind = "page" \/ visit' = visit
    BY <1>5, RecIs DEF PutUNode, InMemory, Busy
  <2>2. /\ DOMAIN visit' = DOMAIN visit
        /\ \A h \in DOMAIN visit :
             /\ visit'[h].hits = visit[h].hits
             /\ visit'[h].start = visit[h].start /\ visit'[h].end = visit[h].end
    BY <1>5, <2>1, PutUNodeVisit
  <2>3. Stutters
    BY <2>1, <2>2, StuttersInMemory
  <2>. QED
    BY <1>0, <2>3
<1>6. CASE PutDLNode
  <2>1. ~NewDownloadActive
    BY <1>6, LoadsSucceed
  <2>2. InMemory /\ InMemory' /\ visit' = visit /\ db' = db /\ totals'.cur_tstamp = totals.cur_tstamp
    BY <1>6, <2>1 DEF PutDLNode, NewDownloadActive, InMemory, TypeOK, Totals
  <2>3. /\ DOMAIN hm_htab' = DOMAIN hm_htab
        /\ \A h \in DOMAIN hm_htab :
             hm_htab'[h].count = hm_htab[h].count /\ hm_htab'[h].visits = hm_htab[h].visits
    BY <1>6, <2>1, PutDLNodeHost
  <2>4. Stutters
    BY <2>2, <2>3, StuttersInMemory
  <2>. QED
    BY <1>0, <2>4
<1>7. CASE \E S \in SUBSET DOMAIN dl_htab : SwapOutDownloads(S)
  <2>1. PICK S \in SUBSET DOMAIN dl_htab : SwapOutDownloads(S)
    BY <1>7
  <2>2. InMemory /\ InMemory' /\ visit' = visit /\ totals'.cur_tstamp = totals.cur_tstamp
    BY <2>1 DEF SwapOutDownloads, InMemory, TypeOK, Totals
  <2>3. db'.hosts = db.hosts
    BY <2>1, SwapOutDownloadsDb
  <2>4. /\ DOMAIN hm_htab' = DOMAIN hm_htab
        /\ \A h \in DOMAIN hm_htab :
             hm_htab'[h].count = hm_htab[h].count /\ hm_htab'[h].visits = hm_htab[h].visits
    BY <2>1, SwapOutDownloadsIs
  <2>5. Stutters
    BY <2>2, <2>3, <2>4, StuttersInMemory
  <2>. QED
    BY <1>0, <2>5
<1>8. CASE \E S \in SUBSET DOMAIN hm_htab : SwapOutHosts(S)
  <2>1. PICK S \in SUBSET DOMAIN hm_htab : SwapOutHosts(S)
    BY <1>8
  <2>2. Session!EndOver(S \cap DOMAIN visit) /\ S \cap DOMAIN visit \in SUBSET Host
    BY <2>1, SwapOutHostsEnds, CountsTyped
  <2>. QED
    BY <2>2
<1>9. CASE \E S \in SUBSET DOMAIN um_htab : SwapOutUrls(S)
  <2>1. PICK S \in SUBSET DOMAIN um_htab : SwapOutUrls(S)
    BY <1>9
  <2>2. InMemory /\ InMemory' /\ UNCHANGED <<totals, hm_htab, visit>>
    BY <2>1 DEF SwapOutUrls, InMemory
  <2>3. db'.hosts = db.hosts
    BY <2>1, SwapOutUrlsIs
  <2>4. Stutters
    BY <2>2, <2>3, StuttersInMemory
  <2>. QED
    BY <1>0, <2>4
<1>10. CASE EndOfLogs
  <2>1. Stutters
    BY <1>10, StuttersInMemory DEF EndOfLogs, memVars, InMemory
  <2>. QED
    BY <1>0, <2>1
<1>11. CASE UpdateVisits
  BY <1>11, UpdateVisitsEnds
<1>12. CASE UpdateDownloads
  <2>1. /\ InMemory /\ InMemory' /\ UNCHANGED <<hm_htab, visit, db>>
        /\ totals'.cur_tstamp = totals.cur_tstamp
    BY <1>12 DEF UpdateDownloads, InMemory, TypeOK, Totals
  <2>2. Stutters
    BY <2>1, StuttersInMemory
  <2>. QED
    BY <1>0, <2>2
<1>13. CASE SaveState
  BY <1>0, <1>13, SaveStutters
<1>15. CASE Interrupted
  <2>1. Stutters
    BY <1>15, StuttersInDatabase DEF Interrupted, LeaveRun, InMemory, Current, TotalsSaved
  <2>. QED
    BY <1>0, <2>1
<1>16. CASE Leave
  <2>1. /\ pc = "read" /\ ~good /\ db' = db /\ pc' = "off" /\ InMemory /\ ~InMemory'
        /\ HostsReferenced
    BY <1>16 DEF Leave, LeaveRun, InMemory, References
  <2>2. Current'.cur_tstamp = totals.cur_tstamp
    BY <2>1, NothingToSave DEF Current
  <2>3. Stutters
    BY <2>1, <2>2, NothingToSave, StuttersWhenStored
  <2>. QED
    BY <1>0, <2>3
<1>17. CASE UNCHANGED vars
  <2>1. UNCHANGED Session!sessionVars
    BY <1>17 DEF vars, memVars, Session!sessionVars, Current, HitsOf, VisitsOf, StartOf, LastOf,
                 InMemory
  <2>. QED
    BY <2>1
<1>. QED
  BY <1>1, <1>2, <1>3, <1>5, <1>6, <1>7, <1>8, <1>9, <1>10, <1>11, <1>12, <1>13, <1>15, <1>16,
     <1>17 DEF Next

(* Every step of the state engine is a step of Sessions, or none.          *)
LEMMA SessionStep ==
  ASSUME TypeOK, TypeOK', References, Books, Times, TotalsSaved, [Next]_vars
  PROVE  [Session!Next]_(Session!sessionVars)
<1>1. CASE PutHNode
  <2>1. PICK h, t : h = rec.host /\ t = rec.tstamp
    OBVIOUS
  <2>2. h \in Host /\ t \in Nat /\ Session!Hit(h, t)
    BY <1>1, <2>1, PutHNodeHits DEF Books
  <2>3. t \in 0 .. MaxTime
    BY <1>1, <2>1, RecIs DEF PutHNode, Busy, Time
  <2>. QED
    BY <2>2, <2>3 DEF Session!Next
<1>2. CASE ClearMonth
  BY <1>2, ClearIsNewMonth DEF Session!Next, Books
<1>3. CASE ~PutHNode /\ ~ClearMonth
  BY <1>3, QuietStep DEF Session!Next
<1>. QED
  BY <1>1, <1>2, <1>3

(* The first state is the first of Sessions.                               *)
LEMMA SessionInit == Init => Session!Init
<1>1. DOMAIN Empty = {}
  BY DEF Empty
<1>. QED
  BY <1>1 DEF Init, Session!Init, Session!None, Current, HitsOf, VisitsOf, StartOf, LastOf, InMemory,
              NewDb, ZeroTotals, NoTime

(* The hits and visits of each host depend on the log records alone: not   *)
(* on what is swapped out, nor on how many runs the month takes.           *)
THEOREM SessionsKept == Spec => ImplementsSessions
<1>1. Init => TotalsSaved
  BY DEF Init, TotalsSaved
<1>2. TypeOK /\ Books /\ TotalsSaved /\ [Next]_vars => TotalsSaved'
  BY TotalsSavedStep DEF Books
<1>3. TypeOK /\ TypeOK' /\ References /\ Books /\ Times /\ TotalsSaved /\ [Next]_vars
        => [Session!Next]_(Session!sessionVars)
  BY SessionStep
<1>. QED
  BY <1>1, <1>2, <1>3, SessionInit, BooksKept, TimesKept, PTL
     DEF Spec, ImplementsSessions, Session!Spec

-----------------------------------------------------------------------------
(* Totals                                                                  *)

(* What the database alone says of a URL and of a download job             *)
StoredExits(u) == IF u \in DOMAIN db.urls THEN db.urls[u].exit ELSE 0
StoredDownloads(h) == IF h \in DOMAIN db.downloads THEN db.downloads[h].count ELSE 0

(* Exits and downloads are numbers, in memory and in the database.         *)
LEMMA ItemsTyped ==
  ASSUME TypeOK
  PROVE  /\ \A u \in DOMAIN um_htab : u \in Url /\ um_htab[u].exit \in Nat
         /\ \A h \in DOMAIN dl_htab : h \in Host /\ dl_htab[h].count \in Nat
         /\ \A u \in DOMAIN db.urls : u \in Url /\ db.urls[u].exit \in Nat
         /\ \A h \in DOMAIN db.downloads : h \in Host /\ db.downloads[h].count \in Nat
         /\ Current \in Totals
         /\ \A x : ExitsOf(x) \in Nat /\ DownloadsOf(x) \in Nat
<1>1. \A u \in DOMAIN um_htab : u \in Url /\ um_htab[u] \in UrlNode
  BY TableAt DEF TypeOK, Tables
<1>2. \A h \in DOMAIN dl_htab : h \in Host /\ dl_htab[h] \in DownloadNode
  BY TableAt DEF TypeOK, Tables
<1>3. /\ db.urls \in Table(Url, UrlRow) /\ db.downloads \in Table(Host, DownloadRow)
      /\ db.totals \in Totals
  BY DatabaseIs DEF TypeOK
<1>4. \A u \in DOMAIN db.urls : u \in Url /\ db.urls[u] \in UrlRow
  BY <1>3, TableAt
<1>5. \A h \in DOMAIN db.downloads : h \in Host /\ db.downloads[h] \in DownloadRow
  BY <1>3, TableAt
<1>6. Current \in Totals
  BY <1>3 DEF Current, TypeOK
<1>7. /\ \A u \in DOMAIN um_htab : um_htab[u].exit \in Nat
      /\ \A u \in DOMAIN db.urls : db.urls[u].exit \in Nat
  BY <1>1, <1>4 DEF UrlNode, UrlRow
<1>8. /\ \A h \in DOMAIN dl_htab : dl_htab[h].count \in Nat
      /\ \A h \in DOMAIN db.downloads : db.downloads[h].count \in Nat
  BY <1>2, <1>5 DEF DownloadNode, DownloadRow
<1>9. \A x : ExitsOf(x) \in Nat /\ DownloadsOf(x) \in Nat
  BY <1>7, <1>8 DEF ExitsOf, DownloadsOf
<1>. QED
  BY <1>1, <1>2, <1>4, <1>5, <1>6, <1>7, <1>8, <1>9

CountsAreNumbers == \A h \in Host : HitsOf(h) \in Nat /\ VisitsOf(h) \in Nat

(* All counts are numbers.                                                 *)
LEMMA Numbers == TypeOK => CountsAreNumbers
<1>. SUFFICES ASSUME TypeOK PROVE CountsAreNumbers
  OBVIOUS
<1>1. CASE InMemory
  BY <1>1, Views, CountsTyped DEF MemoryView, CountsAreNumbers
<1>2. CASE ~InMemory
  BY <1>2, Views, CountsTyped DEF DatabaseView, CountsAreNumbers
<1>. QED
  BY <1>1, <1>2

(* So they are after a step.                                               *)
LEMMA NumbersNext == TypeOK' => CountsAreNumbers'
BY Numbers, PTL

(* Nothing is to be stored before a good record.                           *)
ItemsUntouched ==
  pc = "read" /\ ~good => /\ \A u \in DOMAIN um_htab : ~um_htab[u].dirty
                          /\ \A h \in DOMAIN dl_htab : ~dl_htab[h].dirty

(* No step loses what URLs and jobs have while tables are not in memory.   *)
LEMMA ItemsUntouchedStep ==
  ASSUME TypeOK, Untouched, ItemsUntouched, [Next]_vars
  PROVE  ItemsUntouched'
<1>1. CASE Initialize
  <2>1. Restorable /\ RestoreState
    BY <1>1 DEF Initialize
  <2>. QED
    BY <2>1, RestoreUrls, RestoreDownloads DEF ItemsUntouched
<1>2. CASE \E S \in SUBSET DOMAIN um_htab : SwapOutUrls(S)
  BY <1>2 DEF SwapOutUrls, Untouched, Busy, ItemsUntouched
<1>3. CASE UNCHANGED vars
  BY <1>3 DEF vars, memVars, ItemsUntouched
<1>4. CASE pc' # "read" \/ good'
  BY <1>4 DEF ItemsUntouched
<1>. QED
  BY <1>1, <1>2, <1>3, <1>4 DEF Next, InitializeFails, ReadRecord, PutHNode, PutUNode, PutDLNode,
     SwapOutDownloads, SwapOutHosts, EndOfLogs, UpdateVisits, UpdateDownloads, SaveState,
     ClearMonth, Interrupted, Leave, Throw, LeaveRun

(* What a step may do to URLs and download jobs: nothing, end the visits   *)
(* of S, or end the downloads of S.                                        *)
SameItems ==
  /\ \A u \in Url : ExitsOf(u)' = ExitsOf(u)
  /\ \A h \in Host : DownloadsOf(h)' = DownloadsOf(h)

VisitsEndedBy(S) ==
  /\ InMemory /\ S \subseteq DOMAIN visit
  /\ Current'.t_exit = TotalsAfter(S).t_exit /\ Current'.u_exit = TotalsAfter(S).u_exit
  /\ Current'.t_dlcount = Current.t_dlcount
  /\ \A u \in Url : ExitsOf(u)' = ExitsOf(u) + Cardinality(LastUrlOf(S, u))
  /\ \A h \in Host : DownloadsOf(h)' = DownloadsOf(h)
  /\ ~PutHNode => Current'.t_hit = Current.t_hit /\ Current'.t_visits = Current.t_visits

DownloadsEndedBy(S) ==
  /\ S \subseteq Host
  /\ Current' = [Current EXCEPT !.t_dlcount = @ + Cardinality(S)]
  /\ \A u \in Url : ExitsOf(u)' = ExitsOf(u)
  /\ \A h \in Host : DownloadsOf(h)' = DownloadsOf(h) + (IF h \in S THEN 1 ELSE 0)

(* The visits of S end and the URLs stay where they are.                   *)
LEMMA EndsVisitsBy ==
  ASSUME TypeOK, References, InMemory, InMemory', NEW S, S \subseteq DOMAIN visit,
         um_htab' = UrlsAfter(S), db'.urls = db.urls, dl_htab' = dl_htab,
         db'.downloads = db.downloads,
         totals'.t_exit = TotalsAfter(S).t_exit, totals'.u_exit = TotalsAfter(S).u_exit,
         totals'.t_dlcount = totals.t_dlcount,
         ~PutHNode => totals'.t_hit = totals.t_hit /\ totals'.t_visits = totals.t_visits
  PROVE  VisitsEndedBy(S)
<1>1. Current = totals /\ Current' = totals'
  BY DEF Current, InMemory
<1>2. \A h \in Host : DownloadsOf(h)' = DownloadsOf(h)
  BY DEF DownloadsOf
<1>3. ASSUME NEW u \in Url
      PROVE  ExitsOf(u)' = ExitsOf(u) + Cardinality(LastUrlOf(S, u))
  <2>1. CASE u \in DOMAIN um_htab
    <3>1. u \in DOMAIN um_htab' /\ um_htab'[u].exit = um_htab[u].exit + Cardinality(LastUrlOf(S, u))
      BY <2>1, UrlsAfterIs
    <3>. QED
      BY <2>1, <3>1 DEF ExitsOf
  <2>2. CASE u \notin DOMAIN um_htab
    <3>1. u \notin DOMAIN um_htab'
      BY <2>2, UrlsAfterIs
    <3>2. LastUrlOf(S, u) = {}
      <4>1. u # NoUrl
        BY StateAssumption
      <4>. QED
        BY <2>2, <4>1 DEF LastUrlOf, References, UrlsReferenced
    <3>3. Cardinality(LastUrlOf(S, u)) = 0
      BY <3>2, FS_EmptySet
    <3>4. ExitsOf(u)' = ExitsOf(u) /\ ExitsOf(u) \in Nat
      BY <2>2, <3>1, ItemsTyped DEF ExitsOf
    <3>. QED
      BY <3>3, <3>4
  <2>. QED
    BY <2>1, <2>2
<1>. QED
  BY <1>1, <1>2, <1>3 DEF VisitsEndedBy

(* put_hnode ends the visit of its host or none.                           *)
LEMMA PutHNodeEnds ==
  ASSUME TypeOK, References, InactiveInDb, PutHNode
  PROVE  VisitsEndedBy(Ending)
<1>1. ~NewHostActive
  BY LoadsSucceed
<1>2. /\ pc = "host" /\ pc' = "url" /\ um_htab' = UrlsAfter(Ending) /\ db' = db
      /\ dl_htab' = dl_htab
      /\ totals' = [TotalsAfter(Ending) EXCEPT !.cur_tstamp = rec.tstamp,
                      !.t_hit = TotalsAfter(Ending).t_hit + 1,
                      !.t_visits = IF Starts THEN TotalsAfter(Ending).t_visits + 1
                                             ELSE TotalsAfter(Ending).t_visits]
  BY <1>1 DEF PutHNode, NewHostActive, Ending, Starts
<1>3. Ending \subseteq DOMAIN visit
  BY EndingIs
<1>4. TotalsAfter(Ending) \in Totals /\ TotalsAfter(Ending).t_dlcount = totals.t_dlcount
  <2>1. TotalsAfter(Ending) \in Totals
    BY <1>3, TotalsAfterIs
  <2>2. totals \in Totals
    BY DEF TypeOK
  <2>3. TotalsAfter(Ending).t_dlcount = totals.t_dlcount
    BY <2>2 DEF TotalsAfter, Totals
  <2>. QED
    BY <2>1, <2>3
<1>5. /\ totals'.t_exit = TotalsAfter(Ending).t_exit /\ totals'.u_exit = TotalsAfter(Ending).u_exit
      /\ totals'.t_dlcount = totals.t_dlcount
  BY <1>2, <1>4 DEF Totals
<1>6. InMemory /\ InMemory'
  BY <1>2 DEF InMemory
<1>. QED
  BY <1>2, <1>3, <1>5, <1>6, EndsVisitsBy

(* Ended visits add exits, and URLs that are exits for the first time.     *)
LEMMA TotalsAfterEnds ==
  ASSUME TypeOK, NEW S, S \subseteq DOMAIN visit
  PROVE  /\ TotalsAfter(S).t_dlcount = totals.t_dlcount
         /\ TotalsAfter(S).t_hit = totals.t_hit /\ TotalsAfter(S).t_visits = totals.t_visits
         /\ TotalsAfter(S).t_exit =
              totals.t_exit + Cardinality({h \in S : visit[h].lasturl # NoUrl})
         /\ TotalsAfter(S).u_exit =
              totals.u_exit + Cardinality({u \in DOMAIN um_htab :
                                             um_htab[u].exit = 0 /\ LastUrlOf(S, u) # {}})
BY DEF TotalsAfter, TypeOK, Totals

(* swap_out of hosts ends their visits.                                    *)
LEMMA SwapOutHostsEndsBy ==
  ASSUME TypeOK, References, NEW S, S \subseteq DOMAIN hm_htab, SwapOutHosts(S)
  PROVE  VisitsEndedBy(S \cap DOMAIN visit)
<1>1. /\ InMemory /\ InMemory' /\ um_htab' = UrlsAfter(S \cap DOMAIN visit)
      /\ dl_htab' = dl_htab /\ totals' = TotalsAfter(S \cap DOMAIN visit)
  BY DEF SwapOutHosts, InMemory
<1>2. db'.urls = db.urls /\ db'.downloads = db.downloads
  BY SwapOutHostsDb
<1>3. S \cap DOMAIN visit \subseteq DOMAIN visit
  OBVIOUS
<1>. QED
  BY <1>1, <1>2, <1>3, TotalsAfterEnds, EndsVisitsBy

(* update_visits ends those that are over.                                 *)
LEMMA UpdateVisitsEndsBy ==
  ASSUME TypeOK, References, UpdateVisits
  PROVE  VisitsEndedBy(VisitsOver)
<1>1. /\ InMemory /\ InMemory' /\ um_htab' = UrlsAfter(VisitsOver)
      /\ dl_htab' = dl_htab /\ totals' = TotalsAfter(VisitsOver) /\ db' = db
  BY DEF UpdateVisits, InMemory
<1>2. VisitsOver \subseteq DOMAIN visit
  BY UpdateVisitsIs
<1>. QED
  BY <1>1, <1>2, TotalsAfterEnds, EndsVisitsBy

(* The downloads of S end; jobs may leave memory.                          *)
LEMMA EndsDownloadsBy ==
  ASSUME TypeOK, InMemory, InMemory', NEW S, S \subseteq DOMAIN download, S \subseteq Host,
         um_htab' = um_htab, db'.urls = db.urls,
         totals' = [totals EXCEPT !.t_dlcount = @ + Cardinality(S)],
         \A h \in Host : DownloadsOf(h)' = DownloadsOf(h) + (IF h \in S THEN 1 ELSE 0)
  PROVE  DownloadsEndedBy(S)
<1>1. Current = totals /\ Current' = totals'
  BY DEF Current, InMemory
<1>2. \A u \in Url : ExitsOf(u)' = ExitsOf(u)
  BY DEF ExitsOf
<1>. QED
  BY <1>1, <1>2 DEF DownloadsEndedBy

(* Ended downloads are counted once each.                                  *)
LEMMA DownloadsAfterCounts ==
  ASSUME TypeOK, NEW S, S \subseteq DOMAIN download, NEW h \in DOMAIN dl_htab
  PROVE  DownloadsAfter(S)[h].count = dl_htab[h].count + (IF h \in S THEN 1 ELSE 0)
<1>1. dl_htab[h].count \in Nat /\ dl_htab[h] \in DownloadNode
  BY ItemsTyped, DownloadsAfterIs
<1>. QED
  BY <1>1 DEF DownloadsAfter, DownloadNode

(* put_dlnode ends the download of its job or none.                        *)
LEMMA PutDLNodeEnds ==
  ASSUME TypeOK, References, InactiveInDb, PutDLNode
  PROVE  \E S : DownloadsEndedBy(S)
<1>. DEFINE h == rec.host
            t == rec.tstamp
            S == {x \in {h} \cap DOMAIN download : DownloadOver(download[x], t)}
            known == h \in DOMAIN dl_htab
            node == IF known THEN DownloadsAfter(S)[h] ELSE LoadedDownload(h)
<1>1. ~NewDownloadActive /\ h \in Host
  BY LoadsSucceed, RecIs DEF PutDLNode, Busy
<1>2. /\ pc = "download" /\ pc' = "swap" /\ um_htab' = um_htab /\ db' = db
      /\ totals' = [totals EXCEPT !.t_dlcount = @ + Cardinality(S)]
      /\ dl_htab' = Put(dl_htab, h, [node EXCEPT !.tstamp = t, !.dirty = TRUE])
  BY <1>1 DEF PutDLNode, NewDownloadActive
<1>3. InMemory /\ InMemory'
  BY <1>2 DEF InMemory
<1>4. S \subseteq DOMAIN download /\ S \subseteq {h} /\ S \subseteq Host
  BY <1>1
<1>5. S \subseteq DOMAIN dl_htab
  BY <1>4 DEF References, HostsReferenced
<1>. HIDE DEF S
<1>6. node \in DownloadNode /\ node.count = DownloadsOf(h) + (IF h \in S THEN 1 ELSE 0)
  <2>1. CASE known
    <3>1. node = DownloadsAfter(S)[h] /\ node \in DownloadNode
      BY <1>4, <2>1, DownloadsAfterIs
    <3>2. DownloadsAfter(S)[h].count = dl_htab[h].count + (IF h \in S THEN 1 ELSE 0)
      BY <1>4, <2>1, DownloadsAfterCounts
    <3>. QED
      BY <1>3, <2>1, <3>1, <3>2 DEF DownloadsOf
  <2>2. CASE ~known
    <3>1. node = LoadedDownload(h) /\ node \in DownloadNode /\ h \notin S
      BY <1>1, <1>5, <2>2, LoadedDownloadIs
    <3>2. node.count = DownloadsOf(h) /\ DownloadsOf(h) \in Nat
      BY <2>2, <3>1, ItemsTyped DEF LoadedDownload, DownloadsOf
    <3>. QED
      BY <3>1, <3>2
  <2>. QED
    BY <2>1, <2>2
<1>. HIDE DEF node
<1>7. /\ DOMAIN dl_htab' = DOMAIN dl_htab \cup {h} /\ dl_htab'[h].count = node.count
      /\ \A x \in DOMAIN dl_htab \ {h} : dl_htab'[x] = dl_htab[x]
  BY <1>2, <1>6 DEF Put, DownloadNode
<1>8. ASSUME NEW x \in Host
      PROVE  DownloadsOf(x)' = DownloadsOf(x) + (IF x \in S THEN 1 ELSE 0)
  <2>1. CASE x = h
    BY <1>3, <1>6, <1>7, <2>1 DEF DownloadsOf
  <2>2. CASE x # h
    <3>1. x \notin S /\ DownloadsOf(x) \in Nat
      BY <1>4, <2>2, ItemsTyped
    <3>2. DownloadsOf(x)' = DownloadsOf(x)
      BY <1>2, <1>3, <1>7, <2>2 DEF DownloadsOf
    <3>. QED
      BY <3>1, <3>2
  <2>. QED
    BY <2>1, <2>2
<1>. HIDE DEF h, t
<1>. QED
  BY <1>2, <1>3, <1>4, <1>8, EndsDownloadsBy

(* swap_out of jobs ends their downloads.                                  *)
LEMMA SwapOutDownloadsEnds ==
  ASSUME TypeOK, References, Stored, NEW S, S \subseteq DOMAIN dl_htab, SwapOutDownloads(S)
  PROVE  DownloadsEndedBy(S \cap DOMAIN download)
<1>. DEFINE E == S \cap DOMAIN download
<1>1. /\ InMemory /\ InMemory' /\ um_htab' = um_htab
      /\ totals' = [totals EXCEPT !.t_dlcount = @ + Cardinality(E)]
      /\ db' = [db EXCEPT !.downloads =
                  [h \in DOMAIN db.downloads \cup SavedDownloads(S) |->
                     IF h \in SavedDownloads(S)
                       THEN [count |-> DownloadsAfter(E)[h].count, sumhits |-> DownloadsAfter(E)[h].sumhits,
                             active |-> FALSE]
                       ELSE db.downloads[h]]]
  BY DEF SwapOutDownloads, InMemory, SavedDownloads
<1>2. E \subseteq DOMAIN download /\ E \subseteq Host
  BY ItemsTyped
<1>3. /\ DOMAIN dl_htab' = DOMAIN dl_htab \ S
      /\ \A x \in DOMAIN dl_htab \ S : dl_htab'[x] = dl_htab[x]
  BY SwapOutDownloadsIs
<1>4. /\ DOMAIN db'.downloads = DOMAIN db.downloads \cup SavedDownloads(S)
      /\ \A h \in DOMAIN db.downloads \ SavedDownloads(S) : db'.downloads[h] = db.downloads[h]
      /\ \A h \in S : h \in DOMAIN download \/ dl_htab[h].dirty => h \in SavedDownloads(S)
      /\ db'.urls = db.urls
  BY SwapOutDownloadsDb
<1>5. \A h \in SavedDownloads(S) : db'.downloads[h].count = DownloadsAfter(E)[h].count
  <2>1. db \in Database
    BY DEF TypeOK
  <2>. QED
    BY <1>1, <2>1 DEF Database
<1>6. SavedDownloads(S) \subseteq S
  BY DEF SavedDownloads
<1>. HIDE DEF E
<1>7. ASSUME NEW h \in Host
      PROVE  DownloadsOf(h)' = DownloadsOf(h) + (IF h \in E THEN 1 ELSE 0)
  <2>0. DownloadsOf(h) \in Nat
    BY ItemsTyped
  <2>1. CASE h \in DOMAIN dl_htab \ S
    <3>1. h \notin E
      BY <2>1 DEF E
    <3>2. DownloadsOf(h)' = DownloadsOf(h)
      BY <1>1, <1>3, <2>1 DEF DownloadsOf
    <3>. QED
      BY <2>0, <3>1, <3>2
  <2>2. CASE h \in SavedDownloads(S)
    <3>1. h \in S /\ h \in DOMAIN dl_htab
      BY <1>6, <2>2
    <3>2. DownloadsAfter(E)[h].count = dl_htab[h].count + (IF h \in E THEN 1 ELSE 0)
      BY <1>2, <3>1, DownloadsAfterCounts
    <3>3. DownloadsOf(h)' = db'.downloads[h].count /\ DownloadsOf(h) = dl_htab[h].count
      BY <1>1, <1>3, <1>4, <2>2, <3>1 DEF DownloadsOf
    <3>. QED
      BY <1>5, <2>2, <3>2, <3>3
  <2>3. CASE h \in S /\ h \notin SavedDownloads(S)
    <3>1. h \notin E /\ ~dl_htab[h].dirty /\ h \in DOMAIN dl_htab
      BY <1>4, <2>3 DEF E
    <3>2. h \in DOMAIN db.downloads /\ db.downloads[h].count = dl_htab[h].count
      BY <3>1 DEF Stored, DownloadsStored
    <3>3. db'.downloads[h] = db.downloads[h] /\ h \in DOMAIN db'.downloads /\ h \notin DOMAIN dl_htab'
      BY <1>3, <1>4, <2>3, <3>2
    <3>4. DownloadsOf(h)' = DownloadsOf(h)
      BY <1>1, <3>1, <3>2, <3>3 DEF DownloadsOf
    <3>. QED
      BY <2>0, <3>1, <3>4
  <2>4. CASE h \notin DOMAIN dl_htab
    <3>1. h \notin S /\ h \notin E /\ h \notin SavedDownloads(S) /\ h \notin DOMAIN dl_htab'
      BY <1>3, <1>6, <2>4 DEF E
    <3>2. DownloadsOf(h)' = DownloadsOf(h)
      BY <1>4, <2>4, <3>1 DEF DownloadsOf
    <3>. QED
      BY <2>0, <3>1, <3>2
  <2>. QED
    BY <2>1, <2>2, <2>3, <2>4
<1>8. DownloadsEndedBy(E)
  BY <1>1, <1>2, <1>4, <1>7, EndsDownloadsBy
<1>. QED
  BY <1>8 DEF E

(* update_downloads ends those that are over.                              *)
LEMMA UpdateDownloadsEnds ==
  ASSUME TypeOK, References, UpdateDownloads
  PROVE  DownloadsEndedBy(DownloadsOver)
<1>1. /\ InMemory /\ InMemory' /\ um_htab' = um_htab /\ db' = db
      /\ dl_htab' = DownloadsAfter(DownloadsOver)
      /\ totals' = [totals EXCEPT !.t_dlcount = @ + Cardinality(DownloadsOver)]
  BY DEF UpdateDownloads, InMemory
<1>2. DownloadsOver \subseteq DOMAIN download
  BY UpdateDownloadsIs
<1>3. DownloadsOver \subseteq DOMAIN dl_htab
  BY <1>2 DEF References, HostsReferenced
<1>4. DOMAIN dl_htab' = DOMAIN dl_htab /\ DownloadsOver \subseteq Host
  BY <1>1, <1>2, <1>3, DownloadsAfterIs
<1>5. ASSUME NEW h \in Host
      PROVE  DownloadsOf(h)' = DownloadsOf(h) + (IF h \in DownloadsOver THEN 1 ELSE 0)
  <2>1. CASE h \in DOMAIN dl_htab
    <3>1. dl_htab'[h].count = dl_htab[h].count + (IF h \in DownloadsOver THEN 1 ELSE 0)
      BY <1>1, <1>2, <2>1, DownloadsAfterCounts
    <3>. QED
      BY <1>1, <1>4, <2>1, <3>1 DEF DownloadsOf
  <2>2. CASE h \notin DOMAIN dl_htab
    <3>1. h \notin DownloadsOver /\ DownloadsOf(h) \in Nat
      BY <1>3, <2>2, ItemsTyped
    <3>2. DownloadsOf(h)' = DownloadsOf(h)
      BY <1>1, <1>4, <2>2 DEF DownloadsOf
    <3>. QED
      BY <3>1, <3>2
  <2>. QED
    BY <2>1, <2>2
<1>. QED
  BY <1>1, <1>2, <1>4, <1>5, EndsDownloadsBy

(* A URL keeps its exits when it is seen, ...                              *)
LEMMA PutUNodeSame ==
  ASSUME TypeOK, PutUNode
  PROVE  SameItems /\ Current' = Current
<1>1. /\ pc = "url" /\ pc' \in {"download", "swap"} /\ dl_htab' = dl_htab /\ db' = db
      /\ totals' = totals
  BY DEF PutUNode
<1>2. /\ InMemory /\ InMemory' /\ Current' = Current
      /\ rec.kind \in {"page", "download", "error"} /\ rec.url \in Url
  BY <1>1, RecIs DEF InMemory, Current, Busy
<1>3. \A h \in Host : DownloadsOf(h)' = DownloadsOf(h)
  BY <1>1, <1>2 DEF DownloadsOf
<1>4. CASE rec.kind = "error"
  <2>1. um_htab' = um_htab
    BY <1>4 DEF PutUNode
  <2>. QED
    BY <1>1, <1>2, <1>3, <2>1 DEF SameItems, ExitsOf
<1>5. CASE rec.kind \in {"page", "download"}
  <2>1. /\ DOMAIN um_htab' = DOMAIN um_htab \cup {rec.url}
        /\ \A x \in DOMAIN um_htab \ {rec.url} : um_htab'[x].exit = um_htab[x].exit
    BY <1>5, PutUNodeTable
  <2>2. LoadedUrl(rec.url).exit = ExitsOf(rec.url)
    BY <1>2, LoadedUrlIs DEF LoadedUrl, ExitsOf
  <2>3. um_htab'[rec.url].exit = LoadedUrl(rec.url).exit
    <3>. DEFINE table == Put(um_htab, rec.url,
                             [LoadedUrl(rec.url) EXCEPT !.tstamp = rec.tstamp, !.dirty = TRUE])
    <3>1. LoadedUrl(rec.url) \in UrlNode
      BY <1>2, LoadedUrlIs
    <3>2. /\ rec.url \in DOMAIN table /\ table[rec.url].exit = LoadedUrl(rec.url).exit
          /\ table[rec.url] \in [exit : Nat, vstref : Int, tstamp : {rec.tstamp}, dirty : BOOLEAN]
      BY <3>1 DEF Put, UrlNode
    <3>3. um_htab' = table \/ um_htab' = LastUrlSet(table, visit[rec.host].lasturl, rec.url)
      BY <1>5 DEF PutUNode
    <3>. HIDE DEF table
    <3>. QED
      BY <3>2, <3>3 DEF LastUrlSet
  <2>4. ASSUME NEW u \in Url
        PROVE  ExitsOf(u)' = ExitsOf(u)
    <3>1. CASE u = rec.url
      BY <1>2, <2>1, <2>2, <2>3, <3>1 DEF ExitsOf
    <3>2. CASE u # rec.url
      BY <1>1, <1>2, <2>1, <3>2 DEF ExitsOf
    <3>. QED
      BY <3>1, <3>2
  <2>. QED
    BY <1>2, <1>3, <2>4 DEF SameItems
<1>. QED
  BY <1>2, <1>4, <1>5

(* ... when it leaves memory, ...                                          *)
LEMMA SwapOutUrlsSame ==
  ASSUME TypeOK, Stored, NEW S, S \subseteq DOMAIN um_htab, SwapOutUrls(S)
  PROVE  SameItems /\ Current' = Current
<1>1. /\ InMemory /\ InMemory' /\ dl_htab' = dl_htab /\ totals' = totals
      /\ db' = [db EXCEPT !.urls =
                  [u \in DOMAIN db.urls \cup (S \cap Dirty(um_htab)) |->
                     IF u \in S \cap Dirty(um_htab) THEN [exit |-> um_htab[u].exit] ELSE db.urls[u]]]
  <2>1. {u \in S : um_htab[u].dirty} = S \cap Dirty(um_htab)
    BY DEF Dirty
  <2>. QED
    BY <2>1 DEF SwapOutUrls, InMemory
<1>2. db \in Database
  BY DEF TypeOK
<1>3. /\ db'.downloads = db.downloads
      /\ DOMAIN db'.urls = DOMAIN db.urls \cup (S \cap Dirty(um_htab))
      /\ \A u \in S \cap Dirty(um_htab) : db'.urls[u].exit = um_htab[u].exit
      /\ \A u \in DOMAIN db.urls \ (S \cap Dirty(um_htab)) : db'.urls[u] = db.urls[u]
  BY <1>1, <1>2 DEF Database
<1>4. /\ DOMAIN um_htab' = DOMAIN um_htab \ S
      /\ \A x \in DOMAIN um_htab \ S : um_htab'[x] = um_htab[x]
  BY SwapOutUrlsIs
<1>5. ASSUME NEW u \in Url
      PROVE  ExitsOf(u)' = ExitsOf(u)
  <2>1. CASE u \in S \cap Dirty(um_htab)
    BY <1>1, <1>3, <1>4, <2>1 DEF ExitsOf
  <2>2. CASE u \in S \ Dirty(um_htab)
    <3>1. u \in DOMAIN db.urls /\ db.urls[u].exit = um_htab[u].exit
      BY <2>2 DEF Stored, UrlsStored, Dirty
    <3>. QED
      BY <1>1, <1>3, <1>4, <2>2, <3>1 DEF ExitsOf
  <2>3. CASE u \notin S
    BY <1>1, <1>3, <1>4, <2>3 DEF ExitsOf
  <2>. QED
    BY <2>1, <2>2, <2>3
<1>6. \A h \in Host : DownloadsOf(h)' = DownloadsOf(h)
  BY <1>1, <1>3 DEF DownloadsOf
<1>. QED
  BY <1>1, <1>5, <1>6 DEF SameItems, Current, InMemory

(* ... when it is saved, and so does a download job, ...                   *)
LEMMA SaveStateSame ==
  ASSUME TypeOK, References, Stored, RowsKept, InactiveInDb, SaveState
  PROVE  SameItems /\ Current' = Current
<1>1. /\ pc = "save" /\ db' = SavedDb /\ ~InMemory' /\ InMemory
      /\ pc' = "off" \/ (pc' = "clear" /\ totals' = totals)
  BY DeletesSucceed DEF SaveState, LeaveRun, InMemory
<1>2. Current' = Current
  BY <1>1, SavedFields DEF Current
<1>3. /\ db'.urls = SavedTable(db.urls, {}, um_htab, UrlRows)
      /\ db'.downloads = SavedTable(db.downloads, {}, dl_htab, DownloadRows)
  BY <1>1 DEF SavedDb
<1>4. ASSUME NEW u \in Url
      PROVE  ExitsOf(u)' = ExitsOf(u)
  <2>1. CASE u \in Dirty(um_htab)
    <3>1. u \in DOMAIN um_htab /\ u \in DOMAIN db'.urls /\ db'.urls[u].exit = um_htab[u].exit
      BY <1>3, <2>1 DEF SavedTable, UrlRows, Dirty
    <3>. QED
      BY <1>1, <3>1 DEF ExitsOf
  <2>2. CASE u \notin Dirty(um_htab)
    <3>1. /\ u \in DOMAIN db'.urls <=> u \in DOMAIN db.urls
          /\ u \in DOMAIN db.urls => db'.urls[u] = db.urls[u]
      BY <1>3, <2>2 DEF SavedTable
    <3>2. u \in DOMAIN um_htab => u \in DOMAIN db.urls /\ db.urls[u].exit = um_htab[u].exit
      BY <2>2 DEF Stored, UrlsStored, Dirty
    <3>. QED
      BY <1>1, <3>1, <3>2 DEF ExitsOf
  <2>. QED
    BY <2>1, <2>2
<1>5. ASSUME NEW h \in Host
      PROVE  DownloadsOf(h)' = DownloadsOf(h)
  <2>1. CASE h \in Dirty(dl_htab)
    <3>1. h \in DOMAIN dl_htab /\ h \in DOMAIN db'.downloads /\ db'.downloads[h].count = dl_htab[h].count
      BY <1>3, <2>1 DEF SavedTable, DownloadRows, Dirty
    <3>. QED
      BY <1>1, <3>1 DEF DownloadsOf
  <2>2. CASE h \notin Dirty(dl_htab)
    <3>1. /\ h \in DOMAIN db'.downloads <=> h \in DOMAIN db.downloads
          /\ h \in DOMAIN db.downloads => db'.downloads[h] = db.downloads[h]
      BY <1>3, <2>2 DEF SavedTable
    <3>2. h \in DOMAIN dl_htab => h \in DOMAIN db.downloads /\ db.downloads[h].count = dl_htab[h].count
      BY <2>2 DEF Stored, DownloadsStored, Dirty
    <3>. QED
      BY <1>1, <3>1, <3>2 DEF DownloadsOf
  <2>. QED
    BY <2>1, <2>2
<1>. QED
  BY <1>2, <1>4, <1>5 DEF SameItems

(* ... when it is restored, ...                                            *)
LEMMA InitializeSame ==
  ASSUME TypeOK, Initialize
  PROVE  SameItems /\ Current' = Current
<1>1. /\ pc = "off" /\ pc' \in {"read", "visits"} /\ db' = db /\ totals' = db.totals
      /\ Restorable /\ RestoreState /\ ~InMemory /\ InMemory'
  BY DEF Initialize, InMemory
<1>2. /\ DOMAIN um_htab' \subseteq DOMAIN db.urls
      /\ \A u \in DOMAIN um_htab' : um_htab'[u].exit = db.urls[u].exit
  BY <1>1, RestoreUrls
<1>3. /\ DOMAIN dl_htab' \subseteq DOMAIN db.downloads
      /\ \A h \in DOMAIN dl_htab' : dl_htab'[h].count = db.downloads[h].count
  BY <1>1, RestoreDownloads DEF Restorable
<1>4. \A u \in Url : ExitsOf(u)' = ExitsOf(u)
  BY <1>1, <1>2 DEF ExitsOf
<1>5. \A h \in Host : DownloadsOf(h)' = DownloadsOf(h)
  BY <1>1, <1>3 DEF DownloadsOf
<1>. QED
  BY <1>1, <1>4, <1>5 DEF SameItems, Current

(* ... and when a run ends that had no good record.                        *)
LEMMA UntouchedSame ==
  ASSUME Stored, ItemsUntouched, pc = "read", ~good, ~InMemory', db' = db
  PROVE  SameItems
<1>1. \A u \in DOMAIN um_htab : u \in DOMAIN db.urls /\ db.urls[u].exit = um_htab[u].exit
  BY DEF Stored, UrlsStored, ItemsUntouched
<1>2. \A h \in DOMAIN dl_htab : h \in DOMAIN db.downloads /\ db.downloads[h].count = dl_htab[h].count
  BY DEF Stored, DownloadsStored, ItemsUntouched
<1>3. InMemory
  BY DEF InMemory
<1>. QED
  BY <1>1, <1>2, <1>3 DEF SameItems, ExitsOf, DownloadsOf

(* A step that leaves URLs, jobs and database adds nothing to what they    *)
(* have.                                                                   *)
LEMMA SameView ==
  ASSUME UNCHANGED <<um_htab, dl_htab, db>>, InMemory' = InMemory
  PROVE  SameItems
BY DEF SameItems, ExitsOf, DownloadsOf

(* Every step but the start of a month                                     *)
LEMMA ItemsStep ==
  ASSUME TypeOK, References, Books, TotalsSaved, ItemsUntouched, [Next]_vars, ~ClearMonth
  PROVE  \/ SameItems /\ Current' = Current
         \/ \E S : VisitsEndedBy(S)
         \/ \E S : DownloadsEndedBy(S)
<1>. USE DEF Books
<1>1. CASE Initialize
  BY <1>1, InitializeSame
<1>2. CASE InitializeFails
  BY <1>2, SameView DEF InitializeFails, Throw, LeaveRun, InMemory, Current, SameItems, ExitsOf, DownloadsOf
<1>3. CASE \E r \in Record : r.kind \in Kind /\ ReadRecord(r)
  <2>1. pc = "read" /\ UNCHANGED <<memVars, db>> /\ pc' \in {"host", "clear", "visits"}
        /\ (pc' = "clear" => ~good)
    BY <1>3 DEF ReadRecord
  <2>2. Current' = Current
    BY <2>1 DEF Current, memVars
  <2>3. CASE pc' = "clear"
    BY <2>1, <2>2, <2>3, UntouchedSame DEF InMemory
  <2>4. CASE pc' # "clear"
    BY <2>1, <2>2, <2>4, SameView DEF InMemory, memVars
  <2>. QED
    BY <2>3, <2>4
<1>4. CASE PutHNode
  BY <1>4, PutHNodeEnds
<1>5. CASE PutUNode
  BY <1>5, PutUNodeSame
<1>6. CASE PutDLNode
  BY <1>6, PutDLNodeEnds
<1>7. CASE \E S \in SUBSET DOMAIN dl_htab : SwapOutDownloads(S)
  BY <1>7, SwapOutDownloadsEnds
<1>8. CASE \E S \in SUBSET DOMAIN hm_htab : SwapOutHosts(S)
  BY <1>8, SwapOutHostsEndsBy
<1>9. CASE \E S \in SUBSET DOMAIN um_htab : SwapOutUrls(S)
  BY <1>9, SwapOutUrlsSame
<1>10. CASE EndOfLogs
  BY <1>10, SameView DEF EndOfLogs, memVars, InMemory, Current
<1>11. CASE UpdateVisits
  BY <1>11, UpdateVisitsEndsBy
<1>12. CASE UpdateDownloads
  BY <1>12, UpdateDownloadsEnds
<1>13. CASE SaveState
  BY <1>13, SaveStateSame
<1>14. CASE Interrupted
  BY <1>14 DEF Interrupted, LeaveRun, InMemory, Current, TotalsSaved, SameItems, ExitsOf, DownloadsOf
<1>15. CASE Leave
  <2>1. pc = "read" /\ ~good /\ db' = db /\ pc' = "off" /\ ~InMemory'
    BY <1>15 DEF Leave, LeaveRun, InMemory
  <2>2. Current' = Current
    BY <2>1 DEF Current, Untouched
  <2>. QED
    BY <2>1, <2>2, UntouchedSame
<1>16. CASE UNCHANGED vars
  BY <1>16, SameView DEF vars, memVars, InMemory, Current
<1>. QED
  BY <1>1, <1>2, <1>3, <1>4, <1>5, <1>6, <1>7, <1>8, <1>9, <1>10, <1>11, <1>12, <1>13, <1>14,
     <1>15, <1>16 DEF Next

(* put_hnode adds a visit to its host when one starts.                     *)
LEMMA PutHNodeVisits ==
  ASSUME TypeOK, References, InactiveInDb, Times, TypeOK', PutHNode,
         NEW h, NEW t, h = rec.host, t = rec.tstamp
  PROVE  [x \in Host |-> VisitsOf(x)'] =
           IF Starts THEN [[x \in Host |-> VisitsOf(x)] EXCEPT ![h] = @ + 1]
                     ELSE [x \in Host |-> VisitsOf(x)]
<1>1. h \in Host /\ t \in Nat /\ Session!Hit(h, t) /\ (Session!Over(h, t) <=> Starts)
  BY PutHNodeHits
<1>. QED
  BY <1>1 DEF Session!Hit

(* Sums over all hosts and URLs                                            *)
LEMMA HostsAreFinite == IsFiniteSet(Host) /\ IsFiniteSet(Url) /\ NoUrl \notin Url
BY StateAssumption

(* Every step keeps hits and visits of the month the sums over its hosts.  *)
LEMMA HitsTotal ==
  ASSUME TypeOK, TypeOK', References, Books, Times, TotalsSaved, ItemsUntouched,
         HitsAccounted, [Next]_vars
  PROVE  /\ Current'.t_hit = SumFunction([h \in Host |-> HitsOf(h)'])
         /\ Current'.t_visits = SumFunction([h \in Host |-> VisitsOf(h)'])
<1>. DEFINE hits == [h \in Host |-> HitsOf(h)]
            visits == [h \in Host |-> VisitsOf(h)]
            hits1 == [h \in Host |-> HitsOf(h)']
            visits1 == [h \in Host |-> VisitsOf(h)']
<1>1. /\ \A h \in Host : hits[h] \in Int /\ visits[h] \in Int
      /\ \A h \in Host : hits1[h] \in Int /\ visits1[h] \in Int
      /\ Current.t_hit \in Int /\ Current.t_visits \in Int
  BY Numbers, NumbersNext, ItemsTyped DEF Totals, CountsAreNumbers
<1>2. /\ Current.t_hit = SumFunctionOnSet(hits, Host)
      /\ Current.t_visits = SumFunctionOnSet(visits, Host)
  BY DEF HitsAccounted, SumFunction
<1>3. SUFFICES /\ Current'.t_hit = SumFunctionOnSet(hits1, Host)
               /\ Current'.t_visits = SumFunctionOnSet(visits1, Host)
  BY DEF SumFunction
<1>4. CASE PutHNode
  <2>1. PICK h, t : h = rec.host /\ t = rec.tstamp
    OBVIOUS
  <2>2. h \in Host /\ Session!Hit(h, t)
    BY <1>4, <2>1, PutHNodeHits DEF Books
  <2>3. ~NewHostActive /\ pc = "host" /\ pc' = "url"
    BY <1>4, LoadsSucceed DEF Books, PutHNode, NewHostActive
  <2>4. /\ Current'.t_hit = Current.t_hit + 1
        /\ Current'.t_visits = IF Starts THEN Current.t_visits + 1 ELSE Current.t_visits
    BY <1>4, <2>3, PutHNodeTotals DEF Current
  <2>5. hits1 = [hits EXCEPT ![h] = @ + 1]
    BY <2>2 DEF Session!Hit
  <2>6. visits1 = IF Starts THEN [visits EXCEPT ![h] = @ + 1] ELSE visits
    BY <1>4, <2>1, PutHNodeVisits DEF Books
  <2>. HIDE DEF hits, visits, hits1, visits1
  <2>7. /\ \A x \in Host : x # h => hits1[x] = hits[x] /\ visits1[x] = visits[x]
        /\ hits1[h] = hits[h] + 1
        /\ visits1[h] = IF Starts THEN visits[h] + 1 ELSE visits[h]
    BY <2>2, <2>5, <2>6 DEF hits, visits
  <2>8. SumFunctionOnSet(hits1, Host) = SumFunctionOnSet(hits, Host) + hits1[h] - hits[h]
    BY <1>1, <2>2, <2>7, HostsAreFinite, SumChange
  <2>9. SumFunctionOnSet(visits1, Host) = SumFunctionOnSet(visits, Host) + visits1[h] - visits[h]
    BY <1>1, <2>2, <2>7, HostsAreFinite, SumChange
  <2>. QED
    BY <1>1, <1>2, <2>2, <2>4, <2>7, <2>8, <2>9
<1>5. CASE ClearMonth
  <2>1. Session!NewMonth
    BY <1>5, ClearIsNewMonth DEF Books
  <2>2. \A h \in Host : hits1[h] = 0 /\ visits1[h] = 0
    BY <2>1 DEF Session!NewMonth
  <2>3. Current' = ZeroTotals
    BY <1>5 DEF ClearMonth, Current, LeaveRun, NewDb
  <2>. HIDE DEF hits1, visits1
  <2>. QED
    BY <2>2, <2>3, SumZero, HostsAreFinite DEF ZeroTotals
<1>6. CASE ~PutHNode /\ ~ClearMonth
  <2>1. \/ UNCHANGED Session!sessionVars
        \/ \E S \in SUBSET Host : Session!EndOver(S)
        \/ Session!EndAll
    BY <1>6, QuietStep
  <2>2. hits1 = hits /\ visits1 = visits
    BY <2>1 DEF Session!sessionVars, Session!EndOver, Session!EndAll
  <2>3. \/ SameItems /\ Current' = Current
        \/ \E S : VisitsEndedBy(S)
        \/ \E S : DownloadsEndedBy(S)
    BY <1>6, ItemsStep
  <2>4. Current'.t_hit = Current.t_hit /\ Current'.t_visits = Current.t_visits
    BY <1>6, <2>3, ItemsTyped DEF VisitsEndedBy, DownloadsEndedBy, Totals
  <2>. QED
    BY <1>2, <2>2, <2>4
<1>. QED
  BY <1>4, <1>5, <1>6

(* The exits of the visits of S, URL by URL                                *)
LEMMA ExitsEnd ==
  ASSUME TypeOK, References, NEW S, VisitsEndedBy(S), ExitsAccounted
  PROVE  /\ Current'.t_exit = SumFunction([u \in Url |-> ExitsOf(u)'])
         /\ Current'.u_exit = Cardinality({u \in Url : ExitsOf(u)' > 0})
<1>. DEFINE exits == [u \in Url |-> ExitsOf(u)]
            exits1 == [u \in Url |-> ExitsOf(u)']
            lasturl == [h \in S |-> visit[h].lasturl]
            ended == [u \in Url |-> Cardinality({h \in S : lasturl[h] = u})]
<1>1. InMemory /\ S \subseteq DOMAIN visit /\ S \subseteq Host /\ IsFiniteSet(S)
  BY CountsTyped, HostsFinite DEF VisitsEndedBy
<1>2. \A u : {h \in S : lasturl[h] = u} = LastUrlOf(S, u)
  BY DEF LastUrlOf
<1>3. \A u \in Url : /\ exits[u] \in Nat /\ ended[u] \in Nat /\ exits1[u] = exits[u] + ended[u]
                     /\ ended[u] = 0 <=> LastUrlOf(S, u) = {}
  <2>1. \A u : Cardinality(LastUrlOf(S, u)) \in Nat /\ (Cardinality(LastUrlOf(S, u)) = 0 <=> LastUrlOf(S, u) = {})
    BY <1>1, LastUrls
  <2>2. \A u \in Url : ended[u] = Cardinality(LastUrlOf(S, u))
    BY <1>2
  <2>3. \A u \in Url : exits1[u] = exits[u] + Cardinality(LastUrlOf(S, u)) /\ exits[u] \in Nat
    BY ItemsTyped DEF VisitsEndedBy
  <2>. HIDE DEF exits, exits1, ended
  <2>. QED
    BY <2>1, <2>2, <2>3
<1>4. /\ Current'.t_exit = Current.t_exit + Cardinality({h \in S : visit[h].lasturl # NoUrl})
      /\ Current'.u_exit = Current.u_exit + Cardinality({u \in DOMAIN um_htab :
                                             um_htab[u].exit = 0 /\ LastUrlOf(S, u) # {}})
      /\ Current.t_exit \in Nat /\ Current.u_exit \in Nat
  BY <1>1, TotalsAfterEnds, ItemsTyped DEF VisitsEndedBy, Current, InMemory, Totals
<1>5. \A h \in S : visit[h].lasturl \in DOMAIN um_htab \cup {NoUrl} /\ DOMAIN um_htab \subseteq Url
  BY <1>1, ItemsTyped DEF References, UrlsReferenced
<1>6. Current'.t_exit = SumFunctionOnSet(exits1, Url)
  <2>1. {h \in S : lasturl[h] \in Url} = {h \in S : visit[h].lasturl # NoUrl}
    BY <1>5, HostsAreFinite
  <2>2. SumFunctionOnSet(ended, Url) = Cardinality({h \in S : lasturl[h] \in Url})
    <3>. HIDE DEF lasturl
    <3>. QED
      BY <1>1, HostsAreFinite, SumPartition
  <2>3. SumFunctionOnSet(ended, Url) = Cardinality({h \in S : visit[h].lasturl # NoUrl})
    BY <2>1, <2>2, Zenon
  <2>4. SumFunctionOnSet(exits1, Url) = SumFunctionOnSet(exits, Url) + SumFunctionOnSet(ended, Url)
    <3>. HIDE DEF exits, exits1, ended
    <3>1. \A u \in Url : exits[u] \in Int /\ ended[u] \in Int /\ exits1[u] = exits[u] + ended[u]
      BY <1>3
    <3>. QED
      BY <3>1, HostsAreFinite, SumPlus
  <2>5. Current.t_exit = SumFunctionOnSet(exits, Url)
    BY DEF ExitsAccounted, SumFunction
  <2>. QED
    BY <1>4, <2>3, <2>4, <2>5
<1>7. Current'.u_exit = Cardinality({u \in Url : ExitsOf(u)' > 0})
  <2>. DEFINE old == {u \in Url : ExitsOf(u) > 0}
              new == {u \in DOMAIN um_htab : um_htab[u].exit = 0 /\ LastUrlOf(S, u) # {}}
  <2>1. IsFiniteSet(old) /\ IsFiniteSet(new)
    BY <1>5, ItemsTyped, UrlsFinite
  <2>2. \A u \in DOMAIN um_htab : u \in Url /\ ExitsOf(u) = um_htab[u].exit
    BY <1>1, ItemsTyped DEF ExitsOf
  <2>3. old \cap new = {}
    BY <2>2
  <2>4. \A u \in Url : LastUrlOf(S, u) # {} => u \in DOMAIN um_htab
    BY <1>5, HostsAreFinite DEF LastUrlOf
  <2>5. \A u \in Url : /\ ExitsOf(u) \in Nat /\ ExitsOf(u)' = ExitsOf(u) + ended[u]
                       /\ ended[u] \in Nat /\ (ended[u] = 0 <=> LastUrlOf(S, u) = {})
    BY <1>3
  <2>6. {u \in Url : ExitsOf(u)' > 0} = old \cup new
    <3>. HIDE DEF ended
    <3>1. \A u \in Url : ExitsOf(u)' > 0 <=> ExitsOf(u) > 0 \/ LastUrlOf(S, u) # {}
      BY <2>5
    <3>2. \A u \in Url : ExitsOf(u) > 0 \/ ExitsOf(u) = 0
      BY <2>5
    <3>. QED
      BY <2>2, <2>4, <3>1, <3>2
  <2>7. Cardinality(old \cup new) = Cardinality(old) + Cardinality(new)
    <3>. HIDE DEF old, new
    <3>1. Cardinality(old \cup new) = Cardinality(old) + Cardinality(new) - Cardinality(old \cap new)
      BY <2>1, FS_Union
    <3>2. Cardinality(old \cap new) = 0
      BY <2>3, FS_EmptySet
    <3>3. Cardinality(old) \in Nat /\ Cardinality(new) \in Nat
      BY <2>1, FS_CardinalityType
    <3>. QED
      BY <3>1, <3>2, <3>3
  <2>8. Current.u_exit = Cardinality(old)
    BY DEF ExitsAccounted
  <2>9. Cardinality({u \in Url : ExitsOf(u)' > 0}) = Cardinality(old \cup new)
    BY <2>6, Zenon
  <2>. QED
    BY <1>4, <2>7, <2>8, <2>9
<1>. QED
  BY <1>6, <1>7 DEF SumFunction

(* Downloads that end are counted in the total as often as in their jobs.  *)
LEMMA DownloadsEnd ==
  ASSUME TypeOK, NEW S, DownloadsEndedBy(S), DownloadsAccounted
  PROVE  Current'.t_dlcount = SumFunction([h \in Host |-> DownloadsOf(h)'])
<1>. DEFINE counts == [h \in Host |-> DownloadsOf(h)]
            counts1 == [h \in Host |-> DownloadsOf(h)']
            ended == [h \in Host |-> IF h \in S THEN 1 ELSE 0]
<1>1. S \subseteq Host
  BY DEF DownloadsEndedBy
<1>2. Current'.t_dlcount = Current.t_dlcount + Cardinality(S) /\ Current.t_dlcount \in Int
  BY ItemsTyped DEF DownloadsEndedBy, Totals
<1>3. \A h \in Host : /\ counts[h] \in Int /\ ended[h] \in Int
                      /\ counts1[h] = counts[h] + ended[h]
  BY ItemsTyped DEF DownloadsEndedBy
<1>4. \A h \in Host : ended[h] = IF h \in S THEN 1 ELSE 0
  OBVIOUS
<1>5. Current.t_dlcount = SumFunctionOnSet(counts, Host)
  BY DEF DownloadsAccounted, SumFunction
<1>6. {h \in Host : h \in S} = S
  BY <1>1
<1>7. SUFFICES Current'.t_dlcount = SumFunctionOnSet(counts1, Host)
  BY DEF SumFunction
<1>. HIDE DEF counts, counts1, ended
<1>8. SumFunctionOnSet(ended, Host) = Cardinality({h \in Host : h \in S})
  BY <1>4, HostsAreFinite, SumCounts
<1>9. SumFunctionOnSet(counts1, Host) = SumFunctionOnSet(counts, Host) + SumFunctionOnSet(ended, Host)
  BY <1>3, HostsAreFinite, SumPlus
<1>10. Cardinality({h \in Host : h \in S}) = Cardinality(S)
  BY <1>6, Zenon
<1>. QED
  BY <1>2, <1>5, <1>8, <1>9, <1>10

(* What the totals say of URLs and download jobs after any step            *)
LEMMA ItemsTotal ==
  ASSUME TypeOK, References, Books, TotalsSaved, ItemsUntouched, ExitsAccounted,
         DownloadsAccounted, [Next]_vars
  PROVE  /\ Current'.t_exit = SumFunction([u \in Url |-> ExitsOf(u)'])
         /\ Current'.u_exit = Cardinality({u \in Url : ExitsOf(u)' > 0})
         /\ Current'.t_dlcount = SumFunction([h \in Host |-> DownloadsOf(h)'])
<1>1. ASSUME \A u \in Url : ExitsOf(u)' = ExitsOf(u), Current'.t_exit = Current.t_exit,
             Current'.u_exit = Current.u_exit
      PROVE  /\ Current'.t_exit = SumFunction([u \in Url |-> ExitsOf(u)'])
             /\ Current'.u_exit = Cardinality({u \in Url : ExitsOf(u)' > 0})
  <2>1. [u \in Url |-> ExitsOf(u)'] = [u \in Url |-> ExitsOf(u)]
    BY <1>1
  <2>2. {u \in Url : ExitsOf(u)' > 0} = {u \in Url : ExitsOf(u) > 0}
    BY <1>1
  <2>. QED
    BY <1>1, <2>1, <2>2 DEF ExitsAccounted
<1>2. ASSUME \A h \in Host : DownloadsOf(h)' = DownloadsOf(h),
             Current'.t_dlcount = Current.t_dlcount
      PROVE  Current'.t_dlcount = SumFunction([h \in Host |-> DownloadsOf(h)'])
  <2>1. [h \in Host |-> DownloadsOf(h)'] = [h \in Host |-> DownloadsOf(h)]
    BY <1>2
  <2>. QED
    BY <1>2, <2>1 DEF DownloadsAccounted
<1>3. CASE ClearMonth
  <2>0. DOMAIN Empty = {}
    BY DEF Empty
  <2>1. Current' = ZeroTotals /\ um_htab' = Empty /\ dl_htab' = Empty /\ db' = NewDb
    BY <1>3 DEF ClearMonth, ClearTables, Current, LeaveRun, NewDb
  <2>2. /\ \A u \in Url : ExitsOf(u)' = 0
        /\ \A h \in Host : DownloadsOf(h)' = 0
    BY <2>0, <2>1 DEF ExitsOf, DownloadsOf, NewDb
  <2>. DEFINE exits == [u \in Url |-> ExitsOf(u)']
              counts == [h \in Host |-> DownloadsOf(h)']
  <2>3. /\ DOMAIN exits = Url /\ \A u \in Url : exits[u] = 0
        /\ DOMAIN counts = Host /\ \A h \in Host : counts[h] = 0
    BY <2>2
  <2>4. {u \in Url : ExitsOf(u)' > 0} = {}
    BY <2>2
  <2>5. Cardinality({u \in Url : ExitsOf(u)' > 0}) = 0
    BY <2>4, FS_EmptySet
  <2>. HIDE DEF exits, counts
  <2>6. SumFunction(exits) = 0 /\ SumFunction(counts) = 0
    BY <2>3, HostsAreFinite, SumZero DEF SumFunction
  <2>. QED
    BY <2>1, <2>5, <2>6 DEF ZeroTotals, exits, counts
<1>4. CASE SameItems /\ Current' = Current
  BY <1>1, <1>2, <1>4 DEF SameItems
<1>5. ASSUME NEW S, VisitsEndedBy(S)
      PROVE  /\ Current'.t_exit = SumFunction([u \in Url |-> ExitsOf(u)'])
             /\ Current'.u_exit = Cardinality({u \in Url : ExitsOf(u)' > 0})
             /\ Current'.t_dlcount = SumFunction([h \in Host |-> DownloadsOf(h)'])
  BY <1>2, <1>5, ExitsEnd DEF VisitsEndedBy
<1>6. ASSUME NEW S, DownloadsEndedBy(S)
      PROVE  /\ Current'.t_exit = SumFunction([u \in Url |-> ExitsOf(u)'])
             /\ Current'.u_exit = Cardinality({u \in Url : ExitsOf(u)' > 0})
             /\ Current'.t_dlcount = SumFunction([h \in Host |-> DownloadsOf(h)'])
  <2>1. Current'.t_exit = Current.t_exit /\ Current'.u_exit = Current.u_exit
    BY <1>6, ItemsTyped DEF DownloadsEndedBy, Totals
  <2>. QED
    BY <1>1, <1>6, <2>1, DownloadsEnd DEF DownloadsEndedBy
<1>. QED
  BY <1>3, <1>4, <1>5, <1>6, ItemsStep

(* The totals are accounted for at the start.                              *)
LEMMA TotalsInit == Init => TotalsAccounted /\ TotalsSaved /\ ItemsUntouched
<1>. SUFFICES ASSUME Init PROVE TotalsAccounted /\ TotalsSaved /\ ItemsUntouched
  OBVIOUS
<1>0. DOMAIN Empty = {}
  BY DEF Empty
<1>1. /\ pc = "off" /\ db = NewDb /\ Current = ZeroTotals /\ ActiveVisits = {}
  BY <1>0 DEF Init, Current, ActiveVisits, InMemory, NewDb
<1>. DEFINE hits == [h \in Host |-> HitsOf(h)]
            visits == [h \in Host |-> VisitsOf(h)]
            exits == [u \in Url |-> ExitsOf(u)]
            counts == [h \in Host |-> DownloadsOf(h)]
<1>2. /\ DOMAIN hits = Host /\ \A h \in Host : hits[h] = 0
      /\ DOMAIN visits = Host /\ \A h \in Host : visits[h] = 0
      /\ DOMAIN exits = Url /\ \A u \in Url : exits[u] = 0
      /\ DOMAIN counts = Host /\ \A h \in Host : counts[h] = 0
  BY <1>0, <1>1 DEF HitsOf, VisitsOf, ExitsOf, DownloadsOf, InMemory, NewDb
<1>3. {u \in Url : ExitsOf(u) > 0} = {}
  BY <1>2
<1>4. Cardinality({u \in Url : ExitsOf(u) > 0}) = 0 /\ Cardinality(ActiveVisits) = 0
  BY <1>1, <1>3, FS_EmptySet
<1>. HIDE DEF hits, visits, exits, counts
<1>5. SumFunction(hits) = 0 /\ SumFunction(visits) = 0 /\ SumFunction(exits) = 0
      /\ SumFunction(counts) = 0
  BY <1>2, HostsAreFinite, SumZero DEF SumFunction
<1>. QED
  BY <1>1, <1>4, <1>5 DEF TotalsAccounted, HitsAccounted, ExitsAccounted, DownloadsAccounted,
     ZeroTotals, TotalsSaved, ItemsUntouched, hits, visits, exits, counts

(* The totals of a month are those of its hosts, URLs and download jobs,   *)
(* for any log, through any swap-outs and in any number of runs: what is   *)
(* reported in the summary is what the tables of the report add up to.     *)
THEOREM TotalsKept == Spec => []TotalsAccounted
<1>1. ASSUME TypeOK, TypeOK', References, Books, Books', Times, TotalsSaved, TotalsSaved',
             ItemsUntouched, TotalsAccounted, [Next]_vars
      PROVE  TotalsAccounted'
  <2>1. HitsAccounted /\ ExitsAccounted /\ DownloadsAccounted
    BY <1>1 DEF TotalsAccounted
  <2>2. /\ Current'.t_hit = SumFunction([h \in Host |-> HitsOf(h)'])
        /\ Current'.t_visits = SumFunction([h \in Host |-> VisitsOf(h)'])
    BY <1>1, <2>1, HitsTotal
  <2>3. Current'.t_visits = Current'.t_visits_end + Cardinality(ActiveVisits')
    BY <1>1 DEF Books, VisitsCounted, Current, ActiveVisits, InMemory, TotalsSaved
  <2>4. /\ Current'.t_exit = SumFunction([u \in Url |-> ExitsOf(u)'])
        /\ Current'.u_exit = Cardinality({u \in Url : ExitsOf(u)' > 0})
        /\ Current'.t_dlcount = SumFunction([h \in Host |-> DownloadsOf(h)'])
    BY <1>1, <2>1, ItemsTotal
  <2>. QED
    BY <2>2, <2>3, <2>4, Zenon DEF TotalsAccounted, HitsAccounted, ExitsAccounted, DownloadsAccounted
<1>2. TypeOK /\ Books /\ TotalsSaved /\ [Next]_vars => TotalsSaved'
  BY TotalsSavedStep DEF Books
<1>3. TypeOK /\ Books /\ ItemsUntouched /\ [Next]_vars => ItemsUntouched'
  BY ItemsUntouchedStep DEF Books
<1>. QED
  BY <1>1, <1>2, <1>3, TotalsInit, BooksKept, TimesKept, PTL DEF Spec
=============================================================================
