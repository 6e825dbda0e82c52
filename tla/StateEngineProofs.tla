------------------------- MODULE StateEngineProofs -------------------------
(***************************************************************************)
(* Theorems about StateEngine, for any hosts, URLs, timeouts, months and   *)
(* logs: the types, that no pointer dangles and reference counts are       *)
(* exact, that a node which is not marked as modified is stored as it is,  *)
(* that a run leaves a whole database, that the database of a month that   *)
(* is closed has no active visits, and that the checks that throw while    *)
(* nodes are loaded and rows deleted never fail.                           *)
(***************************************************************************)
EXTENDS StateEngine, TLAPS, FiniteSetTheorems

-----------------------------------------------------------------------------
(* Tables                                                                  *)

(* A table is a function from some of its keys to its rows.                *)
LEMMA TableIs ==
  ASSUME NEW K, NEW R, NEW f
  PROVE  f \in Table(K, R) <=> (f \in [DOMAIN f -> R] /\ DOMAIN f \subseteq K)
<1>1. ASSUME f \in Table(K, R)  PROVE  f \in [DOMAIN f -> R] /\ DOMAIN f \subseteq K
  <2>1. PICK S \in SUBSET K : f \in [S -> R]
    BY <1>1, Zenon DEF Table
  <2>. QED
    BY <2>1, Zenon
<1>2. ASSUME f \in [DOMAIN f -> R], DOMAIN f \subseteq K  PROVE  f \in Table(K, R)
  BY <1>2, Zenon DEF Table
<1>. QED
  BY <1>1, <1>2, Zenon

(* It has a row for each of its keys.                                      *)
LEMMA TableAt ==
  ASSUME NEW K, NEW R, NEW f \in Table(K, R), NEW x \in DOMAIN f
  PROVE  x \in K /\ f[x] \in R
<1>1. f \in [DOMAIN f -> R] /\ DOMAIN f \subseteq K
  BY TableIs
<1>. QED
  BY <1>1

(* The empty table is one.                                                 *)
LEMMA EmptyTable ==
  ASSUME NEW K, NEW R
  PROVE  Empty \in Table(K, R) /\ DOMAIN Empty = {}
<1>1. DOMAIN Empty = {} /\ Empty \in [{} -> R]
  BY DEF Empty
<1>. QED
  BY <1>1, Zenon DEF Table

(* So is a table with one more row,                                        *)
LEMMA PutType ==
  ASSUME NEW K, NEW R, NEW f \in Table(K, R), NEW k \in K, NEW r \in R
  PROVE  Put(f, k, r) \in Table(K, R)
<1>1. f \in [DOMAIN f -> R] /\ DOMAIN f \subseteq K
  BY TableIs
<1>2. Put(f, k, r) \in [DOMAIN f \cup {k} -> R]
  BY <1>1 DEF Put
<1>. QED
  BY <1>1, <1>2 DEF Table

(* or with less rows,                                                      *)
LEMMA RemoveType ==
  ASSUME NEW K, NEW R, NEW f \in Table(K, R), NEW S
  PROVE  Remove(f, S) \in Table(K, R)
<1>1. f \in [DOMAIN f -> R] /\ DOMAIN f \subseteq K
  BY TableIs
<1>2. Remove(f, S) \in [DOMAIN f \ S -> R]
  BY <1>1 DEF Remove, Restrict
<1>. QED
  BY <1>1, <1>2 DEF Table

(* or with the rows of the nodes that were saved.                          *)
LEMMA SavedType ==
  ASSUME NEW K, NEW R, NEW old \in Table(K, R), NEW ended, NEW nodes,
         NEW rows \in Table(K, R), DOMAIN rows = DOMAIN nodes
  PROVE  SavedTable(old, ended, nodes, rows) \in Table(K, R)
<1>1. /\ old \in [DOMAIN old -> R] /\ DOMAIN old \subseteq K
      /\ rows \in [DOMAIN rows -> R] /\ DOMAIN rows \subseteq K
  BY TableIs
<1>2. Dirty(nodes) \subseteq DOMAIN rows
  BY DEF Dirty
<1>3. SavedTable(old, ended, nodes, rows) \in [(DOMAIN old \ ended) \cup Dirty(nodes) -> R]
  BY <1>1, <1>2 DEF SavedTable
<1>. QED
  BY <1>1, <1>2, <1>3 DEF Table

-----------------------------------------------------------------------------
(* Types                                                                   *)

Stamp == Time \cup {NoTime}
HostNode == [count : Nat, visits : Nat, tstamp : Stamp, dirty : BOOLEAN, dlref : Int]
Visit == [hits : Nat, start : Time, end : Time, lasturl : Url \cup {NoUrl},
          storage : BOOLEAN, dirty : BOOLEAN]
UrlNode == [exit : Nat, vstref : Int, tstamp : Stamp, dirty : BOOLEAN]
DownloadNode == [count : Nat, sumhits : Nat, tstamp : Stamp, dirty : BOOLEAN]
Download == [hits : Nat, tstamp : Time, storage : BOOLEAN, dirty : BOOLEAN]
Totals == [cur_tstamp : Stamp, t_hit : Nat, t_visits : Nat, t_visits_end : Nat,
           t_exit : Nat, u_exit : Nat, t_dlcount : Nat]

HostRow == [count : Nat, visits : Nat, active : BOOLEAN]
VisitRow == [hits : Nat, start : Time, end : Time, lasturl : Url \cup {NoUrl}]
UrlRow == [exit : Nat]
DownloadRow == [count : Nat, sumhits : Nat, active : BOOLEAN]
ActiveRow == [hits : Nat, tstamp : Time]
Database == [totals : Totals, hosts : Table(Host, HostRow), visits : Table(Host, VisitRow),
             urls : Table(Url, UrlRow), downloads : Table(Host, DownloadRow),
             active_downloads : Table(Host, ActiveRow)]

(* A log record is being processed.                                        *)
Busy == pc \in {"host", "url", "download", "swap", "swap_hosts", "swap_urls"}

Control ==
  /\ pc \in {"off", "read", "host", "url", "download", "swap", "swap_hosts", "swap_urls",
             "visits", "downloads", "save", "clear"}
  /\ why \in {"month", "run", "last", "end"}
  /\ good \in BOOLEAN
  /\ rec \in Record \cup {NoRecord}
  /\ Busy \/ why = "month" => rec \in Record
  /\ why # "run" => pc \in {"visits", "downloads", "save", "clear"}

Tables ==
  /\ hm_htab \in Table(Host, HostNode) /\ visit \in Table(Host, Visit)
  /\ um_htab \in Table(Url, UrlNode)
  /\ dl_htab \in Table(Host, DownloadNode) /\ download \in Table(Host, Download)
  /\ v_ended \in [Host -> Nat] /\ dl_ended \in [Host -> Nat]

TypeOK == Control /\ Tables /\ totals \in Totals /\ db \in Database

-----------------------------------------------------------------------------
(* What the helpers of the model do, node by node                          *)

(* Part of the hosts are finitely many.                                    *)
LEMMA HostsFinite ==
  ASSUME NEW S, S \subseteq Host
  PROVE  IsFiniteSet(S) /\ Cardinality(S) \in Nat
BY StateAssumption, FS_Subset, FS_CardinalityType

(* Sets of URLs can be counted.                                            *)
LEMMA UrlsFinite ==
  ASSUME NEW S, S \subseteq Url
  PROVE  IsFiniteSet(S) /\ Cardinality(S) \in Nat
BY StateAssumption, FS_Subset, FS_CardinalityType

(* So can the visits whose last URL is u.                                  *)
LEMMA LastUrls ==
  ASSUME NEW S, S \subseteq Host, NEW u
  PROVE  /\ LastUrlOf(S, u) \subseteq S
         /\ IsFiniteSet(LastUrlOf(S, u)) /\ Cardinality(LastUrlOf(S, u)) \in Nat
         /\ Cardinality(LastUrlOf(S, u)) = 0 <=> LastUrlOf(S, u) = {}
<1>1. LastUrlOf(S, u) \subseteq S
  BY DEF LastUrlOf
<1>2. IsFiniteSet(LastUrlOf(S, u)) /\ Cardinality(LastUrlOf(S, u)) \in Nat
  BY <1>1, HostsFinite
<1>. QED
  BY <1>1, <1>2, FS_EmptySet

(* Ended visits: hosts get their hits, and are modified.                   *)
LEMMA HostsAfterIs ==
  ASSUME TypeOK, NEW S, S \subseteq DOMAIN visit
  PROVE  /\ HostsAfter(S) \in Table(Host, HostNode)
         /\ DOMAIN HostsAfter(S) = DOMAIN hm_htab
         /\ \A h \in DOMAIN hm_htab :
              /\ h \in Host /\ hm_htab[h] \in HostNode
              /\ HostsAfter(S)[h] \in HostNode
              /\ h \notin S => HostsAfter(S)[h] = hm_htab[h]
              /\ h \in S => /\ HostsAfter(S)[h].count = hm_htab[h].count + visit[h].hits
                            /\ HostsAfter(S)[h].dirty
              /\ HostsAfter(S)[h].visits = hm_htab[h].visits
              /\ HostsAfter(S)[h].tstamp = hm_htab[h].tstamp
              /\ HostsAfter(S)[h].dlref = hm_htab[h].dlref
<1>1. DOMAIN HostsAfter(S) = DOMAIN hm_htab
  BY DEF HostsAfter
<1>2. ASSUME NEW h \in DOMAIN hm_htab
      PROVE  /\ h \in Host /\ hm_htab[h] \in HostNode
             /\ HostsAfter(S)[h] \in HostNode
             /\ h \notin S => HostsAfter(S)[h] = hm_htab[h]
             /\ h \in S => /\ HostsAfter(S)[h].count = hm_htab[h].count + visit[h].hits
                           /\ HostsAfter(S)[h].dirty
             /\ HostsAfter(S)[h].visits = hm_htab[h].visits
             /\ HostsAfter(S)[h].tstamp = hm_htab[h].tstamp
             /\ HostsAfter(S)[h].dlref = hm_htab[h].dlref
  <2>1. h \in Host /\ hm_htab[h] \in HostNode
    BY TableAt DEF TypeOK, Tables
  <2>2. CASE h \notin S
    BY <2>1, <2>2 DEF HostsAfter
  <2>3. CASE h \in S
    <3>1. visit[h] \in Visit
      BY <2>3, TableAt DEF TypeOK, Tables
    <3>2. HostsAfter(S)[h] = [hm_htab[h] EXCEPT !.count = @ + visit[h].hits, !.dirty = TRUE]
      BY <2>3 DEF HostsAfter
    <3>3. HostsAfter(S)[h] \in HostNode
      <4>. DEFINE n == hm_htab[h].count + visit[h].hits
      <4>1. n \in Nat
        BY <2>1, <3>1 DEF HostNode, Visit
      <4>2. HostsAfter(S)[h] = [hm_htab[h] EXCEPT !.count = n, !.dirty = TRUE]
        BY <3>2
      <4>. HIDE DEF n
      <4>. QED
        BY <2>1, <4>1, <4>2 DEF HostNode
    <3>4. /\ HostsAfter(S)[h].count = hm_htab[h].count + visit[h].hits
          /\ HostsAfter(S)[h].dirty
      BY <2>1, <3>2 DEF HostNode
    <3>5. /\ HostsAfter(S)[h].visits = hm_htab[h].visits
          /\ HostsAfter(S)[h].tstamp = hm_htab[h].tstamp
          /\ HostsAfter(S)[h].dlref = hm_htab[h].dlref
      BY <2>1, <3>2 DEF HostNode
    <3>. QED
      BY <2>1, <2>3, <3>3, <3>4, <3>5
  <2>. QED
    BY <2>2, <2>3
<1>3. HostsAfter(S) \in [DOMAIN hm_htab -> HostNode] /\ DOMAIN hm_htab \subseteq Host
  BY <1>2 DEF HostsAfter
<1>. QED
  BY <1>1, <1>2, <1>3, TableIs

(* URLs get an exit for each visit that they were last of, and lose the    *)
(* reference.                                                              *)
LEMMA UrlsAfterIs ==
  ASSUME TypeOK, NEW S, S \subseteq DOMAIN visit
  PROVE  /\ UrlsAfter(S) \in Table(Url, UrlNode)
         /\ DOMAIN UrlsAfter(S) = DOMAIN um_htab
         /\ \A u \in DOMAIN um_htab :
              /\ u \in Url /\ um_htab[u] \in UrlNode
              /\ UrlsAfter(S)[u] \in UrlNode
              /\ LastUrlOf(S, u) = {} => UrlsAfter(S)[u] = um_htab[u]
              /\ LastUrlOf(S, u) # {} => UrlsAfter(S)[u].dirty
              /\ UrlsAfter(S)[u].exit = um_htab[u].exit + Cardinality(LastUrlOf(S, u))
              /\ UrlsAfter(S)[u].vstref = um_htab[u].vstref - Cardinality(LastUrlOf(S, u))
              /\ UrlsAfter(S)[u].tstamp = um_htab[u].tstamp
<1>1. DOMAIN UrlsAfter(S) = DOMAIN um_htab
  BY DEF UrlsAfter
<1>2. ASSUME NEW u \in DOMAIN um_htab
      PROVE  /\ u \in Url /\ um_htab[u] \in UrlNode
             /\ UrlsAfter(S)[u] \in UrlNode
             /\ LastUrlOf(S, u) = {} => UrlsAfter(S)[u] = um_htab[u]
             /\ LastUrlOf(S, u) # {} => UrlsAfter(S)[u].dirty
             /\ UrlsAfter(S)[u].exit = um_htab[u].exit + Cardinality(LastUrlOf(S, u))
             /\ UrlsAfter(S)[u].vstref = um_htab[u].vstref - Cardinality(LastUrlOf(S, u))
             /\ UrlsAfter(S)[u].tstamp = um_htab[u].tstamp
  <2>. DEFINE n == Cardinality(LastUrlOf(S, u))
  <2>1. u \in Url /\ um_htab[u] \in UrlNode
    BY TableAt DEF TypeOK, Tables
  <2>2. S \subseteq Host
    BY TableIs DEF TypeOK, Tables
  <2>3. n \in Nat /\ (n = 0 <=> LastUrlOf(S, u) = {})
    BY <2>2, LastUrls
  <2>4. UrlsAfter(S)[u] =
          IF n = 0 THEN um_htab[u]
          ELSE [um_htab[u] EXCEPT !.exit = @ + n, !.vstref = @ - n, !.dirty = TRUE]
    BY DEF UrlsAfter
  <2>. HIDE DEF n
  <2>5. CASE n = 0
    <3>1. UrlsAfter(S)[u] = um_htab[u]
      BY <2>4, <2>5
    <3>2. /\ um_htab[u].exit = um_htab[u].exit + n
          /\ um_htab[u].vstref = um_htab[u].vstref - n
      BY <2>1, <2>5 DEF UrlNode
    <3>. QED
      BY <2>1, <2>3, <2>5, <3>1, <3>2, Zenon DEF n
  <2>6. CASE n # 0
    <3>1. UrlsAfter(S)[u] = [um_htab[u] EXCEPT !.exit = @ + n, !.vstref = @ - n, !.dirty = TRUE]
      BY <2>4, <2>6
    <3>2. UrlsAfter(S)[u] \in UrlNode
      <4>. DEFINE exit == um_htab[u].exit + n
                  vstref == um_htab[u].vstref - n
      <4>1. exit \in Nat /\ vstref \in Int
        BY <2>1, <2>3 DEF UrlNode
      <4>2. UrlsAfter(S)[u] = [um_htab[u] EXCEPT !.exit = exit, !.vstref = vstref, !.dirty = TRUE]
        BY <3>1
      <4>. HIDE DEF exit, vstref
      <4>. QED
        BY <2>1, <4>1, <4>2 DEF UrlNode
    <3>3. /\ UrlsAfter(S)[u].dirty
          /\ UrlsAfter(S)[u].exit = um_htab[u].exit + n
          /\ UrlsAfter(S)[u].vstref = um_htab[u].vstref - n
          /\ UrlsAfter(S)[u].tstamp = um_htab[u].tstamp
      BY <2>1, <3>1 DEF UrlNode
    <3>. QED
      BY <2>1, <2>3, <2>6, <3>2, <3>3, Zenon DEF n
  <2>. QED
    BY <2>5, <2>6
<1>3. UrlsAfter(S) = [u \in DOMAIN um_htab |-> UrlsAfter(S)[u]]
  BY DEF UrlsAfter
<1>4. UrlsAfter(S) \in [DOMAIN um_htab -> UrlNode] /\ DOMAIN um_htab \subseteq Url
  <2>. DEFINE f == UrlsAfter(S)
  <2>1. f = [u \in DOMAIN um_htab |-> f[u]] /\ \A u \in DOMAIN um_htab : f[u] \in UrlNode /\ u \in Url
    BY <1>2, <1>3, Zenon
  <2>. HIDE DEF f
  <2>2. f \in [DOMAIN um_htab -> UrlNode] /\ DOMAIN um_htab \subseteq Url
    BY <2>1
  <2>. QED
    BY <2>2 DEF f
<1>. QED
  BY <1>1, <1>2, <1>4, TableIs

(* A visit that was stored is put on the list of those whose rows are      *)
(* deleted.                                                                *)
LEMMA VisitEndedAfterIs ==
  ASSUME TypeOK, NEW S
  PROVE  /\ VisitEndedAfter(S) \in [Host -> Nat]
         /\ \A h \in Host : VisitEndedAfter(S)[h] =
              IF h \in S /\ visit[h].storage THEN v_ended[h] + 1 ELSE v_ended[h]
BY DEF VisitEndedAfter, TypeOK, Tables

(* So is a download that was stored.                                       *)
LEMMA DownloadEndedAfterIs ==
  ASSUME TypeOK, NEW S
  PROVE  /\ DownloadEndedAfter(S) \in [Host -> Nat]
         /\ \A h \in Host : DownloadEndedAfter(S)[h] =
              IF h \in S /\ download[h].storage THEN dl_ended[h] + 1 ELSE dl_ended[h]
BY DEF DownloadEndedAfter, TypeOK, Tables

(* The totals have ended visits, and keep hits and visits.                 *)
LEMMA TotalsAfterIs ==
  ASSUME TypeOK, NEW S, S \subseteq DOMAIN visit
  PROVE  /\ TotalsAfter(S) \in Totals
         /\ TotalsAfter(S).cur_tstamp = totals.cur_tstamp
         /\ TotalsAfter(S).t_hit = totals.t_hit
         /\ TotalsAfter(S).t_visits = totals.t_visits
         /\ TotalsAfter(S).t_visits_end = totals.t_visits_end + Cardinality(S)
         /\ Cardinality(S) \in Nat
<1>. DEFINE a == Cardinality(S)
            b == Cardinality({h \in S : visit[h].lasturl # NoUrl})
            c == Cardinality({u \in DOMAIN um_htab :
                                um_htab[u].exit = 0 /\ LastUrlOf(S, u) # {}})
<1>1. S \subseteq Host /\ DOMAIN um_htab \subseteq Url
  BY TableIs DEF TypeOK, Tables
<1>2. a \in Nat /\ b \in Nat
  BY <1>1, HostsFinite
<1>3. c \in Nat
  BY <1>1, UrlsFinite
<1>4. TotalsAfter(S) = [totals EXCEPT !.t_visits_end = @ + a, !.t_exit = @ + b, !.u_exit = @ + c]
  BY DEF TotalsAfter
<1>. HIDE DEF a, b, c
<1>5. totals \in Totals
  BY DEF TypeOK
<1>6. TotalsAfter(S) \in Totals
  <2>. DEFINE ended == totals.t_visits_end + a
              exits == totals.t_exit + b
              urls == totals.u_exit + c
  <2>1. ended \in Nat /\ exits \in Nat /\ urls \in Nat
    BY <1>2, <1>3, <1>5 DEF Totals
  <2>2. TotalsAfter(S) = [totals EXCEPT !.t_visits_end = ended, !.t_exit = exits, !.u_exit = urls]
    BY <1>4
  <2>. HIDE DEF ended, exits, urls
  <2>. QED
    BY <1>5, <2>1, <2>2 DEF Totals
<1>7. /\ TotalsAfter(S).cur_tstamp = totals.cur_tstamp
      /\ TotalsAfter(S).t_hit = totals.t_hit
      /\ TotalsAfter(S).t_visits = totals.t_visits
      /\ TotalsAfter(S).t_visits_end = totals.t_visits_end + a
  BY <1>4, <1>5 DEF Totals
<1>. QED
  BY <1>2, <1>6, <1>7, Zenon DEF a

(* Ended downloads: their jobs are modified.                               *)
LEMMA DownloadsAfterIs ==
  ASSUME TypeOK, NEW S, S \subseteq DOMAIN download
  PROVE  /\ DownloadsAfter(S) \in Table(Host, DownloadNode)
         /\ DOMAIN DownloadsAfter(S) = DOMAIN dl_htab
         /\ \A h \in DOMAIN dl_htab :
              /\ h \in Host /\ dl_htab[h] \in DownloadNode
              /\ DownloadsAfter(S)[h] \in DownloadNode
              /\ h \notin S => DownloadsAfter(S)[h] = dl_htab[h]
              /\ h \in S => DownloadsAfter(S)[h].dirty
<1>1. DOMAIN DownloadsAfter(S) = DOMAIN dl_htab
  BY DEF DownloadsAfter
<1>2. ASSUME NEW h \in DOMAIN dl_htab
      PROVE  /\ h \in Host /\ dl_htab[h] \in DownloadNode
             /\ DownloadsAfter(S)[h] \in DownloadNode
             /\ h \notin S => DownloadsAfter(S)[h] = dl_htab[h]
             /\ h \in S => DownloadsAfter(S)[h].dirty
  <2>1. h \in Host /\ dl_htab[h] \in DownloadNode
    BY TableAt DEF TypeOK, Tables
  <2>2. CASE h \notin S
    BY <2>1, <2>2 DEF DownloadsAfter
  <2>3. CASE h \in S
    <3>1. download[h] \in Download
      BY <2>3, TableAt DEF TypeOK, Tables
    <3>2. DownloadsAfter(S)[h] = [dl_htab[h] EXCEPT !.count = @ + 1, !.sumhits = @ + download[h].hits,
                                                    !.dirty = TRUE]
      BY <2>3 DEF DownloadsAfter
    <3>3. DownloadsAfter(S)[h] \in DownloadNode
      <4>. DEFINE n == dl_htab[h].count + 1
                  hits == dl_htab[h].sumhits + download[h].hits
      <4>1. n \in Nat /\ hits \in Nat
        BY <2>1, <3>1 DEF DownloadNode, Download
      <4>2. DownloadsAfter(S)[h] = [dl_htab[h] EXCEPT !.count = n, !.sumhits = hits, !.dirty = TRUE]
        BY <3>2
      <4>. HIDE DEF n, hits
      <4>. QED
        BY <2>1, <4>1, <4>2 DEF DownloadNode
    <3>4. DownloadsAfter(S)[h].dirty
      BY <2>1, <3>2 DEF DownloadNode
    <3>. QED
      BY <2>1, <2>3, <3>3, <3>4
  <2>. QED
    BY <2>2, <2>3
<1>3. DownloadsAfter(S) \in [DOMAIN dl_htab -> DownloadNode] /\ DOMAIN dl_htab \subseteq Host
  BY <1>2 DEF DownloadsAfter
<1>. QED
  BY <1>1, <1>2, <1>3, TableIs

-----------------------------------------------------------------------------
(* What the actions do, node by node                                       *)

(* While the program is busy with a record it is one.                      *)
LEMMA RecIs ==
  ASSUME TypeOK, Busy
  PROVE  /\ rec \in Record /\ rec.host \in Host /\ rec.tstamp \in Time /\ rec.url \in Url
         /\ rec.kind \in {"page", "download", "error"}
BY StateAssumption DEF TypeOK, Control, Record

(* A host that is not in memory is read from its row, or is new.           *)
LEMMA LoadedHostIs ==
  ASSUME TypeOK, NEW h \in Host, h \notin DOMAIN hm_htab
  PROVE  /\ LoadedHost(h) \in HostNode
         /\ LoadedHost(h).dlref = 0
         /\ LoadedHost(h).count = IF h \in DOMAIN db.hosts THEN db.hosts[h].count ELSE 0
         /\ LoadedHost(h).visits = IF h \in DOMAIN db.hosts THEN db.hosts[h].visits ELSE 0
<1>1. CASE h \in DOMAIN db.hosts
  <2>1. db.hosts \in Table(Host, HostRow)
    BY DEF TypeOK, Database
  <2>2. db.hosts[h] \in HostRow
    BY <1>1, <2>1, TableAt
  <2>3. LoadedHost(h) = [count |-> db.hosts[h].count, visits |-> db.hosts[h].visits,
                         tstamp |-> NoTime, dirty |-> FALSE, dlref |-> 0]
    BY <1>1 DEF LoadedHost
  <2>. QED
    BY <1>1, <2>2, <2>3 DEF HostNode, HostRow, Stamp
<1>2. CASE h \notin DOMAIN db.hosts
  <2>3. LoadedHost(h) = [count |-> 0, visits |-> 0, tstamp |-> NoTime, dirty |-> TRUE, dlref |-> 0]
    BY <1>2 DEF LoadedHost
  <2>. QED
    BY <1>2, <2>3 DEF HostNode, Stamp
<1>. QED
  BY <1>1, <1>2

(* So is a URL.                                                            *)
LEMMA LoadedUrlIs ==
  ASSUME TypeOK, NEW u \in Url
  PROVE  /\ LoadedUrl(u) \in UrlNode
         /\ u \in DOMAIN um_htab => LoadedUrl(u) = um_htab[u]
         /\ u \notin DOMAIN um_htab => LoadedUrl(u).vstref = 0
<1>1. CASE u \in DOMAIN um_htab
  BY <1>1, TableAt DEF TypeOK, Tables, LoadedUrl
<1>2. CASE u \notin DOMAIN um_htab
  <2>. DEFINE exit == IF u \in DOMAIN db.urls THEN db.urls[u].exit ELSE 0
  <2>1. exit \in Nat
    <3>1. db.urls \in Table(Url, UrlRow)
      BY DEF TypeOK, Database
    <3>2. ASSUME u \in DOMAIN db.urls  PROVE  db.urls[u] \in UrlRow
      BY <3>1, <3>2, TableAt
    <3>. QED
      BY <3>2 DEF UrlRow
  <2>2. LoadedUrl(u) = [exit |-> exit, vstref |-> 0, tstamp |-> NoTime, dirty |-> TRUE]
    BY <1>2 DEF LoadedUrl
  <2>. HIDE DEF exit
  <2>. QED
    BY <1>2, <2>1, <2>2 DEF UrlNode, Stamp
<1>. QED
  BY <1>1, <1>2

(* So is a download job.                                                   *)
LEMMA LoadedDownloadIs ==
  ASSUME TypeOK, NEW h \in Host, h \notin DOMAIN dl_htab
  PROVE  LoadedDownload(h) \in DownloadNode
<1>1. CASE h \in DOMAIN db.downloads
  <2>1. db.downloads \in Table(Host, DownloadRow)
    BY DEF TypeOK, Database
  <2>2. db.downloads[h] \in DownloadRow
    BY <1>1, <2>1, TableAt
  <2>3. LoadedDownload(h) = [count |-> db.downloads[h].count, sumhits |-> db.downloads[h].sumhits,
                             tstamp |-> NoTime, dirty |-> TRUE]
    BY <1>1 DEF LoadedDownload
  <2>. QED
    BY <2>2, <2>3 DEF DownloadNode, DownloadRow, Stamp
<1>2. CASE h \notin DOMAIN db.downloads
  BY <1>2 DEF LoadedDownload, DownloadNode, Stamp
<1>. QED
  BY <1>1, <1>2

(* PutHNode, when it does not throw                                        *)
NewHostActive ==
  rec.host \notin DOMAIN hm_htab /\ rec.host \in DOMAIN db.hosts /\ db.hosts[rec.host].active

Ending == EndingNow(rec.host, rec.tstamp)
Starts == VisitStarts(rec.host, rec.tstamp)

(* A record ends the visit of its own host at most, and then starts        *)
(* another.                                                                *)
LEMMA EndingIs ==
  /\ Ending \subseteq DOMAIN visit /\ Ending \subseteq {rec.host}
  /\ Starts <=> (rec.host \in DOMAIN visit => rec.host \in Ending)
  /\ \A x \in Ending : VisitOver(visit[x], rec.tstamp)
BY DEF Ending, Starts, EndingNow, VisitStarts

(* put_hnode: the host of the record is in memory and modified; the        *)
(* others stay.                                                            *)
LEMMA PutHNodeHost ==
  ASSUME TypeOK, PutHNode, ~NewHostActive
  PROVE  /\ hm_htab' \in Table(Host, HostNode)
         /\ DOMAIN hm_htab' = DOMAIN hm_htab \cup {rec.host}
         /\ \A x \in DOMAIN hm_htab \ {rec.host} : hm_htab'[x] = hm_htab[x]
         /\ hm_htab'[rec.host].dirty /\ hm_htab'[rec.host].tstamp = rec.tstamp
         /\ rec.host \in DOMAIN hm_htab =>
              /\ hm_htab'[rec.host].count = HostsAfter(Ending)[rec.host].count
              /\ hm_htab'[rec.host].visits = hm_htab[rec.host].visits + (IF Starts THEN 1 ELSE 0)
         /\ rec.host \notin DOMAIN hm_htab =>
              /\ hm_htab'[rec.host].count = LoadedHost(rec.host).count
              /\ hm_htab'[rec.host].visits = LoadedHost(rec.host).visits + (IF Starts THEN 1 ELSE 0)
         /\ hm_htab'[rec.host].dlref =
              IF rec.host \in DOMAIN hm_htab THEN hm_htab[rec.host].dlref ELSE 0
<1>. DEFINE h == rec.host
            node == IF h \in DOMAIN hm_htab THEN HostsAfter(Ending)[h] ELSE LoadedHost(h)
            new == [node EXCEPT !.tstamp = rec.tstamp, !.dirty = TRUE,
                                !.visits = IF Starts THEN @ + 1 ELSE @]
<1>1. h \in Host /\ rec.tstamp \in Time
  BY RecIs DEF PutHNode, Busy
<1>2. hm_htab' = Put(hm_htab, h, new)
  BY DEF PutHNode, NewHostActive, Ending, Starts
<1>3. /\ node \in HostNode
      /\ node.dlref = IF h \in DOMAIN hm_htab THEN hm_htab[h].dlref ELSE 0
      /\ h \in DOMAIN hm_htab => /\ node.count = HostsAfter(Ending)[h].count
                                 /\ node.visits = hm_htab[h].visits
      /\ h \notin DOMAIN hm_htab => /\ node.count = LoadedHost(h).count
                                    /\ node.visits = LoadedHost(h).visits
  <2>1. CASE h \in DOMAIN hm_htab
    BY <2>1, EndingIs, HostsAfterIs
  <2>2. CASE h \notin DOMAIN hm_htab
    BY <1>1, <2>2, LoadedHostIs
  <2>. QED
    BY <2>1, <2>2
<1>4. /\ new \in HostNode /\ new.dirty /\ new.dlref = node.dlref
      /\ new.tstamp = rec.tstamp /\ new.count = node.count
      /\ new.visits = node.visits + (IF Starts THEN 1 ELSE 0)
  <2>. HIDE DEF node
  <2>. DEFINE visits == IF Starts THEN node.visits + 1 ELSE node.visits
  <2>1. visits \in Nat
    BY <1>3 DEF HostNode
  <2>2. new = [node EXCEPT !.tstamp = rec.tstamp, !.dirty = TRUE, !.visits = visits]
    BY DEF visits
  <2>3. rec.tstamp \in Stamp
    BY <1>1 DEF Stamp
  <2>4. visits = node.visits + (IF Starts THEN 1 ELSE 0)
    BY <1>3 DEF HostNode
  <2>. HIDE DEF new, visits
  <2>5. /\ new \in HostNode /\ new.dirty /\ new.dlref = node.dlref
        /\ new.tstamp = rec.tstamp /\ new.count = node.count /\ new.visits = visits
    BY <1>1, <1>3, <2>1, <2>2, <2>3 DEF HostNode
  <2>. QED
    BY <2>4, <2>5
<1>. HIDE DEF new, node
<1>5. hm_htab \in Table(Host, HostNode)
  BY DEF TypeOK, Tables
<1>6. hm_htab' \in Table(Host, HostNode)
  BY <1>1, <1>2, <1>4, <1>5, PutType, Zenon
<1>7. /\ DOMAIN hm_htab' = DOMAIN hm_htab \cup {h}
      /\ hm_htab'[h] = new
      /\ \A x \in DOMAIN hm_htab : x # h => hm_htab'[x] = hm_htab[x]
  BY <1>2 DEF Put
<1>. QED
  BY <1>3, <1>4, <1>6, <1>7

(* put_hnode: it has a visit, a new one or one more hit.                   *)
LEMMA PutHNodeVisit ==
  ASSUME TypeOK, PutHNode, ~NewHostActive
  PROVE  /\ visit' \in Table(Host, Visit)
         /\ DOMAIN visit' = DOMAIN visit \cup {rec.host}
         /\ \A x \in DOMAIN visit \ {rec.host} : visit'[x] = visit[x]
         /\ visit'[rec.host].dirty /\ visit'[rec.host].end = rec.tstamp
         /\ Starts => /\ visit'[rec.host].lasturl = NoUrl /\ ~visit'[rec.host].storage
                      /\ visit'[rec.host].start = rec.tstamp /\ visit'[rec.host].hits = 1
         /\ ~Starts => /\ visit'[rec.host].lasturl = visit[rec.host].lasturl
                       /\ visit'[rec.host].storage = visit[rec.host].storage
                       /\ visit'[rec.host].start = visit[rec.host].start
                       /\ visit'[rec.host].hits = visit[rec.host].hits + 1
<1>. DEFINE h == rec.host
            new == IF Starts THEN NewVisit(rec.tstamp)
                   ELSE [visit[h] EXCEPT !.hits = @ + 1, !.end = rec.tstamp, !.dirty = TRUE]
<1>1. h \in Host /\ rec.tstamp \in Time
  BY RecIs DEF PutHNode, Busy
<1>2. visit' = Put(visit, h, new)
  BY DEF PutHNode, NewHostActive, Ending, Starts
<1>3. /\ new \in Visit /\ new.dirty /\ new.end = rec.tstamp
      /\ Starts => new.lasturl = NoUrl /\ ~new.storage /\ new.start = rec.tstamp /\ new.hits = 1
      /\ ~Starts => /\ new.lasturl = visit[h].lasturl /\ new.storage = visit[h].storage
                    /\ new.start = visit[h].start /\ new.hits = visit[h].hits + 1
  <2>1. CASE Starts
    <3>1. new = NewVisit(rec.tstamp)
      BY <2>1
    <3>. HIDE DEF new
    <3>2. NewVisit(rec.tstamp) \in Visit
      BY <1>1 DEF NewVisit, Visit
    <3>. QED
      BY <2>1, <3>1, <3>2 DEF NewVisit
  <2>2. CASE ~Starts
    <3>1. h \in DOMAIN visit
      BY <2>2, EndingIs
    <3>2. visit[h] \in Visit
      BY <3>1, TableAt DEF TypeOK, Tables
    <3>. DEFINE n == visit[h].hits + 1
    <3>3. n \in Nat
      BY <3>2 DEF Visit
    <3>4. new = [visit[h] EXCEPT !.hits = n, !.end = rec.tstamp, !.dirty = TRUE]
      BY <2>2
    <3>. HIDE DEF n, new
    <3>5. new \in Visit
      BY <1>1, <3>2, <3>3, <3>4 DEF Visit
    <3>6. /\ new.dirty /\ new.end = rec.tstamp /\ new.lasturl = visit[h].lasturl
          /\ new.storage = visit[h].storage /\ new.start = visit[h].start /\ new.hits = n
      BY <3>2, <3>4 DEF Visit
    <3>. QED
      BY <2>2, <3>5, <3>6 DEF n
  <2>. QED
    BY <2>1, <2>2, Zenon
<1>. HIDE DEF new
<1>5. visit \in Table(Host, Visit)
  BY DEF TypeOK, Tables
<1>6. visit' \in Table(Host, Visit)
  BY <1>1, <1>2, <1>3, <1>5, PutType, Zenon
<1>7. /\ DOMAIN visit' = DOMAIN visit \cup {h}
      /\ visit'[h] = new
      /\ \A x \in DOMAIN visit : x # h => visit'[x] = visit[x]
  BY <1>2 DEF Put
<1>. QED
  BY <1>3, <1>6, <1>7

(* put_hnode: the totals have one more hit, and visits that started and    *)
(* ended.                                                                  *)
LEMMA PutHNodeTotals ==
  ASSUME TypeOK, PutHNode, ~NewHostActive
  PROVE  /\ totals' \in Totals
         /\ totals'.cur_tstamp = rec.tstamp
         /\ totals'.t_hit = totals.t_hit + 1
         /\ totals'.t_visits = IF Starts THEN totals.t_visits + 1 ELSE totals.t_visits
         /\ totals'.t_visits_end = totals.t_visits_end + Cardinality(Ending)
         /\ Cardinality(Ending) \in Nat
<1>. DEFINE old == TotalsAfter(Ending)
            hits == old.t_hit + 1
            visits == IF Starts THEN old.t_visits + 1 ELSE old.t_visits
<1>1. rec.tstamp \in Stamp
  BY RecIs DEF PutHNode, Busy, Stamp
<1>2. /\ old \in Totals
      /\ old.t_hit = totals.t_hit /\ old.t_visits = totals.t_visits
      /\ old.t_visits_end = totals.t_visits_end + Cardinality(Ending)
      /\ Cardinality(Ending) \in Nat
  BY EndingIs, TotalsAfterIs
<1>3. totals' = [old EXCEPT !.cur_tstamp = rec.tstamp, !.t_hit = @ + 1,
                            !.t_visits = IF Starts THEN @ + 1 ELSE @]
  BY DEF PutHNode, NewHostActive, Ending, Starts
<1>4. totals' = [old EXCEPT !.cur_tstamp = rec.tstamp, !.t_hit = hits, !.t_visits = visits]
  BY <1>3 DEF hits, visits
<1>5. hits \in Nat /\ visits \in Nat
  <2>. HIDE DEF old
  <2>. QED
    BY <1>2 DEF Totals
<1>6. hits = totals.t_hit + 1 /\ visits = IF Starts THEN totals.t_visits + 1 ELSE totals.t_visits
  BY <1>2
<1>. HIDE DEF old, hits, visits
<1>7. totals' \in Totals
  BY <1>1, <1>2, <1>4, <1>5 DEF Totals
<1>8. /\ totals'.cur_tstamp = rec.tstamp /\ totals'.t_hit = hits /\ totals'.t_visits = visits
      /\ totals'.t_visits_end = old.t_visits_end
  BY <1>2, <1>4 DEF Totals
<1>. QED
  BY <1>2, <1>6, <1>7, <1>8

(* PutUNode, by the kind of the record                                     *)
LEMMA PutUNodeTable ==
  ASSUME TypeOK, PutUNode, rec.kind \in {"page", "download"}
  PROVE  /\ um_htab' \in Table(Url, UrlNode)
         /\ DOMAIN um_htab' = DOMAIN um_htab \cup {rec.url}
         /\ um_htab'[rec.url].dirty
         /\ \A x \in DOMAIN um_htab \ {rec.url} :
              um_htab'[x].dirty = um_htab[x].dirty /\ um_htab'[x].exit = um_htab[x].exit
         /\ rec.kind = "download" =>
              \A x \in DOMAIN um_htab' :
                um_htab'[x].vstref = IF x \in DOMAIN um_htab THEN um_htab[x].vstref ELSE 0
         /\ rec.kind = "page" =>
              \A x \in DOMAIN um_htab' :
                um_htab'[x].vstref = (IF x \in DOMAIN um_htab THEN um_htab[x].vstref ELSE 0)
                                     + (IF x = rec.url THEN 1 ELSE 0)
                                     - (IF x = visit[rec.host].lasturl THEN 1 ELSE 0)
<1>. DEFINE u == rec.url
            new == [LoadedUrl(u) EXCEPT !.tstamp = rec.tstamp, !.dirty = TRUE]
            table == Put(um_htab, u, new)
            old == visit[rec.host].lasturl
<1>1. u \in Url /\ rec.tstamp \in Stamp
  BY RecIs DEF PutUNode, Busy, Stamp
<1>2. /\ LoadedUrl(u) \in UrlNode
      /\ LoadedUrl(u).vstref = IF u \in DOMAIN um_htab THEN um_htab[u].vstref ELSE 0
  BY <1>1, LoadedUrlIs
<1>3. new \in UrlNode /\ new.dirty /\ new.vstref = LoadedUrl(u).vstref
  BY <1>1, <1>2 DEF UrlNode
<1>4. um_htab \in Table(Url, UrlNode)
  BY DEF TypeOK, Tables
<1>. HIDE DEF new
<1>5. /\ DOMAIN table = DOMAIN um_htab \cup {u}
      /\ table[u] = new
      /\ \A x \in DOMAIN um_htab \ {u} : table[x] = um_htab[x]
  BY DEF Put
<1>6. table \in Table(Url, UrlNode)
  BY <1>1, <1>3, <1>4, PutType, Zenon
<1>7. (rec.kind = "download" => um_htab' = table) /\ (rec.kind = "page" => um_htab' = LastUrlSet(table, old, u))
  BY DEF PutUNode, new
<1>. HIDE DEF table
<1>8. \A x \in DOMAIN table :
        table[x].vstref = IF x \in DOMAIN um_htab THEN um_htab[x].vstref ELSE 0
  BY <1>2, <1>3, <1>5
<1>9. CASE rec.kind = "download"
  BY <1>3, <1>5, <1>6, <1>7, <1>8, <1>9
<1>10. CASE rec.kind = "page"
  <2>. DEFINE d(x) == (IF x = u THEN 1 ELSE 0) - (IF x = old THEN 1 ELSE 0)
  <2>1. um_htab' = LastUrlSet(table, old, u)
    BY <1>7, <1>10
  <2>2. DOMAIN um_htab' = DOMAIN table
    BY <2>1 DEF LastUrlSet
  <2>3. ASSUME NEW x \in DOMAIN table
        PROVE  /\ x \in Url /\ um_htab'[x] \in UrlNode
               /\ um_htab'[x].dirty = table[x].dirty /\ um_htab'[x].exit = table[x].exit
               /\ um_htab'[x].vstref = table[x].vstref + (IF x = u THEN 1 ELSE 0)
                                       - (IF x = old THEN 1 ELSE 0)
    <3>. DEFINE n == table[x].vstref + (IF x = u THEN 1 ELSE 0) - (IF x = old THEN 1 ELSE 0)
    <3>1. x \in Url /\ table[x] \in UrlNode
      BY <1>6, TableAt
    <3>2. n \in Int
      BY <3>1 DEF UrlNode
    <3>3. um_htab'[x] = [table[x] EXCEPT !.vstref = n]
      BY <2>1 DEF LastUrlSet
    <3>. HIDE DEF n
    <3>4. um_htab'[x] \in UrlNode
      BY <3>1, <3>2, <3>3 DEF UrlNode
    <3>5. /\ um_htab'[x].dirty = table[x].dirty /\ um_htab'[x].exit = table[x].exit
          /\ um_htab'[x].vstref = n
      BY <3>1, <3>3 DEF UrlNode
    <3>. QED
      BY <3>1, <3>4, <3>5, Zenon DEF n
  <2>4. um_htab' = [x \in DOMAIN table |-> um_htab'[x]]
    BY <2>1 DEF LastUrlSet
  <2>5. um_htab' \in [DOMAIN table -> UrlNode] /\ DOMAIN table \subseteq Url
    BY <2>3, <2>4
  <2>6. um_htab' \in Table(Url, UrlNode)
    BY <2>2, <2>5, TableIs
  <2>7. /\ um_htab'[u].dirty
        /\ \A x \in DOMAIN um_htab \ {u} :
             um_htab'[x].dirty = um_htab[x].dirty /\ um_htab'[x].exit = um_htab[x].exit
    BY <1>3, <1>5, <2>3
  <2>8. \A x \in DOMAIN um_htab' :
          um_htab'[x].vstref = (IF x \in DOMAIN um_htab THEN um_htab[x].vstref ELSE 0)
                               + (IF x = u THEN 1 ELSE 0) - (IF x = old THEN 1 ELSE 0)
    BY <1>8, <2>2, <2>3
  <2>. QED
    BY <1>5, <1>10, <2>2, <2>6, <2>7, <2>8
<1>. QED
  BY <1>9, <1>10

(* put_unode: the page is the last URL of the visit.                       *)
LEMMA PutUNodeVisit ==
  ASSUME TypeOK, PutUNode, rec.kind = "page"
  PROVE  /\ visit' \in Table(Host, Visit)
         /\ DOMAIN visit' = DOMAIN visit
         /\ \A x \in DOMAIN visit :
              /\ visit'[x].storage = visit[x].storage /\ visit'[x].dirty = visit[x].dirty
              /\ visit'[x].start = visit[x].start /\ visit'[x].end = visit[x].end
              /\ visit'[x].hits = visit[x].hits
              /\ visit'[x].lasturl = IF x = rec.host THEN rec.url ELSE visit[x].lasturl
              /\ x # rec.host => visit'[x] = visit[x]
<1>1. rec.url \in Url
  BY RecIs DEF PutUNode, Busy
<1>2. visit' = [visit EXCEPT ![rec.host].lasturl = rec.url]
  BY DEF PutUNode
<1>3. visit \in [DOMAIN visit -> Visit] /\ DOMAIN visit \subseteq Host
  BY TableIs DEF TypeOK, Tables
<1>4. DOMAIN visit' = DOMAIN visit
  BY <1>2
<1>5. ASSUME NEW x \in DOMAIN visit
      PROVE  /\ visit'[x] \in Visit
             /\ visit'[x].storage = visit[x].storage /\ visit'[x].dirty = visit[x].dirty
             /\ visit'[x].start = visit[x].start /\ visit'[x].end = visit[x].end
             /\ visit'[x].hits = visit[x].hits
             /\ visit'[x].lasturl = IF x = rec.host THEN rec.url ELSE visit[x].lasturl
             /\ x # rec.host => visit'[x] = visit[x]
  <2>1. visit[x] \in Visit
    BY <1>3
  <2>2. CASE x # rec.host
    BY <1>2, <2>1, <2>2
  <2>3. CASE x = rec.host
    <3>1. visit'[x] = [visit[x] EXCEPT !.lasturl = rec.url]
      BY <1>2, <2>3
    <3>2. visit'[x] \in Visit
      BY <1>1, <2>1, <3>1 DEF Visit
    <3>3. /\ visit'[x].storage = visit[x].storage /\ visit'[x].dirty = visit[x].dirty
          /\ visit'[x].start = visit[x].start /\ visit'[x].end = visit[x].end
          /\ visit'[x].hits = visit[x].hits
          /\ visit'[x].lasturl = rec.url
      BY <2>1, <3>1 DEF Visit
    <3>. QED
      BY <2>3, <3>2, <3>3
  <2>. QED
    BY <2>2, <2>3
<1>6. visit' = [x \in DOMAIN visit |-> visit'[x]]
  BY <1>2
<1>7. visit' \in [DOMAIN visit -> Visit]
  BY <1>5, <1>6
<1>8. visit' \in Table(Host, Visit)
  BY <1>3, <1>4, <1>7, TableIs
<1>. QED
  BY <1>4, <1>5, <1>8

(* PutDLNode, when it does not throw                                       *)
NewDownloadActive ==
  /\ rec.host \notin DOMAIN dl_htab /\ rec.host \in DOMAIN db.downloads
  /\ db.downloads[rec.host].active

EndingDownload == {x \in {rec.host} \cap DOMAIN download : DownloadOver(download[x], rec.tstamp)}

(* put_dlnode: the host is referred to by one more download job when that  *)
(* is new.                                                                 *)
LEMMA PutDLNodeHost ==
  ASSUME TypeOK, PutDLNode, ~NewDownloadActive
  PROVE  /\ hm_htab' \in Table(Host, HostNode)
         /\ DOMAIN hm_htab' = DOMAIN hm_htab
         /\ rec.host \in DOMAIN dl_htab => hm_htab' = hm_htab
         /\ \A x \in DOMAIN hm_htab :
              /\ x # rec.host => hm_htab'[x] = hm_htab[x]
              /\ hm_htab'[x].count = hm_htab[x].count /\ hm_htab'[x].visits = hm_htab[x].visits
              /\ hm_htab'[x].dirty = hm_htab[x].dirty /\ hm_htab'[x].tstamp = hm_htab[x].tstamp
              /\ hm_htab'[x].dlref =
                   hm_htab[x].dlref + (IF x = rec.host /\ x \notin DOMAIN dl_htab THEN 1 ELSE 0)
<1>1. hm_htab \in [DOMAIN hm_htab -> HostNode] /\ DOMAIN hm_htab \subseteq Host
  BY TableIs DEF TypeOK, Tables
<1>2. hm_htab' = IF rec.host \in DOMAIN dl_htab THEN hm_htab
                 ELSE [hm_htab EXCEPT ![rec.host].dlref = @ + 1]
  BY DEF PutDLNode, NewDownloadActive
<1>3. CASE rec.host \in DOMAIN dl_htab
  <2>1. hm_htab' = hm_htab
    BY <1>2, <1>3
  <2>2. \A x \in DOMAIN hm_htab : hm_htab[x].dlref \in Int
    BY <1>1 DEF HostNode
  <2>3. hm_htab \in Table(Host, HostNode)
    BY DEF TypeOK, Tables
  <2>. QED
    BY <1>3, <2>1, <2>2, <2>3
<1>4. CASE rec.host \notin DOMAIN dl_htab
  <2>1. DOMAIN hm_htab' = DOMAIN hm_htab
    BY <1>2
  <2>2. ASSUME NEW x \in DOMAIN hm_htab
        PROVE  /\ hm_htab'[x] \in HostNode
               /\ x # rec.host => hm_htab'[x] = hm_htab[x]
               /\ hm_htab'[x].count = hm_htab[x].count /\ hm_htab'[x].visits = hm_htab[x].visits
               /\ hm_htab'[x].dirty = hm_htab[x].dirty /\ hm_htab'[x].tstamp = hm_htab[x].tstamp
               /\ hm_htab'[x].dlref =
                    hm_htab[x].dlref + (IF x = rec.host /\ x \notin DOMAIN dl_htab THEN 1 ELSE 0)
    <3>1. hm_htab[x] \in HostNode /\ hm_htab[x].dlref \in Int
      BY <1>1 DEF HostNode
    <3>2. CASE x # rec.host
      BY <1>2, <3>1, <3>2
    <3>3. CASE x = rec.host
      <4>. DEFINE n == hm_htab[x].dlref + 1
      <4>1. n \in Int /\ hm_htab'[x] = [hm_htab[x] EXCEPT !.dlref = n]
        BY <1>2, <1>4, <3>1, <3>3
      <4>. HIDE DEF n
      <4>2. hm_htab'[x] \in HostNode
        BY <3>1, <4>1 DEF HostNode
      <4>3. /\ hm_htab'[x].count = hm_htab[x].count /\ hm_htab'[x].visits = hm_htab[x].visits
            /\ hm_htab'[x].dirty = hm_htab[x].dirty /\ hm_htab'[x].tstamp = hm_htab[x].tstamp
            /\ hm_htab'[x].dlref = n
        BY <3>1, <4>1 DEF HostNode
      <4>. QED
        BY <1>4, <3>3, <4>2, <4>3 DEF n
    <3>. QED
      BY <3>2, <3>3
  <2>3. hm_htab' = [x \in DOMAIN hm_htab |-> hm_htab'[x]]
    BY <1>2, <1>4
  <2>4. hm_htab' \in [DOMAIN hm_htab -> HostNode]
    BY <2>2, <2>3
  <2>5. hm_htab' \in Table(Host, HostNode)
    BY <1>1, <2>1, <2>4, TableIs
  <2>. QED
    BY <1>4, <2>1, <2>2, <2>5
<1>. QED
  BY <1>3, <1>4

(* put_dlnode: the job is in memory and has a download, new or old.        *)
LEMMA PutDLNodeDownload ==
  ASSUME TypeOK, PutDLNode, ~NewDownloadActive
  PROVE  /\ dl_htab' \in Table(Host, DownloadNode)
         /\ DOMAIN dl_htab' = DOMAIN dl_htab \cup {rec.host}
         /\ \A x \in DOMAIN dl_htab \ {rec.host} : dl_htab'[x] = dl_htab[x]
         /\ dl_htab'[rec.host].dirty /\ dl_htab'[rec.host].tstamp = rec.tstamp
         /\ download' \in Table(Host, Download)
         /\ DOMAIN download' = DOMAIN download \cup {rec.host}
         /\ \A x \in DOMAIN download \ {rec.host} : download'[x] = download[x]
         /\ download'[rec.host].dirty /\ download'[rec.host].tstamp = rec.tstamp
         /\ download'[rec.host].storage <=>
              (rec.host \in DOMAIN download \ EndingDownload /\ download[rec.host].storage)
<1>. DEFINE h == rec.host
            t == rec.tstamp
            S == EndingDownload
            node == IF h \in DOMAIN dl_htab THEN DownloadsAfter(S)[h] ELSE LoadedDownload(h)
            newnode == [node EXCEPT !.tstamp = t, !.dirty = TRUE]
            new == IF h \in DOMAIN download \ S
                     THEN [download[h] EXCEPT !.hits = @ + 1, !.tstamp = t, !.dirty = TRUE]
                     ELSE [hits |-> 1, tstamp |-> t, storage |-> FALSE, dirty |-> TRUE]
<1>1. h \in Host /\ t \in Time /\ t \in Stamp
  BY RecIs DEF PutDLNode, Busy, Stamp
<1>2. dl_htab' = Put(dl_htab, h, newnode) /\ download' = Put(download, h, new)
  BY DEF PutDLNode, NewDownloadActive, EndingDownload
<1>3. node \in DownloadNode
  <2>1. CASE h \in DOMAIN dl_htab
    <3>1. S \subseteq DOMAIN download
      BY DEF EndingDownload
    <3>. QED
      BY <2>1, <3>1, DownloadsAfterIs
  <2>2. CASE h \notin DOMAIN dl_htab
    BY <1>1, <2>2, LoadedDownloadIs
  <2>. QED
    BY <2>1, <2>2
<1>. HIDE DEF node
<1>4. newnode \in DownloadNode /\ newnode.dirty /\ newnode.tstamp = t
  BY <1>1, <1>3 DEF DownloadNode
<1>5. /\ new \in Download /\ new.dirty /\ new.tstamp = t
      /\ new.storage <=> h \in DOMAIN download \ S /\ download[h].storage
  <2>1. CASE h \in DOMAIN download \ S
    <3>1. download[h] \in Download
      BY <2>1, TableAt DEF TypeOK, Tables
    <3>. DEFINE n == download[h].hits + 1
    <3>2. n \in Nat
      BY <3>1 DEF Download
    <3>3. new = [download[h] EXCEPT !.hits = n, !.tstamp = t, !.dirty = TRUE]
      BY <2>1
    <3>. HIDE DEF n, new
    <3>4. new \in Download
      BY <1>1, <3>1, <3>2, <3>3 DEF Download
    <3>5. new.dirty /\ new.tstamp = t /\ new.storage = download[h].storage
      BY <3>1, <3>3 DEF Download
    <3>. QED
      BY <2>1, <3>1, <3>4, <3>5
  <2>2. CASE h \notin DOMAIN download \ S
    <3>1. new = [hits |-> 1, tstamp |-> t, storage |-> FALSE, dirty |-> TRUE]
      BY <2>2
    <3>. HIDE DEF new
    <3>2. new \in Download
      BY <1>1, <3>1 DEF Download
    <3>. QED
      BY <2>2, <3>1, <3>2
  <2>. QED
    BY <2>1, <2>2, Zenon
<1>. HIDE DEF newnode, new
<1>6. dl_htab \in Table(Host, DownloadNode) /\ download \in Table(Host, Download)
  BY DEF TypeOK, Tables
<1>7. dl_htab' \in Table(Host, DownloadNode) /\ download' \in Table(Host, Download)
  BY <1>1, <1>2, <1>4, <1>5, <1>6, PutType, Zenon
<1>8. /\ DOMAIN dl_htab' = DOMAIN dl_htab \cup {h}
      /\ dl_htab'[h] = newnode
      /\ \A x \in DOMAIN dl_htab : x # h => dl_htab'[x] = dl_htab[x]
  BY <1>2 DEF Put
<1>9. /\ DOMAIN download' = DOMAIN download \cup {h}
      /\ download'[h] = new
      /\ \A x \in DOMAIN download : x # h => download'[x] = download[x]
  BY <1>2 DEF Put
<1>10. /\ dl_htab'[h].dirty /\ dl_htab'[h].tstamp = t
       /\ download'[h].dirty /\ download'[h].tstamp = t
       /\ download'[h].storage <=> h \in DOMAIN download \ S /\ download[h].storage
  BY <1>4, <1>5, <1>8, <1>9
<1>. QED
  BY <1>7, <1>8, <1>9, <1>10

(* Finished downloads change no other total.                               *)
LEMMA DownloadTotals ==
  ASSUME TypeOK, NEW S, S \subseteq Host,
         totals' = [totals EXCEPT !.t_dlcount = @ + Cardinality(S)]
  PROVE  /\ totals' \in Totals
         /\ totals'.cur_tstamp = totals.cur_tstamp
         /\ totals'.t_hit = totals.t_hit
         /\ totals'.t_visits = totals.t_visits
         /\ totals'.t_visits_end = totals.t_visits_end
<1>. DEFINE n == totals.t_dlcount + Cardinality(S)
<1>1. totals \in Totals
  BY DEF TypeOK
<1>2. n \in Nat
  BY <1>1, HostsFinite DEF Totals
<1>3. totals' = [totals EXCEPT !.t_dlcount = n]
  OBVIOUS
<1>. HIDE DEF n
<1>. QED
  BY <1>1, <1>2, <1>3 DEF Totals

(* The tables of a database have their types.                              *)
LEMMA DatabaseIs ==
  ASSUME NEW d \in Database
  PROVE  /\ d.totals \in Totals
         /\ d.hosts \in Table(Host, HostRow) /\ d.visits \in Table(Host, VisitRow)
         /\ d.urls \in Table(Url, UrlRow) /\ d.downloads \in Table(Host, DownloadRow)
         /\ d.active_downloads \in Table(Host, ActiveRow)
BY DEF Database

(* swap_out of download jobs: they leave memory, and hosts lose their      *)
(* references.                                                             *)
LEMMA SwapOutDownloadsIs ==
  ASSUME TypeOK, NEW S, S \subseteq DOMAIN dl_htab, SwapOutDownloads(S)
  PROVE  /\ hm_htab' \in Table(Host, HostNode)
         /\ DOMAIN hm_htab' = DOMAIN hm_htab
         /\ \A x \in DOMAIN hm_htab :
              /\ hm_htab'[x].count = hm_htab[x].count /\ hm_htab'[x].visits = hm_htab[x].visits
              /\ hm_htab'[x].dirty = hm_htab[x].dirty /\ hm_htab'[x].tstamp = hm_htab[x].tstamp
              /\ hm_htab'[x].dlref = hm_htab[x].dlref - (IF x \in S THEN 1 ELSE 0)
         /\ dl_htab' \in Table(Host, DownloadNode)
         /\ DOMAIN dl_htab' = DOMAIN dl_htab \ S
         /\ \A x \in DOMAIN dl_htab \ S : dl_htab'[x] = dl_htab[x]
         /\ download' \in Table(Host, Download)
         /\ DOMAIN download' = DOMAIN download \ S
         /\ \A x \in DOMAIN download \ S : download'[x] = download[x]
<1>1. hm_htab \in [DOMAIN hm_htab -> HostNode] /\ DOMAIN hm_htab \subseteq Host
  BY TableIs DEF TypeOK, Tables
<1>2. hm_htab' = [h \in DOMAIN hm_htab |->
                    IF h \in S THEN [hm_htab[h] EXCEPT !.dlref = @ - 1] ELSE hm_htab[h]]
  BY DEF SwapOutDownloads
<1>3. DOMAIN hm_htab' = DOMAIN hm_htab
  BY <1>2
<1>4. ASSUME NEW x \in DOMAIN hm_htab
      PROVE  /\ hm_htab'[x] \in HostNode
             /\ hm_htab'[x].count = hm_htab[x].count /\ hm_htab'[x].visits = hm_htab[x].visits
             /\ hm_htab'[x].dirty = hm_htab[x].dirty /\ hm_htab'[x].tstamp = hm_htab[x].tstamp
             /\ hm_htab'[x].dlref = hm_htab[x].dlref - (IF x \in S THEN 1 ELSE 0)
  <2>1. hm_htab[x] \in HostNode /\ hm_htab[x].dlref \in Int
    BY <1>1 DEF HostNode
  <2>2. CASE x \notin S
    BY <1>2, <2>1, <2>2
  <2>3. CASE x \in S
    <3>. DEFINE n == hm_htab[x].dlref - 1
    <3>1. n \in Int /\ hm_htab'[x] = [hm_htab[x] EXCEPT !.dlref = n]
      BY <1>2, <2>1, <2>3
    <3>. HIDE DEF n
    <3>2. hm_htab'[x] \in HostNode
      BY <2>1, <3>1 DEF HostNode
    <3>3. /\ hm_htab'[x].count = hm_htab[x].count /\ hm_htab'[x].visits = hm_htab[x].visits
          /\ hm_htab'[x].dirty = hm_htab[x].dirty /\ hm_htab'[x].tstamp = hm_htab[x].tstamp
          /\ hm_htab'[x].dlref = n
      BY <2>1, <3>1 DEF HostNode
    <3>. QED
      BY <2>3, <3>2, <3>3 DEF n
  <2>. QED
    BY <2>2, <2>3
<1>5. hm_htab' = [x \in DOMAIN hm_htab |-> hm_htab'[x]]
  BY <1>2
<1>6. hm_htab' \in [DOMAIN hm_htab -> HostNode]
  BY <1>4, <1>5
<1>7. hm_htab' \in Table(Host, HostNode)
  BY <1>1, <1>3, <1>6, TableIs
<1>8. dl_htab' = Remove(dl_htab, S) /\ download' = Remove(download, S)
  BY DEF SwapOutDownloads
<1>9. dl_htab \in Table(Host, DownloadNode) /\ download \in Table(Host, Download)
  BY DEF TypeOK, Tables
<1>10. dl_htab' \in Table(Host, DownloadNode) /\ download' \in Table(Host, Download)
  BY <1>8, <1>9, RemoveType, Zenon
<1>11. /\ DOMAIN dl_htab' = DOMAIN dl_htab \ S
       /\ \A x \in DOMAIN dl_htab \ S : dl_htab'[x] = dl_htab[x]
  BY <1>8 DEF Remove, Restrict
<1>12. /\ DOMAIN download' = DOMAIN download \ S
       /\ \A x \in DOMAIN download \ S : download'[x] = download[x]
  BY <1>8 DEF Remove, Restrict
<1>. QED
  BY <1>3, <1>4, <1>7, <1>10, <1>11, <1>12

(* Hosts and downloads that leave memory are stored as inactive.           *)
SavedDownloads(S) == {h \in S : DownloadsAfter(S \cap DOMAIN download)[h].dirty}

(* swap_out of download jobs: all that were active or modified are saved,  *)
(* as inactive.                                                            *)
LEMMA SwapOutDownloadsDb ==
  ASSUME TypeOK, NEW S, S \subseteq DOMAIN dl_htab, SwapOutDownloads(S)
  PROVE  /\ db' \in Database
         /\ db'.totals = db.totals /\ db'.hosts = db.hosts /\ db'.visits = db.visits
         /\ db'.urls = db.urls /\ db'.active_downloads = db.active_downloads
         /\ DOMAIN db'.downloads = DOMAIN db.downloads \cup SavedDownloads(S)
         /\ \A h \in SavedDownloads(S) : ~db'.downloads[h].active
         /\ \A h \in DOMAIN db.downloads \ SavedDownloads(S) : db'.downloads[h] = db.downloads[h]
         /\ \A h \in S : h \in DOMAIN download \/ dl_htab[h].dirty => h \in SavedDownloads(S)
<1>. DEFINE nodes == DownloadsAfter(S \cap DOMAIN download)
            saved == SavedDownloads(S)
            row(h) == [count |-> nodes[h].count, sumhits |-> nodes[h].sumhits, active |-> FALSE]
            new == [h \in DOMAIN db.downloads \cup saved |->
                      IF h \in saved THEN row(h) ELSE db.downloads[h]]
<1>1. db' = [db EXCEPT !.downloads = new]
  BY DEF SwapOutDownloads, SavedDownloads
<1>2. db \in Database
  BY DEF TypeOK
<1>3. db.downloads \in Table(Host, DownloadRow)
  BY <1>2, DatabaseIs
<1>4. /\ \A h \in DOMAIN dl_htab : nodes[h] \in DownloadNode /\ h \in Host
      /\ \A h \in DOMAIN dl_htab : h \in S \cap DOMAIN download => nodes[h].dirty
      /\ \A h \in DOMAIN dl_htab : h \notin S \cap DOMAIN download => nodes[h] = dl_htab[h]
  BY DownloadsAfterIs
<1>. HIDE DEF nodes
<1>5. saved \subseteq S /\ saved \subseteq Host
  BY <1>4 DEF SavedDownloads
<1>6. \A h \in saved : row(h) \in DownloadRow /\ ~row(h).active
  BY <1>4, <1>5 DEF DownloadRow, DownloadNode
<1>7. \A h \in S : h \in DOMAIN download \/ dl_htab[h].dirty => h \in saved
  BY <1>4 DEF SavedDownloads, nodes
<1>8. /\ DOMAIN new = DOMAIN db.downloads \cup saved
      /\ \A h \in saved : new[h] = row(h)
      /\ \A h \in DOMAIN db.downloads \ saved : new[h] = db.downloads[h]
  OBVIOUS
<1>. HIDE DEF row, saved
<1>9. new \in Table(Host, DownloadRow)
  <2>1. db.downloads \in [DOMAIN db.downloads -> DownloadRow] /\ DOMAIN db.downloads \subseteq Host
    BY <1>3, TableIs
  <2>2. new \in [DOMAIN db.downloads \cup saved -> DownloadRow]
    BY <2>1, <1>6
  <2>. QED
    BY <2>1, <2>2, <1>5 DEF Table
<1>. HIDE DEF new
<1>10. db' \in Database
  BY <1>1, <1>2, <1>9 DEF Database
<1>11. /\ db'.totals = db.totals /\ db'.hosts = db.hosts /\ db'.visits = db.visits
       /\ db'.urls = db.urls /\ db'.active_downloads = db.active_downloads
       /\ db'.downloads = new
  BY <1>1, <1>2 DEF Database
<1>. QED
  BY <1>6, <1>7, <1>8, <1>10, <1>11 DEF saved

(* swap_out of hosts: they leave memory with their visits, and none is     *)
(* referred to.                                                            *)
LEMMA SwapOutHostsIs ==
  ASSUME TypeOK, NEW S, S \subseteq DOMAIN hm_htab, SwapOutHosts(S)
  PROVE  /\ hm_htab' \in Table(Host, HostNode)
         /\ DOMAIN hm_htab' = DOMAIN hm_htab \ S
         /\ \A x \in DOMAIN hm_htab \ S : hm_htab'[x] = hm_htab[x]
         /\ visit' \in Table(Host, Visit)
         /\ DOMAIN visit' = DOMAIN visit \ S
         /\ \A x \in DOMAIN visit \ S : visit'[x] = visit[x]
         /\ \A x \in S : x \in DOMAIN hm_htab /\ hm_htab[x].dlref <= 0
<1>1. hm_htab' = Remove(hm_htab, S) /\ visit' = Remove(visit, S)
  BY DEF SwapOutHosts
<1>2. hm_htab \in Table(Host, HostNode) /\ visit \in Table(Host, Visit)
  BY DEF TypeOK, Tables
<1>3. hm_htab' \in Table(Host, HostNode) /\ visit' \in Table(Host, Visit)
  BY <1>1, <1>2, RemoveType, Zenon
<1>4. /\ DOMAIN hm_htab' = DOMAIN hm_htab \ S
      /\ \A x \in DOMAIN hm_htab \ S : hm_htab'[x] = hm_htab[x]
  BY <1>1 DEF Remove, Restrict
<1>5. /\ DOMAIN visit' = DOMAIN visit \ S
      /\ \A x \in DOMAIN visit \ S : visit'[x] = visit[x]
  BY <1>1 DEF Remove, Restrict
<1>6. ASSUME NEW x \in S  PROVE  x \in DOMAIN hm_htab /\ hm_htab[x].dlref <= 0
  <2>1. x \in DOMAIN hm_htab /\ x \notin Pinned
    BY DEF SwapOutHosts, Oldest
  <2>2. hm_htab[x].dlref \in Int
    <3>1. hm_htab[x] \in HostNode
      BY <1>2, <2>1, TableAt
    <3>. QED
      BY <3>1 DEF HostNode
  <2>. QED
    BY <2>1, <2>2 DEF Pinned
<1>. QED
  BY <1>3, <1>4, <1>5, <1>6

SavedHosts(S) == {h \in S : HostsAfter(S \cap DOMAIN visit)[h].dirty}

(* swap_out of hosts: all that were active or modified are saved, with     *)
(* the hits of their visits.                                               *)
LEMMA SwapOutHostsDb ==
  ASSUME TypeOK, NEW S, S \subseteq DOMAIN hm_htab, SwapOutHosts(S)
  PROVE  /\ db' \in Database
         /\ db'.totals = db.totals /\ db'.downloads = db.downloads /\ db'.visits = db.visits
         /\ db'.urls = db.urls /\ db'.active_downloads = db.active_downloads
         /\ DOMAIN db'.hosts = DOMAIN db.hosts \cup SavedHosts(S)
         /\ \A h \in SavedHosts(S) :
              /\ ~db'.hosts[h].active
              /\ db'.hosts[h].count = HostsAfter(S \cap DOMAIN visit)[h].count
              /\ db'.hosts[h].visits = hm_htab[h].visits
         /\ \A h \in DOMAIN db.hosts \ SavedHosts(S) : db'.hosts[h] = db.hosts[h]
         /\ \A h \in S : h \in DOMAIN visit \/ hm_htab[h].dirty => h \in SavedHosts(S)
<1>. DEFINE nodes == HostsAfter(S \cap DOMAIN visit)
            saved == SavedHosts(S)
            row(h) == [count |-> nodes[h].count, visits |-> nodes[h].visits, active |-> FALSE]
            new == [h \in DOMAIN db.hosts \cup saved |->
                      IF h \in saved THEN row(h) ELSE db.hosts[h]]
<1>1. db' = [db EXCEPT !.hosts = new]
  BY DEF SwapOutHosts, SavedHosts
<1>2. db \in Database
  BY DEF TypeOK
<1>3. db.hosts \in Table(Host, HostRow)
  BY <1>2, DatabaseIs
<1>4. /\ \A h \in DOMAIN hm_htab : nodes[h] \in HostNode /\ h \in Host
      /\ \A h \in DOMAIN hm_htab : nodes[h].visits = hm_htab[h].visits
      /\ \A h \in DOMAIN hm_htab : h \in S \cap DOMAIN visit => nodes[h].dirty
      /\ \A h \in DOMAIN hm_htab : h \notin S \cap DOMAIN visit => nodes[h] = hm_htab[h]
  BY HostsAfterIs
<1>. HIDE DEF nodes
<1>5. saved \subseteq S /\ saved \subseteq Host
  BY <1>4 DEF SavedHosts
<1>6. \A h \in saved : /\ row(h) \in HostRow /\ ~row(h).active
                       /\ row(h).count = nodes[h].count /\ row(h).visits = hm_htab[h].visits
  BY <1>4, <1>5 DEF HostRow, HostNode
<1>7. \A h \in S : h \in DOMAIN visit \/ hm_htab[h].dirty => h \in saved
  BY <1>4 DEF SavedHosts, nodes
<1>8. /\ DOMAIN new = DOMAIN db.hosts \cup saved
      /\ \A h \in saved : new[h] = row(h)
      /\ \A h \in DOMAIN db.hosts \ saved : new[h] = db.hosts[h]
  OBVIOUS
<1>. HIDE DEF row, saved
<1>9. new \in Table(Host, HostRow)
  <2>1. db.hosts \in [DOMAIN db.hosts -> HostRow] /\ DOMAIN db.hosts \subseteq Host
    BY <1>3, TableIs
  <2>2. new \in [DOMAIN db.hosts \cup saved -> HostRow]
    BY <2>1, <1>6
  <2>. QED
    BY <2>1, <2>2, <1>5 DEF Table
<1>. HIDE DEF new
<1>10. db' \in Database
  BY <1>1, <1>2, <1>9 DEF Database
<1>11. /\ db'.totals = db.totals /\ db'.downloads = db.downloads /\ db'.visits = db.visits
       /\ db'.urls = db.urls /\ db'.active_downloads = db.active_downloads
       /\ db'.hosts = new
  BY <1>1, <1>2 DEF Database
<1>12. \A h \in saved : /\ ~db'.hosts[h].active
                        /\ db'.hosts[h].count = nodes[h].count
                        /\ db'.hosts[h].visits = hm_htab[h].visits
  BY <1>6, <1>8, <1>11
<1>13. DOMAIN db'.hosts = DOMAIN db.hosts \cup saved
  BY <1>8, <1>11
<1>14. \A h \in DOMAIN db.hosts \ saved : db'.hosts[h] = db.hosts[h]
  BY <1>8, <1>11
<1>. QED
  BY <1>7, <1>10, <1>11, <1>12, <1>13, <1>14, Zenon DEF saved, nodes

(* swap_out of URLs: those leave memory that no visit refers to.           *)
LEMMA SwapOutUrlsIs ==
  ASSUME TypeOK, NEW S, S \subseteq DOMAIN um_htab, SwapOutUrls(S)
  PROVE  /\ um_htab' \in Table(Url, UrlNode)
         /\ DOMAIN um_htab' = DOMAIN um_htab \ S
         /\ \A x \in DOMAIN um_htab \ S : um_htab'[x] = um_htab[x]
         /\ \A x \in S : um_htab[x].vstref = 0
         /\ db' \in Database
         /\ db'.totals = db.totals /\ db'.hosts = db.hosts /\ db'.downloads = db.downloads
         /\ db'.visits = db.visits /\ db'.active_downloads = db.active_downloads
         /\ DOMAIN db'.urls = DOMAIN db.urls \cup (S \cap Dirty(um_htab))
         /\ \A u \in DOMAIN um_htab \ S : u \in DOMAIN db.urls => db'.urls[u] = db.urls[u]
<1>. DEFINE saved == {u \in S : um_htab[u].dirty}
            row(u) == [exit |-> um_htab[u].exit]
            new == [u \in DOMAIN db.urls \cup saved |->
                      IF u \in saved THEN row(u) ELSE db.urls[u]]
<1>1. db' = [db EXCEPT !.urls = new] /\ um_htab' = Remove(um_htab, S)
  BY DEF SwapOutUrls
<1>2. db \in Database /\ um_htab \in Table(Url, UrlNode)
  BY DEF TypeOK, Tables
<1>3. db.urls \in Table(Url, UrlRow)
  BY <1>2, DatabaseIs
<1>4. um_htab' \in Table(Url, UrlNode)
  BY <1>1, <1>2, RemoveType, Zenon
<1>5. /\ DOMAIN um_htab' = DOMAIN um_htab \ S
      /\ \A x \in DOMAIN um_htab \ S : um_htab'[x] = um_htab[x]
  BY <1>1 DEF Remove, Restrict
<1>6. saved \subseteq S /\ saved \subseteq Url /\ saved = S \cap Dirty(um_htab)
  BY <1>2, TableIs DEF Dirty
<1>7. \A u \in saved : row(u) \in UrlRow
  <2>1. \A u \in DOMAIN um_htab : um_htab[u] \in UrlNode
    BY <1>2, TableAt
  <2>. QED
    BY <2>1, <1>6 DEF UrlRow, UrlNode
<1>8. /\ DOMAIN new = DOMAIN db.urls \cup saved
      /\ \A u \in DOMAIN db.urls \ saved : new[u] = db.urls[u]
  OBVIOUS
<1>. HIDE DEF row, saved
<1>9. new \in Table(Url, UrlRow)
  <2>1. db.urls \in [DOMAIN db.urls -> UrlRow] /\ DOMAIN db.urls \subseteq Url
    BY <1>3, TableIs
  <2>2. new \in [DOMAIN db.urls \cup saved -> UrlRow]
    BY <2>1, <1>7
  <2>. QED
    BY <2>1, <2>2, <1>6 DEF Table
<1>. HIDE DEF new
<1>10. db' \in Database
  BY <1>1, <1>2, <1>9 DEF Database
<1>11. /\ db'.totals = db.totals /\ db'.hosts = db.hosts /\ db'.downloads = db.downloads
       /\ db'.visits = db.visits /\ db'.active_downloads = db.active_downloads
       /\ db'.urls = new
  BY <1>1, <1>2 DEF Database
<1>12. \A x \in S : um_htab[x].vstref = 0
  BY DEF SwapOutUrls, Oldest, Referenced
<1>13. \A u \in DOMAIN um_htab \ S : u \in DOMAIN db.urls => db'.urls[u] = db.urls[u]
  BY <1>6, <1>8, <1>11
<1>. QED
  BY <1>4, <1>5, <1>6, <1>8, <1>10, <1>11, <1>12, <1>13

(* update_visits: the visits that are over leave memory, the others stay.  *)
LEMMA UpdateVisitsIs ==
  ASSUME TypeOK, UpdateVisits
  PROVE  /\ VisitsOver \subseteq DOMAIN visit
         /\ visit' \in Table(Host, Visit)
         /\ DOMAIN visit' = DOMAIN visit \ VisitsOver
         /\ \A x \in DOMAIN visit \ VisitsOver : visit'[x] = visit[x]
<1>1. visit' = Remove(visit, VisitsOver) /\ visit \in Table(Host, Visit)
  BY DEF UpdateVisits, TypeOK, Tables
<1>2. VisitsOver \subseteq DOMAIN visit
  BY DEF VisitsOver
<1>3. visit' \in Table(Host, Visit)
  BY <1>1, RemoveType, Zenon
<1>4. /\ DOMAIN visit' = DOMAIN visit \ VisitsOver
      /\ \A x \in DOMAIN visit \ VisitsOver : visit'[x] = visit[x]
  BY <1>1 DEF Remove, Restrict
<1>. QED
  BY <1>2, <1>3, <1>4

(* update_downloads: so do downloads.                                      *)
LEMMA UpdateDownloadsIs ==
  ASSUME TypeOK, UpdateDownloads
  PROVE  /\ DownloadsOver \subseteq DOMAIN download
         /\ download' \in Table(Host, Download)
         /\ DOMAIN download' = DOMAIN download \ DownloadsOver
         /\ \A x \in DOMAIN download \ DownloadsOver : download'[x] = download[x]
<1>1. download' = Remove(download, DownloadsOver) /\ download \in Table(Host, Download)
  BY DEF UpdateDownloads, TypeOK, Tables
<1>2. DownloadsOver \subseteq DOMAIN download
  BY DEF DownloadsOver
<1>3. download' \in Table(Host, Download)
  BY <1>1, RemoveType, Zenon
<1>4. /\ DOMAIN download' = DOMAIN download \ DownloadsOver
      /\ \A x \in DOMAIN download \ DownloadsOver : download'[x] = download[x]
  BY <1>1 DEF Remove, Restrict
<1>. QED
  BY <1>2, <1>3, <1>4

(* The rows that save_state writes                                         *)
LEMMA RowsAre ==
  ASSUME TypeOK
  PROVE  /\ HostRows \in Table(Host, HostRow) /\ DOMAIN HostRows = DOMAIN hm_htab
         /\ VisitRows \in Table(Host, VisitRow) /\ DOMAIN VisitRows = DOMAIN visit
         /\ UrlRows \in Table(Url, UrlRow) /\ DOMAIN UrlRows = DOMAIN um_htab
         /\ DownloadRows \in Table(Host, DownloadRow) /\ DOMAIN DownloadRows = DOMAIN dl_htab
         /\ ActiveRows \in Table(Host, ActiveRow) /\ DOMAIN ActiveRows = DOMAIN download
<1>1. HostRows \in Table(Host, HostRow) /\ DOMAIN HostRows = DOMAIN hm_htab
  <2>1. hm_htab \in [DOMAIN hm_htab -> HostNode] /\ DOMAIN hm_htab \subseteq Host
    BY TableIs DEF TypeOK, Tables
  <2>2. HostRows \in [DOMAIN hm_htab -> HostRow]
    BY <2>1 DEF HostRows, HostRow, HostNode
  <2>. QED
    BY <2>1, <2>2 DEF Table
<1>2. VisitRows \in Table(Host, VisitRow) /\ DOMAIN VisitRows = DOMAIN visit
  <2>1. visit \in [DOMAIN visit -> Visit] /\ DOMAIN visit \subseteq Host
    BY TableIs DEF TypeOK, Tables
  <2>2. VisitRows \in [DOMAIN visit -> VisitRow]
    BY <2>1 DEF VisitRows, VisitRow, Visit
  <2>. QED
    BY <2>1, <2>2 DEF Table
<1>3. UrlRows \in Table(Url, UrlRow) /\ DOMAIN UrlRows = DOMAIN um_htab
  <2>1. um_htab \in [DOMAIN um_htab -> UrlNode] /\ DOMAIN um_htab \subseteq Url
    BY TableIs DEF TypeOK, Tables
  <2>2. UrlRows \in [DOMAIN um_htab -> UrlRow]
    BY <2>1 DEF UrlRows, UrlRow, UrlNode
  <2>. QED
    BY <2>1, <2>2 DEF Table
<1>4. DownloadRows \in Table(Host, DownloadRow) /\ DOMAIN DownloadRows = DOMAIN dl_htab
  <2>1. dl_htab \in [DOMAIN dl_htab -> DownloadNode] /\ DOMAIN dl_htab \subseteq Host
    BY TableIs DEF TypeOK, Tables
  <2>2. DownloadRows \in [DOMAIN dl_htab -> DownloadRow]
    BY <2>1 DEF DownloadRows, DownloadRow, DownloadNode
  <2>. QED
    BY <2>1, <2>2 DEF Table
<1>5. ActiveRows \in Table(Host, ActiveRow) /\ DOMAIN ActiveRows = DOMAIN download
  <2>1. download \in [DOMAIN download -> Download] /\ DOMAIN download \subseteq Host
    BY TableIs DEF TypeOK, Tables
  <2>2. ActiveRows \in [DOMAIN download -> ActiveRow]
    BY <2>1 DEF ActiveRows, ActiveRow, Download
  <2>. QED
    BY <2>1, <2>2 DEF Table
<1>. QED
  BY <1>1, <1>2, <1>3, <1>4, <1>5

(* What save_state leaves is a database.                                   *)
LEMMA SavedDbIs ==
  ASSUME TypeOK
  PROVE  SavedDb \in Database
<1>1. db \in Database /\ totals \in Totals
  BY DEF TypeOK
<1>2. /\ db.hosts \in Table(Host, HostRow) /\ db.visits \in Table(Host, VisitRow)
      /\ db.urls \in Table(Url, UrlRow) /\ db.downloads \in Table(Host, DownloadRow)
      /\ db.active_downloads \in Table(Host, ActiveRow)
  BY <1>1, DatabaseIs
<1>3. /\ SavedTable(db.hosts, {}, hm_htab, HostRows) \in Table(Host, HostRow)
      /\ SavedTable(db.visits, Ended(v_ended), visit, VisitRows) \in Table(Host, VisitRow)
      /\ SavedTable(db.urls, {}, um_htab, UrlRows) \in Table(Url, UrlRow)
      /\ SavedTable(db.downloads, {}, dl_htab, DownloadRows) \in Table(Host, DownloadRow)
      /\ SavedTable(db.active_downloads, Ended(dl_ended), download, ActiveRows)
           \in Table(Host, ActiveRow)
  BY <1>2, RowsAre, SavedType, Zenon
<1>. QED
  BY <1>1, <1>3, Zenon DEF SavedDb, Database

(* restore_state, when the database can be restored                        *)
LEMMA RestoreHosts ==
  ASSUME TypeOK, Restorable, RestoreState
  PROVE  /\ hm_htab' \in Table(Host, HostNode) /\ DOMAIN hm_htab' = DOMAIN db.visits
         /\ \A h \in DOMAIN db.visits :
              /\ hm_htab'[h].count = db.hosts[h].count /\ hm_htab'[h].visits = db.hosts[h].visits
              /\ ~hm_htab'[h].dirty /\ hm_htab'[h].tstamp = db.totals.cur_tstamp
              /\ hm_htab'[h].dlref = IF h \in HostsOfDownloads THEN 1 ELSE 0
         /\ visit' \in Table(Host, Visit) /\ DOMAIN visit' = DOMAIN db.visits
         /\ \A h \in DOMAIN db.visits :
              /\ visit'[h].hits = db.visits[h].hits /\ visit'[h].lasturl = db.visits[h].lasturl
              /\ visit'[h].start = db.visits[h].start /\ visit'[h].end = db.visits[h].end
              /\ visit'[h].storage /\ ~visit'[h].dirty
<1>1. db \in Database
  BY DEF TypeOK
<1>2. /\ db.totals \in Totals
      /\ db.hosts \in [DOMAIN db.hosts -> HostRow] /\ DOMAIN db.hosts \subseteq Host
      /\ db.visits \in [DOMAIN db.visits -> VisitRow] /\ DOMAIN db.visits \subseteq Host
  <2>1. /\ db.totals \in Totals
        /\ db.hosts \in Table(Host, HostRow) /\ db.visits \in Table(Host, VisitRow)
    BY <1>1, DatabaseIs
  <2>. QED
    BY <2>1, TableIs
<1>3. \A h \in DOMAIN db.visits : h \in DOMAIN db.hosts
  BY DEF Restorable
<1>4. db.totals.cur_tstamp \in Stamp
  BY <1>2 DEF Totals
<1>5. hm_htab' = [h \in DOMAIN db.visits |->
                    [count |-> db.hosts[h].count, visits |-> db.hosts[h].visits,
                     tstamp |-> db.totals.cur_tstamp, dirty |-> FALSE,
                     dlref |-> IF h \in HostsOfDownloads THEN 1 ELSE 0]]
  BY DEF RestoreState
<1>6. visit' = [h \in DOMAIN db.visits |->
                  [hits |-> db.visits[h].hits, start |-> db.visits[h].start,
                   end |-> db.visits[h].end, lasturl |-> db.visits[h].lasturl,
                   storage |-> TRUE, dirty |-> FALSE]]
  BY DEF RestoreState
<1>7. hm_htab' \in [DOMAIN db.visits -> HostNode]
  BY <1>2, <1>3, <1>4, <1>5 DEF HostNode, HostRow
<1>8. visit' \in [DOMAIN db.visits -> Visit]
  BY <1>2, <1>6 DEF Visit, VisitRow
<1>9. hm_htab' \in Table(Host, HostNode) /\ visit' \in Table(Host, Visit)
  BY <1>2, <1>7, <1>8 DEF Table
<1>10. DOMAIN hm_htab' = DOMAIN db.visits /\ DOMAIN visit' = DOMAIN db.visits
  BY <1>5, <1>6
<1>11. \A h \in DOMAIN db.visits :
         /\ hm_htab'[h].count = db.hosts[h].count /\ hm_htab'[h].visits = db.hosts[h].visits
         /\ ~hm_htab'[h].dirty /\ hm_htab'[h].tstamp = db.totals.cur_tstamp
         /\ hm_htab'[h].dlref = IF h \in HostsOfDownloads THEN 1 ELSE 0
  BY <1>5
<1>12. \A h \in DOMAIN db.visits :
         /\ visit'[h].hits = db.visits[h].hits /\ visit'[h].lasturl = db.visits[h].lasturl
         /\ visit'[h].start = db.visits[h].start /\ visit'[h].end = db.visits[h].end
         /\ visit'[h].storage /\ ~visit'[h].dirty
  BY <1>6
<1>. QED
  BY <1>9, <1>10, <1>11, <1>12

RestoredUrls == {db.visits[h].lasturl : h \in DOMAIN db.visits} \ {NoUrl}
RestoredVisits(u) == {h \in DOMAIN db.visits : db.visits[h].lasturl = u}

(* restore_state: last URLs of active visits, each with its number of      *)
(* visits.                                                                 *)
LEMMA RestoreUrls ==
  ASSUME TypeOK, Restorable, RestoreState
  PROVE  /\ um_htab' \in Table(Url, UrlNode) /\ DOMAIN um_htab' = RestoredUrls
         /\ RestoredUrls \subseteq DOMAIN db.urls
         /\ \A u \in RestoredUrls :
              /\ um_htab'[u].exit = db.urls[u].exit /\ ~um_htab'[u].dirty
              /\ um_htab'[u].vstref = Cardinality(RestoredVisits(u))
<1>1. db \in Database
  BY DEF TypeOK
<1>2. /\ db.totals \in Totals
      /\ db.urls \in [DOMAIN db.urls -> UrlRow] /\ DOMAIN db.urls \subseteq Url
      /\ DOMAIN db.visits \subseteq Host
  <2>1. /\ db.totals \in Totals
        /\ db.urls \in Table(Url, UrlRow) /\ db.visits \in Table(Host, VisitRow)
    BY <1>1, DatabaseIs
  <2>. QED
    BY <2>1, TableIs
<1>3. RestoredUrls \subseteq DOMAIN db.urls
  BY DEF Restorable, RestoredUrls
<1>4. db.totals.cur_tstamp \in Stamp
  BY <1>2 DEF Totals
<1>. DEFINE refs(u) == Cardinality(RestoredVisits(u))
<1>5. \A u : refs(u) \in Nat
  <2>1. ASSUME NEW u  PROVE refs(u) \in Nat
    <3>1. RestoredVisits(u) \subseteq Host
      BY <1>2 DEF RestoredVisits
    <3>. QED
      BY <3>1, HostsFinite
  <2>. QED
    BY <2>1
<1>6. um_htab' = [u \in RestoredUrls |->
                    [exit |-> db.urls[u].exit, tstamp |-> db.totals.cur_tstamp, dirty |-> FALSE,
                     vstref |-> refs(u)]]
  BY DEF RestoreState, RestoredUrls, RestoredVisits
<1>. HIDE DEF refs
<1>7. um_htab' \in [RestoredUrls -> UrlNode]
  BY <1>2, <1>3, <1>4, <1>5, <1>6 DEF UrlNode, UrlRow
<1>8. um_htab' \in Table(Url, UrlNode)
  BY <1>2, <1>3, <1>7 DEF Table
<1>9. /\ DOMAIN um_htab' = RestoredUrls
      /\ \A u \in RestoredUrls : /\ um_htab'[u].exit = db.urls[u].exit /\ ~um_htab'[u].dirty
                                 /\ um_htab'[u].vstref = refs(u)
  BY <1>6
<1>. QED
  BY <1>3, <1>8, <1>9 DEF refs

(* restore_state: active downloads and their jobs.                         *)
LEMMA RestoreDownloads ==
  ASSUME TypeOK, Restorable, RestoreState
  PROVE  /\ dl_htab' \in Table(Host, DownloadNode)
         /\ DOMAIN dl_htab' = DOMAIN db.active_downloads
         /\ \A h \in DOMAIN db.active_downloads :
              /\ dl_htab'[h].count = db.downloads[h].count
              /\ dl_htab'[h].sumhits = db.downloads[h].sumhits /\ ~dl_htab'[h].dirty
              /\ dl_htab'[h].tstamp = db.totals.cur_tstamp
         /\ download' \in Table(Host, Download)
         /\ DOMAIN download' = DOMAIN db.active_downloads
         /\ \A h \in DOMAIN db.active_downloads :
              /\ download'[h].hits = db.active_downloads[h].hits
              /\ download'[h].tstamp = db.active_downloads[h].tstamp
              /\ download'[h].storage /\ ~download'[h].dirty
<1>1. db \in Database
  BY DEF TypeOK
<1>2. /\ db.totals \in Totals
      /\ db.downloads \in [DOMAIN db.downloads -> DownloadRow] /\ DOMAIN db.downloads \subseteq Host
      /\ db.active_downloads \in [DOMAIN db.active_downloads -> ActiveRow]
      /\ DOMAIN db.active_downloads \subseteq Host
  <2>1. /\ db.totals \in Totals
        /\ db.downloads \in Table(Host, DownloadRow)
        /\ db.active_downloads \in Table(Host, ActiveRow)
    BY <1>1, DatabaseIs
  <2>. QED
    BY <2>1, TableIs
<1>3. \A h \in DOMAIN db.active_downloads : h \in DOMAIN db.downloads
  BY DEF Restorable
<1>4. db.totals.cur_tstamp \in Stamp
  BY <1>2 DEF Totals
<1>5. dl_htab' = [h \in DOMAIN db.active_downloads |->
                    [count |-> db.downloads[h].count, sumhits |-> db.downloads[h].sumhits,
                     tstamp |-> db.totals.cur_tstamp, dirty |-> FALSE]]
  BY DEF RestoreState
<1>6. download' = [h \in DOMAIN db.active_downloads |->
                     [hits |-> db.active_downloads[h].hits,
                      tstamp |-> db.active_downloads[h].tstamp, storage |-> TRUE, dirty |-> FALSE]]
  BY DEF RestoreState
<1>7. dl_htab' \in [DOMAIN db.active_downloads -> DownloadNode]
  BY <1>2, <1>3, <1>4, <1>5 DEF DownloadNode, DownloadRow
<1>8. download' \in [DOMAIN db.active_downloads -> Download]
  BY <1>2, <1>6 DEF Download, ActiveRow
<1>9. dl_htab' \in Table(Host, DownloadNode) /\ download' \in Table(Host, Download)
  BY <1>2, <1>7, <1>8 DEF Table
<1>10. /\ DOMAIN dl_htab' = DOMAIN db.active_downloads
       /\ DOMAIN download' = DOMAIN db.active_downloads
  BY <1>5, <1>6
<1>11. \A h \in DOMAIN db.active_downloads :
         /\ dl_htab'[h].count = db.downloads[h].count
         /\ dl_htab'[h].sumhits = db.downloads[h].sumhits /\ ~dl_htab'[h].dirty
         /\ dl_htab'[h].tstamp = db.totals.cur_tstamp
  BY <1>5
<1>12. \A h \in DOMAIN db.active_downloads :
         /\ download'[h].hits = db.active_downloads[h].hits
         /\ download'[h].tstamp = db.active_downloads[h].tstamp
         /\ download'[h].storage /\ ~download'[h].dirty
  BY <1>6
<1>. QED
  BY <1>9, <1>10, <1>11, <1>12

-----------------------------------------------------------------------------
(* Type correctness                                                        *)

(* The constants have their types.                                         *)
LEMMA Zeros ==
  /\ ZeroTotals \in Totals /\ NewDb \in Database
  /\ [h \in Host |-> 0] \in [Host -> Nat]
<1>1. ZeroTotals \in Totals
  BY DEF ZeroTotals, Totals, Stamp
<1>2. NewDb \in Database
  BY <1>1, EmptyTable, Zenon DEF NewDb, Database
<1>. QED
  BY <1>1, <1>2

(* Cleared tables have their types.                                        *)
LEMMA ClearType ==
  ASSUME ClearTables
  PROVE  Tables'
BY EmptyTable, Zeros, Zenon DEF ClearTables, Tables

(* So has all that a run leaves.                                           *)
LEMMA LeaveType ==
  ASSUME LeaveRun, db' \in Database
  PROVE  TypeOK'
<1>1. Tables'
  BY ClearType DEF LeaveRun
<1>2. Control'
  BY DEF LeaveRun, Control, Busy
<1>3. totals' \in Totals
  BY Zeros DEF LeaveRun
<1>. QED
  BY <1>1, <1>2, <1>3 DEF TypeOK

(* The types hold at the start.                                            *)
LEMMA TypeInit == Init => TypeOK
<1>. SUFFICES ASSUME Init PROVE TypeOK
  OBVIOUS
<1>1. Control
  BY DEF Init, Control, Busy
<1>2. Tables
  BY EmptyTable, Zeros, Zenon DEF Init, Tables
<1>. QED
  BY <1>1, <1>2, Zeros DEF Init, TypeOK

(* Every step keeps the types.                                             *)
LEMMA TypeStep ==
  ASSUME TypeOK, [Next]_vars
  PROVE  TypeOK'
<1>. USE DEF Busy
<1>1. CASE Initialize
  <2>1. Tables'
    <3>1. v_ended' \in [Host -> Nat] /\ dl_ended' \in [Host -> Nat]
      BY <1>1, Zeros DEF Initialize
    <3>. QED
      BY <1>1, <3>1, RestoreHosts, RestoreUrls, RestoreDownloads DEF Initialize, Tables
  <2>2. Control'
    BY <1>1 DEF Initialize, Control, TypeOK
  <2>3. totals' \in Totals /\ db' \in Database
    BY <1>1, DatabaseIs DEF Initialize, TypeOK
  <2>. QED
    BY <2>1, <2>2, <2>3 DEF TypeOK
<1>2. CASE InitializeFails
  BY <1>2, LeaveType DEF InitializeFails, Throw, TypeOK
<1>3. CASE \E r \in Record : r.kind \in Kind /\ ReadRecord(r)
  <2>1. PICK r \in Record : ReadRecord(r)
    BY <1>3
  <2>2. Control'
    BY <2>1 DEF ReadRecord, Control, TypeOK
  <2>3. Tables' /\ totals' \in Totals /\ db' \in Database
    BY <2>1 DEF ReadRecord, Tables, TypeOK, memVars
  <2>. QED
    BY <2>2, <2>3 DEF TypeOK
<1>4. CASE PutHNode
  <2>1. CASE NewHostActive
    BY <1>4, <2>1, LeaveType DEF PutHNode, NewHostActive, Throw, TypeOK
  <2>2. CASE ~NewHostActive
    <3>1. /\ pc' = "url" /\ um_htab' = UrlsAfter(Ending) /\ v_ended' = VisitEndedAfter(Ending)
          /\ UNCHANGED <<why, rec, good, dl_htab, download, dl_ended, db, error>>
      BY <1>4, <2>2 DEF PutHNode, NewHostActive, Ending
    <3>2. um_htab' \in Table(Url, UrlNode) /\ v_ended' \in [Host -> Nat]
      BY <3>1, EndingIs, UrlsAfterIs, VisitEndedAfterIs
    <3>3. Tables'
      BY <1>4, <2>2, <3>1, <3>2, PutHNodeHost, PutHNodeVisit DEF TypeOK, Tables
    <3>4. Control'
      BY <1>4, <3>1 DEF PutHNode, Control, TypeOK
    <3>. QED
      BY <1>4, <2>2, <3>1, <3>3, <3>4, PutHNodeTotals DEF TypeOK
  <2>. QED
    BY <2>1, <2>2
<1>5. CASE PutUNode
  <2>1. rec.kind \in {"page", "download", "error"}
    BY <1>5, RecIs DEF PutUNode
  <2>2. Control'
    BY <1>5 DEF PutUNode, Control, TypeOK
  <2>3. /\ UNCHANGED <<hm_htab, dl_htab, download, v_ended, dl_ended, totals, db>>
        /\ rec.kind = "error" => UNCHANGED <<um_htab, visit>>
        /\ rec.kind = "download" => visit' = visit
    BY <1>5 DEF PutUNode
  <2>4. um_htab' \in Table(Url, UrlNode)
    BY <1>5, <2>1, <2>3, PutUNodeTable DEF TypeOK, Tables
  <2>5. visit' \in Table(Host, Visit)
    BY <1>5, <2>1, <2>3, PutUNodeVisit DEF TypeOK, Tables
  <2>. QED
    BY <2>2, <2>3, <2>4, <2>5 DEF TypeOK, Tables
<1>6. CASE PutDLNode
  <2>1. CASE NewDownloadActive
    BY <1>6, <2>1, LeaveType DEF PutDLNode, NewDownloadActive, Throw, TypeOK
  <2>2. CASE ~NewDownloadActive
    <3>1. /\ pc' = "swap" /\ dl_ended' = DownloadEndedAfter(EndingDownload)
          /\ totals' = [totals EXCEPT !.t_dlcount = @ + Cardinality(EndingDownload)]
          /\ UNCHANGED <<why, rec, good, visit, um_htab, v_ended, db, error>>
      BY <1>6, <2>2 DEF PutDLNode, NewDownloadActive, EndingDownload
    <3>2. EndingDownload \subseteq Host
      BY TableIs DEF EndingDownload, TypeOK, Tables
    <3>3. totals' \in Totals
      BY <3>1, <3>2, DownloadTotals
    <3>4. dl_ended' \in [Host -> Nat]
      BY <3>1, DownloadEndedAfterIs
    <3>5. Tables'
      BY <1>6, <2>2, <3>1, <3>4, PutDLNodeHost, PutDLNodeDownload DEF TypeOK, Tables
    <3>6. Control'
      BY <1>6, <3>1 DEF PutDLNode, Control, TypeOK
    <3>. QED
      BY <3>1, <3>3, <3>5, <3>6 DEF TypeOK
  <2>. QED
    BY <2>1, <2>2
<1>7. CASE \E S \in SUBSET DOMAIN dl_htab : SwapOutDownloads(S)
  <2>1. PICK S \in SUBSET DOMAIN dl_htab : SwapOutDownloads(S)
    BY <1>7
  <2>2. Control'
    BY <2>1 DEF SwapOutDownloads, Control, TypeOK
  <2>3. /\ dl_ended' = DownloadEndedAfter(S \cap DOMAIN download)
        /\ totals' = [totals EXCEPT !.t_dlcount = @ + Cardinality(S \cap DOMAIN download)]
        /\ UNCHANGED <<visit, um_htab, v_ended>>
    BY <2>1 DEF SwapOutDownloads
  <2>4. S \cap DOMAIN download \subseteq Host
    BY TableIs DEF TypeOK, Tables
  <2>5. totals' \in Totals /\ dl_ended' \in [Host -> Nat]
    BY <2>3, <2>4, DownloadTotals, DownloadEndedAfterIs
  <2>6. Tables'
    BY <2>1, <2>3, <2>5, SwapOutDownloadsIs DEF TypeOK, Tables
  <2>7. db' \in Database
    BY <2>1, SwapOutDownloadsDb
  <2>. QED
    BY <2>2, <2>5, <2>6, <2>7 DEF TypeOK
<1>8. CASE \E S \in SUBSET DOMAIN hm_htab : SwapOutHosts(S)
  <2>1. PICK S \in SUBSET DOMAIN hm_htab : SwapOutHosts(S)
    BY <1>8
  <2>2. Control'
    BY <2>1 DEF SwapOutHosts, Control, TypeOK
  <2>3. /\ um_htab' = UrlsAfter(S \cap DOMAIN visit)
        /\ v_ended' = VisitEndedAfter(S \cap DOMAIN visit)
        /\ totals' = TotalsAfter(S \cap DOMAIN visit)
        /\ UNCHANGED <<dl_htab, download, dl_ended>>
    BY <2>1 DEF SwapOutHosts
  <2>4. S \cap DOMAIN visit \subseteq DOMAIN visit
    OBVIOUS
  <2>5. totals' \in Totals /\ v_ended' \in [Host -> Nat] /\ um_htab' \in Table(Url, UrlNode)
    BY <2>3, <2>4, TotalsAfterIs, VisitEndedAfterIs, UrlsAfterIs
  <2>6. Tables'
    BY <2>1, <2>3, <2>5, SwapOutHostsIs DEF TypeOK, Tables
  <2>7. db' \in Database
    BY <2>1, SwapOutHostsDb
  <2>. QED
    BY <2>2, <2>5, <2>6, <2>7 DEF TypeOK
<1>9. CASE \E S \in SUBSET DOMAIN um_htab : SwapOutUrls(S)
  <2>1. PICK S \in SUBSET DOMAIN um_htab : SwapOutUrls(S)
    BY <1>9
  <2>2. Control'
    BY <2>1 DEF SwapOutUrls, Control, TypeOK
  <2>3. UNCHANGED <<hm_htab, visit, dl_htab, download, v_ended, dl_ended, totals>>
    BY <2>1 DEF SwapOutUrls
  <2>4. um_htab' \in Table(Url, UrlNode) /\ db' \in Database
    BY <2>1, SwapOutUrlsIs
  <2>. QED
    BY <2>2, <2>3, <2>4 DEF TypeOK, Tables
<1>10. CASE EndOfLogs
  <2>1. Control'
    BY <1>10 DEF EndOfLogs, Control, TypeOK
  <2>. QED
    BY <1>10, <2>1 DEF EndOfLogs, TypeOK, Tables, memVars
<1>11. CASE UpdateVisits
  <2>1. Control'
    BY <1>11 DEF UpdateVisits, Control, TypeOK
  <2>2. /\ hm_htab' = HostsAfter(VisitsOver) /\ um_htab' = UrlsAfter(VisitsOver)
        /\ v_ended' = VisitEndedAfter(VisitsOver) /\ totals' = TotalsAfter(VisitsOver)
        /\ UNCHANGED <<dl_htab, download, dl_ended, db>>
    BY <1>11 DEF UpdateVisits
  <2>3. VisitsOver \subseteq DOMAIN visit
    BY DEF VisitsOver
  <2>4. /\ hm_htab' \in Table(Host, HostNode) /\ um_htab' \in Table(Url, UrlNode)
        /\ v_ended' \in [Host -> Nat] /\ totals' \in Totals
    BY <2>2, <2>3, HostsAfterIs, UrlsAfterIs, VisitEndedAfterIs, TotalsAfterIs
  <2>. QED
    BY <1>11, <2>1, <2>2, <2>4, UpdateVisitsIs DEF TypeOK, Tables
<1>12. CASE UpdateDownloads
  <2>1. Control'
    BY <1>12 DEF UpdateDownloads, Control, TypeOK
  <2>2. /\ dl_htab' = DownloadsAfter(DownloadsOver)
        /\ dl_ended' = DownloadEndedAfter(DownloadsOver)
        /\ totals' = [totals EXCEPT !.t_dlcount = @ + Cardinality(DownloadsOver)]
        /\ UNCHANGED <<hm_htab, visit, um_htab, v_ended, db>>
    BY <1>12 DEF UpdateDownloads
  <2>3. DownloadsOver \subseteq DOMAIN download /\ DownloadsOver \subseteq Host
    BY TableIs DEF DownloadsOver, TypeOK, Tables
  <2>4. dl_htab' \in Table(Host, DownloadNode) /\ dl_ended' \in [Host -> Nat] /\ totals' \in Totals
    BY <2>2, <2>3, DownloadsAfterIs, DownloadEndedAfterIs, DownloadTotals
  <2>. QED
    BY <1>12, <2>1, <2>2, <2>4, UpdateDownloadsIs DEF TypeOK, Tables
<1>13. CASE SaveState
  <2>1. CASE db' = SavedDb /\ LeaveRun
    BY <2>1, SavedDbIs, LeaveType
  <2>2. CASE db' = SavedDb /\ pc' = "clear" /\ ClearTables /\ UNCHANGED <<why, rec, good, totals>>
    <3>1. Control'
      BY <1>13, <2>2 DEF SaveState, Control, TypeOK
    <3>. QED
      BY <2>2, <3>1, SavedDbIs, ClearType DEF TypeOK
  <2>3. CASE Throw("delete ended visit or download")
    BY <2>3, LeaveType DEF Throw, TypeOK
  <2>. QED
    BY <1>13, <2>1, <2>2, <2>3 DEF SaveState
<1>14. CASE ClearMonth
  <2>1. db' \in Database
    BY <1>14, Zeros DEF ClearMonth
  <2>2. CASE why = "month"
    <3>1. Control'
      BY <1>14, <2>2 DEF ClearMonth, Control, TypeOK
    <3>. QED
      BY <1>14, <2>1, <2>2, <3>1, ClearType, Zeros DEF ClearMonth, TypeOK
  <2>3. CASE why # "month"
    BY <1>14, <2>1, <2>3, LeaveType DEF ClearMonth
  <2>. QED
    BY <2>2, <2>3
<1>15. CASE Interrupted
  BY <1>15, LeaveType DEF Interrupted, TypeOK
<1>16. CASE Leave
  BY <1>16, LeaveType DEF Leave, TypeOK
<1>17. CASE UNCHANGED vars
  BY <1>17 DEF vars, memVars, TypeOK, Control, Tables
<1>. QED
  BY <1>1, <1>2, <1>3, <1>4, <1>5, <1>6, <1>7, <1>8, <1>9, <1>10, <1>11, <1>12, <1>13, <1>14,
     <1>15, <1>16, <1>17 DEF Next

(* The types, for any hosts, URLs, timeouts and logs                       *)
THEOREM TypeCorrect == Spec => []TypeOK
BY TypeInit, TypeStep, PTL DEF Spec

-----------------------------------------------------------------------------
(* No pointer dangles                                                      *)

(* The active visits that have u as their last URL                         *)
LastVisits(u) == {h \in DOMAIN visit : visit[h].lasturl = u}

UrlsReferenced ==
  /\ \A h \in DOMAIN visit : visit[h].lasturl \in DOMAIN um_htab \cup {NoUrl}
  /\ \A u \in DOMAIN um_htab : um_htab[u].vstref = Cardinality(LastVisits(u))

HostsReferenced ==
  /\ DOMAIN visit \subseteq DOMAIN hm_htab
  /\ DOMAIN download \subseteq DOMAIN dl_htab
  /\ DOMAIN dl_htab \subseteq DOMAIN hm_htab
  /\ \A h \in DOMAIN hm_htab : hm_htab[h].dlref = IF h \in DOMAIN dl_htab THEN 1 ELSE 0

(* The host of the record in hand has a visit, which has this record.      *)
HasVisit ==
  pc \in {"url", "download"} =>
    /\ rec.host \in DOMAIN visit
    /\ visit[rec.host].dirty /\ visit[rec.host].end = rec.tstamp

References == HostsReferenced /\ UrlsReferenced /\ HasVisit

(* ReferencesCounted, for hosts and for URLs.                              *)
LEMMA ReferencesAre == ReferencesCounted <=> (HostsReferenced /\ UrlsReferenced)
BY DEF ReferencesCounted, HostsReferenced, UrlsReferenced, LastUrlOf, LastVisits

(* The visits whose last URL is u can be counted.                          *)
LEMMA LastVisitsFinite ==
  ASSUME TypeOK, NEW u
  PROVE  IsFiniteSet(LastVisits(u)) /\ Cardinality(LastVisits(u)) \in Nat
<1>1. LastVisits(u) \subseteq Host
  BY TableIs DEF LastVisits, TypeOK, Tables
<1>. QED
  BY <1>1, HostsFinite

(* When the visits of S end, each URL gives up the references of theirs.   *)
LEMMA UrlsReferencedAfter ==
  ASSUME TypeOK, UrlsReferenced, NEW S, S \subseteq DOMAIN visit,
         um_htab' = UrlsAfter(S),
         \A h \in DOMAIN visit' : \/ visit'[h].lasturl = NoUrl
                                  \/ /\ h \in DOMAIN visit \ S
                                     /\ visit'[h].lasturl = visit[h].lasturl,
         DOMAIN visit \ S \subseteq DOMAIN visit',
         \A h \in DOMAIN visit \ S : visit'[h].lasturl = visit[h].lasturl
  PROVE  UrlsReferenced'
<1>1. DOMAIN um_htab' = DOMAIN um_htab
  BY UrlsAfterIs
<1>2. \A h \in DOMAIN visit' : visit'[h].lasturl \in DOMAIN um_htab' \cup {NoUrl}
  BY <1>1 DEF UrlsReferenced
<1>3. ASSUME NEW u \in DOMAIN um_htab  PROVE  um_htab'[u].vstref = Cardinality(LastVisits(u)')
  <2>1. um_htab'[u].vstref = um_htab[u].vstref - Cardinality(LastUrlOf(S, u))
    BY UrlsAfterIs
  <2>2. u # NoUrl
    BY UrlsAfterIs, StateAssumption
  <2>3. LastVisits(u)' = LastVisits(u) \ LastUrlOf(S, u)
    BY <2>2 DEF LastVisits, LastUrlOf
  <2>4. LastVisits(u) \cap LastUrlOf(S, u) = LastUrlOf(S, u)
    BY DEF LastVisits, LastUrlOf
  <2>5. IsFiniteSet(LastVisits(u)) /\ Cardinality(LastVisits(u)) \in Nat
    BY LastVisitsFinite
  <2>6. S \subseteq Host
    BY TableIs DEF TypeOK, Tables
  <2>7. Cardinality(LastUrlOf(S, u)) \in Nat
    BY <2>6, LastUrls
  <2>8. Cardinality(LastVisits(u) \ LastUrlOf(S, u)) =
          Cardinality(LastVisits(u)) - Cardinality(LastVisits(u) \cap LastUrlOf(S, u))
    BY <2>5, FS_Difference
  <2>9. um_htab[u].vstref = Cardinality(LastVisits(u))
    BY DEF UrlsReferenced
  <2>. QED
    BY <2>1, <2>3, <2>4, <2>8, <2>9
<1>. QED
  BY <1>1, <1>2, <1>3 DEF UrlsReferenced

(* set_lasturl moves one reference.                                        *)
LEMMA UrlsReferencedPage ==
  ASSUME TypeOK, UrlsReferenced, PutUNode, rec.kind = "page", rec.host \in DOMAIN visit
  PROVE  UrlsReferenced'
<1>. DEFINE h == rec.host
            new == rec.url
            old == visit[h].lasturl
<1>1. /\ DOMAIN um_htab' = DOMAIN um_htab \cup {new}
      /\ \A x \in DOMAIN um_htab' :
           um_htab'[x].vstref = (IF x \in DOMAIN um_htab THEN um_htab[x].vstref ELSE 0)
                                + (IF x = new THEN 1 ELSE 0) - (IF x = old THEN 1 ELSE 0)
  BY PutUNodeTable
<1>2. /\ DOMAIN visit' = DOMAIN visit
      /\ \A x \in DOMAIN visit : visit'[x].lasturl = IF x = h THEN new ELSE visit[x].lasturl
  BY PutUNodeVisit
<1>3. \A x \in DOMAIN visit' : visit'[x].lasturl \in DOMAIN um_htab' \cup {NoUrl}
  BY <1>1, <1>2 DEF UrlsReferenced
<1>4. ASSUME NEW u \in DOMAIN um_htab'  PROVE  um_htab'[u].vstref = Cardinality(LastVisits(u)')
  <2>1. IsFiniteSet(LastVisits(u)) /\ Cardinality(LastVisits(u)) \in Nat
    BY LastVisitsFinite
  <2>2. (IF u \in DOMAIN um_htab THEN um_htab[u].vstref ELSE 0) = Cardinality(LastVisits(u))
    <3>1. CASE u \in DOMAIN um_htab
      BY <3>1 DEF UrlsReferenced
    <3>2. CASE u \notin DOMAIN um_htab
      <4>1. u = new /\ u \in Url
        BY <1>1, <3>2, RecIs DEF PutUNode, Busy
      <4>2. LastVisits(u) = {}
        BY <3>2, <4>1, StateAssumption DEF LastVisits, UrlsReferenced
      <4>. QED
        BY <3>2, <4>2, FS_EmptySet
    <3>. QED
      BY <3>1, <3>2
  <2>3. um_htab'[u].vstref =
          Cardinality(LastVisits(u)) + (IF u = new THEN 1 ELSE 0) - (IF u = old THEN 1 ELSE 0)
    BY <1>1, <2>2
  <2>4. CASE u = new /\ u = old
    <3>1. LastVisits(u)' = LastVisits(u)
      BY <1>2, <2>4 DEF LastVisits
    <3>. QED
      BY <2>1, <2>3, <2>4, <3>1
  <2>5. CASE u = new /\ u # old
    <3>1. LastVisits(u)' = LastVisits(u) \cup {h} /\ h \notin LastVisits(u)
      BY <1>2, <2>5 DEF LastVisits
    <3>2. Cardinality(LastVisits(u) \cup {h}) = Cardinality(LastVisits(u)) + 1
      BY <2>1, <3>1, FS_AddElement
    <3>. QED
      BY <2>1, <2>3, <2>5, <3>1, <3>2
  <2>6. CASE u # new /\ u = old
    <3>1. LastVisits(u)' = LastVisits(u) \ {h} /\ h \in LastVisits(u)
      BY <1>2, <2>6 DEF LastVisits
    <3>2. Cardinality(LastVisits(u) \ {h}) = Cardinality(LastVisits(u)) - 1
      BY <2>1, <3>1, FS_RemoveElement
    <3>. QED
      BY <2>1, <2>3, <2>6, <3>1, <3>2
  <2>7. CASE u # new /\ u # old
    <3>1. LastVisits(u)' = LastVisits(u)
      BY <1>2, <2>7 DEF LastVisits
    <3>. QED
      BY <2>1, <2>3, <2>7, <3>1
  <2>. QED
    BY <2>4, <2>5, <2>6, <2>7
<1>. QED
  BY <1>3, <1>4 DEF UrlsReferenced

(* Empty tables refer to nothing.                                          *)
LEMMA ReferencesCleared ==
  ASSUME ClearTables
  PROVE  HostsReferenced' /\ UrlsReferenced'
<1>1. DOMAIN Empty = {}
  BY DEF Empty
<1>. QED
  BY <1>1 DEF ClearTables, HostsReferenced, UrlsReferenced

(* Every step keeps references and their counts.                           *)
LEMMA ReferencesStep ==
  ASSUME TypeOK, References, [Next]_vars
  PROVE  References'
<1>. USE DEF References
<1>1. CASE Initialize
  <2>1. /\ Restorable /\ RestoreState /\ HostsOfDownloads \subseteq DOMAIN db.visits
        /\ pc' \notin {"url", "download"}
    BY <1>1 DEF Initialize
  <2>2. HostsReferenced'
    BY <2>1, RestoreHosts, RestoreDownloads DEF HostsReferenced, HostsOfDownloads
  <2>3. \A h \in DOMAIN visit' : visit'[h].lasturl \in DOMAIN um_htab' \cup {NoUrl}
    BY <2>1, RestoreHosts, RestoreUrls DEF RestoredUrls
  <2>4. ASSUME NEW u \in DOMAIN um_htab'  PROVE  um_htab'[u].vstref = Cardinality(LastVisits(u)')
    <3>1. LastVisits(u)' = RestoredVisits(u)
      BY <2>1, RestoreHosts DEF LastVisits, RestoredVisits
    <3>. QED
      BY <2>1, <3>1, RestoreUrls
  <2>5. HasVisit'
    BY <2>1 DEF HasVisit
  <2>. QED
    BY <2>2, <2>3, <2>4, <2>5 DEF UrlsReferenced
<1>2. CASE pc' \in {"off", "clear"} /\ ClearTables
  BY <1>2, ReferencesCleared DEF HasVisit
<1>3. CASE \E r \in Record : r.kind \in Kind /\ ReadRecord(r)
  BY <1>3 DEF ReadRecord, memVars, HostsReferenced, UrlsReferenced, LastVisits, HasVisit
<1>4. CASE PutHNode
  <2>1. CASE NewHostActive
    BY <1>2, <1>4, <2>1 DEF PutHNode, NewHostActive, Throw, LeaveRun
  <2>2. CASE ~NewHostActive
    <3>. DEFINE h == rec.host
    <3>1. /\ pc' = "url" /\ um_htab' = UrlsAfter(Ending)
          /\ UNCHANGED <<rec, dl_htab, download>>
      BY <1>4, <2>2 DEF PutHNode, NewHostActive, Ending
    <3>2. /\ DOMAIN hm_htab' = DOMAIN hm_htab \cup {h}
          /\ \A x \in DOMAIN hm_htab \ {h} : hm_htab'[x] = hm_htab[x]
          /\ hm_htab'[h].dlref = IF h \in DOMAIN hm_htab THEN hm_htab[h].dlref ELSE 0
      BY <1>4, <2>2, PutHNodeHost
    <3>3. /\ DOMAIN visit' = DOMAIN visit \cup {h}
          /\ \A x \in DOMAIN visit \ {h} : visit'[x] = visit[x]
          /\ visit'[h].dirty /\ visit'[h].end = rec.tstamp
          /\ Starts => visit'[h].lasturl = NoUrl
          /\ ~Starts => visit'[h].lasturl = visit[h].lasturl
      BY <1>4, <2>2, PutHNodeVisit
    <3>4. HostsReferenced'
      BY <3>1, <3>2, <3>3 DEF HostsReferenced
    <3>5. HasVisit'
      BY <3>1, <3>3 DEF HasVisit
    <3>6. /\ Ending \subseteq DOMAIN visit /\ Ending \subseteq {h}
          /\ Starts <=> (h \in DOMAIN visit => h \in Ending)
      BY EndingIs
    <3>7. \A x \in DOMAIN visit \ Ending :
            x \in DOMAIN visit' /\ visit'[x].lasturl = visit[x].lasturl
      BY <3>3, <3>6
    <3>8. \A x \in DOMAIN visit' : \/ visit'[x].lasturl = NoUrl
                                   \/ /\ x \in DOMAIN visit \ Ending
                                      /\ visit'[x].lasturl = visit[x].lasturl
      BY <3>3, <3>6
    <3>9. UrlsReferenced'
      BY <3>1, <3>6, <3>7, <3>8, UrlsReferencedAfter
    <3>. QED
      BY <3>4, <3>5, <3>9
  <2>. QED
    BY <2>1, <2>2
<1>5. CASE PutUNode
  <2>1. rec.kind \in {"page", "download", "error"}
    BY <1>5, RecIs DEF PutUNode, Busy
  <2>2. /\ UNCHANGED <<rec, hm_htab, dl_htab, download>>
        /\ rec.kind = "error" => UNCHANGED <<um_htab, visit>>
        /\ rec.kind = "download" => visit' = visit
        /\ rec.host \in DOMAIN visit /\ visit[rec.host].dirty /\ visit[rec.host].end = rec.tstamp
    BY <1>5 DEF PutUNode, HasVisit
  <2>3. /\ DOMAIN visit' = DOMAIN visit
        /\ visit'[rec.host].dirty /\ visit'[rec.host].end = rec.tstamp
    BY <1>5, <2>1, <2>2, PutUNodeVisit
  <2>4. HostsReferenced' /\ HasVisit'
    BY <2>2, <2>3 DEF HostsReferenced, HasVisit
  <2>5. CASE rec.kind = "page"
    BY <1>5, <2>2, <2>4, <2>5, UrlsReferencedPage
  <2>6. CASE rec.kind = "error"
    BY <2>2, <2>4, <2>6 DEF UrlsReferenced, LastVisits
  <2>7. CASE rec.kind = "download"
    <3>1. visit' = visit
      BY <2>2, <2>7
    <3>2. /\ DOMAIN um_htab' = DOMAIN um_htab \cup {rec.url}
          /\ \A x \in DOMAIN um_htab' :
               um_htab'[x].vstref = IF x \in DOMAIN um_htab THEN um_htab[x].vstref ELSE 0
      BY <1>5, <2>7, PutUNodeTable
    <3>3. ASSUME NEW u \in DOMAIN um_htab'  PROVE  um_htab'[u].vstref = Cardinality(LastVisits(u)')
      <4>1. LastVisits(u)' = LastVisits(u)
        BY <3>1 DEF LastVisits
      <4>2. CASE u \in DOMAIN um_htab
        BY <3>2, <4>1, <4>2 DEF UrlsReferenced
      <4>3. CASE u \notin DOMAIN um_htab
        <5>1. u \in Url /\ u # NoUrl
          BY <1>5, <3>2, <4>3, RecIs, StateAssumption DEF PutUNode, Busy
        <5>2. LastVisits(u) = {}
          BY <4>3, <5>1 DEF LastVisits, UrlsReferenced
        <5>. QED
          BY <3>2, <4>1, <4>3, <5>2, FS_EmptySet
      <4>. QED
        BY <4>2, <4>3
    <3>. QED
      BY <2>4, <3>1, <3>2, <3>3 DEF UrlsReferenced
  <2>. QED
    BY <2>1, <2>5, <2>6, <2>7
<1>6. CASE PutDLNode
  <2>1. CASE NewDownloadActive
    BY <1>2, <1>6, <2>1 DEF PutDLNode, NewDownloadActive, Throw, LeaveRun
  <2>2. CASE ~NewDownloadActive
    <3>1. /\ pc' = "swap" /\ UNCHANGED <<visit, um_htab>>
          /\ rec.host \in DOMAIN visit
      BY <1>6, <2>2 DEF PutDLNode, NewDownloadActive, HasVisit
    <3>2. /\ DOMAIN hm_htab' = DOMAIN hm_htab
          /\ \A x \in DOMAIN hm_htab : hm_htab'[x].dlref =
               hm_htab[x].dlref + (IF x = rec.host /\ x \notin DOMAIN dl_htab THEN 1 ELSE 0)
      BY <1>6, <2>2, PutDLNodeHost
    <3>3. /\ DOMAIN dl_htab' = DOMAIN dl_htab \cup {rec.host}
          /\ DOMAIN download' = DOMAIN download \cup {rec.host}
      BY <1>6, <2>2, PutDLNodeDownload
    <3>4. HostsReferenced'
      BY <3>1, <3>2, <3>3 DEF HostsReferenced
    <3>. QED
      BY <3>1, <3>4 DEF UrlsReferenced, LastVisits, HasVisit
  <2>. QED
    BY <2>1, <2>2
<1>7. CASE \E S \in SUBSET DOMAIN dl_htab : SwapOutDownloads(S)
  <2>1. PICK S \in SUBSET DOMAIN dl_htab : SwapOutDownloads(S)
    BY <1>7
  <2>2. pc' = "swap_hosts" /\ UNCHANGED <<visit, um_htab>>
    BY <2>1 DEF SwapOutDownloads
  <2>3. /\ DOMAIN hm_htab' = DOMAIN hm_htab
        /\ \A x \in DOMAIN hm_htab :
             hm_htab'[x].dlref = hm_htab[x].dlref - (IF x \in S THEN 1 ELSE 0)
        /\ DOMAIN dl_htab' = DOMAIN dl_htab \ S /\ DOMAIN download' = DOMAIN download \ S
    BY <2>1, SwapOutDownloadsIs
  <2>4. HostsReferenced'
    BY <2>2, <2>3 DEF HostsReferenced
  <2>. QED
    BY <2>2, <2>4 DEF UrlsReferenced, LastVisits, HasVisit
<1>8. CASE \E S \in SUBSET DOMAIN hm_htab : SwapOutHosts(S)
  <2>1. PICK S \in SUBSET DOMAIN hm_htab : SwapOutHosts(S)
    BY <1>8
  <2>2. /\ pc' = "swap_urls" /\ um_htab' = UrlsAfter(S \cap DOMAIN visit)
        /\ UNCHANGED <<dl_htab, download>>
    BY <2>1 DEF SwapOutHosts
  <2>3. /\ DOMAIN hm_htab' = DOMAIN hm_htab \ S
        /\ \A x \in DOMAIN hm_htab \ S : hm_htab'[x] = hm_htab[x]
        /\ DOMAIN visit' = DOMAIN visit \ S
        /\ \A x \in DOMAIN visit \ S : visit'[x] = visit[x]
        /\ \A x \in S : x \in DOMAIN hm_htab /\ hm_htab[x].dlref <= 0
    BY <2>1, SwapOutHostsIs
  <2>4. \A x \in S : x \notin DOMAIN dl_htab
    BY <2>3 DEF HostsReferenced
  <2>5. HostsReferenced'
    BY <2>2, <2>3, <2>4 DEF HostsReferenced
  <2>6. UrlsReferenced'
    <3>. DEFINE ended == S \cap DOMAIN visit
    <3>1. /\ DOMAIN visit' = DOMAIN visit \ ended
          /\ \A x \in DOMAIN visit \ ended : visit'[x].lasturl = visit[x].lasturl
          /\ ended \subseteq DOMAIN visit /\ um_htab' = UrlsAfter(ended)
      BY <2>2, <2>3
    <3>. HIDE DEF ended
    <3>. QED
      BY <3>1, UrlsReferencedAfter
  <2>. QED
    BY <2>2, <2>5, <2>6 DEF HasVisit
<1>9. CASE \E S \in SUBSET DOMAIN um_htab : SwapOutUrls(S)
  <2>1. PICK S \in SUBSET DOMAIN um_htab : SwapOutUrls(S)
    BY <1>9
  <2>2. pc' = "read" /\ UNCHANGED <<hm_htab, visit, dl_htab, download>>
    BY <2>1 DEF SwapOutUrls
  <2>3. /\ DOMAIN um_htab' = DOMAIN um_htab \ S
        /\ \A x \in DOMAIN um_htab \ S : um_htab'[x] = um_htab[x]
        /\ \A x \in S : um_htab[x].vstref = 0
    BY <2>1, SwapOutUrlsIs
  <2>4. \A u \in DOMAIN um_htab' : LastVisits(u)' = LastVisits(u)
    BY <2>2 DEF LastVisits
  <2>5. ASSUME NEW h \in DOMAIN visit  PROVE  visit[h].lasturl \notin S
    <3>. SUFFICES ASSUME visit[h].lasturl \in S PROVE FALSE
      OBVIOUS
    <3>. DEFINE u == visit[h].lasturl
    <3>1. Cardinality(LastVisits(u)) = 0 /\ h \in LastVisits(u)
      BY <2>3 DEF UrlsReferenced, LastVisits
    <3>2. IsFiniteSet(LastVisits(u))
      BY LastVisitsFinite
    <3>. QED
      BY <3>1, <3>2, FS_EmptySet
  <2>6. UrlsReferenced'
    BY <2>2, <2>3, <2>4, <2>5 DEF UrlsReferenced
  <2>. QED
    BY <2>2, <2>6 DEF HostsReferenced, HasVisit
<1>10. CASE EndOfLogs
  BY <1>10 DEF EndOfLogs, memVars, HostsReferenced, UrlsReferenced, LastVisits, HasVisit
<1>11. CASE UpdateVisits
  <2>1. /\ pc' = "downloads" /\ hm_htab' = HostsAfter(VisitsOver) /\ um_htab' = UrlsAfter(VisitsOver)
        /\ UNCHANGED <<dl_htab, download>>
    BY <1>11 DEF UpdateVisits
  <2>2. /\ VisitsOver \subseteq DOMAIN visit
        /\ DOMAIN visit' = DOMAIN visit \ VisitsOver
        /\ \A x \in DOMAIN visit \ VisitsOver : visit'[x] = visit[x]
    BY <1>11, UpdateVisitsIs
  <2>3. /\ DOMAIN hm_htab' = DOMAIN hm_htab
        /\ \A h \in DOMAIN hm_htab : hm_htab'[h].dlref = hm_htab[h].dlref
    BY <2>1, <2>2, HostsAfterIs
  <2>4. HostsReferenced'
    BY <2>1, <2>2, <2>3 DEF HostsReferenced
  <2>5. UrlsReferenced'
    BY <2>1, <2>2, UrlsReferencedAfter
  <2>. QED
    BY <2>1, <2>4, <2>5 DEF HasVisit
<1>12. CASE UpdateDownloads
  <2>1. /\ pc' = "save" /\ dl_htab' = DownloadsAfter(DownloadsOver)
        /\ UNCHANGED <<hm_htab, visit, um_htab>>
    BY <1>12 DEF UpdateDownloads
  <2>2. /\ DownloadsOver \subseteq DOMAIN download
        /\ DOMAIN download' = DOMAIN download \ DownloadsOver
    BY <1>12, UpdateDownloadsIs
  <2>3. DOMAIN dl_htab' = DOMAIN dl_htab
    BY <2>1, <2>2, DownloadsAfterIs
  <2>4. HostsReferenced'
    BY <2>1, <2>2, <2>3 DEF HostsReferenced
  <2>. QED
    BY <2>1, <2>4 DEF UrlsReferenced, LastVisits, HasVisit
<1>13. CASE SaveState
  BY <1>2, <1>13 DEF SaveState, LeaveRun, Throw
<1>14. CASE ClearMonth
  <2>1. ClearTables /\ pc' \in {"off", "host"}
    BY <1>14 DEF ClearMonth, LeaveRun
  <2>. QED
    BY <2>1, ReferencesCleared DEF HasVisit
<1>15. CASE InitializeFails \/ Interrupted \/ Leave
  BY <1>2, <1>15 DEF InitializeFails, Interrupted, Leave, Throw, LeaveRun
<1>16. CASE UNCHANGED vars
  BY <1>16 DEF vars, memVars, HostsReferenced, UrlsReferenced, LastVisits, HasVisit
<1>. QED
  BY <1>1, <1>3, <1>4, <1>5, <1>6, <1>7, <1>8, <1>9, <1>10, <1>11, <1>12, <1>13, <1>14,
     <1>15, <1>16 DEF Next

(* They hold at the start.                                                 *)
LEMMA ReferencesInit == Init => References
<1>1. DOMAIN Empty = {}
  BY DEF Empty
<1>. QED
  BY <1>1 DEF Init, References, HostsReferenced, UrlsReferenced, HasVisit

(* No pointer of a host, visit, URL or download node dangles and the       *)
(* reference counts that keep hosts and URLs in memory are exact, however  *)
(* nodes are loaded, swapped out, saved and restored.                      *)
THEOREM PointersValid == Spec => []ReferencesCounted
<1>1. Init => TypeOK /\ References
  BY TypeInit, ReferencesInit
<1>2. TypeOK /\ References /\ [Next]_vars => TypeOK' /\ References'
  BY TypeStep, ReferencesStep
<1>3. References => ReferencesCounted
  BY ReferencesAre DEF References
<1>. QED
  BY <1>1, <1>2, <1>3, PTL DEF Spec

-----------------------------------------------------------------------------
(* Nodes and their rows                                                    *)

(* What CleanIsStored says, field by field                                 *)
HostsStored ==
  \A h \in DOMAIN hm_htab : ~hm_htab[h].dirty =>
    /\ h \in DOMAIN db.hosts
    /\ db.hosts[h].count = hm_htab[h].count /\ db.hosts[h].visits = hm_htab[h].visits
    /\ db.hosts[h].active <=> h \in DOMAIN visit

VisitsStored ==
  \A h \in DOMAIN visit : ~visit[h].dirty =>
    /\ h \in DOMAIN db.visits
    /\ db.visits[h].hits = visit[h].hits /\ db.visits[h].start = visit[h].start
    /\ db.visits[h].end = visit[h].end /\ db.visits[h].lasturl = visit[h].lasturl

UrlsStored ==
  \A u \in DOMAIN um_htab : ~um_htab[u].dirty =>
    u \in DOMAIN db.urls /\ db.urls[u].exit = um_htab[u].exit

DownloadsStored ==
  \A h \in DOMAIN dl_htab : ~dl_htab[h].dirty =>
    /\ h \in DOMAIN db.downloads
    /\ db.downloads[h].count = dl_htab[h].count /\ db.downloads[h].sumhits = dl_htab[h].sumhits
    /\ db.downloads[h].active <=> h \in DOMAIN download

ActiveStored ==
  \A h \in DOMAIN download : ~download[h].dirty =>
    /\ h \in DOMAIN db.active_downloads
    /\ db.active_downloads[h].hits = download[h].hits
    /\ db.active_downloads[h].tstamp = download[h].tstamp

(* A node that the database has not is to be stored.                       *)
NewIsDirty ==
  /\ \A h \in DOMAIN visit : ~visit[h].storage => visit[h].dirty
  /\ \A h \in DOMAIN download : ~download[h].storage => download[h].dirty

Stored == HostsStored /\ VisitsStored /\ UrlsStored /\ DownloadsStored /\ ActiveStored /\ NewIsDirty

(* Two rows are the same when their fields are.                            *)
LEMMA HostRowEqual ==
  ASSUME NEW r \in HostRow, NEW a, NEW b, NEW c \in BOOLEAN
  PROVE  r = [count |-> a, visits |-> b, active |-> c] <=> (r.count = a /\ r.visits = b /\ (r.active <=> c))
<1>1. r = [count |-> r.count, visits |-> r.visits, active |-> r.active] /\ r.active \in BOOLEAN
  BY DEF HostRow
<1>. QED
  BY <1>1

(* A row of a visit is known by its fields.                                *)
LEMMA VisitRowEqual ==
  ASSUME NEW r \in VisitRow, NEW a, NEW b, NEW c, NEW d
  PROVE  r = [hits |-> a, start |-> b, end |-> c, lasturl |-> d] <=> (r.hits = a /\ r.start = b /\ r.end = c /\ r.lasturl = d)
<1>1. r = [hits |-> r.hits, start |-> r.start, end |-> r.end, lasturl |-> r.lasturl]
  BY DEF VisitRow
<1>. QED
  BY <1>1

(* So is the row of a URL.                                                 *)
LEMMA UrlRowEqual ==
  ASSUME NEW r \in UrlRow, NEW a
  PROVE  r = [exit |-> a] <=> (r.exit = a)
<1>1. r = [exit |-> r.exit]
  BY DEF UrlRow
<1>. QED
  BY <1>1

(* So is the row of a download job.                                        *)
LEMMA DownloadRowEqual ==
  ASSUME NEW r \in DownloadRow, NEW a, NEW b, NEW c \in BOOLEAN
  PROVE  r = [count |-> a, sumhits |-> b, active |-> c] <=> (r.count = a /\ r.sumhits = b /\ (r.active <=> c))
<1>1. r = [count |-> r.count, sumhits |-> r.sumhits, active |-> r.active] /\ r.active \in BOOLEAN
  BY DEF DownloadRow
<1>. QED
  BY <1>1

(* So is the row of an active download.                                    *)
LEMMA ActiveRowEqual ==
  ASSUME NEW r \in ActiveRow, NEW a, NEW b
  PROVE  r = [hits |-> a, tstamp |-> b] <=> (r.hits = a /\ r.tstamp = b)
<1>1. r = [hits |-> r.hits, tstamp |-> r.tstamp]
  BY DEF ActiveRow
<1>. QED
  BY <1>1

(* CleanIsStored, table by table.                                          *)
LEMMA StoredIs ==
  ASSUME TypeOK
  PROVE  CleanIsStored <=>
           HostsStored /\ VisitsStored /\ UrlsStored /\ DownloadsStored /\ ActiveStored
<1>1. db \in Database
  BY DEF TypeOK
<1>2. /\ db.hosts \in Table(Host, HostRow) /\ db.visits \in Table(Host, VisitRow)
      /\ db.urls \in Table(Url, UrlRow) /\ db.downloads \in Table(Host, DownloadRow)
      /\ db.active_downloads \in Table(Host, ActiveRow)
  BY <1>1, DatabaseIs
<1>3. StoredAs(hm_htab, db.hosts, HostRows) <=> HostsStored
  <2>1. \A h \in DOMAIN db.hosts : db.hosts[h] \in HostRow
    BY <1>2, TableAt
  <2>2. \A h \in DOMAIN hm_htab :
          HostRows[h] = [count |-> hm_htab[h].count, visits |-> hm_htab[h].visits,
                         active |-> h \in DOMAIN visit]
    BY DEF HostRows
  <2>3. ASSUME NEW h \in DOMAIN hm_htab, h \in DOMAIN db.hosts
        PROVE  db.hosts[h] = HostRows[h] <=>
                 /\ db.hosts[h].count = hm_htab[h].count /\ db.hosts[h].visits = hm_htab[h].visits
                 /\ db.hosts[h].active <=> h \in DOMAIN visit
    <3>1. db.hosts[h] \in HostRow
      BY <2>1, <2>3
    <3>2. HostRows[h] = [count |-> hm_htab[h].count, visits |-> hm_htab[h].visits, active |-> (h \in DOMAIN visit)]
      BY <2>2
    <3>. DEFINE r == db.hosts[h]
                a == hm_htab[h].count
                b == hm_htab[h].visits
                c == (h \in DOMAIN visit)
    <3>3. c \in BOOLEAN
      OBVIOUS
    <3>. HIDE DEF r, a, b, c
    <3>4. r = [count |-> a, visits |-> b, active |-> c] <=> (r.count = a /\ r.visits = b /\ (r.active <=> c))
      BY <3>1, <3>3, HostRowEqual DEF r
    <3>. QED
      BY <3>2, <3>4 DEF r, a, b, c
  <2>. QED
    BY <2>3 DEF StoredAs, Dirty, HostsStored
<1>4. StoredAs(visit, db.visits, VisitRows) <=> VisitsStored
  <2>1. \A h \in DOMAIN db.visits : db.visits[h] \in VisitRow
    BY <1>2, TableAt
  <2>2. \A h \in DOMAIN visit :
          VisitRows[h] = [hits |-> visit[h].hits, start |-> visit[h].start, end |-> visit[h].end,
                          lasturl |-> visit[h].lasturl]
    BY DEF VisitRows
  <2>3. ASSUME NEW h \in DOMAIN visit, h \in DOMAIN db.visits
        PROVE  db.visits[h] = VisitRows[h] <=>
                 /\ db.visits[h].hits = visit[h].hits /\ db.visits[h].start = visit[h].start
                 /\ db.visits[h].end = visit[h].end /\ db.visits[h].lasturl = visit[h].lasturl
    <3>1. db.visits[h] \in VisitRow
      BY <2>1, <2>3
    <3>2. VisitRows[h] = [hits |-> visit[h].hits, start |-> visit[h].start, end |-> visit[h].end, lasturl |-> visit[h].lasturl]
      BY <2>2
    <3>. DEFINE r == db.visits[h]
                a == visit[h].hits
                b == visit[h].start
                c == visit[h].end
                d == visit[h].lasturl
    <3>. HIDE DEF r, a, b, c, d
    <3>4. r = [hits |-> a, start |-> b, end |-> c, lasturl |-> d] <=> (r.hits = a /\ r.start = b /\ r.end = c /\ r.lasturl = d)
      BY <3>1, VisitRowEqual DEF r
    <3>. QED
      BY <3>2, <3>4 DEF r, a, b, c, d
  <2>. QED
    BY <2>3 DEF StoredAs, Dirty, VisitsStored
<1>5. StoredAs(um_htab, db.urls, UrlRows) <=> UrlsStored
  <2>1. \A u \in DOMAIN db.urls : db.urls[u] \in UrlRow
    BY <1>2, TableAt
  <2>2. \A u \in DOMAIN um_htab : UrlRows[u] = [exit |-> um_htab[u].exit]
    BY DEF UrlRows
  <2>3. ASSUME NEW u \in DOMAIN um_htab, u \in DOMAIN db.urls
        PROVE  db.urls[u] = UrlRows[u] <=> db.urls[u].exit = um_htab[u].exit
    <3>1. db.urls[u] \in UrlRow
      BY <2>1, <2>3
    <3>2. UrlRows[u] = [exit |-> um_htab[u].exit]
      BY <2>2
    <3>. DEFINE r == db.urls[u]
                a == um_htab[u].exit
    <3>. HIDE DEF r, a
    <3>3. r = [exit |-> a] <=> r.exit = a
      BY <3>1, UrlRowEqual DEF r
    <3>. QED
      BY <3>2, <3>3 DEF r, a
  <2>. QED
    BY <2>3 DEF StoredAs, Dirty, UrlsStored
<1>6. StoredAs(dl_htab, db.downloads, DownloadRows) <=> DownloadsStored
  <2>1. \A h \in DOMAIN db.downloads : db.downloads[h] \in DownloadRow
    BY <1>2, TableAt
  <2>2. \A h \in DOMAIN dl_htab :
          DownloadRows[h] = [count |-> dl_htab[h].count, sumhits |-> dl_htab[h].sumhits,
                             active |-> h \in DOMAIN download]
    BY DEF DownloadRows
  <2>3. ASSUME NEW h \in DOMAIN dl_htab, h \in DOMAIN db.downloads
        PROVE  db.downloads[h] = DownloadRows[h] <=>
                 /\ db.downloads[h].count = dl_htab[h].count
                 /\ db.downloads[h].sumhits = dl_htab[h].sumhits
                 /\ db.downloads[h].active <=> h \in DOMAIN download
    <3>1. db.downloads[h] \in DownloadRow
      BY <2>1, <2>3
    <3>2. DownloadRows[h] = [count |-> dl_htab[h].count, sumhits |-> dl_htab[h].sumhits, active |-> (h \in DOMAIN download)]
      BY <2>2
    <3>. DEFINE r == db.downloads[h]
                a == dl_htab[h].count
                b == dl_htab[h].sumhits
                c == (h \in DOMAIN download)
    <3>3. c \in BOOLEAN
      OBVIOUS
    <3>. HIDE DEF r, a, b, c
    <3>4. r = [count |-> a, sumhits |-> b, active |-> c] <=> (r.count = a /\ r.sumhits = b /\ (r.active <=> c))
      BY <3>1, <3>3, DownloadRowEqual DEF r
    <3>. QED
      BY <3>2, <3>4 DEF r, a, b, c
  <2>. QED
    BY <2>3 DEF StoredAs, Dirty, DownloadsStored
<1>7. StoredAs(download, db.active_downloads, ActiveRows) <=> ActiveStored
  <2>1. \A h \in DOMAIN db.active_downloads : db.active_downloads[h] \in ActiveRow
    BY <1>2, TableAt
  <2>2. \A h \in DOMAIN download :
          ActiveRows[h] = [hits |-> download[h].hits, tstamp |-> download[h].tstamp]
    BY DEF ActiveRows
  <2>3. ASSUME NEW h \in DOMAIN download, h \in DOMAIN db.active_downloads
        PROVE  db.active_downloads[h] = ActiveRows[h] <=>
                 /\ db.active_downloads[h].hits = download[h].hits
                 /\ db.active_downloads[h].tstamp = download[h].tstamp
    <3>1. db.active_downloads[h] \in ActiveRow
      BY <2>1, <2>3
    <3>2. ActiveRows[h] = [hits |-> download[h].hits, tstamp |-> download[h].tstamp]
      BY <2>2
    <3>. DEFINE r == db.active_downloads[h]
                a == download[h].hits
                b == download[h].tstamp
    <3>. HIDE DEF r, a, b
    <3>4. r = [hits |-> a, tstamp |-> b] <=> (r.hits = a /\ r.tstamp = b)
      BY <3>1, ActiveRowEqual DEF r
    <3>. QED
      BY <3>2, <3>4 DEF r, a, b
  <2>. QED
    BY <2>3 DEF StoredAs, Dirty, ActiveStored
<1>. QED
  BY <1>3, <1>4, <1>5, <1>6, <1>7 DEF CleanIsStored

(* A row of the database is deleted once, and only when the visit ended    *)
(* that it was made for.                                                   *)
RowsOf(ended, nodes, rows) ==
  \A h \in Host :
    /\ ended[h] \in {0, 1}
    /\ ended[h] = 1 => h \in DOMAIN rows /\ (h \in DOMAIN nodes => ~nodes[h].storage)
    /\ ended[h] = 0 => (h \in DOMAIN rows <=> h \in DOMAIN nodes /\ nodes[h].storage)

RowsKept ==
  InMemory => /\ RowsOf(v_ended, visit, db.visits)
              /\ RowsOf(dl_ended, download, db.active_downloads)

(* Only nodes in memory are active.                                        *)
InactiveInDb ==
  InMemory =>
    /\ \A h \in DOMAIN db.hosts \ DOMAIN hm_htab : ~db.hosts[h].active
    /\ \A h \in DOMAIN db.downloads \ DOMAIN dl_htab : ~db.downloads[h].active
    /\ DOMAIN db.downloads \subseteq DOMAIN db.hosts \cup DOMAIN hm_htab

(* The database is whole when a run ends, and until its first record.      *)
Whole(d) ==
  /\ DOMAIN d.visits = {h \in DOMAIN d.hosts : d.hosts[h].active}
  /\ \A h \in DOMAIN d.visits : d.visits[h].lasturl \in DOMAIN d.urls \cup {NoUrl}
  /\ DOMAIN d.active_downloads = {h \in DOMAIN d.downloads : d.downloads[h].active}
  /\ DOMAIN d.downloads \subseteq DOMAIN d.hosts

WholeAtEnd ==
  pc = "off" \/ (pc = "clear" /\ why = "last") \/ (pc = "read" /\ ~good) => Whole(db)

(* Before the first record of a run everything is as it was restored.      *)
Untouched ==
  /\ pc = "read" /\ ~good =>
       /\ totals = db.totals
       /\ \A h \in Host : v_ended[h] = 0
       /\ \A h \in DOMAIN hm_htab : ~hm_htab[h].dirty
       /\ \A h \in DOMAIN visit : ~visit[h].dirty
  /\ Busy \/ why = "month" => good

(* A month ends with all of its visits.                                    *)
VisitsEnd == pc \in {"downloads", "save"} /\ why # "run" => DOMAIN visit = {}

(* Visits that started are over or active, in memory and in the database.  *)
VisitsCounted ==
  /\ db.totals.t_visits = db.totals.t_visits_end + Cardinality(DOMAIN db.visits)
  /\ InMemory => totals.t_visits = totals.t_visits_end + Cardinality(DOMAIN visit)

OnlyBadData == error \in {"none", "bad data"}

Books ==
  /\ Stored /\ RowsKept /\ InactiveInDb /\ WholeAtEnd /\ Untouched /\ VisitsEnd
  /\ VisitsCounted /\ MonthClosed /\ OnlyBadData

-----------------------------------------------------------------------------
(* What is not marked as modified is stored                                *)

(* Empty tables are stored.                                                *)
LEMMA StoredCleared ==
  ASSUME ClearTables
  PROVE  Stored'
<1>1. DOMAIN Empty = {}
  BY DEF Empty
<1>. QED
  BY <1>1 DEF ClearTables, Stored, HostsStored, VisitsStored, UrlsStored, DownloadsStored,
              ActiveStored, NewIsDirty

(* A step that changes neither nodes nor rows keeps them stored.           *)
LEMMA StoredSame ==
  ASSUME Stored, UNCHANGED <<hm_htab, visit, um_htab, dl_htab, download, db>>
  PROVE  Stored'
BY DEF Stored, HostsStored, VisitsStored, UrlsStored, DownloadsStored, ActiveStored, NewIsDirty

(* Every step marks the nodes that it changes, or writes them.             *)
LEMMA StoredStep ==
  ASSUME TypeOK, References, Stored, WholeAtEnd, [Next]_vars
  PROVE  Stored'
<1>. USE DEF Stored
<1>1. CASE Initialize
  <2>1. /\ Restorable /\ RestoreState /\ HostsOfDownloads \subseteq DOMAIN db.visits
        /\ db' = db
    BY <1>1 DEF Initialize
  <2>2. Whole(db)
    BY <1>1 DEF Initialize, WholeAtEnd
  <2>3. \A h \in DOMAIN db.visits : h \in DOMAIN db.hosts /\ db.hosts[h].active
    BY <2>1 DEF Restorable
  <2>4. \A h \in DOMAIN db.active_downloads : h \in DOMAIN db.downloads /\ db.downloads[h].active
    BY <2>2 DEF Whole
  <2>5. HostsStored' /\ VisitsStored'
    BY <2>1, <2>3, RestoreHosts DEF HostsStored, VisitsStored
  <2>6. UrlsStored'
    BY <2>1, RestoreUrls DEF UrlsStored
  <2>7. DownloadsStored' /\ ActiveStored'
    BY <2>1, <2>4, RestoreDownloads DEF DownloadsStored, ActiveStored
  <2>8. NewIsDirty'
    BY <2>1, RestoreHosts, RestoreDownloads DEF NewIsDirty
  <2>. QED
    BY <2>5, <2>6, <2>7, <2>8
<1>2. CASE ClearTables
  BY <1>2, StoredCleared
<1>3. CASE \E r \in Record : r.kind \in Kind /\ ReadRecord(r)
  BY <1>3, StoredSame DEF ReadRecord, memVars
<1>4. CASE PutHNode
  <2>1. CASE NewHostActive
    BY <1>2, <1>4, <2>1 DEF PutHNode, NewHostActive, Throw, LeaveRun
  <2>2. CASE ~NewHostActive
    <3>. DEFINE h == rec.host
    <3>1. um_htab' = UrlsAfter(Ending) /\ UNCHANGED <<dl_htab, download, db>>
      BY <1>4, <2>2 DEF PutHNode, NewHostActive, Ending
    <3>2. /\ DOMAIN hm_htab' = DOMAIN hm_htab \cup {h}
          /\ \A x \in DOMAIN hm_htab \ {h} : hm_htab'[x] = hm_htab[x]
          /\ hm_htab'[h].dirty
      BY <1>4, <2>2, PutHNodeHost
    <3>3. /\ DOMAIN visit' = DOMAIN visit \cup {h}
          /\ \A x \in DOMAIN visit \ {h} : visit'[x] = visit[x]
          /\ visit'[h].dirty
      BY <1>4, <2>2, PutHNodeVisit
    <3>4. /\ DOMAIN um_htab' = DOMAIN um_htab
          /\ \A u \in DOMAIN um_htab : ~um_htab'[u].dirty => um_htab'[u] = um_htab[u]
      BY <3>1, EndingIs, UrlsAfterIs
    <3>5. HostsStored'
      BY <3>1, <3>2, <3>3 DEF HostsStored
    <3>6. VisitsStored' /\ NewIsDirty'
      BY <3>1, <3>3 DEF VisitsStored, NewIsDirty
    <3>7. UrlsStored'
      BY <3>1, <3>4 DEF UrlsStored
    <3>8. DownloadsStored' /\ ActiveStored'
      BY <3>1 DEF DownloadsStored, ActiveStored
    <3>. QED
      BY <3>5, <3>6, <3>7, <3>8
  <2>. QED
    BY <2>1, <2>2
<1>5. CASE PutUNode
  <2>1. rec.kind \in {"page", "download", "error"}
    BY <1>5, RecIs DEF PutUNode, Busy
  <2>2. /\ UNCHANGED <<rec, hm_htab, dl_htab, download, db>>
        /\ rec.kind = "error" => UNCHANGED <<um_htab, visit>>
        /\ rec.kind = "download" => visit' = visit
        /\ rec.host \in DOMAIN visit /\ visit[rec.host].dirty
    BY <1>5 DEF PutUNode, References, HasVisit
  <2>3. /\ DOMAIN visit' = DOMAIN visit
        /\ \A x \in DOMAIN visit : /\ visit'[x].storage = visit[x].storage
                                   /\ visit'[x].dirty = visit[x].dirty
                                   /\ x # rec.host => visit'[x] = visit[x]
    BY <1>5, <2>1, <2>2, PutUNodeVisit
  <2>4. /\ DOMAIN um_htab \subseteq DOMAIN um_htab'
        /\ \A x \in DOMAIN um_htab' : ~um_htab'[x].dirty =>
             /\ x \in DOMAIN um_htab /\ ~um_htab[x].dirty
             /\ um_htab'[x].exit = um_htab[x].exit
    BY <1>5, <2>1, <2>2, PutUNodeTable
  <2>5. HostsStored' /\ DownloadsStored' /\ ActiveStored'
    BY <2>2, <2>3 DEF HostsStored, DownloadsStored, ActiveStored
  <2>6. VisitsStored' /\ NewIsDirty'
    BY <2>2, <2>3 DEF VisitsStored, NewIsDirty
  <2>7. UrlsStored'
    BY <2>2, <2>4 DEF UrlsStored
  <2>. QED
    BY <2>5, <2>6, <2>7
<1>6. CASE PutDLNode
  <2>1. CASE NewDownloadActive
    BY <1>2, <1>6, <2>1 DEF PutDLNode, NewDownloadActive, Throw, LeaveRun
  <2>2. CASE ~NewDownloadActive
    <3>. DEFINE h == rec.host
    <3>1. UNCHANGED <<visit, um_htab, db>>
      BY <1>6, <2>2 DEF PutDLNode, NewDownloadActive
    <3>2. /\ DOMAIN hm_htab' = DOMAIN hm_htab
          /\ \A x \in DOMAIN hm_htab :
               /\ hm_htab'[x].count = hm_htab[x].count /\ hm_htab'[x].visits = hm_htab[x].visits
               /\ hm_htab'[x].dirty = hm_htab[x].dirty
      BY <1>6, <2>2, PutDLNodeHost
    <3>3. /\ DOMAIN dl_htab' = DOMAIN dl_htab \cup {h}
          /\ \A x \in DOMAIN dl_htab \ {h} : dl_htab'[x] = dl_htab[x]
          /\ dl_htab'[h].dirty
          /\ DOMAIN download' = DOMAIN download \cup {h}
          /\ \A x \in DOMAIN download \ {h} : download'[x] = download[x]
          /\ download'[h].dirty
      BY <1>6, <2>2, PutDLNodeDownload
    <3>4. HostsStored'
      BY <3>1, <3>2 DEF HostsStored
    <3>5. VisitsStored' /\ UrlsStored'
      BY <3>1 DEF VisitsStored, UrlsStored
    <3>6. DownloadsStored'
      BY <3>1, <3>3 DEF DownloadsStored
    <3>7. ActiveStored' /\ NewIsDirty'
      BY <3>1, <3>3 DEF ActiveStored, NewIsDirty
    <3>. QED
      BY <3>4, <3>5, <3>6, <3>7
  <2>. QED
    BY <2>1, <2>2
<1>7. CASE \E S \in SUBSET DOMAIN dl_htab : SwapOutDownloads(S)
  <2>1. PICK S \in SUBSET DOMAIN dl_htab : SwapOutDownloads(S)
    BY <1>7
  <2>2. UNCHANGED <<visit, um_htab>>
    BY <2>1 DEF SwapOutDownloads
  <2>3. /\ DOMAIN hm_htab' = DOMAIN hm_htab
        /\ \A x \in DOMAIN hm_htab :
             /\ hm_htab'[x].count = hm_htab[x].count /\ hm_htab'[x].visits = hm_htab[x].visits
             /\ hm_htab'[x].dirty = hm_htab[x].dirty
        /\ DOMAIN dl_htab' = DOMAIN dl_htab \ S
        /\ \A x \in DOMAIN dl_htab \ S : dl_htab'[x] = dl_htab[x]
        /\ DOMAIN download' = DOMAIN download \ S
        /\ \A x \in DOMAIN download \ S : download'[x] = download[x]
    BY <2>1, SwapOutDownloadsIs
  <2>4. /\ db'.hosts = db.hosts /\ db'.visits = db.visits
        /\ db'.urls = db.urls /\ db'.active_downloads = db.active_downloads
        /\ DOMAIN db'.downloads = DOMAIN db.downloads \cup SavedDownloads(S)
        /\ \A h \in DOMAIN db.downloads \ SavedDownloads(S) : db'.downloads[h] = db.downloads[h]
    BY <2>1, SwapOutDownloadsDb
  <2>5. SavedDownloads(S) \subseteq S
    BY DEF SavedDownloads
  <2>6. HostsStored'
    BY <2>2, <2>3, <2>4 DEF HostsStored
  <2>7. VisitsStored' /\ UrlsStored'
    BY <2>2, <2>4 DEF VisitsStored, UrlsStored
  <2>8. DownloadsStored'
    BY <2>3, <2>4, <2>5 DEF DownloadsStored
  <2>9. ActiveStored' /\ NewIsDirty'
    BY <2>2, <2>3, <2>4 DEF ActiveStored, NewIsDirty
  <2>. QED
    BY <2>6, <2>7, <2>8, <2>9
<1>8. CASE \E S \in SUBSET DOMAIN hm_htab : SwapOutHosts(S)
  <2>1. PICK S \in SUBSET DOMAIN hm_htab : SwapOutHosts(S)
    BY <1>8
  <2>2. um_htab' = UrlsAfter(S \cap DOMAIN visit) /\ UNCHANGED <<dl_htab, download>>
    BY <2>1 DEF SwapOutHosts
  <2>3. /\ DOMAIN hm_htab' = DOMAIN hm_htab \ S
        /\ \A x \in DOMAIN hm_htab \ S : hm_htab'[x] = hm_htab[x]
        /\ DOMAIN visit' = DOMAIN visit \ S
        /\ \A x \in DOMAIN visit \ S : visit'[x] = visit[x]
    BY <2>1, SwapOutHostsIs
  <2>4. /\ db'.downloads = db.downloads /\ db'.visits = db.visits
        /\ db'.urls = db.urls /\ db'.active_downloads = db.active_downloads
        /\ DOMAIN db'.hosts = DOMAIN db.hosts \cup SavedHosts(S)
        /\ \A h \in DOMAIN db.hosts \ SavedHosts(S) : db'.hosts[h] = db.hosts[h]
    BY <2>1, SwapOutHostsDb
  <2>5. SavedHosts(S) \subseteq S
    BY DEF SavedHosts
  <2>6. /\ DOMAIN um_htab' = DOMAIN um_htab
        /\ \A u \in DOMAIN um_htab : ~um_htab'[u].dirty => um_htab'[u] = um_htab[u]
    <3>1. S \cap DOMAIN visit \subseteq DOMAIN visit
      OBVIOUS
    <3>. QED
      BY <2>2, <3>1, UrlsAfterIs
  <2>7. HostsStored'
    BY <2>3, <2>4, <2>5 DEF HostsStored
  <2>8. VisitsStored' /\ NewIsDirty'
    BY <2>2, <2>3, <2>4 DEF VisitsStored, NewIsDirty
  <2>9. UrlsStored'
    BY <2>4, <2>6 DEF UrlsStored
  <2>10. DownloadsStored' /\ ActiveStored'
    BY <2>2, <2>4 DEF DownloadsStored, ActiveStored
  <2>. QED
    BY <2>7, <2>8, <2>9, <2>10
<1>9. CASE \E S \in SUBSET DOMAIN um_htab : SwapOutUrls(S)
  <2>1. PICK S \in SUBSET DOMAIN um_htab : SwapOutUrls(S)
    BY <1>9
  <2>2. UNCHANGED <<hm_htab, visit, dl_htab, download>>
    BY <2>1 DEF SwapOutUrls
  <2>3. /\ DOMAIN um_htab' = DOMAIN um_htab \ S
        /\ \A x \in DOMAIN um_htab \ S : um_htab'[x] = um_htab[x]
        /\ db'.hosts = db.hosts /\ db'.downloads = db.downloads
        /\ db'.visits = db.visits /\ db'.active_downloads = db.active_downloads
        /\ DOMAIN db'.urls = DOMAIN db.urls \cup (S \cap Dirty(um_htab))
        /\ \A u \in DOMAIN um_htab \ S : u \in DOMAIN db.urls => db'.urls[u] = db.urls[u]
    BY <2>1, SwapOutUrlsIs
  <2>4. UrlsStored'
    BY <2>3 DEF UrlsStored
  <2>5. HostsStored' /\ VisitsStored' /\ DownloadsStored' /\ ActiveStored' /\ NewIsDirty'
    BY <2>2, <2>3 DEF HostsStored, VisitsStored, DownloadsStored, ActiveStored, NewIsDirty
  <2>. QED
    BY <2>4, <2>5
<1>10. CASE EndOfLogs
  BY <1>10, StoredSame DEF EndOfLogs, memVars
<1>11. CASE UpdateVisits
  <2>1. /\ hm_htab' = HostsAfter(VisitsOver) /\ um_htab' = UrlsAfter(VisitsOver)
        /\ UNCHANGED <<dl_htab, download, db>>
    BY <1>11 DEF UpdateVisits
  <2>2. /\ VisitsOver \subseteq DOMAIN visit
        /\ DOMAIN visit' = DOMAIN visit \ VisitsOver
        /\ \A x \in DOMAIN visit \ VisitsOver : visit'[x] = visit[x]
    BY <1>11, UpdateVisitsIs
  <2>3. /\ DOMAIN hm_htab' = DOMAIN hm_htab
        /\ \A h \in DOMAIN hm_htab : /\ h \in VisitsOver => hm_htab'[h].dirty
                                     /\ h \notin VisitsOver => hm_htab'[h] = hm_htab[h]
    BY <2>1, <2>2, HostsAfterIs
  <2>4. /\ DOMAIN um_htab' = DOMAIN um_htab
        /\ \A u \in DOMAIN um_htab : ~um_htab'[u].dirty => um_htab'[u] = um_htab[u]
    BY <2>1, <2>2, UrlsAfterIs
  <2>5. HostsStored'
    BY <2>1, <2>2, <2>3 DEF HostsStored
  <2>6. VisitsStored' /\ NewIsDirty'
    BY <2>1, <2>2 DEF VisitsStored, NewIsDirty
  <2>7. UrlsStored'
    BY <2>1, <2>4 DEF UrlsStored
  <2>8. DownloadsStored' /\ ActiveStored'
    BY <2>1 DEF DownloadsStored, ActiveStored
  <2>. QED
    BY <2>5, <2>6, <2>7, <2>8
<1>12. CASE UpdateDownloads
  <2>1. dl_htab' = DownloadsAfter(DownloadsOver) /\ UNCHANGED <<hm_htab, visit, um_htab, db>>
    BY <1>12 DEF UpdateDownloads
  <2>2. /\ DownloadsOver \subseteq DOMAIN download
        /\ DOMAIN download' = DOMAIN download \ DownloadsOver
        /\ \A x \in DOMAIN download \ DownloadsOver : download'[x] = download[x]
    BY <1>12, UpdateDownloadsIs
  <2>3. /\ DOMAIN dl_htab' = DOMAIN dl_htab
        /\ \A h \in DOMAIN dl_htab : /\ h \in DownloadsOver => dl_htab'[h].dirty
                                     /\ h \notin DownloadsOver => dl_htab'[h] = dl_htab[h]
    BY <2>1, <2>2, DownloadsAfterIs
  <2>4. HostsStored' /\ VisitsStored' /\ UrlsStored'
    BY <2>1 DEF HostsStored, VisitsStored, UrlsStored
  <2>5. DownloadsStored'
    BY <2>1, <2>2, <2>3 DEF DownloadsStored
  <2>6. ActiveStored' /\ NewIsDirty'
    BY <2>1, <2>2 DEF ActiveStored, NewIsDirty
  <2>. QED
    BY <2>4, <2>5, <2>6
<1>13. CASE SaveState
  BY <1>2, <1>13 DEF SaveState, LeaveRun, Throw
<1>14. CASE ClearMonth
  BY <1>2, <1>14 DEF ClearMonth, LeaveRun
<1>15. CASE InitializeFails \/ Interrupted \/ Leave
  BY <1>2, <1>15 DEF InitializeFails, Interrupted, Leave, Throw, LeaveRun
<1>16. CASE UNCHANGED vars
  BY <1>16, StoredSame DEF vars, memVars
<1>. QED
  BY <1>1, <1>3, <1>4, <1>5, <1>6, <1>7, <1>8, <1>9, <1>10, <1>11, <1>12, <1>13, <1>14,
     <1>15, <1>16 DEF Next

-----------------------------------------------------------------------------
(* Rows are deleted once                                                   *)

(* Rows of nodes in memory depend on which nodes were stored, no more.     *)
LEMMA RowsOfSame ==
  ASSUME NEW e, NEW n, NEW r, NEW n2, RowsOf(e, n, r),
         \A h \in Host : (h \in DOMAIN n2 /\ n2[h].storage) <=> (h \in DOMAIN n /\ n[h].storage)
  PROVE  RowsOf(e, n2, r)
BY DEF RowsOf

(* No step loses track of the rows of active visits and downloads.         *)
LEMMA RowsStep ==
  ASSUME TypeOK, RowsKept, [Next]_vars
  PROVE  RowsKept'
<1>. SUFFICES ASSUME InMemory'
              PROVE  /\ RowsOf(v_ended', visit', db'.visits)
                     /\ RowsOf(dl_ended', download', db'.active_downloads)
  BY DEF RowsKept, RowsOf
<1>0. DOMAIN Empty = {}
  BY DEF Empty
<1>00. pc \notin {"off", "clear"} => /\ RowsOf(v_ended, visit, db.visits)
                                     /\ RowsOf(dl_ended, download, db.active_downloads)
  BY DEF RowsKept, InMemory
<1>1. CASE Initialize
  <2>1. /\ Restorable /\ RestoreState /\ db' = db
        /\ v_ended' = [h \in Host |-> 0] /\ dl_ended' = [h \in Host |-> 0]
    BY <1>1 DEF Initialize
  <2>2. RowsOf(v_ended', visit', db'.visits)
    BY <2>1, RestoreHosts DEF RowsOf
  <2>3. RowsOf(dl_ended', download', db'.active_downloads)
    BY <2>1, RestoreDownloads DEF RowsOf
  <2>. QED
    BY <2>2, <2>3
<1>2. CASE LeaveRun
  BY <1>2 DEF LeaveRun, InMemory
<1>3. CASE UNCHANGED <<visit, download, v_ended, dl_ended>> /\ pc \notin {"off", "clear"}
           /\ db'.visits = db.visits /\ db'.active_downloads = db.active_downloads
  BY <1>3, <1>00
<1>4. CASE \E r \in Record : r.kind \in Kind /\ ReadRecord(r)
  BY <1>3, <1>4 DEF ReadRecord, memVars
<1>5. CASE PutHNode
  <2>1. CASE NewHostActive
    BY <1>2, <1>5, <2>1 DEF PutHNode, NewHostActive, Throw
  <2>2. CASE ~NewHostActive
    <3>1. /\ v_ended' = VisitEndedAfter(Ending) /\ UNCHANGED <<download, dl_ended, db>>
          /\ pc \notin {"off", "clear"}
      BY <1>5, <2>2 DEF PutHNode, NewHostActive, Ending
    <3>2. /\ DOMAIN visit' = DOMAIN visit \cup {rec.host}
          /\ \A x \in DOMAIN visit \ {rec.host} : visit'[x] = visit[x]
          /\ Starts => ~visit'[rec.host].storage
          /\ ~Starts => visit'[rec.host].storage = visit[rec.host].storage
      BY <1>5, <2>2, PutHNodeVisit
    <3>3. \A h \in Host : v_ended'[h] =
            IF h \in Ending /\ visit[h].storage THEN v_ended[h] + 1 ELSE v_ended[h]
      BY <3>1, VisitEndedAfterIs
    <3>4. /\ Ending \subseteq DOMAIN visit /\ Ending \subseteq {rec.host}
          /\ Starts <=> (rec.host \in DOMAIN visit => rec.host \in Ending)
      BY EndingIs
    <3>5. \A h \in Host : h \in Ending /\ h \in DOMAIN visit' => ~visit'[h].storage
      BY <3>2, <3>4
    <3>6. \A h \in Host : h \notin Ending =>
            ((h \in DOMAIN visit' /\ visit'[h].storage) <=> (h \in DOMAIN visit /\ visit[h].storage))
      BY <3>2, <3>4
    <3>7. RowsOf(v_ended, visit, db.visits)
      BY <1>00, <3>1
    <3>8. RowsOf(v_ended', visit', db.visits)
      BY <3>3, <3>4, <3>5, <3>6, <3>7 DEF RowsOf
    <3>. QED
      BY <1>00, <3>1, <3>8
  <2>. QED
    BY <2>1, <2>2
<1>6. CASE PutUNode
  <2>1. rec.kind \in {"page", "download", "error"}
    BY <1>6, RecIs DEF PutUNode, Busy
  <2>2. /\ UNCHANGED <<download, v_ended, dl_ended, db>> /\ pc \notin {"off", "clear"}
        /\ rec.kind # "page" => visit' = visit
    BY <1>6, <2>1 DEF PutUNode
  <2>3. \A h \in Host : (h \in DOMAIN visit' /\ visit'[h].storage)
                        <=> (h \in DOMAIN visit /\ visit[h].storage)
    BY <1>6, <2>1, <2>2, PutUNodeVisit
  <2>4. RowsOf(v_ended, visit', db.visits)
    BY <1>00, <2>2, <2>3, RowsOfSame
  <2>. QED
    BY <1>00, <2>2, <2>4
<1>7. CASE PutDLNode
  <2>1. CASE NewDownloadActive
    BY <1>2, <1>7, <2>1 DEF PutDLNode, NewDownloadActive, Throw
  <2>2. CASE ~NewDownloadActive
    <3>1. /\ dl_ended' = DownloadEndedAfter(EndingDownload) /\ UNCHANGED <<visit, v_ended, db>>
          /\ pc \notin {"off", "clear"}
      BY <1>7, <2>2 DEF PutDLNode, NewDownloadActive, EndingDownload
    <3>2. /\ DOMAIN download' = DOMAIN download \cup {rec.host}
          /\ \A x \in DOMAIN download \ {rec.host} : download'[x] = download[x]
          /\ download'[rec.host].storage <=>
               (rec.host \in DOMAIN download \ EndingDownload /\ download[rec.host].storage)
      BY <1>7, <2>2, PutDLNodeDownload
    <3>3. \A h \in Host : dl_ended'[h] =
            IF h \in EndingDownload /\ download[h].storage THEN dl_ended[h] + 1 ELSE dl_ended[h]
      BY <3>1, DownloadEndedAfterIs
    <3>4. EndingDownload \subseteq DOMAIN download /\ EndingDownload \subseteq {rec.host}
      BY DEF EndingDownload
    <3>5. \A h \in Host : h \in EndingDownload /\ h \in DOMAIN download' => ~download'[h].storage
      BY <3>2, <3>4
    <3>6. \A h \in Host : h \notin EndingDownload =>
            ((h \in DOMAIN download' /\ download'[h].storage)
               <=> (h \in DOMAIN download /\ download[h].storage))
      BY <3>2, <3>4
    <3>7. RowsOf(dl_ended, download, db.active_downloads)
      BY <1>00, <3>1
    <3>8. RowsOf(dl_ended', download', db.active_downloads)
      BY <3>3, <3>4, <3>5, <3>6, <3>7 DEF RowsOf
    <3>. QED
      BY <1>00, <3>1, <3>8
  <2>. QED
    BY <2>1, <2>2
<1>8. CASE \E S \in SUBSET DOMAIN dl_htab : SwapOutDownloads(S)
  <2>1. PICK S \in SUBSET DOMAIN dl_htab : SwapOutDownloads(S)
    BY <1>8
  <2>. DEFINE ended == S \cap DOMAIN download
  <2>2. /\ UNCHANGED <<visit, v_ended>> /\ dl_ended' = DownloadEndedAfter(ended)
        /\ pc \notin {"off", "clear"}
    BY <2>1 DEF SwapOutDownloads
  <2>3. /\ DOMAIN download' = DOMAIN download \ S
        /\ \A x \in DOMAIN download \ S : download'[x] = download[x]
    BY <2>1, SwapOutDownloadsIs
  <2>4. db'.visits = db.visits /\ db'.active_downloads = db.active_downloads
    BY <2>1, SwapOutDownloadsDb
  <2>5. /\ ended \subseteq DOMAIN download
        /\ \A h \in Host : h \in ended /\ h \in DOMAIN download' => ~download'[h].storage
        /\ \A h \in Host : h \notin ended =>
             ((h \in DOMAIN download' /\ download'[h].storage)
                <=> (h \in DOMAIN download /\ download[h].storage))
    BY <2>3
  <2>. HIDE DEF ended
  <2>6. \A h \in Host : dl_ended'[h] =
          IF h \in ended /\ download[h].storage THEN dl_ended[h] + 1 ELSE dl_ended[h]
    BY <2>2, DownloadEndedAfterIs
  <2>7. RowsOf(dl_ended, download, db.active_downloads)
    BY <1>00, <2>2
  <2>8. RowsOf(dl_ended', download', db.active_downloads)
    BY <2>5, <2>6, <2>7 DEF RowsOf
  <2>. QED
    BY <1>00, <2>2, <2>4, <2>8
<1>9. CASE \E S \in SUBSET DOMAIN hm_htab : SwapOutHosts(S)
  <2>1. PICK S \in SUBSET DOMAIN hm_htab : SwapOutHosts(S)
    BY <1>9
  <2>. DEFINE ended == S \cap DOMAIN visit
  <2>2. /\ UNCHANGED <<download, dl_ended>> /\ v_ended' = VisitEndedAfter(ended)
        /\ pc \notin {"off", "clear"}
    BY <2>1 DEF SwapOutHosts
  <2>3. /\ DOMAIN visit' = DOMAIN visit \ S
        /\ \A x \in DOMAIN visit \ S : visit'[x] = visit[x]
    BY <2>1, SwapOutHostsIs
  <2>4. db'.visits = db.visits /\ db'.active_downloads = db.active_downloads
    BY <2>1, SwapOutHostsDb
  <2>5. /\ ended \subseteq DOMAIN visit
        /\ \A h \in Host : h \in ended /\ h \in DOMAIN visit' => ~visit'[h].storage
        /\ \A h \in Host : h \notin ended =>
             ((h \in DOMAIN visit' /\ visit'[h].storage) <=> (h \in DOMAIN visit /\ visit[h].storage))
    BY <2>3
  <2>. HIDE DEF ended
  <2>6. \A h \in Host : v_ended'[h] =
          IF h \in ended /\ visit[h].storage THEN v_ended[h] + 1 ELSE v_ended[h]
    BY <2>2, VisitEndedAfterIs
  <2>7. RowsOf(v_ended, visit, db.visits)
    BY <1>00, <2>2
  <2>8. RowsOf(v_ended', visit', db.visits)
    BY <2>5, <2>6, <2>7 DEF RowsOf
  <2>. QED
    BY <1>00, <2>2, <2>4, <2>8
<1>10. CASE \E S \in SUBSET DOMAIN um_htab : SwapOutUrls(S)
  <2>1. PICK S \in SUBSET DOMAIN um_htab : SwapOutUrls(S)
    BY <1>10
  <2>2. db'.visits = db.visits /\ db'.active_downloads = db.active_downloads
    BY <2>1, SwapOutUrlsIs
  <2>. QED
    BY <1>3, <2>1, <2>2 DEF SwapOutUrls
<1>11. CASE EndOfLogs
  BY <1>3, <1>11 DEF EndOfLogs, memVars
<1>12. CASE UpdateVisits
  <2>1. /\ v_ended' = VisitEndedAfter(VisitsOver) /\ UNCHANGED <<download, dl_ended, db>>
        /\ pc \notin {"off", "clear"}
    BY <1>12 DEF UpdateVisits
  <2>2. /\ VisitsOver \subseteq DOMAIN visit
        /\ DOMAIN visit' = DOMAIN visit \ VisitsOver
        /\ \A x \in DOMAIN visit \ VisitsOver : visit'[x] = visit[x]
    BY <1>12, UpdateVisitsIs
  <2>3. \A h \in Host : v_ended'[h] =
          IF h \in VisitsOver /\ visit[h].storage THEN v_ended[h] + 1 ELSE v_ended[h]
    BY <2>1, VisitEndedAfterIs
  <2>4. RowsOf(v_ended, visit, db.visits)
    BY <1>00, <2>1
  <2>5. /\ \A h \in Host : h \in VisitsOver /\ h \in DOMAIN visit' => ~visit'[h].storage
        /\ \A h \in Host : h \notin VisitsOver =>
             ((h \in DOMAIN visit' /\ visit'[h].storage) <=> (h \in DOMAIN visit /\ visit[h].storage))
    BY <2>2
  <2>6. RowsOf(v_ended', visit', db.visits)
    BY <2>2, <2>3, <2>4, <2>5 DEF RowsOf
  <2>. QED
    BY <1>00, <2>1, <2>6
<1>13. CASE UpdateDownloads
  <2>1. /\ dl_ended' = DownloadEndedAfter(DownloadsOver) /\ UNCHANGED <<visit, v_ended, db>>
        /\ pc \notin {"off", "clear"}
    BY <1>13 DEF UpdateDownloads
  <2>2. /\ DownloadsOver \subseteq DOMAIN download
        /\ DOMAIN download' = DOMAIN download \ DownloadsOver
        /\ \A x \in DOMAIN download \ DownloadsOver : download'[x] = download[x]
    BY <1>13, UpdateDownloadsIs
  <2>3. \A h \in Host : dl_ended'[h] =
          IF h \in DownloadsOver /\ download[h].storage THEN dl_ended[h] + 1 ELSE dl_ended[h]
    BY <2>1, DownloadEndedAfterIs
  <2>4. RowsOf(dl_ended, download, db.active_downloads)
    BY <1>00, <2>1
  <2>5. /\ \A h \in Host : h \in DownloadsOver /\ h \in DOMAIN download' => ~download'[h].storage
        /\ \A h \in Host : h \notin DownloadsOver =>
             ((h \in DOMAIN download' /\ download'[h].storage) <=> (h \in DOMAIN download /\ download[h].storage))
    BY <2>2
  <2>6. RowsOf(dl_ended', download', db.active_downloads)
    BY <2>2, <2>3, <2>4, <2>5 DEF RowsOf
  <2>. QED
    BY <1>00, <2>1, <2>6
<1>14. CASE SaveState
  BY <1>2, <1>14 DEF SaveState, Throw, InMemory
<1>15. CASE ClearMonth
  <2>1. CASE why = "month"
    <3>1. db' = NewDb /\ ClearTables
      BY <1>15, <2>1 DEF ClearMonth
    <3>2. /\ v_ended' = [h \in Host |-> 0] /\ dl_ended' = [h \in Host |-> 0]
          /\ visit' = Empty /\ download' = Empty
          /\ db'.visits = Empty /\ db'.active_downloads = Empty
      BY <3>1 DEF ClearTables, NewDb
    <3>. QED
      BY <1>0, <3>2 DEF RowsOf
  <2>2. CASE why # "month"
    BY <1>2, <1>15, <2>2 DEF ClearMonth
  <2>. QED
    BY <2>1, <2>2
<1>16. CASE InitializeFails \/ Interrupted \/ Leave
  BY <1>2, <1>16 DEF InitializeFails, Interrupted, Leave, Throw
<1>17. CASE UNCHANGED vars
  BY <1>3, <1>17 DEF vars, memVars, InMemory
<1>. QED
  BY <1>1, <1>4, <1>5, <1>6, <1>7, <1>8, <1>9, <1>10, <1>11, <1>12, <1>13, <1>14, <1>15,
     <1>16, <1>17 DEF Next

-----------------------------------------------------------------------------
(* What is active is in memory                                             *)

(* No step leaves a node active in the database when it leaves memory.     *)
LEMMA InactiveStep ==
  ASSUME TypeOK, References, Stored, InactiveInDb, WholeAtEnd, [Next]_vars
  PROVE  InactiveInDb'
<1>. SUFFICES ASSUME InMemory'
              PROVE  /\ \A h \in DOMAIN db'.hosts \ DOMAIN hm_htab' : ~db'.hosts[h].active
                     /\ \A h \in DOMAIN db'.downloads \ DOMAIN dl_htab' : ~db'.downloads[h].active
                     /\ DOMAIN db'.downloads \subseteq DOMAIN db'.hosts \cup DOMAIN hm_htab'
  BY DEF InactiveInDb
<1>0. DOMAIN Empty = {}
  BY DEF Empty
<1>00. pc \notin {"off", "clear"} =>
         /\ \A h \in DOMAIN db.hosts \ DOMAIN hm_htab : ~db.hosts[h].active
         /\ \A h \in DOMAIN db.downloads \ DOMAIN dl_htab : ~db.downloads[h].active
         /\ DOMAIN db.downloads \subseteq DOMAIN db.hosts \cup DOMAIN hm_htab
  BY DEF InactiveInDb, InMemory
<1>1. CASE Initialize
  <2>1. /\ Restorable /\ RestoreState /\ db' = db
    BY <1>1 DEF Initialize
  <2>2. Whole(db)
    BY <1>1 DEF Initialize, WholeAtEnd
  <2>3. DOMAIN hm_htab' = DOMAIN db.visits /\ DOMAIN dl_htab' = DOMAIN db.active_downloads
    BY <2>1, RestoreHosts, RestoreDownloads
  <2>. QED
    BY <2>1, <2>2, <2>3 DEF Whole
<1>2. CASE LeaveRun
  BY <1>2 DEF LeaveRun, InMemory
<1>3. CASE /\ pc \notin {"off", "clear"} /\ db' = db
           /\ DOMAIN hm_htab \subseteq DOMAIN hm_htab' /\ DOMAIN dl_htab \subseteq DOMAIN dl_htab'
  BY <1>3, <1>00
<1>4. CASE \E r \in Record : r.kind \in Kind /\ ReadRecord(r)
  BY <1>3, <1>4 DEF ReadRecord, memVars
<1>5. CASE PutHNode
  <2>1. CASE NewHostActive
    BY <1>2, <1>5, <2>1 DEF PutHNode, NewHostActive, Throw
  <2>2. CASE ~NewHostActive
    <3>1. pc \notin {"off", "clear"} /\ db' = db /\ dl_htab' = dl_htab
      BY <1>5, <2>2 DEF PutHNode, NewHostActive
    <3>2. DOMAIN hm_htab \subseteq DOMAIN hm_htab'
      BY <1>5, <2>2, PutHNodeHost
    <3>. QED
      BY <1>3, <3>1, <3>2
  <2>. QED
    BY <2>1, <2>2
<1>6. CASE PutUNode
  BY <1>3, <1>6 DEF PutUNode
<1>7. CASE PutDLNode
  <2>1. CASE NewDownloadActive
    BY <1>2, <1>7, <2>1 DEF PutDLNode, NewDownloadActive, Throw
  <2>2. CASE ~NewDownloadActive
    <3>1. pc \notin {"off", "clear"} /\ db' = db
      BY <1>7, <2>2 DEF PutDLNode, NewDownloadActive
    <3>2. DOMAIN hm_htab \subseteq DOMAIN hm_htab'
      BY <1>7, <2>2, PutDLNodeHost
    <3>3. DOMAIN dl_htab \subseteq DOMAIN dl_htab'
      BY <1>7, <2>2, PutDLNodeDownload
    <3>. QED
      BY <1>3, <3>1, <3>2, <3>3
  <2>. QED
    BY <2>1, <2>2
<1>8. CASE \E S \in SUBSET DOMAIN dl_htab : SwapOutDownloads(S)
  <2>1. PICK S \in SUBSET DOMAIN dl_htab : SwapOutDownloads(S)
    BY <1>8
  <2>2. DOMAIN hm_htab' = DOMAIN hm_htab /\ DOMAIN dl_htab' = DOMAIN dl_htab \ S
    BY <2>1, SwapOutDownloadsIs
  <2>3. /\ db'.hosts = db.hosts
        /\ DOMAIN db'.downloads = DOMAIN db.downloads \cup SavedDownloads(S)
        /\ \A h \in SavedDownloads(S) : ~db'.downloads[h].active
        /\ \A h \in DOMAIN db.downloads \ SavedDownloads(S) : db'.downloads[h] = db.downloads[h]
        /\ \A h \in S : h \in DOMAIN download \/ dl_htab[h].dirty => h \in SavedDownloads(S)
    BY <2>1, SwapOutDownloadsDb
  <2>4. pc \notin {"off", "clear"} /\ S \subseteq DOMAIN hm_htab
    BY <2>1 DEF SwapOutDownloads, References, HostsReferenced
  <2>5. ASSUME NEW h \in DOMAIN db'.downloads \ DOMAIN dl_htab', h \notin SavedDownloads(S)
        PROVE  ~db.downloads[h].active
    <3>1. CASE h \in S
      BY <2>3, <2>5, <3>1 DEF Stored, DownloadsStored
    <3>2. CASE h \notin S
      BY <1>00, <2>2, <2>3, <2>4, <2>5, <3>2
    <3>. QED
      BY <3>1, <3>2
  <2>6. \A h \in DOMAIN db'.downloads \ DOMAIN dl_htab' : ~db'.downloads[h].active
    BY <2>3, <2>5
  <2>7. SavedDownloads(S) \subseteq S
    BY DEF SavedDownloads
  <2>. QED
    BY <1>00, <2>2, <2>3, <2>4, <2>6, <2>7
<1>9. CASE \E S \in SUBSET DOMAIN hm_htab : SwapOutHosts(S)
  <2>1. PICK S \in SUBSET DOMAIN hm_htab : SwapOutHosts(S)
    BY <1>9
  <2>2. DOMAIN hm_htab' = DOMAIN hm_htab \ S /\ dl_htab' = dl_htab /\ pc \notin {"off", "clear"}
    BY <2>1, SwapOutHostsIs DEF SwapOutHosts
  <2>3. /\ db'.downloads = db.downloads
        /\ DOMAIN db'.hosts = DOMAIN db.hosts \cup SavedHosts(S)
        /\ \A h \in SavedHosts(S) : ~db'.hosts[h].active
        /\ \A h \in DOMAIN db.hosts \ SavedHosts(S) : db'.hosts[h] = db.hosts[h]
        /\ \A h \in S : h \in DOMAIN visit \/ hm_htab[h].dirty => h \in SavedHosts(S)
    BY <2>1, SwapOutHostsDb
  <2>4. ASSUME NEW h \in S, h \notin SavedHosts(S)
        PROVE  h \in DOMAIN db.hosts /\ ~db.hosts[h].active
    BY <2>3, <2>4 DEF Stored, HostsStored
  <2>5. \A h \in DOMAIN db'.hosts \ DOMAIN hm_htab' : ~db'.hosts[h].active
    BY <1>00, <2>2, <2>3, <2>4
  <2>6. DOMAIN db'.downloads \subseteq DOMAIN db'.hosts \cup DOMAIN hm_htab'
    BY <1>00, <2>2, <2>3, <2>4
  <2>. QED
    BY <1>00, <2>2, <2>3, <2>5, <2>6
<1>10. CASE \E S \in SUBSET DOMAIN um_htab : SwapOutUrls(S)
  <2>1. PICK S \in SUBSET DOMAIN um_htab : SwapOutUrls(S)
    BY <1>10
  <2>2. db'.hosts = db.hosts /\ db'.downloads = db.downloads
    BY <2>1, SwapOutUrlsIs
  <2>3. UNCHANGED <<hm_htab, dl_htab>> /\ pc \notin {"off", "clear"}
    BY <2>1 DEF SwapOutUrls
  <2>. QED
    BY <1>00, <2>2, <2>3
<1>11. CASE EndOfLogs
  BY <1>3, <1>11 DEF EndOfLogs, memVars
<1>12. CASE UpdateVisits
  BY <1>3, <1>12 DEF UpdateVisits, HostsAfter
<1>13. CASE UpdateDownloads
  BY <1>3, <1>13 DEF UpdateDownloads, DownloadsAfter
<1>14. CASE SaveState
  BY <1>2, <1>14 DEF SaveState, Throw, InMemory
<1>15. CASE ClearMonth
  BY <1>0, <1>2, <1>15 DEF ClearMonth, NewDb
<1>16. CASE InitializeFails \/ Interrupted \/ Leave
  BY <1>2, <1>16 DEF InitializeFails, Interrupted, Leave, Throw
<1>17. CASE UNCHANGED vars
  BY <1>3, <1>17 DEF vars, memVars, InMemory
<1>. QED
  BY <1>1, <1>4, <1>5, <1>6, <1>7, <1>8, <1>9, <1>10, <1>11, <1>12, <1>13, <1>14, <1>15,
     <1>16, <1>17 DEF Next

-----------------------------------------------------------------------------
(* The checks that throw                                                   *)

(* The node that a record loads is not active: put_hnode and put_dlnode    *)
(* do not throw.                                                           *)
LEMMA LoadsSucceed ==
  ASSUME InactiveInDb
  PROVE  /\ PutHNode => ~NewHostActive
         /\ PutDLNode => ~NewDownloadActive
BY DEF InactiveInDb, InMemory, PutHNode, PutDLNode, NewHostActive, NewDownloadActive

(* What save_state deletes is there, once.                                 *)
LEMMA DeletesSucceed ==
  ASSUME TypeOK, RowsKept, pc = "save"
  PROVE  CanDelete(v_ended, db.visits) /\ CanDelete(dl_ended, db.active_downloads)
<1>1. RowsOf(v_ended, visit, db.visits) /\ RowsOf(dl_ended, download, db.active_downloads)
  BY DEF RowsKept, InMemory
<1>2. v_ended \in [Host -> Nat] /\ dl_ended \in [Host -> Nat]
  BY DEF TypeOK, Tables
<1>. QED
  BY <1>1, <1>2 DEF RowsOf, CanDelete

(* After a save the active visits and downloads are those that were in     *)
(* memory, and so are the hosts and downloads that are marked as active.   *)
LEMMA SavedVisits ==
  ASSUME TypeOK, Stored, RowsKept, pc = "save"
  PROVE  /\ DOMAIN SavedDb.visits = DOMAIN visit
         /\ \A h \in DOMAIN visit : SavedDb.visits[h].lasturl = visit[h].lasturl
<1>1. SavedDb.visits = SavedTable(db.visits, Ended(v_ended), visit, VisitRows)
  BY DEF SavedDb
<1>2. v_ended \in [Host -> Nat] /\ DOMAIN visit \subseteq Host /\ DOMAIN db.visits \subseteq Host
  BY DatabaseIs, TableIs DEF TypeOK, Tables
<1>3. RowsOf(v_ended, visit, db.visits)
  BY DEF RowsKept, InMemory
<1>4. \A h \in DOMAIN visit : ~visit[h].storage => visit[h].dirty
  BY DEF Stored, NewIsDirty
<1>5. (DOMAIN db.visits \ Ended(v_ended)) \cup Dirty(visit) = DOMAIN visit
  <2>1. ASSUME NEW h \in Host
        PROVE  h \in (DOMAIN db.visits \ Ended(v_ended)) \cup Dirty(visit) <=> h \in DOMAIN visit
    BY <1>2, <1>3, <1>4 DEF RowsOf, Ended, Dirty
  <2>. QED
    BY <1>2, <2>1 DEF Dirty
<1>6. DOMAIN SavedDb.visits = DOMAIN visit
  BY <1>1, <1>5 DEF SavedTable
<1>7. ASSUME NEW h \in DOMAIN visit
      PROVE  SavedDb.visits[h].lasturl = visit[h].lasturl
  <2>1. CASE h \in Dirty(visit)
    <3>1. SavedDb.visits[h] = VisitRows[h]
      BY <1>1, <2>1 DEF SavedTable
    <3>. QED
      BY <3>1 DEF VisitRows
  <2>2. CASE h \notin Dirty(visit)
    <3>1. SavedDb.visits[h] = db.visits[h]
      BY <1>1, <1>5, <1>7, <2>2 DEF SavedTable
    <3>. QED
      BY <2>2, <3>1 DEF Dirty, Stored, VisitsStored
  <2>. QED
    BY <2>1, <2>2
<1>. QED
  BY <1>6, <1>7

(* save_state leaves rows of active downloads for exactly those in         *)
(* memory.                                                                 *)
LEMMA SavedActiveDownloads ==
  ASSUME TypeOK, Stored, RowsKept, pc = "save"
  PROVE  DOMAIN SavedDb.active_downloads = DOMAIN download
<1>1. SavedDb.active_downloads =
        SavedTable(db.active_downloads, Ended(dl_ended), download, ActiveRows)
  BY DEF SavedDb
<1>2. /\ dl_ended \in [Host -> Nat]
      /\ DOMAIN download \subseteq Host /\ DOMAIN db.active_downloads \subseteq Host
  BY DatabaseIs, TableIs DEF TypeOK, Tables
<1>3. RowsOf(dl_ended, download, db.active_downloads)
  BY DEF RowsKept, InMemory
<1>4. \A h \in DOMAIN download : ~download[h].storage => download[h].dirty
  BY DEF Stored, NewIsDirty
<1>5. ASSUME NEW h \in Host
      PROVE  h \in (DOMAIN db.active_downloads \ Ended(dl_ended)) \cup Dirty(download)
               <=> h \in DOMAIN download
  BY <1>2, <1>3, <1>4 DEF RowsOf, Ended, Dirty
<1>6. (DOMAIN db.active_downloads \ Ended(dl_ended)) \cup Dirty(download) = DOMAIN download
  BY <1>2, <1>5 DEF Dirty
<1>. QED
  BY <1>1, <1>6 DEF SavedTable

(* It leaves a row of each host, active if its visit is.                   *)
LEMMA SavedHostRows ==
  ASSUME TypeOK, References, Stored, InactiveInDb, pc = "save"
  PROVE  /\ DOMAIN SavedDb.hosts = DOMAIN db.hosts \cup DOMAIN hm_htab
         /\ \A h \in DOMAIN SavedDb.hosts : SavedDb.hosts[h].active <=> h \in DOMAIN visit
<1>1. SavedDb.hosts = SavedTable(db.hosts, {}, hm_htab, HostRows)
  BY DEF SavedDb
<1>2. /\ DOMAIN SavedDb.hosts = DOMAIN db.hosts \cup Dirty(hm_htab)
      /\ \A h \in Dirty(hm_htab) : SavedDb.hosts[h] = HostRows[h]
      /\ \A h \in DOMAIN db.hosts \ Dirty(hm_htab) : SavedDb.hosts[h] = db.hosts[h]
  BY <1>1 DEF SavedTable
<1>3. \A h \in DOMAIN hm_htab \ Dirty(hm_htab) :
        h \in DOMAIN db.hosts /\ (db.hosts[h].active <=> h \in DOMAIN visit)
  BY DEF Dirty, Stored, HostsStored
<1>4. \A h \in DOMAIN db.hosts \ DOMAIN hm_htab : ~db.hosts[h].active
  BY DEF InactiveInDb, InMemory
<1>5. DOMAIN visit \subseteq DOMAIN hm_htab
  BY DEF References, HostsReferenced
<1>6. Dirty(hm_htab) \subseteq DOMAIN hm_htab
  BY DEF Dirty
<1>7. \A h \in Dirty(hm_htab) : HostRows[h].active <=> h \in DOMAIN visit
  BY <1>6 DEF HostRows
<1>. QED
  BY <1>2, <1>3, <1>4, <1>5, <1>6, <1>7

(* It leaves a row of each download job, active if its download is.        *)
LEMMA SavedDownloadRows ==
  ASSUME TypeOK, References, Stored, InactiveInDb, pc = "save"
  PROVE  /\ DOMAIN SavedDb.downloads = DOMAIN db.downloads \cup DOMAIN dl_htab
         /\ \A h \in DOMAIN SavedDb.downloads :
              SavedDb.downloads[h].active <=> h \in DOMAIN download
<1>1. SavedDb.downloads = SavedTable(db.downloads, {}, dl_htab, DownloadRows)
  BY DEF SavedDb
<1>2. /\ DOMAIN SavedDb.downloads = DOMAIN db.downloads \cup Dirty(dl_htab)
      /\ \A h \in Dirty(dl_htab) : SavedDb.downloads[h] = DownloadRows[h]
      /\ \A h \in DOMAIN db.downloads \ Dirty(dl_htab) : SavedDb.downloads[h] = db.downloads[h]
  BY <1>1 DEF SavedTable
<1>3. \A h \in DOMAIN dl_htab \ Dirty(dl_htab) :
        h \in DOMAIN db.downloads /\ (db.downloads[h].active <=> h \in DOMAIN download)
  BY DEF Dirty, Stored, DownloadsStored
<1>4. \A h \in DOMAIN db.downloads \ DOMAIN dl_htab : ~db.downloads[h].active
  BY DEF InactiveInDb, InMemory
<1>5. DOMAIN download \subseteq DOMAIN dl_htab
  BY DEF References, HostsReferenced
<1>6. Dirty(dl_htab) \subseteq DOMAIN dl_htab
  BY DEF Dirty
<1>7. \A h \in Dirty(dl_htab) : DownloadRows[h].active <=> h \in DOMAIN download
  BY <1>6 DEF DownloadRows
<1>. QED
  BY <1>2, <1>3, <1>4, <1>5, <1>6, <1>7

(* save_state leaves a whole database.                                     *)
LEMMA SaveWhole ==
  ASSUME TypeOK, References, Stored, RowsKept, InactiveInDb, pc = "save"
  PROVE  Whole(SavedDb)
<1>1. DOMAIN SavedDb.visits = {h \in DOMAIN SavedDb.hosts : SavedDb.hosts[h].active}
  BY SavedVisits, SavedHostRows DEF References, HostsReferenced
<1>2. DOMAIN SavedDb.active_downloads =
        {h \in DOMAIN SavedDb.downloads : SavedDb.downloads[h].active}
  BY SavedActiveDownloads, SavedDownloadRows DEF References, HostsReferenced
<1>3. DOMAIN um_htab \subseteq DOMAIN SavedDb.urls
  <2>1. SavedDb.urls = SavedTable(db.urls, {}, um_htab, UrlRows)
    BY DEF SavedDb
  <2>2. DOMAIN SavedDb.urls = DOMAIN db.urls \cup Dirty(um_htab)
    BY <2>1 DEF SavedTable
  <2>. QED
    BY <2>2 DEF Dirty, Stored, UrlsStored
<1>4. \A h \in DOMAIN SavedDb.visits : SavedDb.visits[h].lasturl \in DOMAIN SavedDb.urls \cup {NoUrl}
  BY <1>3, SavedVisits DEF References, UrlsReferenced
<1>5. DOMAIN SavedDb.downloads \subseteq DOMAIN SavedDb.hosts
  BY SavedHostRows, SavedDownloadRows DEF References, HostsReferenced, InactiveInDb, InMemory
<1>. QED
  BY <1>1, <1>2, <1>4, <1>5 DEF Whole

-----------------------------------------------------------------------------
(* Visits are counted                                                      *)

(* Visits in memory and in the database can be counted.                    *)
LEMMA VisitsFinite ==
  ASSUME TypeOK
  PROVE  /\ IsFiniteSet(DOMAIN visit) /\ Cardinality(DOMAIN visit) \in Nat
         /\ IsFiniteSet(DOMAIN db.visits) /\ Cardinality(DOMAIN db.visits) \in Nat
         /\ totals.t_visits \in Nat /\ totals.t_visits_end \in Nat
         /\ db.totals.t_visits \in Nat /\ db.totals.t_visits_end \in Nat
<1>1. DOMAIN visit \subseteq Host
  BY TableIs DEF TypeOK, Tables
<1>2. db \in Database /\ totals \in Totals
  BY DEF TypeOK
<1>3. DOMAIN db.visits \subseteq Host
  BY <1>2, DatabaseIs, TableIs
<1>4. db.totals \in Totals
  BY <1>2, DatabaseIs
<1>. QED
  BY <1>1, <1>2, <1>3, <1>4, HostsFinite DEF Totals

(* The visits of S end and leave the table.                                *)
LEMMA VisitsCountedEnd ==
  ASSUME TypeOK, VisitsCounted, pc \notin {"off", "clear"}, NEW S, S \subseteq DOMAIN visit,
         totals' = TotalsAfter(S), DOMAIN visit' = DOMAIN visit \ S,
         db'.totals = db.totals, db'.visits = db.visits
  PROVE  VisitsCounted'
<1>1. Cardinality(DOMAIN visit \ S) = Cardinality(DOMAIN visit) - Cardinality(DOMAIN visit \cap S)
  BY VisitsFinite, FS_Difference
<1>2. DOMAIN visit \cap S = S
  OBVIOUS
<1>3. /\ totals'.t_visits = totals.t_visits
      /\ totals'.t_visits_end = totals.t_visits_end + Cardinality(S)
      /\ Cardinality(S) \in Nat
  BY TotalsAfterIs
<1>4. Cardinality(DOMAIN visit') = Cardinality(DOMAIN visit) - Cardinality(S)
  BY <1>1, <1>2
<1>5. totals.t_visits = totals.t_visits_end + Cardinality(DOMAIN visit)
  BY DEF VisitsCounted, InMemory
<1>6. totals'.t_visits = totals'.t_visits_end + Cardinality(DOMAIN visit')
  BY <1>3, <1>4, <1>5, VisitsFinite
<1>. QED
  BY <1>6 DEF VisitsCounted

(* A step that neither starts nor ends a visit keeps them counted.         *)
LEMMA VisitsCountedSame ==
  ASSUME VisitsCounted, pc \notin {"off", "clear"},
         totals'.t_visits = totals.t_visits, totals'.t_visits_end = totals.t_visits_end,
         DOMAIN visit' = DOMAIN visit,
         db'.totals = db.totals, db'.visits = db.visits
  PROVE  VisitsCounted'
BY DEF VisitsCounted, InMemory

(* Every step keeps visits counted: those that started are over or         *)
(* active.                                                                 *)
LEMMA VisitsCountedStep ==
  ASSUME TypeOK, Stored, RowsKept, VisitsCounted, [Next]_vars
  PROVE  VisitsCounted'
<1>0. DOMAIN Empty = {} /\ Cardinality({}) = 0
  BY FS_EmptySet DEF Empty
<1>00. pc \notin {"off", "clear"} => totals.t_visits = totals.t_visits_end + Cardinality(DOMAIN visit)
  BY DEF VisitsCounted, InMemory
<1>1. CASE Initialize
  <2>1. /\ Restorable /\ RestoreState /\ db' = db /\ totals' = db.totals
    BY <1>1 DEF Initialize
  <2>2. DOMAIN visit' = DOMAIN db.visits
    BY <2>1, RestoreHosts
  <2>. QED
    BY <2>1, <2>2 DEF VisitsCounted
<1>2. CASE LeaveRun /\ db' = db
  BY <1>2 DEF LeaveRun, InMemory, VisitsCounted
<1>3. CASE /\ pc \notin {"off", "clear"} /\ UNCHANGED <<totals, visit, db>>
  BY <1>3, VisitsCountedSame
<1>4. CASE \E r \in Record : r.kind \in Kind /\ ReadRecord(r)
  BY <1>3, <1>4 DEF ReadRecord, memVars
<1>5. CASE PutHNode
  <2>1. CASE NewHostActive
    BY <1>2, <1>5, <2>1 DEF PutHNode, NewHostActive, Throw
  <2>2. CASE ~NewHostActive
    <3>1. pc \notin {"off", "clear"} /\ db' = db
      BY <1>5, <2>2 DEF PutHNode, NewHostActive
    <3>2. DOMAIN visit' = DOMAIN visit \cup {rec.host}
      BY <1>5, <2>2, PutHNodeVisit
    <3>3. Cardinality(DOMAIN visit') = IF rec.host \in DOMAIN visit THEN Cardinality(DOMAIN visit)
                                       ELSE Cardinality(DOMAIN visit) + 1
      BY <3>2, VisitsFinite, FS_AddElement
    <3>4. /\ totals'.t_visits = IF Starts THEN totals.t_visits + 1 ELSE totals.t_visits
          /\ totals'.t_visits_end = totals.t_visits_end + Cardinality(Ending)
      BY <1>5, <2>2, PutHNodeTotals
    <3>5. Cardinality(Ending) = IF rec.host \in Ending THEN 1 ELSE 0
      <4>1. CASE rec.host \in Ending
        <5>1. Ending = {rec.host}
          BY <4>1, EndingIs
        <5>. QED
          BY <4>1, <5>1, FS_Singleton
      <4>2. CASE rec.host \notin Ending
        <5>1. Ending = {}
          BY <4>2, EndingIs
        <5>. QED
          BY <1>0, <4>2, <5>1
      <4>. QED
        BY <4>1, <4>2
    <3>6. Starts <=> (rec.host \in DOMAIN visit => rec.host \in Ending)
      BY EndingIs
    <3>7. Ending \subseteq DOMAIN visit
      BY EndingIs
    <3>8. totals'.t_visits = totals'.t_visits_end + Cardinality(DOMAIN visit')
      <4>1. CASE rec.host \notin DOMAIN visit
        BY <1>00, <3>1, <3>3, <3>4, <3>5, <3>6, <3>7, <4>1, VisitsFinite
      <4>2. CASE rec.host \in Ending
        BY <1>00, <3>1, <3>3, <3>4, <3>5, <3>6, <3>7, <4>2, VisitsFinite
      <4>3. CASE rec.host \in DOMAIN visit /\ rec.host \notin Ending
        BY <1>00, <3>1, <3>3, <3>4, <3>5, <3>6, <3>7, <4>3, VisitsFinite
      <4>. QED
        BY <4>1, <4>2, <4>3
    <3>. QED
      BY <3>1, <3>8 DEF VisitsCounted
  <2>. QED
    BY <2>1, <2>2
<1>6. CASE PutUNode
  <2>1. rec.kind \in {"page", "download", "error"} /\ pc \notin {"off", "clear"}
    BY <1>6, RecIs DEF PutUNode, Busy
  <2>2. UNCHANGED <<totals, db>> /\ (rec.kind # "page" => visit' = visit)
    BY <1>6, <2>1 DEF PutUNode
  <2>3. DOMAIN visit' = DOMAIN visit
    BY <1>6, <2>1, <2>2, PutUNodeVisit
  <2>. QED
    BY <2>1, <2>2, <2>3, VisitsCountedSame
<1>7. CASE PutDLNode
  <2>1. CASE NewDownloadActive
    BY <1>2, <1>7, <2>1 DEF PutDLNode, NewDownloadActive, Throw
  <2>2. CASE ~NewDownloadActive
    <3>1. /\ pc \notin {"off", "clear"} /\ db' = db /\ visit' = visit
          /\ totals' = [totals EXCEPT !.t_dlcount = @ + Cardinality(EndingDownload)]
      BY <1>7, <2>2 DEF PutDLNode, NewDownloadActive, EndingDownload
    <3>2. EndingDownload \subseteq Host
      BY <1>7, RecIs DEF PutDLNode, Busy, EndingDownload
    <3>3. totals'.t_visits = totals.t_visits /\ totals'.t_visits_end = totals.t_visits_end
      BY <3>1, <3>2, DownloadTotals
    <3>. QED
      BY <3>1, <3>3, VisitsCountedSame
  <2>. QED
    BY <2>1, <2>2
<1>8. CASE \E S \in SUBSET DOMAIN dl_htab : SwapOutDownloads(S)
  <2>1. PICK S \in SUBSET DOMAIN dl_htab : SwapOutDownloads(S)
    BY <1>8
  <2>2. /\ pc \notin {"off", "clear"} /\ visit' = visit
        /\ totals' = [totals EXCEPT !.t_dlcount = @ + Cardinality(S \cap DOMAIN download)]
    BY <2>1 DEF SwapOutDownloads
  <2>3. S \cap DOMAIN download \subseteq Host
    BY TableIs DEF TypeOK, Tables
  <2>4. totals'.t_visits = totals.t_visits /\ totals'.t_visits_end = totals.t_visits_end
    BY <2>2, <2>3, DownloadTotals
  <2>5. db'.totals = db.totals /\ db'.visits = db.visits
    BY <2>1, SwapOutDownloadsDb
  <2>. QED
    BY <2>2, <2>4, <2>5, VisitsCountedSame
<1>9. CASE \E S \in SUBSET DOMAIN hm_htab : SwapOutHosts(S)
  <2>1. PICK S \in SUBSET DOMAIN hm_htab : SwapOutHosts(S)
    BY <1>9
  <2>. DEFINE ended == S \cap DOMAIN visit
  <2>2. pc \notin {"off", "clear"} /\ totals' = TotalsAfter(ended)
    BY <2>1 DEF SwapOutHosts
  <2>3. DOMAIN visit' = DOMAIN visit \ ended
    BY <2>1, SwapOutHostsIs
  <2>4. db'.totals = db.totals /\ db'.visits = db.visits
    BY <2>1, SwapOutHostsDb
  <2>5. ended \subseteq DOMAIN visit
    OBVIOUS
  <2>. QED
    BY <2>2, <2>3, <2>4, <2>5, VisitsCountedEnd
<1>10. CASE \E S \in SUBSET DOMAIN um_htab : SwapOutUrls(S)
  <2>1. PICK S \in SUBSET DOMAIN um_htab : SwapOutUrls(S)
    BY <1>10
  <2>2. pc \notin {"off", "clear"} /\ UNCHANGED <<totals, visit>>
    BY <2>1 DEF SwapOutUrls
  <2>3. db'.totals = db.totals /\ db'.visits = db.visits
    BY <2>1, SwapOutUrlsIs
  <2>. QED
    BY <2>2, <2>3, VisitsCountedSame
<1>11. CASE EndOfLogs
  BY <1>3, <1>11 DEF EndOfLogs, memVars
<1>12. CASE UpdateVisits
  <2>1. pc \notin {"off", "clear"} /\ totals' = TotalsAfter(VisitsOver) /\ db' = db
    BY <1>12 DEF UpdateVisits
  <2>2. VisitsOver \subseteq DOMAIN visit /\ DOMAIN visit' = DOMAIN visit \ VisitsOver
    BY <1>12, UpdateVisitsIs
  <2>. QED
    BY <2>1, <2>2, VisitsCountedEnd
<1>13. CASE UpdateDownloads
  <2>1. /\ pc \notin {"off", "clear"} /\ visit' = visit /\ db' = db
        /\ totals' = [totals EXCEPT !.t_dlcount = @ + Cardinality(DownloadsOver)]
    BY <1>13 DEF UpdateDownloads
  <2>2. DownloadsOver \subseteq Host
    BY TableIs DEF TypeOK, Tables, DownloadsOver
  <2>3. totals'.t_visits = totals.t_visits /\ totals'.t_visits_end = totals.t_visits_end
    BY <2>1, <2>2, DownloadTotals
  <2>. QED
    BY <2>1, <2>3, VisitsCountedSame
<1>14. CASE SaveState
  <2>1. /\ pc = "save" /\ pc' \in {"off", "clear"} /\ db' = SavedDb
    BY <1>14, DeletesSucceed DEF SaveState, LeaveRun
  <2>2. DOMAIN db'.visits = DOMAIN visit /\ db'.totals = totals
    BY <2>1, SavedVisits DEF SavedDb
  <2>. QED
    BY <1>00, <2>1, <2>2 DEF VisitsCounted, InMemory
<1>15. CASE ClearMonth
  <2>1. db' = NewDb /\ totals' = ZeroTotals /\ visit' = Empty
    BY <1>15 DEF ClearMonth, LeaveRun, ClearTables
  <2>. QED
    BY <1>0, <2>1 DEF NewDb, ZeroTotals, VisitsCounted
<1>16. CASE InitializeFails \/ Interrupted \/ Leave
  BY <1>2, <1>16 DEF InitializeFails, Interrupted, Leave, Throw
<1>17. CASE UNCHANGED vars
  BY <1>17 DEF vars, memVars, InMemory, VisitsCounted
<1>. QED
  BY <1>1, <1>4, <1>5, <1>6, <1>7, <1>8, <1>9, <1>10, <1>11, <1>12, <1>13, <1>14, <1>15,
     <1>16, <1>17 DEF Next

-----------------------------------------------------------------------------
(* What a run and a month leave                                            *)

(* Until its first record a run leaves the database as the last one saved  *)
(* it.                                                                     *)
LEMMA UntouchedStep ==
  ASSUME TypeOK, Untouched, [Next]_vars
  PROVE  Untouched'
<1>1. CASE Initialize
  <2>1. /\ Restorable /\ RestoreState /\ db' = db /\ totals' = db.totals
        /\ v_ended' = [h \in Host |-> 0]
        /\ pc' \in {"read", "visits"} /\ why' \in {"run", "end"}
    BY <1>1 DEF Initialize
  <2>2. /\ \A h \in DOMAIN hm_htab' : ~hm_htab'[h].dirty
        /\ \A h \in DOMAIN visit' : ~visit'[h].dirty
    BY <2>1, RestoreHosts
  <2>. QED
    BY <2>1, <2>2 DEF Untouched, Busy
<1>2. CASE LeaveRun
  BY <1>2 DEF LeaveRun, Untouched, Busy
<1>3. CASE Busy /\ good' = good /\ why' = why
  BY <1>3 DEF Untouched
<1>4. CASE \E r \in Record : r.kind \in Kind /\ ReadRecord(r)
  BY <1>4 DEF ReadRecord, Untouched
<1>5. CASE PutHNode \/ PutDLNode
  BY <1>2, <1>3, <1>5 DEF PutHNode, PutDLNode, Throw, Busy
<1>6. CASE PutUNode
  BY <1>3, <1>6 DEF PutUNode, Busy
<1>7. CASE \E S \in SUBSET DOMAIN dl_htab : SwapOutDownloads(S)
  BY <1>3, <1>7 DEF SwapOutDownloads, Busy
<1>8. CASE \E S \in SUBSET DOMAIN hm_htab : SwapOutHosts(S)
  BY <1>3, <1>8 DEF SwapOutHosts, Busy
<1>9. CASE \E S \in SUBSET DOMAIN um_htab : SwapOutUrls(S)
  BY <1>3, <1>9 DEF SwapOutUrls, Busy
<1>10. CASE EndOfLogs
  BY <1>10 DEF EndOfLogs, Untouched, Busy
<1>11. CASE UpdateVisits
  BY <1>11 DEF UpdateVisits, Untouched, Busy
<1>12. CASE UpdateDownloads
  BY <1>12 DEF UpdateDownloads, Untouched, Busy
<1>13. CASE SaveState
  BY <1>2, <1>13 DEF SaveState, Throw, Untouched, Busy
<1>14. CASE ClearMonth
  BY <1>2, <1>14 DEF ClearMonth, Untouched, Busy
<1>15. CASE InitializeFails \/ Interrupted \/ Leave
  BY <1>2, <1>15 DEF InitializeFails, Interrupted, Leave, Throw
<1>16. CASE UNCHANGED vars
  BY <1>16 DEF vars, memVars, Untouched, Busy
<1>. QED
  BY <1>1, <1>4, <1>5, <1>6, <1>7, <1>8, <1>9, <1>10, <1>11, <1>12, <1>13, <1>14, <1>15,
     <1>16 DEF Next

(* When the month ends, no visit is left once they were ended.             *)
LEMMA VisitsEndStep ==
  ASSUME TypeOK, VisitsEnd, [Next]_vars
  PROVE  VisitsEnd'
<1>1. CASE UpdateVisits
  <2>1. why' = why /\ DOMAIN visit' = DOMAIN visit \ VisitsOver
    BY <1>1, UpdateVisitsIs DEF UpdateVisits
  <2>2. why # "run" => VisitsOver = DOMAIN visit
    BY DEF VisitsOver, VisitOver
  <2>. QED
    BY <2>1, <2>2 DEF VisitsEnd
<1>2. CASE UpdateDownloads
  BY <1>2 DEF UpdateDownloads, VisitsEnd
<1>3. CASE pc' \notin {"downloads", "save"}
  BY <1>3 DEF VisitsEnd
<1>4. CASE UNCHANGED vars
  BY <1>4 DEF vars, memVars, VisitsEnd
<1>. QED
  BY <1>1, <1>2, <1>3, <1>4 DEF Next, Initialize, InitializeFails, ReadRecord, PutHNode,
     PutUNode, PutDLNode, SwapOutDownloads, SwapOutHosts, SwapOutUrls, EndOfLogs, SaveState,
     ClearMonth, Interrupted, Leave, Throw, LeaveRun

(* Every step keeps the database whole where a run ends or has just        *)
(* begun.                                                                  *)
LEMMA WholeStep ==
  ASSUME TypeOK, References, Stored, RowsKept, InactiveInDb, Untouched, WholeAtEnd, [Next]_vars
  PROVE  WholeAtEnd'
<1>1. CASE Initialize
  BY <1>1 DEF Initialize, WholeAtEnd
<1>2. CASE pc' \notin {"off", "read", "clear"}
  BY <1>2 DEF WholeAtEnd
<1>3. CASE \E r \in Record : r.kind \in Kind /\ ReadRecord(r)
  BY <1>3 DEF ReadRecord, WholeAtEnd
<1>4. CASE PutHNode \/ PutDLNode
  BY <1>2, <1>4, LoadsSucceed DEF PutHNode, PutDLNode, NewHostActive, NewDownloadActive
<1>5. CASE \E S \in SUBSET DOMAIN um_htab : SwapOutUrls(S)
  BY <1>5 DEF SwapOutUrls, Untouched, Busy, WholeAtEnd
<1>6. CASE SaveState
  <2>1. db' = SavedDb
    BY <1>6, DeletesSucceed DEF SaveState
  <2>2. Whole(SavedDb)
    BY <1>6, SaveWhole DEF SaveState
  <2>. QED
    BY <2>1, <2>2 DEF WholeAtEnd
<1>7. CASE ClearMonth
  <2>1. Whole(NewDb)
    BY DEF Whole, NewDb, Empty
  <2>. QED
    BY <1>7, <2>1 DEF ClearMonth, WholeAtEnd
<1>8. CASE InitializeFails \/ Interrupted \/ Leave
  BY <1>8 DEF InitializeFails, Interrupted, Leave, Throw, WholeAtEnd
<1>9. CASE UNCHANGED vars
  BY <1>9 DEF vars, WholeAtEnd
<1>. QED
  BY <1>1, <1>2, <1>3, <1>4, <1>5, <1>6, <1>7, <1>8, <1>9 DEF Next, PutUNode,
     SwapOutDownloads, SwapOutHosts, EndOfLogs, UpdateVisits, UpdateDownloads

(* Every step keeps the databases of closed months complete.               *)
LEMMA MonthClosedStep ==
  ASSUME TypeOK, References, Stored, RowsKept, InactiveInDb, Untouched, VisitsEnd,
         VisitsCounted, MonthClosed, [Next]_vars
  PROVE  MonthClosed'
<1>1. ASSUME DOMAIN db'.visits = {}
      PROVE  db'.visits = Empty
  <2>1. db' \in Database
    BY TypeStep DEF TypeOK
  <2>2. db'.visits \in Table(Host, VisitRow)
    BY <2>1, DatabaseIs
  <2>3. db'.visits \in [{} -> VisitRow]
    BY <1>1, <2>2, TableIs
  <2>. QED
    BY <2>3 DEF Empty
<1>2. CASE \E r \in Record : r.kind \in Kind /\ ReadRecord(r)
  <2>1. CASE pc' = "clear"
    <3>1. /\ pc = "read" /\ ~good /\ db' = db
          /\ totals.t_visits = totals.t_visits_end
      BY <1>2, <2>1 DEF ReadRecord
    <3>2. /\ totals = db.totals
          /\ \A h \in Host : v_ended[h] = 0
          /\ \A h \in DOMAIN hm_htab : ~hm_htab[h].dirty
      BY <3>1 DEF Untouched
    <3>3. totals.t_visits = totals.t_visits_end + Cardinality(DOMAIN visit)
      BY <3>1 DEF VisitsCounted, InMemory
    <3>4. DOMAIN visit = {}
      <4>1. Cardinality(DOMAIN visit) = 0
        BY <3>1, <3>3, VisitsFinite
      <4>2. IsFiniteSet(DOMAIN visit)
        BY VisitsFinite
      <4>. QED
        BY <4>1, <4>2, FS_EmptySet
    <3>5. DOMAIN db.visits = {}
      <4>1. DOMAIN db.visits \subseteq Host
        BY DatabaseIs, TableIs DEF TypeOK
      <4>2. RowsOf(v_ended, visit, db.visits)
        BY <3>1 DEF RowsKept, InMemory
      <4>. QED
        BY <3>2, <3>4, <4>1, <4>2 DEF RowsOf
    <3>6. \A h \in DOMAIN db.hosts : ~db.hosts[h].active
      BY <3>1, <3>2, <3>4 DEF Stored, HostsStored, InactiveInDb, InMemory
    <3>. QED
      BY <1>1, <3>1, <3>2, <3>5, <3>6 DEF MonthClosed
  <2>2. CASE pc' # "clear"
    BY <2>2 DEF MonthClosed
  <2>. QED
    BY <2>1, <2>2
<1>3. CASE SaveState
  <2>1. CASE why # "run"
    <3>1. pc = "save" /\ db' = SavedDb /\ DOMAIN visit = {}
      BY <1>3, <2>1, DeletesSucceed DEF SaveState, VisitsEnd
    <3>2. DOMAIN db'.visits = {} /\ db'.totals = totals
      BY <3>1, SavedVisits DEF SavedDb
    <3>3. \A h \in DOMAIN db'.hosts : ~db'.hosts[h].active
      BY <3>1, SavedHostRows
    <3>4. totals.t_visits = totals.t_visits_end + Cardinality({})
      BY <3>1 DEF VisitsCounted, InMemory
    <3>5. totals.t_visits = totals.t_visits_end
      BY <3>4, VisitsFinite, FS_EmptySet
    <3>. QED
      BY <1>1, <3>2, <3>3, <3>5 DEF MonthClosed
  <2>2. CASE why = "run"
    BY <1>3, <2>2 DEF SaveState, LeaveRun, Throw, MonthClosed
  <2>. QED
    BY <2>1, <2>2
<1>4. CASE pc' # "clear"
  BY <1>4 DEF MonthClosed
<1>5. CASE UNCHANGED vars
  BY <1>5 DEF vars, MonthClosed
<1>. QED
  BY <1>2, <1>3, <1>4, <1>5 DEF Next, Initialize, InitializeFails, PutHNode, PutUNode,
     PutDLNode, SwapOutDownloads, SwapOutHosts, SwapOutUrls, EndOfLogs, UpdateVisits,
     UpdateDownloads, ClearMonth, Interrupted, Leave, Throw, LeaveRun

(* No step but restore_state throws.                                       *)
LEMMA OnlyBadDataStep ==
  ASSUME TypeOK, RowsKept, InactiveInDb, OnlyBadData, [Next]_vars
  PROVE  OnlyBadData'
<1>1. CASE PutHNode \/ PutDLNode
  BY <1>1, LoadsSucceed DEF PutHNode, PutDLNode, NewHostActive, NewDownloadActive, OnlyBadData
<1>2. CASE SaveState
  BY <1>2, DeletesSucceed DEF SaveState, OnlyBadData
<1>3. CASE error' \in {error, "none", "bad data"}
  BY <1>3 DEF OnlyBadData
<1>4. CASE UNCHANGED vars
  BY <1>4 DEF vars, OnlyBadData
<1>. QED
  BY <1>1, <1>2, <1>3, <1>4 DEF Next, Initialize, InitializeFails, ReadRecord, PutUNode,
     SwapOutDownloads, SwapOutHosts, SwapOutUrls, EndOfLogs, UpdateVisits, UpdateDownloads,
     ClearMonth, Interrupted, Leave, Throw

(* The invariant holds at the start.                                       *)
LEMMA BooksInit == Init => Books
<1>. SUFFICES ASSUME Init
              PROVE  Books
  OBVIOUS
<1>1. DOMAIN Empty = {} /\ Cardinality({}) = 0
  BY FS_EmptySet DEF Empty
<1>2. Stored
  BY <1>1 DEF Init, Stored, HostsStored, VisitsStored, UrlsStored, DownloadsStored,
              ActiveStored, NewIsDirty
<1>3. RowsKept /\ InactiveInDb /\ Untouched /\ VisitsEnd /\ MonthClosed /\ OnlyBadData
  BY DEF Init, RowsKept, InactiveInDb, Untouched, VisitsEnd, MonthClosed, OnlyBadData, InMemory,
         Busy
<1>4. WholeAtEnd
  BY <1>1 DEF Init, WholeAtEnd, Whole, NewDb
<1>5. VisitsCounted
  BY <1>1 DEF Init, VisitsCounted, NewDb, ZeroTotals, InMemory
<1>. QED
  BY <1>2, <1>3, <1>4, <1>5 DEF Books

(* The inductive invariant: types, references and the database             *)
THEOREM BooksKept == Spec => [](TypeOK /\ References /\ Books)
<1>1. Init => TypeOK /\ References /\ Books
  BY TypeInit, ReferencesInit, BooksInit
<1>2. ASSUME TypeOK, References, Books, [Next]_vars
      PROVE  TypeOK' /\ References' /\ Books'
  <2>1. TypeOK' /\ References'
    BY <1>2, TypeStep, ReferencesStep
  <2>2. Stored' /\ RowsKept' /\ InactiveInDb'
    BY <1>2, StoredStep, RowsStep, InactiveStep DEF Books
  <2>3. WholeAtEnd' /\ Untouched' /\ VisitsEnd'
    BY <1>2, WholeStep, UntouchedStep, VisitsEndStep DEF Books
  <2>4. VisitsCounted' /\ MonthClosed' /\ OnlyBadData'
    BY <1>2, VisitsCountedStep, MonthClosedStep, OnlyBadDataStep DEF Books
  <2>. QED
    BY <2>1, <2>2, <2>3, <2>4 DEF Books
<1>. QED
  BY <1>1, <1>2, PTL DEF Spec

(* A node that is not marked as modified is in the database as it is in    *)
(* memory: swap_out and save_state lose nothing by not storing it.         *)
THEOREM NodesStored == Spec => []CleanIsStored
<1>1. TypeOK /\ Books => CleanIsStored
  BY StoredIs DEF Books, Stored
<1>. QED
  BY <1>1, BooksKept, PTL

(* Whenever a run has ended the database is whole: restore_state finds the *)
(* host and the last URL of every active visit.                            *)
THEOREM DatabasesWhole == Spec => []DatabaseWhole
<1>1. Books => DatabaseWhole
  BY DEF Books, WholeAtEnd, Whole, DatabaseWhole
<1>. QED
  BY <1>1, BooksKept, PTL

(* clear_month rolls over a database with no active visits, whichever of   *)
(* its callers asks for it.                                                *)
THEOREM MonthsClosed == Spec => []MonthClosed
<1>1. Books => MonthClosed
  BY DEF Books
<1>. QED
  BY <1>1, BooksKept, PTL

(* Visits that started are over or active, in memory and in the database.  *)
THEOREM VisitsAddUp == Spec => []VisitsCounted
<1>1. Books => VisitsCounted
  BY DEF Books
<1>. QED
  BY <1>1, BooksKept, PTL

(* put_hnode, put_dlnode and save_state never throw; restore_state may.    *)
THEOREM OnlyRestoreThrows == Spec => []OnlyBadData
<1>1. Books => OnlyBadData
  BY DEF Books
<1>. QED
  BY <1>1, BooksKept, PTL
=============================================================================
