------------------------------ MODULE NodeRows ------------------------------
(***************************************************************************)
(* How nodes become rows of the state database and come back: the layouts  *)
(* of all node classes in all versions, the sizes that are computed apart  *)
(* from them, the offsets at which secondary indexes look for their keys,  *)
(* and a table that an older program has filled, that this one adds rows   *)
(* to and reads from one end to the other into one node object.            *)
(*                                                                         *)
(* A row is a sequence of cells, each with the field it holds, the type it *)
(* is stored as and its size in bytes.  Values are abstract: a field of a  *)
(* node has the number of the row that it was read from, or 0 for a value  *)
(* that s_unpack_data gives it when the row has none.                      *)
(***************************************************************************)
EXTENDS Integers, Sequences, FiniteSets, SequencesExt, Functions

CONSTANTS
  Classes,      \* the node classes whose tables are read
  Lengths,      \* lengths of strings
  Stamps,       \* kinds of time stamps: "null", "utc", "local"
  MaxRows       \* rows in a table

VARIABLES
  class,        \* the class of the nodes in the table
  table,        \* its rows, each with the version that wrote it
  node,         \* the node object the rows are read into
  next,         \* the row that the iterator reads next
  reading       \* "no", "yes", "end" (no more rows) or "short" (a row that did not fit)

vars == <<class, table, node, next, reading>>

-----------------------------------------------------------------------------
(* Fields and their sizes, serialize.cpp *)

Cells(type, names) == [i \in 1..Len(names) |-> [type |-> type, name |-> names[i]]]
U8(names)  == Cells("u_char", names)
U16(names) == Cells("u_short", names)
U32(names) == Cells("u_int", names)
U64(names) == Cells("uint64_t", names)
Dbl(names) == Cells("double", names)
Str(names) == Cells("string_t", names)
TS(names)  == Cells("tstamp_t", names)
CC(names)  == Cells("char[2]", names)

(* A field that is passed over, and one that gets a value without being read *)
Skip(type)     == Cells(type, <<"-">>)
Default(names) == Cells("none", names)

(* The bytes of a value; of a string and a time stamp they depend on it *)
s_size_of(type, length, stamp) ==
  CASE type = "u_char"   -> 1
    [] type = "u_short"  -> 2
    [] type = "char[2]"  -> 2
    [] type = "u_int"    -> 4
    [] type = "uint64_t" -> 8
    [] type = "double"   -> 8
    [] type = "string_t" -> 4 + length
    [] type = "tstamp_t" -> CASE stamp = "null"  -> 1
                              [] stamp = "utc"   -> 1 + 1 + 2 + 5
                              [] stamp = "local" -> 1 + 1 + 2 + 5 + 2

(* What all rows begin with: the version, and in most classes a type and a name *)
Version  == U16(<<"version">>)
BaseNode == Version \o U8(<<"flag">>) \o Str(<<"string">>)

(* s_data_size() of a node: the bytes of fixed fields and those of others *)
Sized(bytes, strings, stamps, length, stamp) ==
  bytes + strings * s_size_of("string_t", length, stamp) + stamps * s_size_of("tstamp_t", length, stamp)

-----------------------------------------------------------------------------
(* Layouts.  For each class: what s_pack_data writes, what s_data_size()    *)
(* reserves for it, and what s_unpack_data does with a row of version v.    *)

hnode_pack ==
  BaseNode \o U8(<<"spammer">>) \o U64(<<"count", "files", "pages", "xfer", "visits">>) \o Dbl(<<"visit_avg">>)
  \o U64(<<"visit_max", "max_v_hits", "max_v_files", "max_v_pages", "max_v_xfer">>) \o U8(<<"active">>)
  \o U64(<<"hash">>) \o Str(<<"name">>) \o CC(<<"ccode">>) \o U8(<<"robot">>) \o U64(<<"visits_conv">>)
  \o TS(<<"tstamp">>) \o Str(<<"city">>) \o Dbl(<<"latitude", "longitude">>) \o U32(<<"geoname_id", "as_num">>)
  \o Str(<<"as_org">>)

hnode_size(l, s) == Sized((2 + 1) + 3 * 1 + 3 * 8 + 3 * 8 + 3 * 8 + 8 + 8 + 2 * 8 + 2 + 2 * 8 + 4 + 4, 4, 1, l, s)

(* Variant for mutation: the two numbers at the end change places *)
SwappedTail(v) ==
  (IF v >= 7 THEN Dbl(<<"latitude", "longitude">>) ELSE <<>>)
  \o (IF v >= 9 THEN U32(<<"as_num", "geoname_id">>) \o Str(<<"as_org">>) ELSE Default(<<"geoname_id", "as_num", "as_org">>))

HnodeTail(v) ==
  (IF v >= 7 THEN Dbl(<<"latitude", "longitude">>) ELSE <<>>)
  \o (IF v >= 8 THEN U32(<<"geoname_id">>) ELSE Default(<<"geoname_id">>))
  \o (IF v >= 9 THEN U32(<<"as_num">>) \o Str(<<"as_org">>) ELSE Default(<<"as_num", "as_org">>))

hnode_unpack(v) ==
  BaseNode \o U8(<<"spammer">>) \o U64(<<"count", "files", "pages", "xfer", "visits">>) \o Dbl(<<"visit_avg">>)
  \o U64(<<"visit_max", "max_v_hits", "max_v_files", "max_v_pages", "max_v_xfer">>) \o U8(<<"active">>)
  \o Skip("uint64_t") \o Str(<<"name">>) \o CC(<<"ccode">>)
  \o (IF v >= 2 THEN U8(<<"robot">>) ELSE Default(<<"robot">>))
  \o (IF v >= 3 THEN U64(<<"visits_conv">>) ELSE Default(<<"visits_conv">>))
  \o (IF v >= 5 THEN TS(<<"tstamp">>) ELSE IF v = 4 THEN U64(<<"tstamp">>) ELSE Default(<<"tstamp">>))
  \o (IF v >= 6 THEN Str(<<"city">>) ELSE Default(<<"city">>))
  \o HnodeTail(v)

unode_pack ==
  BaseNode \o U8(<<"hexenc", "urltype">>) \o U16(<<"pathlen">>) \o U64(<<"count", "files", "entry", "exit", "xfer">>)
  \o Dbl(<<"avgtime">>) \o U64(<<"hash">>) \o Dbl(<<"maxtime">>) \o U8(<<"target">>)

unode_size(l, s) == Sized((2 + 1) + 3 * 1 + 2 + 5 * 8 + 2 * 8 + 8, 1, 0, l, s)

unode_unpack(v) ==
  BaseNode \o Skip("u_char") \o U8(<<"urltype">>) \o U16(<<"pathlen">>) \o U64(<<"count", "files", "entry", "exit", "xfer">>)
  \o Dbl(<<"avgtime">>) \o Skip("uint64_t")
  \o (IF v >= 2 THEN Dbl(<<"maxtime">>) ELSE Default(<<"maxtime">>))
  \o (IF v >= 3 THEN U8(<<"target">>) ELSE Default(<<"target">>))

dlnode_pack ==
  Version \o U8(<<"type">>) \o Str(<<"name">>) \o U64(<<"count", "sumhits", "sumxfer">>)
  \o Dbl(<<"avgxfer", "avgtime", "sumtime">>) \o U64(<<"hash">>) \o U8(<<"active">>) \o U64(<<"hostid">>)

dlnode_size(l, s) == Sized(2 + 1 + 2 * 8 + 3 * 8 + 8 + 8 + 1 + 8, 1, 0, l, s)

dlnode_unpack(v) ==
  Version \o Skip("u_char") \o Str(<<"name">>) \o U64(<<"count", "sumhits", "sumxfer">>)
  \o Dbl(<<"avgxfer", "avgtime", "sumtime">>) \o Skip("uint64_t") \o U8(<<"active">>) \o U64(<<"hostid">>)

danode_pack == Version \o U64(<<"hits">>) \o TS(<<"tstamp">>) \o U64(<<"proctime", "xfer">>)
danode_size(l, s) == Sized(2 + 3 * 8, 0, 1, l, s)
danode_unpack(v) ==
  Version \o U64(<<"hits">>) \o (IF v >= 2 THEN TS(<<"tstamp">>) ELSE U64(<<"tstamp">>)) \o U64(<<"proctime", "xfer">>)

vnode_pack ==
  Version \o U8(<<"entry_url">>) \o TS(<<"start", "end">>) \o U64(<<"hits", "files", "pages", "xfer", "lasturl">>)
  \o U8(<<"robot", "converted">>)
vnode_size(l, s) == Sized(2 + 3 * 1 + 3 * 8 + 8 + 8, 0, 2, l, s)
vnode_unpack(v) ==
  Version \o U8(<<"entry_url">>) \o (IF v >= 4 THEN TS(<<"start", "end">>) ELSE U64(<<"start", "end">>))
  \o U64(<<"hits", "files", "pages", "xfer", "lasturl">>)
  \o (IF v >= 2 THEN U8(<<"robot">>) ELSE Default(<<"robot">>))
  \o (IF v >= 3 THEN U8(<<"converted">>) ELSE Default(<<"converted">>))

rnode_pack == BaseNode \o U8(<<"hexenc">>) \o U64(<<"count", "hash", "visits">>)
rnode_size(l, s) == Sized((2 + 1) + 1 + 2 * 8 + 8, 1, 0, l, s)
rnode_unpack(v) ==
  BaseNode \o Skip("u_char") \o U64(<<"count">>) \o Skip("uint64_t")
  \o (IF v >= 2 THEN U64(<<"visits">>) ELSE Default(<<"visits">>))

snode_pack == BaseNode \o U16(<<"termcnt">>) \o U64(<<"count", "hash", "visits">>)
snode_size(l, s) == Sized((2 + 1) + 2 + 3 * 8, 1, 0, l, s)
snode_unpack(v) ==
  BaseNode \o U16(<<"termcnt">>) \o U64(<<"count">>) \o Skip("uint64_t")
  \o (IF v >= 2 THEN U64(<<"visits">>) ELSE Default(<<"visits">>))

inode_pack ==
  BaseNode \o U64(<<"count", "files", "visit">>) \o TS(<<"tstamp">>) \o U64(<<"xfer", "hash">>) \o Dbl(<<"avgtime", "maxtime">>)
inode_size(l, s) == Sized((2 + 1) + 3 * 8 + 8 + 2 * 8 + 8, 1, 1, l, s)
inode_unpack(v) ==
  BaseNode \o U64(<<"count", "files", "visit">>) \o (IF v >= 3 THEN TS(<<"tstamp">>) ELSE U64(<<"tstamp">>))
  \o U64(<<"xfer">>) \o Skip("uint64_t")
  \o (IF v >= 2 THEN Dbl(<<"avgtime", "maxtime">>) ELSE Default(<<"avgtime", "maxtime">>))

anode_pack == BaseNode \o U64(<<"count", "visits", "hash">>) \o U8(<<"robot">>) \o U64(<<"xfer">>)
anode_size(l, s) == Sized((2 + 1) + 3 * 8 + 1 + 8, 1, 0, l, s)
anode_unpack(v) ==
  BaseNode \o U64(<<"count", "visits">>) \o Skip("uint64_t")
  \o (IF v >= 2 THEN U8(<<"robot">>) ELSE Default(<<"robot">>))
  \o (IF v >= 3 THEN U64(<<"xfer">>) ELSE Default(<<"xfer">>))

rcnode_pack ==
  Version \o U8(<<"type">>) \o Str(<<"url">>) \o U8(<<"hexenc">>) \o U16(<<"respcode">>) \o U64(<<"count">>)
  \o Str(<<"method">>) \o U64(<<"hash">>)
rcnode_size(l, s) == Sized(2 + 1 + 1 + 2 + 2 * 8, 2, 0, l, s)
rcnode_unpack(v) ==
  Version \o Skip("u_char") \o Str(<<"url">>) \o Skip("u_char") \o U16(<<"respcode">>) \o U64(<<"count">>)
  \o Str(<<"method">>) \o Skip("uint64_t")

(* The status code table had no version at first: its rows tell by their size *)
scnode_pack == Version \o U64(<<"count">>) \o U8(<<"v2pad">>)
scnode_size(l, s) == Sized(2 + 8 + 1, 0, 0, l, s)
scnode_unpack(v) == Version \o U64(<<"count">>) \o (IF v >= 2 THEN U8(<<"v2pad">>) ELSE <<>>)

ccnode_pack == Version \o U64(<<"count", "files", "xfer", "visits">>) \o Str(<<"ccode">>) \o U64(<<"pages">>)
ccnode_size(l, s) == Sized(2 + 3 * 8 + 8 + 8, 1, 0, l, s)
ccnode_unpack(v) ==
  Version \o U64(<<"count", "files", "xfer", "visits">>)
  \o (IF v >= 2 THEN Str(<<"ccode">>) ELSE Default(<<"ccode">>))
  \o (IF v >= 3 THEN U64(<<"pages">>) ELSE Default(<<"pages">>))

ctnode_pack == Version \o U64(<<"hits", "files", "pages", "visits", "xfer">>) \o Str(<<"ccode", "city">>)
ctnode_size(l, s) == Sized(2 + 3 * 8 + 8 + 8, 2, 0, l, s)
ctnode_unpack(v) == Version \o U64(<<"hits", "files", "pages", "visits", "xfer">>) \o Str(<<"ccode", "city">>)

asnode_pack == Version \o U64(<<"hits", "files", "pages", "visits", "xfer">>) \o Str(<<"as_org">>)
asnode_size(l, s) == Sized(2 + 5 * 8, 1, 0, l, s)
asnode_unpack(v) == Version \o U64(<<"hits", "files", "pages", "visits", "xfer">>) \o Str(<<"as_org">>)

hourly_pack == Version \o U64(<<"th_hits", "th_files", "th_pages", "th_xfer">>)
hourly_size(l, s) == Sized(2 + 3 * 8 + 8, 0, 0, l, s)
hourly_unpack(v) == Version \o U64(<<"th_hits", "th_files", "th_pages", "th_xfer">>)

daily_pack ==
  Version \o U64(<<"tm_hits", "tm_files", "tm_pages", "tm_hosts", "tm_visits", "tm_xfer", "h_hits_max", "h_files_max",
                   "h_pages_max", "h_xfer_max", "h_visits_max", "h_hosts_max">>)
  \o Dbl(<<"h_hits_avg", "h_files_avg", "h_pages_avg", "h_xfer_avg", "h_visits_avg", "h_hosts_avg">>) \o U16(<<"td_hours">>)
daily_size(l, s) == Sized(2 + 10 * 8 + 6 * 8 + 8 + 8 + 2, 0, 0, l, s)
daily_unpack(v) ==
  Version \o U64(<<"tm_hits", "tm_files", "tm_pages", "tm_hosts", "tm_visits", "tm_xfer">>)
  \o (IF v >= 2
      THEN U64(<<"h_hits_max", "h_files_max", "h_pages_max", "h_xfer_max", "h_visits_max", "h_hosts_max">>)
           \o Dbl(<<"h_hits_avg", "h_files_avg", "h_pages_avg", "h_xfer_avg", "h_visits_avg", "h_hosts_avg">>)
           \o U16(<<"td_hours">>)
      ELSE Default(<<"h_hits_max", "h_files_max", "h_pages_max", "h_visits_max", "h_hits_avg", "h_files_avg",
                     "h_pages_avg", "h_visits_avg", "h_xfer_avg", "h_xfer_max", "td_hours">>))

sysnode_pack ==
  Version \o U32(<<"appver">>) \o U8(<<"incremental", "batch">>) \o U32(<<"filepos">>) \o Str(<<"logformat">>)
  \o U8(<<"fixed_dhv">>) \o U16(<<"sizeof_char", "sizeof_short", "sizeof_int", "sizeof_long", "sizeof_double">>)
  \o U32(<<"byte_order", "appver_last">>) \o U8(<<"utc_time">>) \o U16(<<"utc_offset", "sizeof_longlong">>)
  \o U64(<<"byte_order_x64">>)
sysnode_size(l, s) == Sized(2 + 4 + 1 + 1 + 1 + 4 + 5 * 2 + 4 + 4 + 1 + 2 + 2 + 8, 1, 0, l, s)
sysnode_unpack(v) ==
  Version \o U32(<<"appver">>) \o U8(<<"incremental">>)
  \o (IF v >= 2 THEN U8(<<"batch">>) ELSE Default(<<"batch">>))
  \o Skip("u_int") \o Skip("string_t")
  \o (IF v >= 3 THEN U8(<<"fixed_dhv">>) ELSE Default(<<"fixed_dhv">>))
  \o (IF v >= 4 THEN U16(<<"sizeof_char", "sizeof_short", "sizeof_int", "sizeof_long", "sizeof_double">>)
                     \o U32(<<"byte_order", "appver_last">>)
      ELSE Default(<<"sizeof_char", "sizeof_short", "sizeof_int", "sizeof_long", "sizeof_double", "byte_order",
                     "appver_last">>))
  \o (IF v >= 5 THEN U8(<<"utc_time">>) \o U16(<<"utc_offset">>) ELSE <<>>)
  \o (IF v >= 6 THEN U16(<<"sizeof_longlong">>) \o U64(<<"byte_order_x64">>)
      ELSE Default(<<"sizeof_longlong", "byte_order_x64">>))

TotalsHead ==
  U32(<<"f_day", "l_day">>)
  \o U64(<<"max_v_hits", "max_v_files", "max_v_pages", "max_v_xfer", "t_hit", "t_file", "t_page", "t_hosts", "t_url",
           "t_ref", "t_agent", "t_visits", "t_visits_end", "t_user", "t_err", "t_dlcount", "t_srchits", "t_entry",
           "t_exit", "u_entry", "u_exit", "t_xfer">>)
  \o Dbl(<<"t_visit_avg">>) \o U64(<<"t_visit_max">>)
  \o Dbl(<<"a_hitptime", "m_hitptime", "a_fileptime", "m_fileptime", "a_pageptime", "m_pageptime">>)

RobotTotals == <<"t_rhits", "t_rfiles", "t_rpages", "t_rerrors", "t_rvisits", "t_rxfer">>
HourTotals  == <<"ht_files", "ht_pages", "ht_xfer", "ht_visits", "ht_hosts">>
EndedTotals == <<"t_hvisits_end", "t_rvisits_end", "t_svisits_end", "t_search", "t_downloads", "t_grp_hosts",
                 "t_grp_urls", "t_grp_users", "t_grp_refs", "t_grp_agents">>
SpamTotals  == <<"t_shosts", "t_spmhits", "t_sfiles", "t_spages", "t_sxfer", "max_hv_hits", "max_hv_files",
                 "max_hv_pages", "max_hv_xfer">>

totals_pack ==
  Version \o TS(<<"cur_tstamp">>) \o TotalsHead \o U64(<<"ht_hits", "hm_hit">>) \o U64(RobotTotals)
  \o U64(<<"t_visits_conv", "t_hosts_conv", "t_rhosts">>) \o Dbl(<<"t_vconv_avg">>) \o U64(<<"t_vconv_max">>)
  \o U64(HourTotals) \o U64(EndedTotals) \o U64(SpamTotals)

totals_size(l, s) ==
  Sized(2 + 2 * 4 + (3 + 1 + 8 + 5 + 2 + 2 + 1 + 1) * 8 + 8 + 6 * 8 + (2 + 2 + 6 + 1) * 8 + 8
        + (1 + 4 + 1 + 5 + 5 + 1 + 3 + 1 + 3 + 1) * 8, 0, 1, l, s)

totals_unpack(v) ==
  Version \o (IF v >= 6 THEN TS(<<"cur_tstamp">>) ELSE U64(<<"cur_tstamp">>)) \o TotalsHead
  \o (IF v < 7 THEN Skip("uint64_t") ELSE <<>>) \o U64(<<"ht_hits", "hm_hit">>)
  \o (IF v >= 2 THEN U64(RobotTotals) ELSE Default(RobotTotals))
  \o (IF v >= 3 THEN U64(<<"t_visits_conv", "t_hosts_conv", "t_rhosts">>) \o Dbl(<<"t_vconv_avg">>)
                     \o U64(<<"t_vconv_max">>) \o U64(HourTotals)
      ELSE Default(<<"t_visits_conv", "t_hosts_conv", "t_rhosts", "t_vconv_avg", "t_vconv_max">> \o HourTotals))
  \o (IF v >= 4 THEN U64(EndedTotals) ELSE Default(EndedTotals))
  \o (IF v >= 5 THEN U64(SpamTotals) ELSE Default(SpamTotals))

-----------------------------------------------------------------------------
(* The classes by name, hashtab_nodes.cpp *)

__version ==
  [hnode |-> 9, unode |-> 3, rnode |-> 2, anode |-> 3, snode |-> 2, inode |-> 3, vnode |-> 4, rcnode |-> 1, dlnode |-> 1,
   ccnode |-> 3, ctnode |-> 1, asnode |-> 1, totals |-> 7, danode |-> 2, scnode |-> 2, daily |-> 2, hourly |-> 1,
   sysnode |-> 6]

s_pack_data ==
  [hnode |-> hnode_pack, unode |-> unode_pack, rnode |-> rnode_pack, anode |-> anode_pack, snode |-> snode_pack,
   inode |-> inode_pack, vnode |-> vnode_pack, rcnode |-> rcnode_pack, dlnode |-> dlnode_pack, ccnode |-> ccnode_pack,
   ctnode |-> ctnode_pack, asnode |-> asnode_pack, totals |-> totals_pack, danode |-> danode_pack,
   scnode |-> scnode_pack, daily |-> daily_pack, hourly |-> hourly_pack, sysnode |-> sysnode_pack]

s_data_size(l, s) ==
  [hnode |-> hnode_size(l, s), unode |-> unode_size(l, s), rnode |-> rnode_size(l, s), anode |-> anode_size(l, s),
   snode |-> snode_size(l, s), inode |-> inode_size(l, s), vnode |-> vnode_size(l, s), rcnode |-> rcnode_size(l, s),
   dlnode |-> dlnode_size(l, s), ccnode |-> ccnode_size(l, s), ctnode |-> ctnode_size(l, s),
   asnode |-> asnode_size(l, s), totals |-> totals_size(l, s), danode |-> danode_size(l, s),
   scnode |-> scnode_size(l, s), daily |-> daily_size(l, s), hourly |-> hourly_size(l, s), sysnode |-> sysnode_size(l, s)]

s_unpack_data(v) ==
  [hnode |-> hnode_unpack(v), unode |-> unode_unpack(v), rnode |-> rnode_unpack(v), anode |-> anode_unpack(v),
   snode |-> snode_unpack(v), inode |-> inode_unpack(v), vnode |-> vnode_unpack(v), rcnode |-> rcnode_unpack(v),
   dlnode |-> dlnode_unpack(v), ccnode |-> ccnode_unpack(v), ctnode |-> ctnode_unpack(v), asnode |-> asnode_unpack(v),
   totals |-> totals_unpack(v), danode |-> danode_unpack(v), scnode |-> scnode_unpack(v), daily |-> daily_unpack(v),
   hourly |-> hourly_unpack(v), sysnode |-> sysnode_unpack(v)]

-----------------------------------------------------------------------------
(* Rows *)

Bytes(cells, row) == FoldSeq(LAMBDA c, n : n + s_size_of(c.type, row.length, row.stamp), 0, cells)

Stored(cells) == SelectSeq(cells, LAMBDA c : c.type # "none")

(* The cells of a row: those of this program as it packs them, those of an
   older one as this one reads them, which is all that is left of it *)
Row(c, row) ==
  CASE row.version = __version[c] -> s_pack_data[c]
    [] c = "scnode" /\ row.version = 1 -> U64(<<"count">>) \o U16(<<"-">>)
    [] OTHER -> Stored(s_unpack_data(row.version)[c])

(* The first row of status codes begins with the count *)
Unpack(c, row) ==
  IF c = "scnode" /\ row.version = 1 THEN U64(<<"count">>) ELSE s_unpack_data(row.version)[c]

(* How many cells s_unpack_data reads before it finds one of another type *)
InStep(c, row) ==
  LET reads == Stored(Unpack(c, row))
      cells == Row(c, row)
      ok(n) == n <= Len(cells) /\ \A i \in 1..n : reads[i].type = cells[i].type
  IN CHOOSE n \in 0..Len(reads) : ok(n) /\ (n < Len(reads) => ~ok(n + 1))

(* What the fields of the row are worth after s_unpack_data: the row's number
   if each came from its own cell, -1 if from another *)
Values(c, row, id) ==
  LET reads == Stored(Unpack(c, row))
      cells == Row(c, row)
      n     == InStep(c, row)
      read  == {i \in 1..n : reads[i].name # "-"}
  IN [f \in {reads[i].name : i \in read} |->
        IF \A i \in read : reads[i].name = f => cells[i].name = f THEN id ELSE -1]

Zeros(c, row) ==
  [f \in {x.name : x \in {y \in ToSet(Unpack(c, row)) : y.type = "none"}} |-> 0]

NodeFields(c) == {x.name : x \in ToSet(s_unpack_data(__version[c])[c])} \ {"-"}

NewNode(c) == [f \in NodeFields(c) |-> 0]

-----------------------------------------------------------------------------
(* Where secondary indexes, and look-ups by value, find a field in a row     *)

Base(row)  == 2 + 1 + s_size_of("string_t", row.length, row.stamp)
After(types, row) == FoldSeq(LAMBDA t, n : n + s_size_of(t, row.length, row.stamp), 2, types)

hnode_fields(row) ==
  [hash  |-> Base(row) + 2 * 1 + 3 * 8 + 2 * 8 + 3 * 8 + 8 + 2 * 8,
   xfer  |-> Base(row) + 1 + 3 * 8,
   count |-> Base(row) + 1]

unode_fields(row) ==
  [hash  |-> Base(row) + 2 * 1 + 2 + 4 * 8 + 8 + 8,
   xfer  |-> Base(row) + 2 * 1 + 2 + 4 * 8,
   count |-> Base(row) + 2 * 1 + 2,
   entry |-> Base(row) + 2 * 1 + 2 + 2 * 8,
   exit  |-> Base(row) + 2 * 1 + 2 + 3 * 8]

dlnode_fields(row) ==
  [hash   |-> After(<<"u_char", "string_t", "uint64_t", "uint64_t", "uint64_t", "double", "double", "double">>, row),
   sumxfer |-> After(<<"u_char", "string_t", "uint64_t", "uint64_t">>, row),
   hostid |-> After(<<"u_char", "string_t", "uint64_t", "uint64_t", "uint64_t", "double", "double", "double",
                      "uint64_t", "u_char">>, row)]

rcnode_fields(row) ==
  [hash     |-> After(<<"u_char", "string_t", "u_char", "u_short", "uint64_t", "string_t">>, row),
   count    |-> After(<<"u_char", "string_t", "u_char", "u_short">>, row),
   respcode |-> After(<<"u_char", "string_t", "u_char">>, row),
   method   |-> After(<<"u_char", "string_t", "u_char", "u_short", "uint64_t">>, row)]

rnode_fields(row) == [hash |-> Base(row) + 1 + 8, count |-> Base(row)]
snode_fields(row) == [hash |-> Base(row) + 2 + 8, count |-> Base(row) + 2]
anode_fields(row) == [hash |-> Base(row) + 2 * 8, count |-> Base(row), visits |-> Base(row) + 8]

(* Variant for mutation: the time stamp of a user still has eight bytes *)
FixedStamp(row) == [hash |-> Base(row) + 3 * 8 + 8 + 8, count |-> Base(row)]

inode_fields(row) ==
  [hash  |-> Base(row) + 3 * 8 + s_size_of(IF row.version >= 3 THEN "tstamp_t" ELSE "uint64_t", row.length, row.stamp) + 8,
   count |-> Base(row)]

ccnode_fields(row) == [visits |-> 2 + 3 * 8]
ctnode_fields(row) == [visits |-> 2 + 3 * 8]
asnode_fields(row) == [visits |-> 2 + 8 + 8 + 8]

s_field(c, row) ==
  CASE c = "hnode"  -> hnode_fields(row)  [] c = "unode"  -> unode_fields(row)  [] c = "dlnode" -> dlnode_fields(row)
    [] c = "rcnode" -> rcnode_fields(row) [] c = "rnode"  -> rnode_fields(row)  [] c = "snode"  -> snode_fields(row)
    [] c = "anode"  -> anode_fields(row)  [] c = "inode"  -> inode_fields(row)  [] c = "ccnode" -> ccnode_fields(row)
    [] c = "ctnode" -> ctnode_fields(row) [] c = "asnode" -> asnode_fields(row) [] OTHER -> <<>>

-----------------------------------------------------------------------------
(* A table.  Totals are read by their keys, each into a node of its own;    *)
(* the others by an iterator, all into one node.                            *)

ByKey == {"totals", "daily", "hourly", "sysnode", "scnode"}

Rows(c) == [version : 1..__version[c], length : Lengths, stamp : Stamps]

Init ==
  /\ class \in Classes
  /\ table = <<>>
  /\ node = NewNode(class)
  /\ next = 1
  /\ reading = "no"

(* An older program adds a row to a table that this one has not written to *)
OldProgramPuts(row) ==
  /\ reading = "no" /\ Len(table) < MaxRows
  /\ row.version < __version[class]
  /\ \A i \in DOMAIN table : table[i].version <= row.version
  /\ table' = Append(table, row)
  /\ UNCHANGED <<class, node, next, reading>>

(* table_t::put_node adds a row, or writes one again that an older program has
   left; the data must have exactly the size computed for it *)
put_node(row) ==
  /\ reading = "no"
  /\ row.version = __version[class]
  /\ Bytes(s_pack_data[class], row) = s_data_size(row.length, row.stamp)[class]
  /\ \/ /\ Len(table) < MaxRows
        /\ table' = Append(table, row)
     \/ \E i \in DOMAIN table : table' = [table EXCEPT ![i] = row]
  /\ UNCHANGED <<class, node, next, reading>>

begin ==
  /\ reading = "no" /\ table # <<>>
  /\ reading' = "yes"
  /\ UNCHANGED <<class, table, node, next>>

(* iterator::next and get_node_by_id: the data must be read to its end *)
next_node ==
  /\ reading = "yes" /\ next <= Len(table)
  /\ LET row  == table[next]
         seen == Values(class, row, next) @@ Zeros(class, row)
         fits == Bytes(SubSeq(Stored(Unpack(class, row)), 1, InStep(class, row)), row) = Bytes(Row(class, row), row)
     IN /\ node' = seen @@ (IF class \in ByKey THEN NewNode(class) ELSE node)
        /\ reading' = IF fits THEN "yes" ELSE "short"
  /\ next' = next + 1
  /\ UNCHANGED <<class, table>>

end_of_table ==
  /\ reading = "yes" /\ next > Len(table)
  /\ reading' = "end"
  /\ UNCHANGED <<class, table, node, next>>

Next ==
  \/ \E row \in Rows(class) : OldProgramPuts(row) \/ put_node(row)
  \/ begin
  \/ next_node
  \/ end_of_table

Spec == Init /\ [][Next]_vars

-----------------------------------------------------------------------------
(* Properties *)

ReadRow == table[next - 1]

(* Every row that was put can be read, by this version of the program and the
   ones after it: s_pack_data, s_data_size and s_unpack_data, which are written
   apart for every class, agree for all lengths and versions, no field takes the
   place of another, and reading goes on to the last row.  Only the first rows
   of status codes do not end where they should, which restore_state ignores;
   only the coordinates of a host may be left from another row. *)
RowsReadBack ==
  /\ \A row \in Rows(class) : row.version = __version[class] =>
       Bytes(s_pack_data[class], row) = s_data_size(row.length, row.stamp)[class]
  /\ reading = "short" => class = "scnode" /\ ReadRow.version = 1
  /\ next > 1 =>
       /\ \A c \in ToSet(Row(class, ReadRow)) : c.name \in DOMAIN node => node[c.name] = next - 1
       /\ \A f \in DOMAIN node : node[f] \notin {0, next - 1} =>
            class = "hnode" /\ ReadRow.version < 7 /\ f \in {"latitude", "longitude"}

(* The keys of secondary indexes are the fields they are named after, and a node
   is compared with the fields that identify it, in rows of every version.  The
   hits of a referrer are looked for one byte before they begin: in a row of this
   program the byte is zero, so that the order of the index is still that of the
   hits. *)
IndexKeysAreFields ==
  \A i \in DOMAIN table :
    LET row    == table[i]
        cells  == Row(class, row)
        offset == s_field(class, row)
    IN \A f \in DOMAIN offset :
         LET at == IF class = "rnode" /\ f = "count" THEN offset[f] + 1 ELSE offset[f]
             skipped == {j \in DOMAIN cells : Bytes(SubSeq(cells, 1, j - 1), row) = at}
         IN \E j \in skipped : cells[j].name = f \/ (f = "hash" /\ cells[j] = Skip("uint64_t")[1])
=============================================================================
