----------------------------- MODULE LogRecords -----------------------------
(* The log files of a run, line by line, up to the point where a record is *)
(* counted: webalizer_t reads one record of each file, processes the one   *)
(* with the earliest time stamp, and reads the next from the file it came  *)
(* from. Records in UTC are moved to local time and back, as configured.   *)
EXTENDS LogParser

CONSTANTS
  Setups,   (* the runs: the log type and format, the configuration        *)
            (* (upstream, lower_urls, local_time, utc_offset, dst_offset,  *)
            (* dst_pairs), and the lines of each log file                  *)
  Printed(_, _, _)  (* what a server of a log type prints for a field of a *)
                    (* request                                             *)

VARIABLES
  setup,          (* the run                                               *)
  unread,         (* the lines left in each log file                       *)
  log_rec_fields, (* parser_t::log_rec_fields                              *)
  header,         (* auxiliary: what the last #Fields line had, of any file *)
  iis_tstamp,     (* parser_t::iis_tstamp                                  *)
  lfp_states,     (* the records read but not processed, earliest first;   *)
                  (* own is auxiliary: that header was the record's own    *)
  logfile,        (* the file to read the next record from, or 0           *)
  prepared,       (* the files that prep_lfstates is through with          *)
  dst_iter,       (* the iterator of get_utc_offset                        *)
  last,           (* the last record processed, and its line               *)
  bad,            (* lrcnt.total_bad                                       *)
  ignored         (* lrcnt.total_ignore, here and before the main loop     *)

vars == <<setup, unread, log_rec_fields, header, iis_tstamp, lfp_states, logfile,
          prepared, dst_iter, last, bad, ignored>>

Ranges == DstRanges(setup)

NoLine == [kind |-> "none"]

Init ==
  /\ setup \in Setups
  /\ unread = setup.files
  /\ log_rec_fields = InitialFields(setup.type, setup.format)
  /\ header = <<>>
  /\ iis_tstamp = NullStamp
  /\ lfp_states = <<>>
  /\ logfile = IF Len(setup.files) > 0 THEN 1 ELSE 0
  /\ prepared = 0
  /\ dst_iter = 0
  /\ last = [line |-> NoLine, own |-> FALSE, rec |-> EmptyRecord, given |-> 0]
  /\ bad = 0
  /\ ignored = 0

(* read_log_line ends a file at the zeros that pad a live IIS log.         *)
AtEnd(f) ==
  IF unread[f] = <<>> THEN TRUE
  ELSE setup.type = "iis" /\ Head(unread[f]).kind = "zeros"

(* The next file of prep_lfstates, or, in get_logrec, none: a record that  *)
(* is waiting is processed.                                                *)
NextFile == IF prepared < Len(setup.files) /\ logfile < Len(setup.files) THEN logfile + 1 ELSE 0

FileDone ==
  /\ prepared' = IF prepared < Len(setup.files) THEN logfile ELSE prepared
  /\ logfile' = NextFile

(* A file without more records is closed and leaves the list.              *)
EndOfFile ==
  /\ logfile # 0
  /\ AtEnd(logfile)
  /\ unread' = [unread EXCEPT ![logfile] = <<>>]
  /\ FileDone
  /\ UNCHANGED <<setup, log_rec_fields, header, iis_tstamp, lfp_states, dst_iter, last, bad, ignored>>

Line == Head(unread[logfile])

ReadFrom(kind) ==
  /\ logfile # 0
  /\ ~AtEnd(logfile)
  /\ Line.kind = kind
  /\ unread' = [unread EXCEPT ![logfile] = Tail(@)]

(* A #Fields directive changes the fields of every line from now on.       *)
ReadFields ==
  /\ ReadFrom("fields")
  /\ log_rec_fields' = HeaderFields(Line.fields, setup.upstream)
  /\ header' = Line.fields
  /\ ignored' = ignored + 1
  /\ UNCHANGED <<setup, iis_tstamp, lfp_states, logfile, prepared, dst_iter, last, bad>>

(* A #Date directive, with the end of the line that fgets leaves in it.    *)
ReadDate ==
  /\ ReadFrom("date")
  /\ iis_tstamp' = ParseUtc(Line.text)
  /\ ignored' = ignored + 1
  /\ UNCHANGED <<setup, log_rec_fields, header, lfp_states, logfile, prepared, dst_iter, last, bad>>

(* A line that does not fit into the buffer is skipped.                    *)
ReadLong ==
  /\ ReadFrom("long")
  /\ bad' = bad + 1
  /\ UNCHANGED <<setup, log_rec_fields, header, iis_tstamp, lfp_states, logfile, prepared,
                 dst_iter, last, ignored>>

(* A record goes before the first one that is not earlier. (The variant    *)
(* takes the records of the files in turn.)                                *)
SpotLast(states, rec) == Len(states) + 1

Spot(states, rec) ==
  Min({Len(states) + 1} \cup
      {i \in DOMAIN states : NotBefore(states[i].rec.tstamp, rec.tstamp)})

Values(line) ==
  [i \in DOMAIN line.fields |-> Printed(setup.type, line.fields[i], line.request)]

(* Whether the last header that was read, in whichever file, names what is *)
(* printed in this line                                                    *)
OwnHeader == setup.type \in {"w3c", "iis"} => header = Line.fields

ReadRecord ==
  /\ ReadFrom("record")
  /\ LET p == Parsed(setup.type, log_rec_fields, iis_tstamp, Values(Line), setup)
     IN  IF p.ok
         THEN /\ lfp_states' =
                   InsertAt(lfp_states, Spot(lfp_states, p.rec),
                            [rec |-> p.rec, line |-> Line, file |-> logfile, own |-> OwnHeader])
              /\ FileDone
              /\ UNCHANGED bad
         ELSE /\ bad' = bad + 1
              /\ UNCHANGED <<lfp_states, logfile, prepared>>
  /\ UNCHANGED <<setup, log_rec_fields, header, iis_tstamp, dst_iter, last, ignored>>

(* proc_logfile takes the first record and moves it to the configured      *)
(* time zone, unless it is in a local time already.                        *)
Zoned(s) ==
  IF setup.local_time = ~s.utc THEN s
  ELSE IF setup.local_time THEN ToLocal(s, UtcOffset(setup, Ranges, dst_iter, s))
  ELSE ToUtc(s)

Process ==
  /\ logfile = 0
  /\ lfp_states # <<>>
  /\ LET first == Head(lfp_states)
         s == first.rec.tstamp
     IN  /\ last' = [line |-> first.line, own |-> first.own, given |-> MkTime(s),
                     rec |-> [first.rec EXCEPT !.tstamp = Zoned(s)]]
         /\ dst_iter' = IF setup.local_time /\ s.utc
                        THEN MovedIterator(setup, Ranges, dst_iter, s) ELSE dst_iter
         /\ logfile' = first.file
  /\ lfp_states' = Tail(lfp_states)
  /\ UNCHANGED <<setup, unread, log_rec_fields, header, iis_tstamp, prepared, bad, ignored>>

Done ==
  /\ logfile = 0
  /\ lfp_states = <<>>
  /\ UNCHANGED vars

Next ==
  \/ EndOfFile
  \/ ReadFields
  \/ ReadDate
  \/ ReadLong
  \/ ReadRecord
  \/ Process
  \/ Done

Spec == Init /\ [][Next]_vars
-----------------------------------------------------------------------------

Type == setup.type
Has(ids) == ids \cap Range(last.line.fields) # {}
Read(ids, v, none) == IF Has(ids) THEN v ELSE none

Request == last.line.request

Url(path) ==
  LET n == Changed(Normal, path)
      l == IF setup.lower_urls THEN Changed(Lower, n) ELSE n
  IN  IF Type = "squid" THEN Changed(LowerHost, l) ELSE l

Query(query) ==
  LET n == Changed(Normal, query)
  IN  IF setup.lower_urls THEN Changed(Lower, n) ELSE n

Text(text) == IF text = "-" THEN "" ELSE Changed(Normal, text)

(* The bytes of a request, each counted once: both directions if           *)
(* config.upstream_traffic is set and the line tells both, and those sent  *)
(* otherwise, or as much as the line tells.                                *)
Bytes ==
  LET sent == Has({"eBytesSent"}) received == Has({"eBytesReceived"})
      total == Has({"eBytesTotal"})
  IN  CASE setup.upstream /\ (total \/ (sent /\ received)) -> Request.sent + Request.received
        [] sent                    -> Request.sent
        [] total                   -> Request.sent + Request.received
        [] setup.upstream /\ received -> Request.received
        [] OTHER                   -> 0

Processed == last.line.kind = "record"

(* The last record has what its line says of the request, no amount twice. *)
Recorded ==
  LET rec == last.rec
  IN  /\ rec.hostname = Read({"eClientIpAddress"}, Changed(Lower, Request.host), "")
      /\ rec.ident = Read({"eUserName"}, Text(Request.user), "")
      /\ rec.method = Read({"eHttpMethod", "eHttpRequestLine"}, Request.method, "")
      /\ rec.url = Read({"eUriStem", "eUri", "eHttpRequestLine"}, Url(Request.path), "")
      /\ rec.srchargs = Read({"eUriQuery", "eUri", "eHttpRequestLine"}, Query(Request.query), "")
      /\ rec.refer = Read({"eReferrer"}, Changed(LowerHost, Text(Request.refer)), "")
      /\ rec.xsrchstr = Read({"eReferrer"}, Changed(Normal, Request.refer_query), "")
      /\ rec.agent = Read({"eUserAgent"}, Text(Request.agent), "")
      /\ rec.resp_code = Read({"eHttpStatus"}, Request.status, 0)
      /\ rec.port = Read({"eWebsitePort"}, Request.port, 0)
      /\ rec.xfer_size = Bytes
      /\ rec.proc_time = Read({"eTimeTaken", "eProcTimeMcS"}, Request.msec, 0)

(* A line that a server prints for a request becomes the record of that    *)
(* request, whatever the log type, the order of its fields and the lines   *)
(* before it, if the last header that was read is the one of the line. The *)
(* parser clears nothing between lines but the record. README.md:3290 has  *)
(* a #Fields directive hold for the entries following it; the code reads   *)
(* them in the order of any other file's header that was read in between.  *)
RequestRecorded == Processed /\ last.own => Recorded

(* The offset that is in force, as README.md:1409 has it: "DSTStart is in  *)
(* local time and DSTEnd is in local daylight saving time"; time stamps    *)
(* from DSTStart to before DSTEnd are adjusted by DSTOffset.               *)
StartOf(pair) == MkTime(ParseLocal(pair.start, setup.utc_offset))
EndOf(pair) == MkTime(ParseLocal(pair.end, setup.utc_offset + setup.dst_offset))

Adjusted(t) ==
  \E pair \in Range(setup.dst_pairs) : StartOf(pair) <= t /\ t < EndOf(pair)

(* The code takes DSTEnd for standard time: for as long as the difference, *)
(* daylight saving time goes on.                                           *)
EndedLate(t) ==
  \E pair \in Range(setup.dst_pairs) :
    EndOf(pair) <= t /\ t < EndOf(pair) + setup.dst_offset * 60

MovedToLocal == setup.local_time /\ Type \in {"w3c", "iis", "squid"}

(* The time stamp of a record is the instant of its request, in UTC or     *)
(* with the offset that is in force then, but for the time by which its    *)
(* end is late, which is said as the code has it and not as README.md has. *)
(* The iterator over the ranges, which were given in any order, never      *)
(* looks back, and is at the range that the configuration has for the      *)
(* instant.                                                                *)
TimeIsExact ==
  Processed /\ last.own =>
    LET s == last.rec.tstamp
        daylight == Adjusted(Request.at) \/ EndedLate(Request.at)
    IN  /\ MkTime(s) = Request.at
        /\ s.day \in 1 .. LastMonthDay(s.year, s.month)
        /\ s.utc = ~setup.local_time
        /\ MovedToLocal =>
             s.offset = setup.utc_offset + (IF daylight THEN setup.dst_offset ELSE 0)

(* The records of log files that are each in order are processed in order, *)
(* also if a file changes its offset from UTC on the way. A time that was  *)
(* read by the header of another file is in no order.                      *)
RecordsInOrder ==
  [][Processed /\ last.own /\ last'.own => last'.given >= last.given]_vars
=============================================================================
