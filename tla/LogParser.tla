------------------------------ MODULE LogParser ------------------------------
(* parser_t: log lines become log records. A line is the sequence of its   *)
(* printed values, which fmt_logrec found between the delimiters; a value  *)
(* is a text ("-" stands for none), a number, a time or a URL with its     *)
(* query. One parser serves all log files of a run: the fields and the     *)
(* date that a W3C header sets stay until the next header, whichever file  *)
(* that comes from.                                                        *)
EXTENDS TimeStamps

CONSTANTS
  Normal,     (* norm_url_str, as a function of the texts that it changes  *)
  Lower,      (* string_t::tolower, likewise                               *)
  LowerHost   (* the same of the scheme and the host of a URL              *)

Changed(f, text) == IF text \in DOMAIN f THEN f[text] ELSE text

EmptyRecord ==
  [hostname |-> "", method |-> "", url |-> "", refer |-> "", agent |-> "",
   srchargs |-> "", ident |-> "", xsrchstr |-> "",
   tstamp |-> NullStamp, resp_code |-> 0, xfer_size |-> 0, proc_time |-> 0, port |-> 0]

(* What parse_record_w3c keeps in local variables until the end of a line  *)
NoDateTime == [date |-> <<>>, time |-> <<>>]

(* A record under way: ok turns false where the code returns               *)
(* PARSE_CODE_ERROR.                                                       *)
Start == [ok |-> TRUE, rec |-> EmptyRecord, dt |-> NoDateTime]

Failed(st) == [st EXCEPT !.ok = FALSE]

With(st, name, v) == [st EXCEPT !.rec[name] = v]

-----------------------------------------------------------------------------
(* Formats                                                                 *)

(* parse_apache_log_format: a directive is a letter and the text in        *)
(* braces, if any. A %{format}t makes the whole format unsupported.        *)
ApacheField ==
  [a |-> "eClientIpAddress", h |-> "eClientIpAddress", l |-> "eRemoteLoginName",
   u |-> "eUserName", t |-> "eClfTime", r |-> "eHttpRequestLine", s |-> "eHttpStatus",
   b |-> "eBytesSent", B |-> "eBytesSent", O |-> "eBytesSent", T |-> "eProcTimeS",
   D |-> "eProcTimeMcS", A |-> "eWebsiteIpAddress", p |-> "eWebsitePort",
   m |-> "eHttpMethod", U |-> "eUriStem", q |-> "eUriQuery", I |-> "eBytesReceived",
   v |-> "eWebsiteName", V |-> "eWebsiteName"]

HeaderField == [Referer |-> "eReferrer", UserAgent |-> "eUserAgent"]

FieldOf(f, name) == IF name \in DOMAIN f THEN f[name] ELSE "eUnknown"

ApacheFields(format) ==
  IF \E i \in DOMAIN format : format[i].letter = "t" /\ format[i].param # "" THEN <<>>
  ELSE [i \in DOMAIN format |->
          IF format[i].letter = "i" THEN FieldOf(HeaderField, format[i].param)
          ELSE FieldOf(ApacheField, format[i].letter)]

(* parse_nginx_log_format: a word without a dollar sign stands for itself. *)
NginxField ==
  [time_iso8601 |-> "eISOLocalTime", time_local |-> "eClfTime",
   remote_addr |-> "eClientIpAddress", remote_user |-> "eUserName",
   server_port |-> "eWebsitePort", request_method |-> "eHttpMethod",
   request_uri |-> "eUri", uri |-> "eUriStem", args |-> "eUriQuery",
   query_string |-> "eUriQuery", status |-> "eHttpStatus",
   request_length |-> "eBytesReceived", bytes_received |-> "eBytesReceived",
   bytes_sent |-> "eBytesSent", request_time |-> "eTimeTaken",
   http_user_agent |-> "eUserAgent", http_referer |-> "eReferrer",
   request |-> "eHttpRequestLine"]

NginxFields(format) == [i \in DOMAIN format |-> FieldOf(NginxField, format[i])]

(* init_parser: the fields of the configured format. W3C files bring       *)
(* theirs, and those of CLF and Squid are fixed.                           *)
ClfFields ==
  <<"eClientIpAddress", "eRemoteLoginName", "eUserName", "eClfTime",
    "eHttpRequestLine", "eHttpStatus", "eBytesSent", "eReferrer", "eUserAgent">>

SquidFields ==
  <<"eTime", "eTimeTaken", "eClientIpAddress", "eHttpStatus", "eBytesSent",
    "eHttpMethod", "eUri", "eUserName", "eUnknown", "eUnknown">>

InitialFields(type, format) ==
  CASE type = "apache" -> ApacheFields(format)
    [] type = "nginx"  -> NginxFields(format)
    [] type = "clf"    -> ClfFields
    [] type = "squid"  -> SquidFields
    [] OTHER           -> <<>>

(* parse_w3c_log_directive, #Fields: transfer amounts must not be counted  *)
(* twice, so all but one of them, or but two, are read as unknown. (The    *)
(* variant keeps the received amount beside the total.)                    *)
IgnoredKeepsReceived(b, cs, sc, upstream) ==
  {p \in {b} : sc # 0 /\ ~upstream}
    \cup {p \in {cs} : sc # 0 /\ ~upstream}
    \cup {p \in {sc} : b # 0 /\ upstream}

Ignored(b, cs, sc, upstream) ==
  {p \in {b} : sc # 0 /\ ~upstream}
    \cup {p \in {cs} : b # 0 \/ (sc # 0 /\ ~upstream)}
    \cup {p \in {sc} : b # 0 /\ upstream}

HeaderFields(ids, upstream) ==
  LET At(id) == Max({0} \cup {i \in DOMAIN ids : ids[i] = id})
      out == Ignored(At("eBytesTotal"), At("eBytesReceived"), At("eBytesSent"), upstream)
  IN  [i \in DOMAIN ids |-> IF i \in out THEN "eUnknown" ELSE ids[i]]

-----------------------------------------------------------------------------
(* Fields                                                                  *)

(* parse_clf_tstamp: C divides towards zero.                               *)
Quotient(a, b)  == IF a < 0 THEN -((-a) \div b) ELSE a \div b
Remainder(a, b) == a - b * Quotient(a, b)

ClfStamp(v) ==
  LocalStamp(v.year, v.month, v.day, v.hour, v.min, v.sec,
             Quotient(v.hhmm, 100) * 60 + Remainder(v.hhmm, 100))

ClfStampOk(v) ==
  /\ v.month \in 1 .. 12 /\ v.year >= 1900
  /\ v.hour <= 23 /\ v.min <= 59 /\ v.sec <= 59

ClfTimeTaken(st, v) ==
  IF ClfStampOk(v) THEN With(st, "tstamp", ClfStamp(v)) ELSE Failed(st)

(* parse_http_req_line                                                     *)
RequestTaken(st, v) ==
  IF v.method = "" \/ v.path = "" THEN Failed(st)
  ELSE [st EXCEPT !.rec.method = v.method, !.rec.url = v.path,
                  !.rec.srchargs = v.query]

TextName ==
  [eClientIpAddress |-> "hostname", eUserName |-> "ident", eHttpMethod |-> "method",
   eUriStem |-> "url", eUriQuery |-> "srchargs", eUserAgent |-> "agent"]

(* A single minus sign stands for an empty field where one may be empty.   *)
MayBeEmpty == {"eUserName", "eUriQuery", "eUserAgent"}

TextTaken(st, field, v, empty) ==
  IF v = "-" /\ field \in empty THEN st ELSE With(st, TextName[field], v)

ReferrerTaken(st, v) ==
  IF v.path = "-" THEN st
  ELSE [st EXCEPT !.rec.refer = v.path, !.rec.xsrchstr = v.query]

Added(st, bytes) == [st EXCEPT !.rec.xfer_size = @ + bytes]

-----------------------------------------------------------------------------
(* One field of a line, by log type: the switch of each handler. Times     *)
(* are in milliseconds where seconds have a fraction.                      *)

W3cTaken(st, field, v) ==
  CASE field = "eDate"            -> [st EXCEPT !.dt.date = v]
    [] field = "eTime"            -> [st EXCEPT !.dt.time = v]
    [] field \in DOMAIN TextName  -> TextTaken(st, field, v, MayBeEmpty)
    [] field = "eWebsitePort"     -> With(st, "port", v)
    [] field = "eHttpStatus"      -> With(st, "resp_code", v)
    [] field \in {"eBytesReceived", "eBytesSent", "eBytesTotal"} -> Added(st, v)
    [] field = "eTimeTaken"       -> With(st, "proc_time", v)
    [] field = "eReferrer"        -> ReferrerTaken(st, v)
    [] OTHER                      -> st

ApacheTaken(st, field, v, upstream) ==
  CASE field = "eClfTime"         -> ClfTimeTaken(st, v)
    [] field = "eHttpRequestLine" -> RequestTaken(st, v)
    [] field \in DOMAIN TextName  -> TextTaken(st, field, v, MayBeEmpty)
    [] field = "eWebsitePort"     -> With(st, "port", v)
    [] field = "eHttpStatus"      -> With(st, "resp_code", v)
    [] field = "eBytesSent"       -> Added(st, v)
    [] field = "eBytesReceived"   -> IF upstream THEN Added(st, v) ELSE st
    [] field = "eProcTimeMcS"     -> With(st, "proc_time", (v + 500) \div 1000)
    [] field = "eProcTimeS"       -> With(st, "proc_time", v * 1000)
    [] field = "eReferrer"        -> ReferrerTaken(st, v)
    [] OTHER                      -> st

(* parse_record_nginx: a plus sign before the offset is read, and then     *)
(* looked for again; a minus sign is read and forgotten. The query of a    *)
(* complete URI is left out, and a referrer keeps its query.               *)
IsoTimeTaken(st, v) ==
  IF v.sign # "-" THEN Failed(st)
  ELSE With(st, "tstamp", LocalStamp(v.year, v.month, v.day, v.hour, v.min, v.sec,
                                     v.of_hour * 60 + v.of_min))

NginxTaken(st, field, v, upstream) ==
  CASE field = "eISOLocalTime"    -> IsoTimeTaken(st, v)
    [] field = "eClfTime"         -> ClfTimeTaken(st, v)
    [] field = "eHttpRequestLine" -> RequestTaken(st, v)
    [] field = "eUri"             -> With(st, "url", v.path)
    [] field \in DOMAIN TextName  -> TextTaken(st, field, v, MayBeEmpty \cup {"eClientIpAddress", "eHttpMethod"})
    [] field = "eWebsitePort"     -> With(st, "port", v)
    [] field = "eHttpStatus"      -> With(st, "resp_code", v)
    [] field = "eBytesSent"       -> Added(st, v)
    [] field = "eBytesReceived"   -> IF upstream THEN Added(st, v) ELSE st
    [] field = "eTimeTaken"       -> With(st, "proc_time", v)
    [] field = "eReferrer"        ->
         IF v.path = "-" THEN st
         ELSE With(st, "refer", IF v.query = "" THEN v.path ELSE v.path \o "?" \o v.query)
    [] OTHER                      -> st

(* parse_record_squid: the host is the third field, and so on              *)
SquidTaken(st, field, v) ==
  CASE field = "eTime"            -> With(st, "tstamp", StampUtc(v))
    [] field = "eTimeTaken"       -> With(st, "proc_time", v)
    [] field = "eHttpStatus"      -> With(st, "resp_code", v)
    [] field = "eBytesSent"       -> With(st, "xfer_size", v)
    [] field = "eUri"             -> [st EXCEPT !.rec.url = v.path, !.rec.srchargs = v.query]
    [] field \in DOMAIN TextName  -> TextTaken(st, field, v, MayBeEmpty)
    [] OTHER                      -> st

(* parse_record_clf: the identity is skipped, and a line may end after     *)
(* the size.                                                               *)
ClfTaken(st, field, v) ==
  CASE field = "eClfTime"         -> ClfTimeTaken(st, v)
    [] field = "eHttpRequestLine" -> RequestTaken(st, v)
    [] field \in DOMAIN TextName  -> TextTaken(st, field, v, MayBeEmpty)
    [] field = "eHttpStatus"      -> With(st, "resp_code", v)
    [] field = "eBytesSent"       -> With(st, "xfer_size", v)
    [] field = "eReferrer"        -> ReferrerTaken(st, v)
    [] OTHER                      -> st

Taken(type, st, field, v, upstream) ==
  CASE type \in {"w3c", "iis"} -> W3cTaken(st, field, v)
    [] type = "apache"         -> ApacheTaken(st, field, v, upstream)
    [] type = "nginx"          -> NginxTaken(st, field, v, upstream)
    [] type = "squid"          -> SquidTaken(st, field, v)
    [] type = "clf"            -> ClfTaken(st, field, v)

-----------------------------------------------------------------------------
(* Lines                                                                   *)

(* fmt_logrec, which finds as many fields as the format has, no more and   *)
(* no less.                                                                *)
FieldsFound(type, fields, values) ==
  IF type = "clf" THEN Len(values) \in {7, 9}
  ELSE fields # <<>> /\ Len(values) = Len(fields)

(* A W3C record without a date has that of the header.                     *)
W3cStamp(st, header_date) ==
  LET date == IF st.dt.date # <<>> THEN st.dt.date
              ELSE <<header_date.year, header_date.month, header_date.day>>
      time == st.dt.time
  IN  IF time = <<>> \/ (st.dt.date = <<>> /\ header_date.null) THEN Failed(st)
      ELSE With(st, "tstamp",
                UtcStamp(date[1], date[2], date[3], time[1], time[2], time[3]))

(* parse_record: a good record is normalized; the host is put in lower     *)
(* case, and so are URLs, if so configured, and the host of a referrer, or *)
(* of the URL that a proxy was asked for.                                  *)
Names == {"url", "refer", "agent", "srchargs", "ident", "xsrchstr"}

Normalized(type, rec, lower_urls) ==
  LET n == [name \in DOMAIN rec |->
              IF name \in Names THEN Changed(Normal, rec[name]) ELSE rec[name]]
      l == IF lower_urls
           THEN [n EXCEPT !.url = Changed(Lower, @), !.srchargs = Changed(Lower, @)]
           ELSE n
      h == IF type = "squid" THEN [l EXCEPT !.url = Changed(LowerHost, @)]
           ELSE [l EXCEPT !.refer = Changed(LowerHost, @)]
  IN  [h EXCEPT !.hostname = Changed(Lower, @)]

Parsed(type, fields, header_date, values, cfg) ==
  LET Step(st, i) == IF st.ok THEN Taken(type, st, fields[i], values[i], cfg.upstream)
                     ELSE st
      read == FoldLeftDomain(Step, Start, values)
      st == IF type \in {"w3c", "iis"} /\ read.ok THEN W3cStamp(read, header_date) ELSE read
  IN  IF FieldsFound(type, fields, values) /\ st.ok
      THEN [ok |-> TRUE, rec |-> Normalized(type, st.rec, cfg.lower_urls)]
      ELSE [ok |-> FALSE, rec |-> EmptyRecord]
=============================================================================
