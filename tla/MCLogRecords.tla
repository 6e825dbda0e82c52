---------------------------- MODULE MCLogRecords ----------------------------
(* Instances of LogRecords for TLC: the lines that web servers print.      *)
EXTENDS LogRecords

MCNormal == [text \in {"/%41"} |-> "/A"]
MCLower == [text \in {"Host", "/A", "Q"} |->
              CASE text = "Host" -> "host" [] text = "/A" -> "/a" [] text = "Q" -> "q"]
MCLowerHost == [text \in {"http://Ref/"} |-> "http://ref/"]

(* A time as a server with an offset from UTC prints it                    *)
Clf(at, of) ==
  LET s == StampLocal(at, of)
      abs == IF of < 0 THEN -of ELSE of
      hhmm == (abs \div 60) * 100 + (abs % 60)
  IN  [year |-> s.year, month |-> s.month, day |-> s.day, hour |-> s.hour,
       min |-> s.min, sec |-> s.sec, hhmm |-> IF of < 0 THEN -hhmm ELSE hhmm]

Iso(at, of) ==
  LET s == StampLocal(at, of)
      abs == IF of < 0 THEN -of ELSE of
  IN  [year |-> s.year, month |-> s.month, day |-> s.day, hour |-> s.hour,
       min |-> s.min, sec |-> s.sec, sign |-> IF of < 0 THEN "-" ELSE "+",
       of_hour |-> abs \div 60, of_min |-> abs % 60]

MCPrinted(type, field, r) ==
  LET utc == StampUtc(r.at)
  IN  CASE field = "eISOLocalTime"     -> Iso(r.at, r.zone)
        [] field = "eClfTime"          -> Clf(r.at, r.zone)
        [] field = "eDate"             -> <<utc.year, utc.month, utc.day>>
        [] field = "eTime"             ->
             IF type = "squid" THEN r.at ELSE <<utc.hour, utc.min, utc.sec>>
        [] field = "eClientIpAddress"  -> r.host
        [] field = "eUserName"         -> r.user
        [] field = "eHttpMethod"       -> r.method
        [] field = "eUriStem"          -> r.path
        [] field = "eUriQuery"         -> IF r.query = "" THEN "-" ELSE r.query
        [] field = "eUri"              -> [path |-> r.path, query |-> r.query]
        [] field = "eHttpRequestLine"  ->
             [method |-> r.method, path |-> r.path, query |-> r.query]
        [] field = "eHttpStatus"       -> r.status
        [] field = "eBytesSent"        -> r.sent
        [] field = "eBytesReceived"    -> r.received
        [] field = "eBytesTotal"       -> r.sent + r.received
        [] field = "eTimeTaken"        -> r.msec
        [] field = "eProcTimeMcS"      -> r.msec * 1000 + 400
        [] field = "eWebsitePort"      -> r.port
        [] field = "eUserAgent"        -> r.agent
        [] field = "eReferrer"         -> [path |-> r.refer, query |-> r.refer_query]
        [] OTHER                       -> "-"

(* A full request, and one without a user, a query and a referrer          *)
Full(at, zone) ==
  [at |-> at, zone |-> zone, host |-> "Host", user |-> "user", method |-> "GET",
   path |-> "/%41", query |-> "Q", status |-> 200, sent |-> 10, received |-> 3,
   msec |-> 2, refer |-> "http://Ref/", refer_query |-> "q=x", agent |-> "agent", port |-> 80]

Bare(at, zone) ==
  [Full(at, zone) EXCEPT !.user = "-", !.query = "", !.refer = "-", !.refer_query = "",
                         !.sent = 20, !.received = 5]

(* 2009-11-01 07:00 UTC, the end of daylight saving time in New York as    *)
(* the code has it, an hour after the end, and the months and days around  *)
Dst == 1257058800
Leap == 1078012800    \* 2004-02-29 00:00 UTC
NewYear == 1104537600 \* 2005-01-01 00:00 UTC

Time(y, mo, d, h) ==
  <<[num |-> y, delim |-> "/"], [num |-> mo, delim |-> "/"], [num |-> d, delim |-> " "],
    [num |-> h, delim |-> ":"], [num |-> 0, delim |-> ""]>>

Pair(y, mo1, d1, mo2, d2) == [start |-> Time(y, mo1, d1, 2), end |-> Time(y, mo2, d2, 2)]

(* README.md has the ranges of 2009 and 2010; those of 2008 come last.     *)
Pairs == <<Pair(2009, 3, 9, 11, 1), Pair(2010, 3, 14, 11, 7), Pair(2008, 3, 9, 11, 2)>>

Entry(fields, request) == [kind |-> "record", fields |-> fields, request |-> request]
Header(fields) == [kind |-> "fields", fields |-> fields]

DateLine ==
  [kind |-> "date",
   text |-> <<[num |-> 2009, delim |-> "-"], [num |-> 11, delim |-> "-"], [num |-> 1, delim |-> " "],
              [num |-> 0, delim |-> ":"], [num |-> 0, delim |-> ":"], [num |-> 2, delim |-> "\n"]>>]

Setup(type, format, upstream, local, files) ==
  [type |-> type, format |-> format, upstream |-> upstream, lower_urls |-> upstream,
   local_time |-> local, utc_offset |-> -300, dst_offset |-> IF local THEN 60 ELSE 0,
   dst_pairs |-> Pairs, files |-> files]

(* W3C and IIS                                                             *)
W3cBytes ==
  {<<"eBytesSent">>, <<"eBytesTotal">>, <<"eBytesSent", "eBytesReceived">>,
   <<"eBytesReceived", "eBytesTotal">>, <<"eBytesTotal", "eBytesSent">>,
   <<"eBytesSent", "eBytesTotal", "eBytesReceived">>}

W3cFields(bytes) ==
  <<"eDate", "eTime", "eClientIpAddress", "eUserName", "eHttpMethod", "eUriStem",
    "eUriQuery", "eHttpStatus", "eTimeTaken", "eReferrer">> \o bytes

Offsets == {-7200, -5401, -5400, -3600, -1, 0, 1, 3600, 86400}

W3cFile(fields, t1, t2) ==
  <<Header(fields), Entry(fields, Full(t1, 0)), [kind |-> "long"], Entry(fields, Bare(t2, 0))>>

W3cSetups ==
  {Setup("w3c", <<>>, up, TRUE,
         <<W3cFile(W3cFields(b), Dst + d, Dst + d + 1800), W3cFile(W3cFields(b), Dst - 3600, Dst)>>) :
     up \in BOOLEAN, b \in W3cBytes, d \in Offsets}

(* Two files whose servers log other fields, one of which repeats its      *)
(* header, as after a restart                                              *)
Restarted(fields, t1, t2) ==
  W3cFile(fields, t1, t2) \o W3cFile(fields, t2 + 60, t2 + 120)

HeaderSetups ==
  {Setup("w3c", <<>>, up, TRUE,
         <<Restarted(W3cFields(b[1]), Dst, Dst + 1800), W3cFile(W3cFields(b[2]), Dst + d, Dst + 3600)>>) :
     up \in BOOLEAN, b \in {c \in W3cBytes \X W3cBytes : c[1] # c[2]}, d \in {0, 1830, 1890}}

DatelessFields == <<"eTime", "eClientIpAddress", "eUriStem">>

IisSetups ==
  {Setup("iis", <<>>, FALSE, local,
         <<<<DateLine, Header(DatelessFields), Entry(DatelessFields, Full(Leap, 0)),
             Header(W3cFields(<<>>)), Entry(W3cFields(<<>>), Bare(t, 0)), [kind |-> "zeros"]>>,
           W3cFile(W3cFields(<<>>), t + 31622400, t + 63244800)>>) :
     local \in BOOLEAN, t \in {Leap - 1, Leap, Leap + 86400, NewYear - 1, NewYear}}

(* The others                                                              *)
D(letter) == [letter |-> letter, param |-> ""]
H(name) == [letter |-> "i", param |-> name]
ApacheFormat ==
  <<D("a"), D("l"), D("u"), D("t"), D("m"), D("U"), D("q"), D("p"), D("s"), D("b"), D("I"),
    D("D"), H("Referer"), H("UserAgent"), H("Host")>>
ApacheLine == <<D("h"), D("l"), D("u"), D("t"), D("r"), D("s"), D("O")>>

NginxFormat ==
  <<"remote_addr", "-", "remote_user", "time_local", "request", "status", "bytes_sent",
    "request_length", "request_time", "http_user_agent", "server_port">>

(* The servers change their offset at the end of daylight saving time.     *)
Lines(fields, t, z1, z2) ==
  <<Entry(fields, Full(t, z1)), Entry(fields, Bare(t + 1800, z2))>>

TextSetups ==
  {Setup(k[1], k[2], up, local,
         <<Lines(k[3], t, z, -300), Lines(k[3], t + 900, -240, 345)>>) :
     k \in {<<"apache", ApacheFormat, ApacheFields(ApacheFormat)>>,
            <<"apache", ApacheLine, ApacheFields(ApacheLine)>>,
            <<"nginx", NginxFormat, NginxFields(NginxFormat)>>,
            <<"clf", <<>>, ClfFields>>,
            <<"clf", <<>>, SubSeq(ClfFields, 1, 7)>>,
            <<"squid", <<>>, SquidFields>>},
     up \in BOOLEAN, local \in BOOLEAN, t \in {Dst - 3600, Dst, Leap, NewYear}, z \in {-240, 570}}

MCSetups == W3cSetups \cup HeaderSetups \cup IisSetups \cup TextSetups
=============================================================================
