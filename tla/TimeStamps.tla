----------------------------- MODULE TimeStamps -----------------------------
(* Time stamps and daylight saving time: tstamp_t, tm_ranges_t and the     *)
(* part of config_t that builds the ranges. A stamp keeps the components   *)
(* of a local time and its offset from UTC, in minutes, or those of a UTC  *)
(* time; an instant is a time_t, in seconds since 1970, and the internal   *)
(* serial time is one that may be local. All dates are 1970 or later.      *)
EXTENDS Integers, Sequences, SequencesExt, FiniteSetsExt

NullStamp ==
  [year |-> 0, month |-> 0, day |-> 0, hour |-> 0, min |-> 0, sec |-> 0,
   offset |-> 0, utc |-> FALSE, null |-> TRUE]

LocalStamp(y, mo, d, h, mi, s, of) ==
  [year |-> y, month |-> mo, day |-> d, hour |-> h, min |-> mi, sec |-> s,
   offset |-> of, utc |-> FALSE, null |-> FALSE]

UtcStamp(y, mo, d, h, mi, s) ==
  [LocalStamp(y, mo, d, h, mi, s, 0) EXCEPT !.utc = TRUE]

(* jday: the Julian day number of a date                                   *)
JDay(year, month, day) ==
  LET a == (14 - month) \div 12
      y == year + 4800 - a
      m == month + 12 * a - 3
  IN  day + (153 * m + 2) \div 5 + y * 365
        + y \div 4 - y \div 100 + y \div 400 - 32045

(* reset_date: the date of a Julian day number.                            *)
DateOf(jdn) ==
  LET a == jdn + 32044
      b == (4 * a + 3) \div 146097
      c == a - (b * 146097) \div 4
      d == (4 * c + 3) \div 1461
      e == c - (1461 * d) \div 4
      m == (5 * e + 2) \div 153
  IN  [year  |-> b * 100 + d - 4800 + m \div 10,
       month |-> m + 3 - 12 * (m \div 10),
       day   |-> e - (153 * m + 2) \div 5 + 1]

Epoch == 2440588

IntTime(s) ==
  (JDay(s.year, s.month, s.day) - Epoch) * 86400 + s.hour * 3600 + s.min * 60 + s.sec

MkTime(s) == IF s.utc THEN IntTime(s) ELSE IntTime(s) - s.offset * 60

(* reset_time, and reset(time_t) or reset(time_t, offset)                  *)
Components(t) ==
  LET date == DateOf(t \div 86400 + Epoch)
  IN  LocalStamp(date.year, date.month, date.day,
                 (t % 86400) \div 3600, (t % 3600) \div 60, t % 60, 0)

StampUtc(t) == [Components(t) EXCEPT !.utc = TRUE]

StampLocal(t, of) == [Components(t + of * 60) EXCEPT !.offset = of]

ToUtc(s) == IF ~s.null /\ ~s.utc THEN StampUtc(MkTime(s)) ELSE s

ToLocal(s, of) ==
  IF ~s.null /\ (s.utc \/ of # s.offset) THEN StampLocal(MkTime(s), of) ELSE s

(* compare: in the zone of the first stamp, by the first component that    *)
(* differs.                                                                *)
ComparedWith(s, other) ==
  IF s.utc # other.utc \/ (~s.utc /\ s.offset # other.offset)
  THEN IF s.utc THEN ToUtc(other) ELSE ToLocal(other, s.offset)
  ELSE other

Parts(s) == <<s.year, s.month, s.day, s.hour, s.min, s.sec>>

Compare(s, other) ==
  LET a == Parts(s)
      b == Parts(ComparedWith(s, other))
      differ == {i \in 1 .. 6 : a[i] # b[i]}
  IN  IF differ = {} THEN 0 ELSE a[Min(differ)] - b[Min(differ)]

Before(s, other)    == Compare(s, other) < 0
NotBefore(s, other) == Compare(s, other) >= 0

LastMonthDay(y, mo) ==
  27 + (IF mo < 12 THEN JDay(y, mo + 1, 1) ELSE JDay(y + 1, 1, 1)) - JDay(y, mo, 28)

-----------------------------------------------------------------------------

(* The text of a time stamp: the numbers and the delimiter that follows    *)
(* each, "" at the end of the text. parse_tstamp takes a date, or a date   *)
(* and a time with or without seconds, and nothing after them.             *)
Delimiters == <<{"-", "/"}, {"-", "/"}, {" ", "T"}, {":"}, {":"}, {}>>
MayEnd == {3, 5, 6}

Parses(text) ==
  /\ Len(text) \in MayEnd
  /\ text[Len(text)].delim = ""
  /\ \A i \in 1 .. Len(text) - 1 : text[i].delim \in Delimiters[i]

Part(text, i) == IF i <= Len(text) THEN text[i].num ELSE 0

ParseLocal(text, of) ==
  IF Parses(text)
  THEN LocalStamp(Part(text, 1), Part(text, 2), Part(text, 3),
                  Part(text, 4), Part(text, 5), Part(text, 6), of)
  ELSE NullStamp

ParseUtc(text) ==
  IF Parses(text) THEN [ParseLocal(text, 0) EXCEPT !.utc = TRUE] ELSE NullStamp

-----------------------------------------------------------------------------

(* tm_ranges_t: the ranges in the order of add_range, each from start to   *)
(* before end. A new range goes after the last one that ended before its   *)
(* start, and is refused if the range after its neighbour begins in it.    *)
RefusesRange(ranges, range, i) ==
  \/ NotBefore(range.start, range.end)
  \/ /\ Len(ranges) > 0 /\ i < Len(ranges) - 1
     /\ NotBefore(range.end, ranges[i + 2].start)

RangeSpot(ranges, start) ==
  Max({0} \cup {i \in 1 .. Len(ranges) : Before(ranges[i].end, start)})

AddRange(ranges, range) ==
  LET i == RangeSpot(ranges, range.start)
  IN  IF RefusesRange(ranges, range, i) THEN ranges ELSE InsertAt(ranges, i + 1, range)

InRange(ranges, i, s) ==
  /\ i < Len(ranges)
  /\ NotBefore(s, ranges[i + 1].start)
  /\ Before(s, ranges[i + 1].end)

(* is_in_range moves the iterator of its caller, which counts from zero,   *)
(* to the range of the stamp, or to the first one that begins after it.    *)
(* The variant skips the range the iterator is at.                         *)
MovedRangeSkips(ranges, i, s) ==
  Min({j \in i .. Len(ranges) :
         \/ j = Len(ranges)
         \/ j > i /\ (Before(s, ranges[j + 1].start) \/ InRange(ranges, j, s))})

MovedRange(ranges, i, s) ==
  IF i >= Len(ranges) \/ Before(s, ranges[i + 1].start) THEN i
  ELSE Min({j \in i .. Len(ranges) :
              \/ j = Len(ranges)
              \/ InRange(ranges, j, s)
              \/ j > i /\ Before(s, ranges[j + 1].start)})

(* proc_dst_ranges: both texts are read as standard local time; the end is *)
(* then shown in daylight saving time, which is the same instant.          *)
DstRange(pair, cfg) ==
  LET end == ParseLocal(pair.end, cfg.utc_offset)
  IN  [start |-> ParseLocal(pair.start, cfg.utc_offset),
       end   |-> IF cfg.local_time /\ cfg.dst_offset # 0
                 THEN ToLocal(end, cfg.utc_offset + cfg.dst_offset) ELSE end]

DstRanges(cfg) ==
  FoldLeft(LAMBDA ranges, pair : AddRange(ranges, DstRange(pair, cfg)), <<>>, cfg.dst_pairs)

(* get_utc_offset                                                          *)
UtcOffset(cfg, ranges, i, s) ==
  cfg.utc_offset
    + (IF cfg.dst_offset # 0 /\ InRange(ranges, MovedRange(ranges, i, s), s)
       THEN cfg.dst_offset ELSE 0)

MovedIterator(cfg, ranges, i, s) ==
  IF cfg.dst_offset # 0 THEN MovedRange(ranges, i, s) ELSE i
=============================================================================
