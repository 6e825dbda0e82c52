------------------------------- MODULE LogRun -------------------------------
(***************************************************************************)
(* Runs of the log processor (webalizer_t::proc_logfile): log files that   *)
(* are read side by side in the order of their time stamps, the check for  *)
(* records that an earlier run has processed, the change of months, and    *)
(* what each run leaves in the state database and in the databases of      *)
(* closed months. The same logs may be processed again by any later run.   *)
(*                                                                         *)
(* A statistic is the set of log records behind it, here with the number   *)
(* of times each was counted. How they are counted is in StateEngine.      *)
(* --end-month, which reads no logs, is there as well.                     *)
(***************************************************************************)
EXTENDS Integers, SequencesExt

CONSTANTS
  File, NoFile,   (* log files, and none                                   *)
  Contents,       (* what a log file may contain: sequences of lines       *)
  Mode,           (* ways to run: incremental, last_log                    *)
  DnsEnabled,     (* config.is_dns_enabled()                               *)
  CanInterrupt,   (* Ctrl-C may be pressed                                 *)
  MaxLength,      (* most characters that fgets returns: capacity() - 1    *)
  VisitTimeout,   (* config.visit_timeout                                  *)
  MonthLength,    (* time units in a month                                 *)
  MaxRuns         (* bound: number of runs                                 *)

(* A line is a record that is counted, one that an ignore or include list  *)
(* filters out, or one that is bad or no record at all. Its length counts  *)
(* the line end.                                                           *)
Lines == [kind : {"good", "filtered", "bad"}, tstamp : Nat, length : Nat \ {0}]

ASSUME LogAssumption ==
  /\ IsFiniteSet(File) /\ NoFile \notin File
  /\ \A c \in Contents : c \in Seq(Lines)
  /\ Mode \subseteq [incremental : BOOLEAN, last_log : BOOLEAN]
  /\ DnsEnabled \in BOOLEAN /\ CanInterrupt \in BOOLEAN
  /\ MaxLength \in Nat \ {0} /\ VisitTimeout \in Nat \ {0} /\ MonthLength \in Nat \ {0}
  /\ MaxRuns \in Nat

VARIABLES
  pc,            (* next step of proc_logfile                              *)
  file,          (* contents of the log files                              *)
  runs,          (* runs so far                                            *)
  mode, names,   (* configuration of the run: mode and log_fnames          *)
  since,         (* state.totals.cur_tstamp at the start of the run        *)
  pos,           (* lines that were read from each file                    *)
  logfiles,      (* files that are not finished                            *)
  lfp_states,    (* one record of each file, earliest first                *)
  wlfs,          (* the working state: a file and its record               *)
  check_dup,     (* records may have been processed before                 *)
  total_good,    (* total_good > 0                                         *)
  processed,     (* a record of this run was counted                       *)
  abort_signal,  (* Ctrl-C was pressed                                     *)
  state,         (* the monthly state in memory                            *)
  db,            (* the state database                                     *)
  archive        (* databases of closed months                             *)

fileVars == <<pos, logfiles, lfp_states, wlfs>>
runVars == <<file, runs, mode, names, since>>
vars == <<pc, runVars, fileVars, check_dup, total_good, processed, abort_signal, state, db,
          archive>>

NoTime == -1
Month(t) == t \div MonthLength
Id == UNION {{f} \X DOMAIN file[f] : f \in File}
Line(id) == file[id[1]][id[2]]
Tstamp(id) == Line(id).tstamp

NoRecord == <<NoFile, 0>>
NoCounts == [id \in Id |-> 0]
NewState == [cur_tstamp |-> NoTime, counted |-> NoCounts, active |-> FALSE]
NewDb == [cur_tstamp |-> NoTime, counted |-> NoCounts, active |-> FALSE, incremental |-> FALSE]

(* The log files are listed in any order.                                  *)
Lists == {s \in UNION {[1 .. n -> File] : n \in 1 .. Cardinality(File)} : IsInjective(s)}

Init ==
  /\ pc = "off" /\ runs = 0
  /\ file \in [File -> Contents]
  /\ mode \in Mode /\ names = <<>> /\ since = NoTime
  /\ pos = [f \in File |-> 0] /\ logfiles = <<>> /\ lfp_states = <<>> /\ wlfs = NoRecord
  /\ check_dup = FALSE /\ total_good = FALSE /\ processed = FALSE /\ abort_signal = FALSE
  /\ state = NewState
  /\ db = NewDb
  /\ archive = <<>>

-----------------------------------------------------------------------------
(* The start of a run                                                      *)

(* state_t::initialize refuses to truncate an incremental database, and    *)
(* truncates any other. Without the refusal (the variant) it would truncate*)
(* that one, too.                                                          *)
NeverRefused(m) == FALSE
Refused(m) == ~m.incremental /\ db.incremental
Truncated(m) == ~m.incremental \/ ~db.incremental

StartRun(m, list) ==
  LET restored == IF Truncated(m) THEN NewDb ELSE db
  IN
  /\ pc = "off" /\ runs < MaxRuns
  /\ ~Refused(m)
  /\ pc' = "prep" /\ runs' = runs + 1
  /\ mode' = m /\ names' = list
  /\ db' = restored
  /\ state' = [f \in DOMAIN NewState |-> restored[f]]
  /\ since' = restored.cur_tstamp
  /\ check_dup' = (m.incremental /\ restored.cur_tstamp # NoTime)
  /\ total_good' = FALSE /\ processed' = FALSE /\ abort_signal' = FALSE
  /\ pos' = [f \in File |-> 0] /\ logfiles' = list /\ lfp_states' = <<>> /\ wlfs' = NoRecord
  /\ UNCHANGED <<file, archive>>

-----------------------------------------------------------------------------
(* Reading log files                                                       *)

(* A state is inserted before the first one with the same or a later time  *)
(* stamp. The variant adds it at the end.                                  *)
Appended(states, id) == Append(states, id)
Place(states, id) ==
  Min({i \in 1 .. Len(states) + 1 : i > Len(states) \/ Tstamp(states[i]) >= Tstamp(id)})
Inserted(states, id) == InsertAt(states, Place(states, id), id)

AtEnd(f) == pos[f] = Len(file[f])
NextLine(f) == <<f, pos[f] + 1>>

(* read_log_line: a line that fills the buffer is oversized, also one that *)
(* just fits it, as its line end is never where the code looks for it. The *)
(* rest is read, by the buffer, until a part does not fill it: this part   *)
(* may be another line.                                                    *)
Oversized(id) == Line(id).length >= MaxLength
RestEnds(f, i) == i = Len(file[f]) \/ file[f][i].length % MaxLength # 0
LineEnd(f) ==
  IF ~Oversized(NextLine(f)) THEN pos[f] + 1
  ELSE Min({i \in pos[f] + 1 .. Len(file[f]) : RestEnds(f, i)})
BadLine(id) == Oversized(id) \/ Line(id).kind = "bad"

(* prep_lfstates, one line: the first file without a state is read until   *)
(* it yields a record or ends, which takes it off the list.                *)
PrepLine ==
  LET i == Len(lfp_states) + 1 IN
  /\ pc = "prep" /\ i <= Len(logfiles)
  /\ LET f == logfiles[i] IN
     \/ /\ AtEnd(f)
        /\ logfiles' = RemoveAt(logfiles, i)
        /\ UNCHANGED <<pos, lfp_states>>
     \/ /\ ~AtEnd(f)
        /\ pos' = [pos EXCEPT ![f] = LineEnd(f)]
        /\ lfp_states' = IF BadLine(NextLine(f)) THEN lfp_states
                         ELSE Inserted(lfp_states, NextLine(f))
        /\ UNCHANGED logfiles
  /\ UNCHANGED <<pc, runVars, wlfs, check_dup, total_good, processed, abort_signal, state, db,
                 archive>>

PrepDone ==
  /\ pc = "prep" /\ Len(lfp_states) = Len(logfiles)
  /\ pc' = "loop"
  /\ UNCHANGED <<runVars, fileVars, check_dup, total_good, processed, abort_signal, state, db,
                 archive>>

(* The processing loop ends with the files, or with Ctrl-C. The variant    *)
(* forgets the files.                                                      *)
AbortedOnly == abort_signal
LoopDone == logfiles = <<>> \/ abort_signal

LoopTest ==
  /\ pc = "loop"
  /\ pc' = IF LoopDone THEN "final" ELSE "get"
  /\ UNCHANGED <<runVars, fileVars, check_dup, total_good, processed, abort_signal, state, db,
                 archive>>

(* get_logrec, one line: the file of the last record is read until it      *)
(* yields another one or ends.                                             *)
GetLine ==
  LET f == wlfs[1] IN
  /\ pc = "get" /\ Len(lfp_states) < Len(logfiles)
  /\ \/ /\ AtEnd(f)
        /\ \E i \in DOMAIN logfiles : logfiles[i] = f /\ logfiles' = RemoveAt(logfiles, i)
        /\ wlfs' = NoRecord
        /\ UNCHANGED <<pos, lfp_states>>
     \/ /\ ~AtEnd(f)
        /\ pos' = [pos EXCEPT ![f] = LineEnd(f)]
        /\ IF BadLine(NextLine(f)) THEN UNCHANGED <<lfp_states, wlfs>>
           ELSE lfp_states' = Inserted(lfp_states, NextLine(f)) /\ wlfs' = NoRecord
        /\ UNCHANGED logfiles
  /\ UNCHANGED <<pc, runVars, check_dup, total_good, processed, abort_signal, state, db, archive>>

(* ... and the earliest record of all files is next.                       *)
GetRecord ==
  /\ pc = "get" /\ Len(lfp_states) = Len(logfiles)
  /\ IF lfp_states = <<>> THEN pc' = "loop" /\ UNCHANGED <<lfp_states, wlfs>>
     ELSE pc' = "record" /\ wlfs' = Head(lfp_states) /\ lfp_states' = Tail(lfp_states)
  /\ UNCHANGED <<runVars, pos, logfiles, check_dup, total_good, processed, abort_signal, state,
                 db, archive>>

-----------------------------------------------------------------------------
(* One record                                                              *)

(* A state without a time stamp has no month.                              *)
rec_tstamp == Tstamp(wlfs)
OtherMonth == state.cur_tstamp # NoTime /\ Month(state.cur_tstamp) # Month(rec_tstamp)

Archived(s) == Append(archive, [tstamp |-> s.cur_tstamp, counted |-> s.counted])

(* Until the first record that is later than the last run, what an earlier *)
(* run has processed is ignored. The variant does not ignore the last      *)
(* second of that run.                                                     *)
EarlierOnly == check_dup /\ ~total_good /\ rec_tstamp < state.cur_tstamp
Duplicate == check_dup /\ ~total_good /\ rec_tstamp <= state.cur_tstamp

IgnoreRecord ==
  /\ pc = "record"
  /\ Duplicate \/ rec_tstamp < state.cur_tstamp
  /\ pc' = "loop"
  /\ UNCHANGED <<runVars, fileVars, check_dup, total_good, processed, abort_signal, state, db,
                 archive>>

(* The first record after the month of the last run closes that month. If  *)
(* it has no active visits its report is kept.                             *)
KeepReport ==
  /\ pc = "record" /\ ~Duplicate
  /\ check_dup /\ OtherMonth /\ ~state.active
  /\ archive' = Archived(state)
  /\ db' = NewDb
  /\ state' = [NewState EXCEPT !.cur_tstamp = rec_tstamp]
  /\ pc' = "count" /\ check_dup' = FALSE
  /\ UNCHANGED <<runVars, fileVars, total_good, processed, abort_signal>>

(* A record of another month: visits end, the state is saved, reported and *)
(* rolled over. The variant does not clear the state.                      *)
NotReset == [state EXCEPT !.cur_tstamp = NoTime]
Reset == NewState

CloseMonth ==
  /\ pc = "record" /\ ~Duplicate /\ rec_tstamp >= state.cur_tstamp
  /\ OtherMonth /\ (~check_dup \/ state.active)
  /\ archive' = Archived(state)
  /\ db' = NewDb
  /\ state' = Reset
  /\ pc' = "count" /\ check_dup' = FALSE
  /\ UNCHANGED <<runVars, fileVars, total_good, processed, abort_signal>>

SameMonth ==
  /\ pc = "record" /\ ~Duplicate /\ rec_tstamp >= state.cur_tstamp
  /\ ~OtherMonth
  /\ pc' = "count" /\ check_dup' = FALSE
  /\ UNCHANGED <<runVars, fileVars, total_good, processed, abort_signal, state, db, archive>>

(* The state takes over the time stamp of the record before the record may *)
(* be filtered out.                                                        *)
CountRecord ==
  /\ pc = "count" /\ pc' = "loop"
  /\ total_good' = TRUE
  /\ IF Line(wlfs).kind = "filtered"
       THEN state' = [state EXCEPT !.cur_tstamp = rec_tstamp] /\ processed' = processed
       ELSE /\ state' = [state EXCEPT !.cur_tstamp = rec_tstamp, !.counted[wlfs] = @ + 1]
            /\ processed' = TRUE
  /\ UNCHANGED <<runVars, fileVars, check_dup, abort_signal, db, archive>>

-----------------------------------------------------------------------------
(* The end of a run                                                        *)

CtrlC ==
  /\ CanInterrupt /\ pc \notin {"off", "final"} /\ ~abort_signal
  /\ abort_signal' = TRUE
  /\ UNCHANGED <<pc, runVars, fileVars, check_dup, total_good, processed, state, db, archive>>

Left ==
  /\ pc' = "off"
  /\ pos' = [f \in File |-> 0] /\ logfiles' = <<>> /\ lfp_states' = <<>> /\ wlfs' = NoRecord
  /\ check_dup' = FALSE /\ total_good' = FALSE /\ processed' = FALSE /\ abort_signal' = FALSE
  /\ state' = NewState /\ since' = NoTime /\ names' = <<>>
  /\ UNCHANGED <<file, runs, mode>>

(* total_rec > total_ignore + total_bad: lines are in total_rec when they  *)
(* are read, and a bad line, a record that is ignored and one that is      *)
(* filtered out are subtracted. What is left are the records that were     *)
(* counted and, after Ctrl-C, those of other files that wait.              *)
AnyProcessed == processed \/ lfp_states # <<>>

(* Nothing is saved if no record was new, if all that were read have been  *)
(* sorted out or, without a resolver, after Ctrl-C: dns_abort throws.      *)
NothingToSave == ~total_good \/ ~AnyProcessed \/ (abort_signal /\ ~DnsEnabled)

LeaveUnsaved ==
  /\ pc = "final" /\ NothingToSave
  /\ Left
  /\ UNCHANGED <<db, archive>>

(* Some visit is not over, after the last run of a month ended all and any *)
(* other run those that have timed out                                     *)
VisitsActive ==
  /\ mode.incremental /\ ~mode.last_log
  /\ \E id \in Id : state.counted[id] > 0 /\ state.cur_tstamp - Tstamp(id) < VisitTimeout

(* The state is saved and, unless Ctrl-C was pressed, reported and, for    *)
(* the last log of a month, rolled over.                                   *)
SaveRun ==
  /\ pc = "final" /\ ~NothingToSave
  /\ IF mode.last_log /\ ~abort_signal
       THEN archive' = Archived(state) /\ db' = NewDb
       ELSE /\ db' = [cur_tstamp |-> state.cur_tstamp, counted |-> state.counted,
                      active |-> VisitsActive, incremental |-> mode.incremental]
            /\ UNCHANGED archive
  /\ Left

-----------------------------------------------------------------------------
ReadStep == PrepLine \/ PrepDone \/ LoopTest \/ GetLine \/ GetRecord
RecordStep == IgnoreRecord \/ KeepReport \/ CloseMonth \/ SameMonth \/ CountRecord
RunStep == ReadStep \/ RecordStep \/ LeaveUnsaved \/ SaveRun

Next ==
  \/ \E m \in Mode, list \in Lists : StartRun(m, list)
  \/ RunStep
  \/ CtrlC

Spec == Init /\ [][Next]_vars

(* A run is one thread, which goes on until it is done.                    *)
FairSpec == Spec /\ WF_vars(RunStep)

-----------------------------------------------------------------------------
(* Properties                                                              *)

Counts == [Id -> Nat]

(* The types of the variables. Only a state with a time stamp is rolled    *)
(* over.                                                                   *)
TypeOK ==
  /\ pc \in {"off", "prep", "loop", "get", "record", "count", "final"}
  /\ runs \in Nat /\ mode \in Mode /\ names \in Seq(File) /\ since \in Nat \cup {NoTime}
  /\ \A f \in File : pos[f] \in 0 .. Len(file[f])
  /\ logfiles \in Seq(File)
  /\ lfp_states \in Seq(Id) /\ wlfs \in Id \cup {NoRecord}
  /\ {check_dup, total_good, processed, abort_signal} \subseteq BOOLEAN
  /\ state.cur_tstamp \in Nat \cup {NoTime} /\ state.counted \in Counts
  /\ db.cur_tstamp \in Nat \cup {NoTime} /\ db.counted \in Counts
  /\ \A i \in DOMAIN archive : archive[i].tstamp \in Nat /\ archive[i].counted \in Counts

InOrder(f) ==
  \A i, j \in DOMAIN file[f] :
    i < j /\ file[f][i].kind # "bad" /\ file[f][j].kind # "bad" =>
      file[f][i].tstamp <= file[f][j].tstamp

CountedNow(id) == state.counted[id] > 0 \/ \E i \in DOMAIN archive : archive[i].counted[id] > 0

(* The list of states is sorted and has one state for each file that is    *)
(* not finished, except the one that the last record came from: its state  *)
(* is in wlfs, and get_logrec, which knows of no other file, reads there.  *)
StatesMatchFiles ==
  /\ \A i, j \in DOMAIN lfp_states : i < j => Tstamp(lfp_states[i]) <= Tstamp(lfp_states[j])
  /\ pc # "prep" =>
       LET files == {s[1] : s \in ToSet(lfp_states)} IN
       /\ Cardinality(files) = Len(lfp_states)
       /\ ToSet(logfiles) = files \cup ({wlfs[1]} \ {NoFile})
       /\ wlfs[1] \notin files

(* Of log files that are each in the order of time no record that is       *)
(* later than the last run and shorter than the buffer is lost in a run    *)
(* that reads them to the end, whatever bad and oversized lines stand      *)
(* before it and whatever other files they are merged with. The exception  *)
(* is a record after a line that ends where the buffer does.               *)
Swallowed(id) == id[2] > 1 /\ ~RestEnds(id[1], id[2] - 1)

OrderedFilesCounted ==
  (pc = "final" /\ ~abort_signal /\ \A f \in ToSet(names) : InOrder(f)) =>
    \A id \in Id :
      /\ id[1] \in ToSet(names)
      /\ Line(id).kind = "good" /\ Line(id).length < MaxLength /\ ~Swallowed(id)
      /\ Tstamp(id) > since
      => CountedNow(id)

(* The database of a month has records of that month only.                 *)
InMonth(s, t) == \A id \in Id : s.counted[id] > 0 => Month(Tstamp(id)) = Month(t)
MonthsApart ==
  /\ InMonth(state, state.cur_tstamp)
  /\ InMonth(db, db.cur_tstamp)
  /\ \A i \in DOMAIN archive : InMonth(archive[i], archive[i].tstamp)

(* No database counts a record twice, though runs may read the same logs   *)
(* again and again.                                                        *)
NoDatabaseCountsTwice ==
  \A id \in Id : /\ state.counted[id] <= 1
                 /\ \A i \in DOMAIN archive : archive[i].counted[id] <= 1

(* A record that an incremental run has saved is never forgotten: it stays *)
(* in the state database or goes to the database of its month.             *)
Saved(id, d, a) == d.counted[id] > 0 \/ \E i \in DOMAIN a : a[i].counted[id] > 0
NothingForgotten ==
  [][db.incremental => \A id \in Id : Saved(id, db, archive) => Saved(id, db', archive')]_vars

(* Every run ends.                                                         *)
RunEnds == (pc # "off") ~> (pc = "off")
=============================================================================
