----------------------------- MODULE LogHistory -----------------------------
(***************************************************************************)
(* The history of a site (history_t) over the runs of LogRun: the months   *)
(* that state_t::save_state puts into it, the file that keeps it between   *)
(* runs, and the reports that the main index page makes of it: a chart and *)
(* links to the report of each month.                                      *)
(*                                                                         *)
(* A month has as many hits as records were counted. Other totals go with  *)
(* the hits. Batch is off: reports are written.                            *)
(***************************************************************************)
EXTENDS LogRun, Ranks

CONSTANTS
  FirstMonth,      (* the month of time 0: its year times 12, and its place in the year *)
  HistoryLength,   (* HistoryLength in the configuration                   *)
  ignore_hist,     (* config.ignore_hist                                   *)
  CanLose          (* whether the history file may disappear between runs  *)

ASSUME HistoryAssumption ==
  /\ FirstMonth \in Nat /\ HistoryLength \in Nat
  /\ ignore_hist \in BOOLEAN /\ CanLose \in BOOLEAN

VARIABLES
  history,     (* state.history: months of a run                           *)
  hist_file,   (* the history file                                         *)
  usage,       (* reports of months (usage_YYYYMM.html): month -> hits     *)
  index,       (* the main index page: links, chart labels and bars        *)
  unreported   (* auxiliary: months last saved by a run without a report   *)

histVars == <<history, hist_file, usage, index, unreported>>
allVars == <<vars, histVars>>

HistMonth(s) ==
  LET n == FirstMonth + Month(s.cur_tstamp)
  IN  [year |-> n \div 12, month |-> (n % 12) + 1,
       hits |-> Cardinality({id \in Id : s.counted[id] > 0})]

-----------------------------------------------------------------------------
(* The operations of history_t                                             *)

max_length == IF HistoryLength > 12 THEN HistoryLength ELSE 12

Same(m, n) == m.year = n.year /\ m.month = n.month
After(m, n) == m.year > n.year \/ (m.year = n.year /\ m.month > n.month)

(* Months between the first and the last one are in its length.            *)
length(months) ==
  IF months = <<>> THEN 0
  ELSE LET first == Head(months)
           last  == Last(months)
       IN  IF first.year = last.year THEN last.month - first.month + 1
           ELSE (last.year - first.year - 1) * 12 + last.month + (12 - first.month) + 1

disp_length(months) == IF length(months) > 12 THEN length(months) ELSE 12

find_month(months, m) == \E i \in DOMAIN months : Same(months[i], m)

(* Months are dropped from the start until the length is within bounds. The*)
(* variant takes the number of months for the length.                      *)
TrimmedBySize(months) ==
  SubSeq(months, IF Len(months) > max_length THEN 2 ELSE 1, Len(months))
Trimmed(months) ==
  LET n == Len(months) IN
  SubSeq(months, Min({i \in 1 .. n + 1 : length(SubSeq(months, i, n)) <= max_length}), n)

(* A month goes right after the last one that it is after.                 *)
WithMonth(months, m) ==
  LET n == Len(months) IN
  InsertAt(months, Min({i \in 1 .. n + 1 : \A k \in i .. n : ~After(m, months[k])}), m)

update(months, m) ==
  IF find_month(months, m)
  THEN [i \in DOMAIN months |-> IF Same(months[i], m) THEN m ELSE months[i]]
  ELSE Trimmed(WithMonth(months, m))

(* The file is read line by line, and written without months that have no  *)
(* hits.                                                                   *)
get_history ==
  LET read[n \in 0 .. Len(hist_file)] ==
        IF n = 0 THEN <<>> ELSE WithMonth(read[n - 1], hist_file[n])
  IN  Trimmed(read[Len(hist_file)])

WithHits(months) == Selected(months, {m \in ToSet(months) : m.hits # 0})

put_history(months) == WithHits(months)

(* Where a month stands in the chart, which ends with the last month       *)
month_index(months, m) ==
  LET last == Last(months)
  IN  IF last.year = m.year THEN disp_length(months) - (last.month - m.month) - 1
      ELSE disp_length(months)
             - ((last.year - m.year - 1) * 12 + last.month + (12 - m.month)) - 1

first_month(months) == ((12 - ((disp_length(months) - Last(months).month) % 12)) % 12) + 1

-----------------------------------------------------------------------------
(* Only an incremental run calls restore_state, which reads the history    *)
(* file, if there is one, and adds the month of the database if it is not  *)
(* there. Any other run starts without a history.                          *)
Read == IF ignore_hist THEN <<>> ELSE get_history

Restored(read, s) ==
  IF s.cur_tstamp = NoTime \/ find_month(read, HistMonth(s)) THEN read
  ELSE update(read, HistMonth(s))

StartWithHistory ==
  LET read == Read IN
  \E m \in Mode, list \in Lists :
    /\ StartRun(m, list)
    /\ history' = IF m.incremental THEN Restored(read, db') ELSE <<>>
    /\ UNCHANGED <<hist_file, usage, index, unreported>>

Key(m) == <<m.year, m.month>>

(* write_monthly_report. The variant keeps a page that is there.           *)
FirstReport(m) == usage @@ (Key(m) :> m.hits)
MonthlyReport(m) ==
  [k \in DOMAIN usage \cup {Key(m)} |-> IF k = Key(m) THEN m.hits ELSE usage[k]]

(* write_main_index: links to the months that have hits, latest first, and *)
(* the chart (year_graph6x), with a label for each month that it spans and *)
(* bars for those with hits.                                               *)
Labels(months) ==
  [i \in 0 .. disp_length(months) - 1 |-> ((first_month(months) - 1 + i) % 12) + 1]

Bars(months) == {<<month_index(months, m), m>> : m \in {n \in ToSet(months) : n.hits # 0}}

MainIndex(months) ==
  [links  |-> Reverse(WithHits(months)),
   labels |-> Labels(months),
   bars   |-> Bars(months)]

NoIndex == [links |-> <<>>, labels |-> <<>>, bars |-> {}]

(* A month that is closed by a record of another one is reported.          *)
CloseMonthReported ==
  LET m == HistMonth(state) IN
  /\ CloseMonth
  /\ history' = update(history, m)
  /\ hist_file' = put_history(history')
  /\ usage' = MonthlyReport(m)
  /\ unreported' = unreported \ {Key(m)}
  /\ UNCHANGED index

(* The end of a run is reported, unless Ctrl-C was pressed.                *)
SaveRunReported ==
  LET m == HistMonth(state)
      months == update(history, m)
  IN
  /\ SaveRun
  /\ history' = <<>>
  /\ hist_file' = put_history(months)
  /\ IF abort_signal
       THEN unreported' = unreported \cup {Key(m)} /\ UNCHANGED <<usage, index>>
       ELSE /\ unreported' = unreported \ {Key(m)}
            /\ usage' = MonthlyReport(m)
            /\ index' = MainIndex(months)

LeaveWithoutHistory ==
  /\ LeaveUnsaved
  /\ history' = <<>>
  /\ UNCHANGED <<hist_file, usage, index, unreported>>

(* The other steps of a run, among them KeepReport: what the last run has  *)
(* saved, and whatever report it wrote, is left as it is.                  *)
StepWithoutHistory ==
  /\ ReadStep \/ IgnoreRecord \/ KeepReport \/ SameMonth \/ CountRecord
  /\ UNCHANGED histVars

(* A missing file is no error.                                             *)
LoseHistory ==
  /\ CanLose /\ pc = "off" /\ hist_file # <<>>
  /\ hist_file' = <<>>
  /\ UNCHANGED <<vars, history, usage, index, unreported>>

-----------------------------------------------------------------------------
HistInit ==
  /\ Init
  /\ history = <<>> /\ hist_file = <<>> /\ index = NoIndex
  /\ usage = [n \in {} |-> 0] /\ unreported = {}

HistRunStep ==
  CloseMonthReported \/ SaveRunReported \/ LeaveWithoutHistory \/ StepWithoutHistory

HistNext ==
  \/ StartWithHistory
  \/ HistRunStep
  \/ CtrlC /\ UNCHANGED histVars
  \/ LoseHistory

(* A run goes on until it is done, as in LogRun: the history stops no step. *)
FairHistSpec == HistInit /\ [][HistNext]_allVars /\ WF_vars(RunStep)

-----------------------------------------------------------------------------
(* Properties                                                              *)

Number(m) == m.year * 12 + m.month

(* A save changes the history of its own month only, though it writes all  *)
(* of it from what was read when the run began: other months stay until a  *)
(* month comes that they are HistoryLength months before, and months are   *)
(* saved in any order ("process out of order months", CHANGES:314). Only   *)
(* the month of the database comes back if the file was lost. A run that   *)
(* is not incremental keeps no months but its own (webalizer.cpp:162), and *)
(* with ignore_hist one keeps those that it saves and that of the database.*)
SaveChangesOneMonth ==
  [][CloseMonth \/ SaveRun =>
       LET saved == HistMonth(state)
           old   == ToSet(hist_file)
           new   == ToSet(hist_file')
           months == old \cup {saved}
           TooOld(m) == \E n \in months : Number(n) - Number(m) >= max_length
       IN  /\ \A m, n \in new : Number(m) - Number(n) < max_length /\ (Same(m, n) => m = n)
           /\ \A m \in old : mode.incremental /\ ~ignore_hist =>
                             m \in new \/ Same(m, saved) \/ TooOld(m)
           /\ saved \in new \/ saved.hits = 0 \/ TooOld(saved)
           /\ \A m \in new \ months : (CanLose \/ ignore_hist) /\ since # NoTime
       ]_allVars

(* The main index page links to reports that are there and say the same,   *)
(* whichever runs wrote them, and each bar of its chart stands at its      *)
(* month ("links to each month", README.md:361). A month that was last     *)
(* saved by a run that Ctrl-C stopped has no report of that, and gets none *)
(* if the next run finds no active visits (webalizer.cpp:1456).            *)
IndexShowsReports ==
  /\ \A e \in ToSet(index.links) :
       e \in ToSet(hist_file) /\ Key(e) \notin unreported =>
         Key(e) \in DOMAIN usage /\ usage[Key(e)] = e.hits
  /\ \A i, j \in DOMAIN index.links :
       i < j => Number(index.links[i]) > Number(index.links[j])
  /\ \A b, c \in index.bars :
       /\ b[1] \in DOMAIN index.labels /\ index.labels[b[1]] = b[2].month
       /\ b[1] - c[1] = Number(b[2]) - Number(c[2])
=============================================================================
