---------------------------- MODULE LogRunProofs ----------------------------
(***************************************************************************)
(* Theorems about LogRun, for any log files, modes and number of runs: the *)
(* types, that months stay apart, that no database counts a record twice,  *)
(* that no record that was saved is forgotten, that the list of states     *)
(* matches the list of files, and that a run which reads files that are in *)
(* order loses no record. All of them are extended to runs with a history; *)
(* of that history, that the index page shows what reports say, and that a *)
(* save changes one month.                                                 *)
(***************************************************************************)
EXTENDS LogHistory, SumsAndRanks, TLAPS, SequenceTheorems, FiniteSetTheorems, WellFoundedInduction

-----------------------------------------------------------------------------
(* Sets of numbers and sequences                                           *)

(* A set of natural numbers that is not empty has a minimum.               *)
LEMMA MinExists ==
  ASSUME NEW S \in SUBSET Nat, S # {}
  PROVE  Min(S) \in S /\ \A x \in S : Min(S) <= x
<1>1. \E x \in S : \A y \in S : ~(<<y, x>> \in OpToRel(<, Nat))
  BY NatLessThanWellFounded, WFMin
<1>2. PICK x \in S : \A y \in S : ~(<<y, x>> \in OpToRel(<, Nat))
  BY <1>1
<1>3. \A y \in S : ~(y < x)
  BY <1>2, Zenon DEF OpToRel
<1>4. \E m \in S : \A y \in S : m <= y
  BY <1>3
<1>. QED
  BY <1>4 DEF Min

(* InsertAt shifts what follows the new element.                           *)
LEMMA InsertAtProperties ==
  ASSUME NEW S, NEW s \in Seq(S), NEW p \in 1 .. Len(s) + 1, NEW e \in S
  PROVE  /\ InsertAt(s, p, e) \in Seq(S)
         /\ Len(InsertAt(s, p, e)) = Len(s) + 1
         /\ \A i \in 1 .. Len(s) + 1 :
              InsertAt(s, p, e)[i] = IF i < p THEN s[i] ELSE IF i = p THEN e ELSE s[i - 1]
<1>. DEFINE front == SubSeq(s, 1, p - 1)
            back == SubSeq(s, p, Len(s))
<1>1. /\ front \in Seq(S) /\ Len(front) = p - 1
      /\ \A i \in 1 .. p - 1 : front[i] = s[i]
  OBVIOUS
<1>2. /\ back \in Seq(S) /\ Len(back) = Len(s) - p + 1
      /\ \A i \in 1 .. Len(s) - p + 1 : back[i] = s[p + i - 1]
  OBVIOUS
<1>3. <<e>> \in Seq(S) /\ Len(<<e>>) = 1 /\ <<e>>[1] = e
  OBVIOUS
<1>4. InsertAt(s, p, e) = (front \o <<e>>) \o back
  BY DEF InsertAt
<1>. HIDE DEF front, back
<1>5. /\ front \o <<e>> \in Seq(S) /\ Len(front \o <<e>>) = p
      /\ \A i \in 1 .. p : (front \o <<e>>)[i] = IF i < p THEN s[i] ELSE e
  BY <1>1, <1>3
<1>. DEFINE head == front \o <<e>>
<1>. HIDE DEF head
<1>6. /\ head \o back \in Seq(S) /\ Len(head \o back) = Len(s) + 1
      /\ \A i \in 1 .. Len(s) + 1 :
           (head \o back)[i] = IF i <= p THEN head[i] ELSE back[i - p]
  <2>1. head \in Seq(S) /\ Len(head) = p
    BY <1>5 DEF head
  <2>. QED
    BY <1>2, <2>1, ConcatProperties
<1>7. ASSUME NEW i \in 1 .. Len(s) + 1
      PROVE  (head \o back)[i] = IF i < p THEN s[i] ELSE IF i = p THEN e ELSE s[i - 1]
  <2>1. CASE i <= p
    BY <1>5, <1>6, <2>1 DEF head
  <2>2. CASE i > p
    <3>1. back[i - p] = s[p + (i - p) - 1]
      BY <1>2, <2>2
    <3>. QED
      BY <1>6, <2>2, <3>1
  <2>3. i <= p \/ i > p
    OBVIOUS
  <2>. QED
    BY <2>1, <2>2, <2>3, Zenon
<1>. QED
  BY <1>4, <1>6, <1>7 DEF head


(* RemoveAt leaves a sequence that is one shorter.                         *)
LEMMA RemoveAtProperties ==
  ASSUME NEW S, NEW s \in Seq(S), NEW p \in 1 .. Len(s)
  PROVE  /\ RemoveAt(s, p) \in Seq(S)
         /\ Len(RemoveAt(s, p)) = Len(s) - 1
<1>. DEFINE front == SubSeq(s, 1, p - 1)
            back == SubSeq(s, p + 1, Len(s))
<1>1. front \in Seq(S) /\ Len(front) = p - 1
  OBVIOUS
<1>2. back \in Seq(S) /\ Len(back) = Len(s) - p
  OBVIOUS
<1>3. RemoveAt(s, p) = front \o back
  BY DEF RemoveAt
<1>. HIDE DEF front, back
<1>. QED
  BY <1>1, <1>2, <1>3

-----------------------------------------------------------------------------
(* The inductive invariant                                                 *)

(* Configuration and flags of the run                                      *)
Config ==
  /\ runs \in Nat /\ mode \in Mode /\ names \in Seq(File) /\ since \in Nat \cup {NoTime}
  /\ check_dup \in BOOLEAN /\ total_good \in BOOLEAN
  /\ processed \in BOOLEAN /\ abort_signal \in BOOLEAN

(* Files, positions and the record in hand                                 *)
Reading ==
  /\ pc \in {"off", "prep", "loop", "get", "record", "count", "final"}
  /\ file \in [File -> Contents]
  /\ pos \in [File -> Nat]
  /\ \A f \in File : pos[f] <= Len(file[f])
  /\ logfiles \in Seq(File)
  /\ lfp_states \in Seq(Id)
  /\ wlfs \in Id \cup {NoRecord}
  /\ pc = "prep" => wlfs = NoRecord
  /\ pc \in {"record", "count"} => wlfs \in Id
  /\ pc # "prep" => /\ wlfs = NoRecord => Len(logfiles) = Len(lfp_states)
                    /\ wlfs # NoRecord => Len(logfiles) = Len(lfp_states) + 1

(* Every record that was read and is not done is in one place.             *)
InHand == pc \in {"record", "count"}
OnePlace ==
  /\ \A i \in 1 .. Len(lfp_states) : lfp_states[i][2] <= pos[lfp_states[i][1]]
  /\ \A i, j \in 1 .. Len(lfp_states) : lfp_states[i] = lfp_states[j] => i = j
  /\ InHand => /\ wlfs[2] <= pos[wlfs[1]]
               /\ \A i \in 1 .. Len(lfp_states) : lfp_states[i] # wlfs

(* A record that is still to come                                          *)
Pending(id) ==
  \/ id[2] > pos[id[1]]
  \/ \E i \in 1 .. Len(lfp_states) : lfp_states[i] = id
  \/ InHand /\ wlfs = id

(* The state and the databases. A state has a time stamp once a record of  *)
(* the run was counted.                                                    *)
MonthState == [cur_tstamp : Nat \cup {NoTime}, counted : Counts, active : BOOLEAN]
Database == [cur_tstamp : Nat \cup {NoTime}, counted : Counts, active : BOOLEAN,
             incremental : BOOLEAN]
Closed == [tstamp : Nat, counted : Counts]

Kept ==
  /\ state \in MonthState /\ db \in Database /\ archive \in Seq(Closed)
  /\ total_good /\ pc # "count" => state.cur_tstamp # NoTime

(* Where a record is counted, the state is of its month and not later.     *)
InTime ==
  pc = "count" => /\ state.cur_tstamp <= rec_tstamp
                  /\ state.cur_tstamp # NoTime =>
                       Month(state.cur_tstamp) = Month(rec_tstamp)

(* What was counted is not later than the time stamp of its database, and  *)
(* a record that is still to come though an earlier run has counted it is  *)
(* either recognised or earlier than any that this run counts.             *)
NotLater(s) == \A id \in Id : s.counted[id] > 0 => Tstamp(id) <= s.cur_tstamp
PastOnly ==
  \A id \in Id :
    Pending(id) /\ state.counted[id] > 0 =>
      /\ pc = "count" => Tstamp(id) < rec_tstamp
      /\ pc # "count" /\ total_good => Tstamp(id) < state.cur_tstamp
      /\ pc # "count" /\ ~total_good => check_dup

Once(s) == \A id \in Id : s.counted[id] <= 1

Past == /\ NotLater(state) /\ NotLater(db)
        /\ pc # "off" => PastOnly

AllOnce == /\ Once(state) /\ Once(db)
           /\ \A i \in 1 .. Len(archive) : Once(archive[i])

AllInMonth ==
  /\ InMonth(state, state.cur_tstamp) /\ InMonth(db, db.cur_tstamp)
  /\ \A i \in 1 .. Len(archive) : InMonth(archive[i], archive[i].tstamp)

IInv == Config /\ Reading /\ OnePlace /\ Kept /\ InTime /\ Past /\ AllOnce /\ AllInMonth

-----------------------------------------------------------------------------
(* Files and records                                                       *)

(* A record of a file is one of its lines.                                 *)
LEMMA IdProperties ==
  ASSUME file \in [File -> Contents], NEW id \in Id
  PROVE  /\ id[1] \in File /\ id[2] \in 1 .. Len(file[id[1]])
         /\ file[id[1]] \in Seq(Lines)
         /\ Tstamp(id) \in Nat
<1>1. PICK f \in File : id \in {f} \X DOMAIN file[f]
  BY DEF Id
<1>2. file[f] \in Seq(Lines)
  BY LogAssumption DEF LogAssumption
<1>3. id[1] = f /\ id[2] \in 1 .. Len(file[f])
  BY <1>1, <1>2
<1>4. file[f][id[2]] \in Lines
  BY <1>2, <1>3
<1>. QED
  BY <1>2, <1>3, <1>4 DEF Tstamp, Line, Lines

(* A line of a file is a record that may be read.                          *)
LEMMA IdIntro ==
  ASSUME file \in [File -> Contents], NEW f \in File, NEW i \in 1 .. Len(file[f])
  PROVE  <<f, i>> \in Id
<1>1. file[f] \in Seq(Lines)
  BY LogAssumption DEF LogAssumption
<1>2. i \in DOMAIN file[f]
  BY <1>1
<1>. QED
  BY <1>2 DEF Id

(* No record is none.                                                      *)
LEMMA NoRecordIsNone ==
  ASSUME file \in [File -> Contents]
  PROVE  NoRecord \notin Id
BY IdProperties, LogAssumption DEF NoRecord, LogAssumption

(* Log files do not change.                                                *)
LEMMA SameFiles ==
  ASSUME file' = file
  PROVE  /\ Id' = Id /\ Counts' = Counts /\ NoCounts' = NoCounts
         /\ \A id : Tstamp(id)' = Tstamp(id)
<1>1. Id' = Id
  BY DEF Id
<1>. QED
  BY <1>1 DEF Counts, NoCounts, Tstamp, Line

(* Reading goes on to a later line of the file.                            *)
LEMMA LineEndProperties ==
  ASSUME file \in [File -> Contents], pos \in [File -> Nat], NEW f \in File,
         pos[f] <= Len(file[f]), ~AtEnd(f)
  PROVE  /\ LineEnd(f) \in pos[f] + 1 .. Len(file[f])
         /\ NextLine(f) \in Id
<1>1. file[f] \in Seq(Lines)
  BY LogAssumption DEF LogAssumption
<1>2. pos[f] + 1 \in 1 .. Len(file[f])
  BY <1>1 DEF AtEnd
<1>3. NextLine(f) \in Id
  BY <1>2, IdIntro DEF NextLine
<1>4. CASE ~Oversized(NextLine(f))
  BY <1>2, <1>3, <1>4 DEF LineEnd
<1>5. CASE Oversized(NextLine(f))
  <2>. DEFINE ends == {i \in pos[f] + 1 .. Len(file[f]) : RestEnds(f, i)}
  <2>1. ends \subseteq Nat /\ Len(file[f]) \in ends
    BY <1>1, <1>2 DEF RestEnds
  <2>2. Min(ends) \in ends
    BY <2>1, MinExists
  <2>. QED
    BY <1>3, <1>5, <2>2 DEF LineEnd
<1>. QED
  BY <1>4, <1>5

(* A record is inserted somewhere.                                         *)
LEMMA InsertedProperties ==
  ASSUME NEW states \in Seq(Id), NEW id \in Id
  PROVE  /\ Inserted(states, id) \in Seq(Id)
         /\ Len(Inserted(states, id)) = Len(states) + 1
         /\ \E p \in 1 .. Len(states) + 1 : \A i \in 1 .. Len(states) + 1 :
              Inserted(states, id)[i] =
                IF i < p THEN states[i] ELSE IF i = p THEN id ELSE states[i - 1]
<1>. DEFINE places == {i \in 1 .. Len(states) + 1 :
                         i > Len(states) \/ Tstamp(states[i]) >= Tstamp(id)}
<1>1. places \subseteq Nat /\ Len(states) + 1 \in places
  OBVIOUS
<1>2. Min(places) \in places
  BY <1>1, MinExists
<1>3. Place(states, id) \in 1 .. Len(states) + 1
  BY <1>2 DEF Place
<1>4. Inserted(states, id) = InsertAt(states, Place(states, id), id)
  BY DEF Inserted
<1>. DEFINE p == Place(states, id)
<1>. HIDE DEF p
<1>5. p \in 1 .. Len(states) + 1
  BY <1>3 DEF p
<1>6. /\ InsertAt(states, p, id) \in Seq(Id)
      /\ Len(InsertAt(states, p, id)) = Len(states) + 1
  BY <1>5, InsertAtProperties
<1>7. \A i \in 1 .. Len(states) + 1 :
        InsertAt(states, p, id)[i] =
          IF i < p THEN states[i] ELSE IF i = p THEN id ELSE states[i - 1]
  BY <1>5, InsertAtProperties
<1>. QED
  BY <1>4, <1>5, <1>6, <1>7, Zenon DEF p

(* What is new has counted nothing.                                        *)
LEMMA NewProperties ==
  /\ NewState = [cur_tstamp |-> -1, counted |-> NoCounts, active |-> FALSE]
  /\ NewDb = [cur_tstamp |-> -1, counted |-> NoCounts, active |-> FALSE, incremental |-> FALSE]
  /\ NoTime = -1 /\ NoCounts \in Counts /\ \A id \in Id : NoCounts[id] = 0
BY DEF NewState, NewDb, NoTime, NoCounts, Counts

(* A list of log files is a sequence of files.                             *)
LEMMA ListsAreSequences == Lists \subseteq Seq(File)
<1>1. Cardinality(File) \in Nat
  BY LogAssumption, FS_CardinalityType DEF LogAssumption
<1>2. \A n \in 1 .. Cardinality(File) : [1 .. n -> File] \subseteq Seq(File)
  BY <1>1
<1>. QED
  BY <1>2 DEF Lists

-----------------------------------------------------------------------------
(* The invariant is inductive                                              *)

(* The invariant holds at the start.                                       *)
LEMMA InitIInv == Init => IInv
<1>. SUFFICES ASSUME Init PROVE IInv
  OBVIOUS
<1>1. file \in [File -> Contents]
  BY DEF Init
<1>2. /\ NewState = [cur_tstamp |-> -1, counted |-> NoCounts, active |-> FALSE]
      /\ NewDb = [cur_tstamp |-> -1, counted |-> NoCounts, active |-> FALSE,
                  incremental |-> FALSE]
      /\ NoTime = -1
  BY NewProperties
<1>3. NoCounts \in Counts /\ \A id \in Id : NoCounts[id] = 0
  BY NewProperties
<1>4. Config
  <2>1. {check_dup, total_good, processed, abort_signal} \subseteq BOOLEAN
    BY Zenon DEF Init
  <2>2. runs \in Nat /\ names \in Seq(File)
    BY DEF Init
  <2>3. mode \in Mode /\ since \in Nat \cup {NoTime}
    BY Zenon DEF Init
  <2>. QED
    BY <2>1, <2>2, <2>3, Zenon DEF Config
<1>5. Reading /\ OnePlace
  <2>1. \A f \in File : Len(file[f]) \in Nat
    BY <1>1, LogAssumption DEF LogAssumption
  <2>. QED
    BY <1>1, <2>1 DEF Init, Reading, OnePlace, InHand
<1>6. Kept
  BY <1>2, <1>3 DEF Init, Kept, MonthState, Database, NoTime
<1>7. InTime /\ Past /\ AllOnce /\ AllInMonth
  BY <1>2, <1>3 DEF Init, InTime, Past, NotLater, AllOnce, Once, AllInMonth, InMonth
<1>. QED
  BY <1>4, <1>5, <1>6, <1>7 DEF IInv

(* A step that leaves the state and the databases alone, and after which   *)
(* no record is still to come that was not before it.                      *)
LEMMA StateUnchanged ==
  ASSUME IInv, file' = file, UNCHANGED <<state, db, archive>>,
         UNCHANGED <<check_dup, total_good, processed>>,
         pc \notin {"off", "count"}, pc' # "count",
         \A id \in Id : Pending(id)' => Pending(id)
  PROVE  Kept' /\ InTime' /\ Past' /\ AllOnce' /\ AllInMonth'
<1>1. /\ Id' = Id /\ Counts' = Counts
      /\ \A id : Tstamp(id)' = Tstamp(id)
  BY SameFiles
<1>2. Kept'
  BY <1>1 DEF IInv, Kept, MonthState, Database, Closed
<1>3. InTime'
  BY DEF InTime
<1>4. Past'
  <2>1. NotLater(state)' /\ NotLater(db)'
    BY <1>1 DEF IInv, Past, NotLater
  <2>2. PastOnly'
    BY <1>1 DEF IInv, Past, PastOnly
  <2>. QED
    BY <2>1, <2>2 DEF Past
<1>5. AllOnce'
  BY <1>1 DEF IInv, AllOnce, Once
<1>6. AllInMonth'
  BY <1>1 DEF IInv, AllInMonth, InMonth
<1>. QED
  BY <1>2, <1>3, <1>4, <1>5, <1>6

(* The next record of a file is not in hand and not on the list. After it  *)
(* is inserted, the list has one place for every record, still.            *)
LEMMA RecordRead ==
  ASSUME IInv, file' = file, NEW f \in File, ~AtEnd(f),
         pos' = [pos EXCEPT ![f] = LineEnd(f)]
  PROVE  /\ pos' \in [File -> Nat]
         /\ \A g \in File : pos'[g] <= Len(file'[g])
         /\ \A g \in File : pos[g] <= pos'[g]
         /\ NextLine(f) \in Id /\ NextLine(f)[1] = f
         /\ NextLine(f)[2] > pos[f] /\ NextLine(f)[2] <= pos'[f]
<1>1. /\ file \in [File -> Contents] /\ pos \in [File -> Nat]
      /\ \A g \in File : pos[g] <= Len(file[g])
  BY DEF IInv, Reading
<1>2. LineEnd(f) \in pos[f] + 1 .. Len(file[f]) /\ NextLine(f) \in Id
  BY <1>1, LineEndProperties
<1>3. NextLine(f)[1] = f /\ NextLine(f)[2] = pos[f] + 1
  BY DEF NextLine
<1>4. \A g \in File : Len(file[g]) \in Nat
  BY <1>1, LogAssumption DEF LogAssumption
<1>. QED
  BY <1>1, <1>2, <1>3, <1>4

(* A line that is no record makes nothing pending.                         *)
LEMMA BadLineRead ==
  ASSUME IInv, file' = file, NEW f \in File, ~AtEnd(f),
         pos' = [pos EXCEPT ![f] = LineEnd(f)],
         UNCHANGED <<pc, lfp_states, wlfs>>
  PROVE  OnePlace' /\ \A id \in Id : Pending(id)' => Pending(id)
<1>1. \A g \in File : pos[g] \in Nat /\ pos'[g] \in Nat /\ pos[g] <= pos'[g]
  BY RecordRead DEF IInv, Reading
<1>2. \A id \in Id : id[1] \in File /\ id[2] \in Nat
  BY IdProperties, SMTT(20) DEF IInv, Reading
<1>3. /\ \A i \in 1 .. Len(lfp_states) : lfp_states[i] \in Id
      /\ InHand => wlfs \in Id
  BY DEF IInv, Reading, InHand
<1>4. OnePlace'
  BY <1>1, <1>2, <1>3 DEF IInv, OnePlace, InHand
<1>5. \A id \in Id : Pending(id)' => Pending(id)
  BY <1>1, <1>2 DEF Pending, InHand
<1>. QED
  BY <1>4, <1>5

(* Nor does a record that is inserted: it was pending in its file.         *)
LEMMA RecordInserted ==
  ASSUME IInv, file' = file, NEW f \in File, ~AtEnd(f),
         pos' = [pos EXCEPT ![f] = LineEnd(f)],
         lfp_states' = Inserted(lfp_states, NextLine(f)),
         pc' = pc, pc \in {"prep", "get"}
  PROVE  /\ lfp_states' \in Seq(Id) /\ Len(lfp_states') = Len(lfp_states) + 1
         /\ OnePlace' /\ \A id \in Id : Pending(id)' => Pending(id)
<1>. DEFINE new == NextLine(f)
            n == Len(lfp_states)
<1>1. /\ \A g \in File : pos[g] \in Nat /\ pos'[g] \in Nat /\ pos[g] <= pos'[g]
      /\ new \in Id /\ new[1] = f /\ new[2] > pos[f] /\ new[2] <= pos'[f]
  BY RecordRead DEF IInv, Reading
<1>2. \A id \in Id : id[1] \in File /\ id[2] \in Nat
  BY IdProperties DEF IInv, Reading
<1>3. lfp_states \in Seq(Id) /\ n \in Nat /\ \A i \in 1 .. n : lfp_states[i] \in Id
  BY DEF IInv, Reading
<1>. HIDE DEF new
<1>4. lfp_states' \in Seq(Id) /\ Len(lfp_states') = n + 1
  BY <1>1, <1>3, InsertedProperties DEF new
<1>5. PICK p \in 1 .. n + 1 : \A i \in 1 .. n + 1 :
        lfp_states'[i] = IF i < p THEN lfp_states[i]
                         ELSE IF i = p THEN new ELSE lfp_states[i - 1]
  <2>1. \E p \in 1 .. n + 1 : \A i \in 1 .. n + 1 :
          Inserted(lfp_states, new)[i] = IF i < p THEN lfp_states[i]
                                         ELSE IF i = p THEN new ELSE lfp_states[i - 1]
    BY <1>1, <1>3, InsertedProperties, Zenon
  <2>. QED
    BY <2>1, Zenon DEF new
<1>6. \A i \in 1 .. n : lfp_states[i] # new /\ lfp_states[i][2] <= pos[lfp_states[i][1]]
  BY <1>1, <1>2, <1>3 DEF IInv, OnePlace
<1>7. \A i, j \in 1 .. n : lfp_states[i] = lfp_states[j] => i = j
  BY DEF IInv, OnePlace
<1>8. ASSUME NEW i \in 1 .. n + 1
      PROVE  lfp_states'[i][2] <= pos'[lfp_states'[i][1]]
  <2>1. CASE i < p
    BY <1>1, <1>2, <1>3, <1>5, <1>6, <2>1, SMTT(20)
  <2>2. CASE i = p
    BY <1>1, <1>5, <2>2
  <2>3. CASE i > p
    <3>1. i - 1 \in 1 .. n /\ lfp_states'[i] = lfp_states[i - 1]
      BY <1>3, <1>5, <2>3
    <3>. QED
      BY <1>1, <1>2, <1>3, <1>6, <3>1
  <2>. QED
    BY <1>3, <2>1, <2>2, <2>3
<1>9. \A i, j \in 1 .. n + 1 : lfp_states'[i] = lfp_states'[j] => i = j
  BY <1>3, <1>5, <1>6, <1>7
<1>10. OnePlace'
  BY <1>4, <1>8, <1>9 DEF OnePlace, InHand
<1>11. ASSUME NEW id \in Id, Pending(id)'
       PROVE  Pending(id)
  <2>1. CASE id[2] > pos'[id[1]]
    BY <1>1, <1>2, <2>1 DEF Pending
  <2>2. CASE \E i \in 1 .. n + 1 : lfp_states'[i] = id
    <3>1. PICK i \in 1 .. n + 1 : lfp_states'[i] = id
      BY <2>2
    <3>2. CASE i < p
      BY <1>3, <1>5, <3>1, <3>2 DEF Pending
    <3>3. CASE i = p
      BY <1>1, <1>5, <3>1, <3>3 DEF Pending
    <3>4. CASE i > p
      <4>1. i - 1 \in 1 .. n /\ lfp_states[i - 1] = id
        BY <1>3, <1>5, <3>1, <3>4
      <4>. QED
        BY <4>1 DEF Pending
    <3>. QED
      BY <1>3, <3>2, <3>3, <3>4
  <2>. QED
    BY <1>4, <1>11, <2>1, <2>2 DEF Pending, InHand
<1>. QED
  BY <1>4, <1>10, <1>11

(* Reading steps keep the files, the list and the record in hand together. *)
LEMMA ReadStepInv == IInv /\ ReadStep => IInv'
<1>. SUFFICES ASSUME IInv, ReadStep PROVE IInv'
  OBVIOUS
<1>. DEFINE NothingNew == \A id \in Id : Pending(id)' => Pending(id)
<1>1. /\ file' = file /\ UNCHANGED <<state, db, archive>>
      /\ UNCHANGED <<check_dup, total_good, processed, abort_signal>>
      /\ UNCHANGED <<runs, mode, names, since>>
      /\ pc \in {"prep", "loop", "get"} /\ pc' # "count"
  BY DEF ReadStep, PrepLine, PrepDone, LoopTest, GetLine, GetRecord, runVars, fileVars
<1>2. Id' = Id
  BY <1>1, SameFiles
<1>3. NoRecord \notin Id
  BY NoRecordIsNone DEF IInv, Reading
<1>4. Config'
  BY <1>1, Zenon DEF IInv, Config
<1>. SUFFICES Reading' /\ OnePlace' /\ NothingNew
  <2>1. SUFFICES Kept' /\ InTime' /\ Past' /\ AllOnce' /\ AllInMonth'
    BY <1>4 DEF IInv
  <2>. QED
    BY <1>1, StateUnchanged
<1>5. CASE PrepLine
  <2>. DEFINE i == Len(lfp_states) + 1
              f == logfiles[i]
  <2>1. /\ pc = "prep" /\ pc' = pc /\ wlfs' = wlfs /\ wlfs = NoRecord
        /\ i \in 1 .. Len(logfiles) /\ f \in File
    BY <1>5 DEF PrepLine, IInv, Reading
  <2>2. CASE AtEnd(f) /\ logfiles' = RemoveAt(logfiles, i) /\ UNCHANGED <<pos, lfp_states>>
    <3>1. logfiles' \in Seq(File)
      BY <2>1, <2>2, RemoveAtProperties DEF IInv, Reading
    <3>. QED
      BY <1>1, <1>2, <2>1, <2>2, <3>1 DEF IInv, Reading, OnePlace, Pending, InHand
  <2>3. CASE /\ ~AtEnd(f) /\ pos' = [pos EXCEPT ![f] = LineEnd(f)]
             /\ UNCHANGED <<lfp_states, logfiles>>
    <3>1. OnePlace' /\ NothingNew
      BY <1>1, <2>1, <2>3, BadLineRead
    <3>2. pos' \in [File -> Nat] /\ \A g \in File : pos'[g] <= Len(file'[g])
      BY <1>1, <2>1, <2>3, RecordRead
    <3>3. Reading'
      BY <1>1, <1>2, <2>1, <2>3, <3>2 DEF IInv, Reading
    <3>. QED
      BY <3>1, <3>3
  <2>4. CASE /\ ~AtEnd(f) /\ pos' = [pos EXCEPT ![f] = LineEnd(f)]
             /\ lfp_states' = Inserted(lfp_states, NextLine(f)) /\ logfiles' = logfiles
    <3>1. lfp_states' \in Seq(Id) /\ OnePlace' /\ NothingNew
      BY <1>1, <2>1, <2>4, RecordInserted
    <3>2. pos' \in [File -> Nat] /\ \A g \in File : pos'[g] <= Len(file'[g])
      BY <1>1, <2>1, <2>4, RecordRead
    <3>3. Reading'
      BY <1>1, <1>2, <2>1, <2>4, <3>1, <3>2 DEF IInv, Reading
    <3>. QED
      BY <3>1, <3>3
  <2>. QED
    BY <1>5, <2>2, <2>3, <2>4 DEF PrepLine
<1>6. CASE PrepDone
  BY <1>1, <1>2, <1>6 DEF PrepDone, fileVars, IInv, Reading, OnePlace, Pending, InHand
<1>7. CASE LoopTest
  BY <1>1, <1>2, <1>7 DEF LoopTest, fileVars, IInv, Reading, OnePlace, Pending, InHand
<1>8. CASE GetLine
  <2>. DEFINE f == wlfs[1]
  <2>1. pc = "get" /\ pc' = pc /\ Len(lfp_states) < Len(logfiles)
    BY <1>8 DEF GetLine
  <2>2. wlfs \in Id /\ wlfs # NoRecord /\ Len(logfiles) = Len(lfp_states) + 1
    BY <1>3, <2>1 DEF IInv, Reading
  <2>3. f \in File
    BY <2>2, IdProperties DEF IInv, Reading
  <2>4. CASE /\ AtEnd(f) /\ wlfs' = NoRecord /\ UNCHANGED <<pos, lfp_states>>
             /\ \E i \in DOMAIN logfiles :
                  logfiles[i] = f /\ logfiles' = RemoveAt(logfiles, i)
    <3>1. logfiles' \in Seq(File) /\ Len(logfiles') = Len(logfiles) - 1
      BY <2>4, RemoveAtProperties, SMTT(20) DEF IInv, Reading
    <3>. QED
      BY <1>1, <1>2, <2>1, <2>2, <2>4, <3>1 DEF IInv, Reading, OnePlace, Pending, InHand
  <2>5. CASE /\ ~AtEnd(f) /\ pos' = [pos EXCEPT ![f] = LineEnd(f)]
             /\ UNCHANGED <<lfp_states, wlfs, logfiles>>
    <3>1. OnePlace' /\ NothingNew
      BY <1>1, <2>1, <2>3, <2>5, BadLineRead
    <3>2. pos' \in [File -> Nat] /\ \A g \in File : pos'[g] <= Len(file'[g])
      BY <1>1, <2>3, <2>5, RecordRead
    <3>3. Reading'
      BY <1>1, <1>2, <2>1, <2>5, <3>2 DEF IInv, Reading
    <3>. QED
      BY <3>1, <3>3
  <2>6. CASE /\ ~AtEnd(f) /\ pos' = [pos EXCEPT ![f] = LineEnd(f)]
             /\ lfp_states' = Inserted(lfp_states, NextLine(f)) /\ wlfs' = NoRecord
             /\ logfiles' = logfiles
    <3>1. /\ lfp_states' \in Seq(Id) /\ Len(lfp_states') = Len(lfp_states) + 1
          /\ OnePlace' /\ NothingNew
      BY <1>1, <2>1, <2>3, <2>6, RecordInserted
    <3>2. pos' \in [File -> Nat] /\ \A g \in File : pos'[g] <= Len(file'[g])
      BY <1>1, <2>3, <2>6, RecordRead
    <3>3. Reading'
      BY <1>1, <1>2, <2>1, <2>2, <2>6, <3>1, <3>2 DEF IInv, Reading
    <3>. QED
      BY <3>1, <3>3
  <2>. QED
    BY <1>8, <2>4, <2>5, <2>6 DEF GetLine
<1>9. CASE GetRecord
  <2>1. /\ pc = "get" /\ Len(lfp_states) = Len(logfiles) /\ UNCHANGED <<pos, logfiles>>
        /\ wlfs = NoRecord /\ lfp_states \in Seq(Id)
    BY <1>9 DEF GetRecord, IInv, Reading
  <2>2. CASE lfp_states = <<>>
    BY <1>1, <1>2, <1>9, <2>1, <2>2
    DEF GetRecord, IInv, Reading, OnePlace, Pending, InHand
  <2>3. CASE lfp_states # <<>>
    <3>1. pc' = "record" /\ wlfs' = lfp_states[1] /\ lfp_states' = Tail(lfp_states)
      BY <1>9, <2>1, <2>3 DEF GetRecord
    <3>2. /\ lfp_states' \in Seq(Id) /\ Len(lfp_states) = Len(lfp_states') + 1
          /\ \A i \in 1 .. Len(lfp_states') : lfp_states'[i] = lfp_states[i + 1]
          /\ 1 \in 1 .. Len(lfp_states)
          /\ \A i \in 1 .. Len(lfp_states') : i + 1 \in 1 .. Len(lfp_states)
      BY <2>1, <2>3, <3>1
    <3>3. wlfs' \in Id /\ wlfs' # NoRecord
      BY <1>3, <2>1, <3>1, <3>2
    <3>4. Reading'
      BY <1>1, <1>2, <2>1, <3>1, <3>2, <3>3 DEF IInv, Reading
    <3>5. OnePlace'
      BY <2>1, <3>1, <3>2 DEF IInv, OnePlace, InHand
    <3>6. NothingNew
      BY <2>1, <3>1, <3>2 DEF Pending, InHand
    <3>. QED
      BY <3>4, <3>5, <3>6
  <2>. QED
    BY <2>2, <2>3
<1>. QED
  BY <1>5, <1>6, <1>7, <1>8, <1>9 DEF ReadStep

(* A run starts with the state database, or without. Whatever is counted   *)
(* by then makes the run check for duplicates.                             *)
LEMMA StartRunInv ==
  ASSUME IInv, NEW m \in Mode, NEW list \in Lists, StartRun(m, list)
  PROVE  IInv'
<1>. DEFINE restored == IF Truncated(m) THEN NewDb ELSE db
<1>1. /\ pc = "off" /\ pc' = "prep" /\ runs' = runs + 1 /\ mode' = m /\ names' = list
      /\ db' = restored /\ state' = [f \in DOMAIN NewState |-> restored[f]]
      /\ since' = restored.cur_tstamp
      /\ check_dup' = (m.incremental /\ restored.cur_tstamp # NoTime)
      /\ total_good' = FALSE /\ processed' = FALSE /\ abort_signal' = FALSE
      /\ pos' = [f \in File |-> 0] /\ logfiles' = list /\ lfp_states' = <<>>
      /\ wlfs' = NoRecord /\ file' = file /\ archive' = archive
  BY DEF StartRun
<1>2. /\ Id' = Id /\ Counts' = Counts /\ \A id : Tstamp(id)' = Tstamp(id)
  BY <1>1, SameFiles
<1>3. m.incremental \in BOOLEAN
  BY LogAssumption DEF LogAssumption
<1>4. /\ restored \in Database /\ NotLater(restored) /\ Once(restored)
      /\ InMonth(restored, restored.cur_tstamp)
  BY NewProperties
  DEF IInv, Kept, Past, AllOnce, AllInMonth, Database, NotLater, Once, InMonth, NoTime
<1>5. ASSUME NEW id \in Id, restored.counted[id] > 0
      PROVE  m.incremental /\ restored.cur_tstamp # NoTime
  <2>1. m.incremental
    BY <1>5, NewProperties DEF Truncated
  <2>2. Tstamp(id) \in Nat
    BY IdProperties DEF IInv, Reading
  <2>3. Tstamp(id) <= restored.cur_tstamp
    BY <1>4, <1>5 DEF NotLater
  <2>. QED
    BY <2>1, <2>2, <2>3 DEF NoTime
<1>. HIDE DEF restored
<1>6. /\ state' = [cur_tstamp |-> restored.cur_tstamp, counted |-> restored.counted,
                   active |-> restored.active]
  BY <1>1, <1>4, NewProperties DEF Database
<1>7. Config'
  <2>1. {check_dup', total_good', processed', abort_signal'} \subseteq BOOLEAN
    BY <1>1, <1>3, Zenon
  <2>2. runs' \in Nat /\ names' \in Seq(File) /\ since' \in Nat \cup {NoTime}
    BY <1>1, <1>4, ListsAreSequences DEF IInv, Config, Database
  <2>3. mode' \in Mode
    BY <1>1
  <2>. QED
    BY <2>1, <2>2, <2>3, Zenon DEF Config
<1>8. Reading' /\ OnePlace'
  <2>1. \A f \in File : Len(file[f]) \in Nat
    BY LogAssumption DEF LogAssumption, IInv, Reading
  <2>2. list \in Seq(File)
    BY ListsAreSequences
  <2>. QED
    BY <1>1, <1>2, <2>1, <2>2 DEF IInv, Reading, OnePlace, InHand
<1>9. Kept'
  BY <1>1, <1>2, <1>4, <1>6 DEF IInv, Kept, MonthState, Database, Closed
<1>10. InTime'
  BY <1>1 DEF InTime
<1>11. Past'
  <2>1. NotLater(state)' /\ NotLater(db)'
    BY <1>1, <1>2, <1>4, <1>6 DEF NotLater
  <2>2. PastOnly'
    BY <1>1, <1>2, <1>5, <1>6 DEF PastOnly
  <2>. QED
    BY <2>1, <2>2 DEF Past
<1>12. AllOnce'
  BY <1>1, <1>2, <1>4, <1>6 DEF IInv, AllOnce, Once
<1>13. AllInMonth'
  BY <1>1, <1>2, <1>4, <1>6 DEF IInv, AllInMonth, InMonth
<1>. QED
  BY <1>7, <1>8, <1>9, <1>10, <1>11, <1>12, <1>13 DEF IInv

(* The state that is rolled over is a closed month like the others.        *)
LEMMA ArchivedProperties ==
  ASSUME IInv, file' = file, state.cur_tstamp # NoTime, archive' = Archived(state)
  PROVE  /\ archive' \in Seq(Closed)'
         /\ (\A i \in 1 .. Len(archive) : Once(archive[i]))'
         /\ (\A i \in 1 .. Len(archive) : InMonth(archive[i], archive[i].tstamp))'
<1>. DEFINE closed == [tstamp |-> state.cur_tstamp, counted |-> state.counted]
<1>1. Id' = Id /\ Counts' = Counts /\ \A id : Tstamp(id)' = Tstamp(id)
  BY SameFiles
<1>2. closed \in Closed /\ Once(closed) /\ InMonth(closed, closed.tstamp)
  BY DEF IInv, Kept, MonthState, Closed, AllOnce, AllInMonth, Once, InMonth, NoTime
<1>3. archive \in Seq(Closed) /\ archive' = Append(archive, closed)
  BY DEF IInv, Kept, Archived
<1>. HIDE DEF closed
<1>4. /\ archive' \in Seq(Closed) /\ Len(archive') = Len(archive) + 1
      /\ \A i \in 1 .. Len(archive') :
           archive'[i] = IF i <= Len(archive) THEN archive[i] ELSE closed
  BY <1>2, <1>3
<1>5. \A i \in 1 .. Len(archive') : Once(archive'[i]) /\ InMonth(archive'[i], archive'[i].tstamp)
  <2>1. \A i \in 1 .. Len(archive) : Once(archive[i]) /\ InMonth(archive[i], archive[i].tstamp)
    BY DEF IInv, AllOnce, AllInMonth
  <2>. QED
    BY <1>2, <1>3, <1>4, <2>1
<1>. QED
  BY <1>1, <1>4, <1>5 DEF Closed, Once, InMonth

(* A record is ignored, or taken for the month it belongs to.              *)
LEMMA RecordInHand ==
  ASSUME IInv, pc \in {"record", "count"}
  PROVE  wlfs \in Id /\ rec_tstamp \in Nat
BY IdProperties DEF IInv, Reading, rec_tstamp

(* A record that is ignored is gone.                                       *)
LEMMA IgnoreRecordInv == IInv /\ IgnoreRecord => IInv'
<1>. SUFFICES ASSUME IInv, IgnoreRecord PROVE IInv'
  OBVIOUS
<1>1. /\ pc = "record" /\ pc' = "loop" /\ file' = file
      /\ UNCHANGED <<runs, mode, names, since, pos, logfiles, lfp_states, wlfs>>
      /\ UNCHANGED <<check_dup, total_good, processed, abort_signal, state, db, archive>>
  BY DEF IgnoreRecord, runVars, fileVars
<1>2. Id' = Id
  BY <1>1, SameFiles
<1>3. Config'
  BY <1>1, Zenon DEF IInv, Config
<1>4. Reading' /\ OnePlace'
  BY <1>1, <1>2 DEF IInv, Reading, OnePlace, InHand
<1>5. \A id \in Id : Pending(id)' => Pending(id)
  BY <1>1 DEF Pending, InHand
<1>6. Kept' /\ InTime' /\ Past' /\ AllOnce' /\ AllInMonth'
  BY <1>1, <1>5, StateUnchanged
<1>. QED
  BY <1>3, <1>4, <1>6 DEF IInv

(* A record of another month finds a state that has counted nothing.       *)
LEMMA OtherMonthInv == IInv /\ (KeepReport \/ CloseMonth) => IInv'
<1>. SUFFICES ASSUME IInv, KeepReport \/ CloseMonth PROVE IInv'
  OBVIOUS
<1>1. /\ pc = "record" /\ pc' = "count" /\ file' = file
      /\ UNCHANGED <<runs, mode, names, since, pos, logfiles, lfp_states, wlfs>>
      /\ UNCHANGED <<total_good, processed, abort_signal>> /\ check_dup' = FALSE
      /\ state.cur_tstamp # NoTime /\ archive' = Archived(state) /\ db' = NewDb
      /\ \/ state' = [NewState EXCEPT !.cur_tstamp = rec_tstamp]
         \/ state' = NewState
  BY DEF KeepReport, CloseMonth, OtherMonth, Reset, runVars, fileVars
<1>2. /\ Id' = Id /\ Counts' = Counts /\ NoCounts' = NoCounts
      /\ \A id : Tstamp(id)' = Tstamp(id)
  BY <1>1, SameFiles
<1>3. wlfs \in Id /\ rec_tstamp \in Nat /\ rec_tstamp' = rec_tstamp
  BY <1>1, <1>2, RecordInHand DEF rec_tstamp
<1>4. /\ state' \in MonthState' /\ state'.counted = NoCounts
      /\ state'.cur_tstamp \in {NoTime, rec_tstamp}
      /\ db' \in Database' /\ db'.counted = NoCounts
  <2>1. MonthState' = MonthState /\ Database' = Database
    BY <1>2 DEF MonthState, Database, NoTime
  <2>2. \/ state' = [cur_tstamp |-> rec_tstamp, counted |-> NoCounts, active |-> FALSE]
        \/ state' = [cur_tstamp |-> NoTime, counted |-> NoCounts, active |-> FALSE]
    BY <1>1, NewProperties
  <2>3. db' = [cur_tstamp |-> NoTime, counted |-> NoCounts, active |-> FALSE,
               incremental |-> FALSE]
    BY <1>1, NewProperties
  <2>4. NoCounts \in Counts
    BY NewProperties
  <2>5. state' \in MonthState
    <3>1. \A t \in Nat \cup {NoTime} :
            [cur_tstamp |-> t, counted |-> NoCounts, active |-> FALSE] \in MonthState
      BY <2>4 DEF MonthState
    <3>. QED
      BY <1>3, <2>2, <3>1
  <2>6. db' \in Database
    BY <2>3, <2>4 DEF Database
  <2>. QED
    BY <2>1, <2>2, <2>3, <2>5, <2>6
<1>5. \A id \in Id : NoCounts[id] = 0
  BY NewProperties
<1>6. /\ archive' \in Seq(Closed)'
      /\ (\A i \in 1 .. Len(archive) : Once(archive[i]))'
      /\ (\A i \in 1 .. Len(archive) : InMonth(archive[i], archive[i].tstamp))'
  BY <1>1, ArchivedProperties
<1>7. Config'
  BY <1>1, Zenon DEF IInv, Config
<1>8. Reading' /\ OnePlace'
  BY <1>1, <1>2 DEF IInv, Reading, OnePlace, InHand
<1>9. Kept'
  BY <1>1, <1>4, <1>6 DEF IInv, Kept
<1>10. InTime'
  BY <1>3, <1>4, NewProperties DEF InTime
<1>11. Past'
  BY <1>2, <1>4, <1>5 DEF Past, NotLater, PastOnly
<1>12. AllOnce' /\ AllInMonth'
  BY <1>2, <1>4, <1>5, <1>6 DEF AllOnce, Once, AllInMonth, InMonth
<1>. QED
  BY <1>7, <1>8, <1>9, <1>10, <1>11, <1>12 DEF IInv

(* A record of the month of the state is later than everything that was    *)
(* counted and is still to come.                                           *)
LEMMA SameMonthInv == IInv /\ SameMonth => IInv'
<1>. SUFFICES ASSUME IInv, SameMonth PROVE IInv'
  OBVIOUS
<1>1. /\ pc = "record" /\ pc' = "count" /\ file' = file
      /\ UNCHANGED <<runs, mode, names, since, pos, logfiles, lfp_states, wlfs>>
      /\ UNCHANGED <<total_good, processed, abort_signal, state, db, archive>>
      /\ check_dup' = FALSE
      /\ ~Duplicate /\ rec_tstamp >= state.cur_tstamp /\ ~OtherMonth
  BY DEF SameMonth, runVars, fileVars
<1>2. /\ Id' = Id /\ Counts' = Counts
      /\ \A id : Tstamp(id)' = Tstamp(id)
  BY <1>1, SameFiles
<1>3. wlfs \in Id /\ rec_tstamp \in Nat /\ rec_tstamp' = rec_tstamp
  BY <1>1, <1>2, RecordInHand DEF rec_tstamp
<1>4. state.cur_tstamp \in Nat \cup {-1}
  BY NewProperties DEF IInv, Kept, MonthState
<1>5. Config'
  BY <1>1, Zenon DEF IInv, Config
<1>6. Reading' /\ OnePlace'
  BY <1>1, <1>2 DEF IInv, Reading, OnePlace, InHand
<1>7. Kept'
  BY <1>1, <1>2 DEF IInv, Kept, MonthState, Database, Closed
<1>8. InTime'
  BY <1>1, <1>3, <1>4 DEF InTime, OtherMonth
<1>9. Past'
  <2>1. NotLater(state)' /\ NotLater(db)'
    BY <1>1, <1>2 DEF IInv, Past, NotLater
  <2>2. ASSUME NEW id \in Id, Pending(id)', state.counted[id] > 0
        PROVE  Tstamp(id) < rec_tstamp
    <3>1. Pending(id)
      BY <1>1, <2>2 DEF Pending, InHand
    <3>2. Tstamp(id) \in Nat /\ Tstamp(id) <= state.cur_tstamp
      BY <2>2, IdProperties DEF IInv, Reading, Past, NotLater
    <3>3. CASE total_good
      <4>1. Tstamp(id) < state.cur_tstamp
        BY <1>1, <2>2, <3>1, <3>3 DEF IInv, Past, PastOnly
      <4>. QED
        BY <1>1, <1>3, <1>4, <3>2, <4>1
    <3>4. CASE ~total_good
      <4>1. check_dup
        BY <1>1, <2>2, <3>1, <3>4 DEF IInv, Past, PastOnly
      <4>2. ~(rec_tstamp <= state.cur_tstamp)
        BY <1>1, <3>4, <4>1 DEF Duplicate
      <4>. QED
        BY <1>3, <1>4, <3>2, <4>2
    <3>. QED
      BY <3>3, <3>4
  <2>3. PastOnly'
    BY <1>1, <1>2, <1>3, <2>2 DEF PastOnly
  <2>. QED
    BY <2>1, <2>3 DEF Past
<1>10. AllOnce' /\ AllInMonth'
  BY <1>1, <1>2 DEF IInv, AllOnce, Once, AllInMonth, InMonth
<1>. QED
  BY <1>5, <1>6, <1>7, <1>8, <1>9, <1>10 DEF IInv

(* A counted record was not counted before, and is not to come again.      *)
LEMMA CountRecordInv == IInv /\ CountRecord => IInv'
<1>. SUFFICES ASSUME IInv, CountRecord PROVE IInv'
  OBVIOUS
<1>1. /\ pc = "count" /\ pc' = "loop" /\ total_good' = TRUE /\ file' = file
      /\ UNCHANGED <<runs, mode, names, since, pos, logfiles, lfp_states, wlfs>>
      /\ UNCHANGED <<check_dup, abort_signal, db, archive>>
      /\ processed' \in {processed, TRUE}
      /\ \/ state' = [state EXCEPT !.cur_tstamp = rec_tstamp]
         \/ state' = [state EXCEPT !.cur_tstamp = rec_tstamp, !.counted[wlfs] = @ + 1]
  BY DEF CountRecord, runVars, fileVars
<1>2. /\ Id' = Id /\ Counts' = Counts
      /\ \A id : Tstamp(id)' = Tstamp(id)
  BY <1>1, SameFiles
<1>3. wlfs \in Id /\ rec_tstamp \in Nat /\ rec_tstamp = Tstamp(wlfs)
  BY <1>1, RecordInHand DEF rec_tstamp
<1>4. /\ state.cur_tstamp \in Nat \cup {-1} /\ state.counted \in [Id -> Nat]
      /\ state.active \in BOOLEAN /\ state \in MonthState
  BY NewProperties DEF IInv, Kept, MonthState, Counts
<1>5. state.counted[wlfs] = 0
  <2>1. Pending(wlfs)
    BY <1>1 DEF Pending, InHand
  <2>2. state.counted[wlfs] > 0 => Tstamp(wlfs) < rec_tstamp
    BY <1>1, <1>3, <2>1 DEF IInv, Past, PastOnly
  <2>. QED
    BY <1>3, <1>4, <2>2
<1>6. /\ state'.cur_tstamp = rec_tstamp /\ state'.active = state.active
      /\ state'.counted \in [Id -> Nat]
      /\ \A id \in Id : id # wlfs => state'.counted[id] = state.counted[id]
      /\ state'.counted[wlfs] \in {0, 1}
      /\ state' \in MonthState
  <2>1. CASE state' = [state EXCEPT !.cur_tstamp = rec_tstamp]
    BY <1>3, <1>4, <1>5, <2>1 DEF MonthState, Counts
  <2>2. CASE state' = [state EXCEPT !.cur_tstamp = rec_tstamp, !.counted[wlfs] = @ + 1]
    <3>1. state' = [cur_tstamp |-> rec_tstamp, active |-> state.active,
                    counted |-> [state.counted EXCEPT ![wlfs] = @ + 1]]
      BY <1>4, <2>2 DEF MonthState
    <3>2. [state.counted EXCEPT ![wlfs] = @ + 1] \in [Id -> Nat]
      BY <1>3, <1>4
    <3>. QED
      BY <1>3, <1>4, <1>5, <3>1, <3>2 DEF MonthState, Counts
  <2>. QED
    BY <1>1, <2>1, <2>2
<1>7. \A id \in Id : Tstamp(id) \in Nat
  BY IdProperties DEF IInv, Reading
<1>8. \A id \in Id : state.counted[id] > 0 =>
        /\ Tstamp(id) <= rec_tstamp
        /\ Month(Tstamp(id)) = Month(rec_tstamp)
  <2>1. \A id \in Id : state.counted[id] > 0 =>
          Tstamp(id) <= state.cur_tstamp /\ Month(Tstamp(id)) = Month(state.cur_tstamp)
    BY DEF IInv, Past, NotLater, AllInMonth, InMonth
  <2>2. /\ state.cur_tstamp <= rec_tstamp
        /\ state.cur_tstamp # -1 => Month(state.cur_tstamp) = Month(rec_tstamp)
    BY <1>1, NewProperties DEF IInv, InTime
  <2>. QED
    BY <1>3, <1>4, <1>7, <2>1, <2>2
<1>9. Config'
  <2>1. {total_good, processed, TRUE} \subseteq BOOLEAN
    BY Zenon DEF IInv, Config
  <2>. QED
    BY <1>1, <2>1, Zenon DEF IInv, Config
<1>10. Reading' /\ OnePlace'
  BY <1>1, <1>2 DEF IInv, Reading, OnePlace, InHand
<1>11. Kept'
  <2>1. MonthState' = MonthState /\ Database' = Database /\ Closed' = Closed
    BY <1>2 DEF MonthState, Database, Closed, NoTime
  <2>. QED
    BY <1>1, <1>3, <1>6, <2>1, NewProperties DEF IInv, Kept
<1>12. InTime'
  BY <1>1 DEF InTime
<1>13. Past'
  <2>1. NotLater(state)'
    BY <1>2, <1>3, <1>6, <1>7, <1>8 DEF NotLater
  <2>2. NotLater(db)'
    BY <1>1, <1>2 DEF IInv, Past, NotLater
  <2>3. ASSUME NEW id \in Id, Pending(id)', state'.counted[id] > 0
        PROVE  Tstamp(id) < rec_tstamp
    <3>1. id # wlfs
      <4>1. ~(wlfs[2] > pos[wlfs[1]])
        BY <1>1, <1>3, IdProperties DEF IInv, Reading, OnePlace, InHand
      <4>. QED
        BY <1>1, <2>3, <4>1 DEF Pending, InHand, IInv, OnePlace
    <3>2. Pending(id)
      BY <1>1, <2>3 DEF Pending, InHand
    <3>. QED
      BY <1>1, <1>6, <2>3, <3>1, <3>2 DEF IInv, Past, PastOnly
  <2>4. PastOnly'
    BY <1>1, <1>2, <1>6, <2>3 DEF PastOnly
  <2>. QED
    BY <2>1, <2>2, <2>4 DEF Past
<1>14. AllOnce'
  <2>1. Once(state)'
    BY <1>2, <1>6 DEF IInv, AllOnce, Once
  <2>. QED
    BY <1>1, <1>2, <2>1 DEF IInv, AllOnce, Once
<1>15. AllInMonth'
  <2>1. InMonth(state, state.cur_tstamp)'
    BY <1>2, <1>3, <1>6, <1>8 DEF InMonth, Month
  <2>. QED
    BY <1>1, <1>2, <2>1 DEF IInv, AllInMonth, InMonth
<1>. QED
  BY <1>9, <1>10, <1>11, <1>12, <1>13, <1>14, <1>15 DEF IInv

(* A run leaves a database behind, or what was there.                      *)
LEMMA EndRunInv == IInv /\ (LeaveUnsaved \/ SaveRun) => IInv'
<1>. SUFFICES ASSUME IInv, LeaveUnsaved \/ SaveRun PROVE IInv'
  OBVIOUS
<1>1. /\ pc = "final" /\ pc' = "off" /\ file' = file /\ UNCHANGED <<runs, mode>>
      /\ pos' = [f \in File |-> 0] /\ logfiles' = <<>> /\ lfp_states' = <<>>
      /\ wlfs' = NoRecord /\ state' = NewState /\ since' = NoTime /\ names' = <<>>
      /\ check_dup' = FALSE /\ total_good' = FALSE /\ processed' = FALSE
      /\ abort_signal' = FALSE
  BY DEF LeaveUnsaved, SaveRun, Left
<1>2. /\ Id' = Id /\ Counts' = Counts /\ \A id : Tstamp(id)' = Tstamp(id)
      /\ MonthState' = MonthState /\ Database' = Database /\ Closed' = Closed
  <2>1. Id' = Id /\ Counts' = Counts /\ \A id : Tstamp(id)' = Tstamp(id)
    BY <1>1, SameFiles
  <2>. QED
    BY <2>1 DEF MonthState, Database, Closed, NoTime
<1>3. /\ state' = [cur_tstamp |-> -1, counted |-> NoCounts, active |-> FALSE]
      /\ NoTime = -1 /\ NoCounts \in Counts /\ \A id \in Id : NoCounts[id] = 0
  BY <1>1, NewProperties
<1>4. db \in Database /\ NotLater(db) /\ Once(db) /\ InMonth(db, db.cur_tstamp)
  BY DEF IInv, Kept, Past, AllOnce, AllInMonth
<1>5. /\ archive \in Seq(Closed)
      /\ \A i \in 1 .. Len(archive) :
           Once(archive[i]) /\ InMonth(archive[i], archive[i].tstamp)
  BY DEF IInv, Kept, AllOnce, AllInMonth
<1>. DEFINE Good(d) == d \in Database /\ NotLater(d) /\ Once(d) /\ InMonth(d, d.cur_tstamp)
            AllGood == /\ archive' \in Seq(Closed)
                       /\ (\A i \in 1 .. Len(archive) : Once(archive[i]))'
                       /\ (\A i \in 1 .. Len(archive) : InMonth(archive[i], archive[i].tstamp))'
<1>6. Good(NewDb)
  BY NewProperties DEF Database, NotLater, Once, InMonth, NoTime
<1>7. archive' = archive => AllGood
  BY <1>2, <1>5 DEF Once, InMonth
<1>8. Good(db') /\ AllGood
  <2>1. CASE LeaveUnsaved
    BY <1>4, <1>7, <2>1 DEF LeaveUnsaved
  <2>2. CASE SaveRun /\ mode.last_log /\ ~abort_signal
    <3>1. db' = NewDb /\ archive' = Archived(state)
      BY <2>2 DEF SaveRun
    <3>2. state.cur_tstamp # NoTime
      BY <1>1, <2>2 DEF SaveRun, NothingToSave, IInv, Kept
    <3>3. AllGood
      BY <1>1, <1>2, <3>1, <3>2, ArchivedProperties
    <3>. QED
      BY <1>6, <3>1, <3>3
  <2>3. CASE SaveRun /\ ~(mode.last_log /\ ~abort_signal)
    <3>1. /\ db' = [cur_tstamp |-> state.cur_tstamp, counted |-> state.counted,
                    active |-> VisitsActive, incremental |-> mode.incremental]
          /\ archive' = archive
      BY <2>3 DEF SaveRun
    <3>2. state \in MonthState /\ NotLater(state) /\ Once(state)
          /\ InMonth(state, state.cur_tstamp)
      BY DEF IInv, Kept, Past, AllOnce, AllInMonth
    <3>3. mode.incremental \in BOOLEAN /\ VisitsActive \in BOOLEAN
      <4>1. mode \in [incremental : BOOLEAN, last_log : BOOLEAN]
        BY LogAssumption DEF LogAssumption, IInv, Config
      <4>2. mode.incremental \in BOOLEAN
        BY <4>1
      <4>3. VisitsActive \in BOOLEAN
        BY Zenon DEF VisitsActive
      <4>. QED
        BY <4>2, <4>3, Zenon
    <3>4. db' \in Database
      <4>. DEFINE active == VisitsActive
                  incremental == mode.incremental
      <4>1. active \in BOOLEAN /\ incremental \in BOOLEAN
        BY <3>3, Zenon
      <4>2. db' = [cur_tstamp |-> state.cur_tstamp, counted |-> state.counted,
                   active |-> active, incremental |-> incremental]
        BY <3>1
      <4>. HIDE DEF active, incremental
      <4>. QED
        BY <3>2, <4>1, <4>2 DEF MonthState, Database
    <3>5. NotLater(db') /\ Once(db') /\ InMonth(db', db'.cur_tstamp)
      BY <3>1, <3>2 DEF NotLater, Once, InMonth
    <3>. QED
      BY <1>7, <3>1, <3>4, <3>5
  <2>. QED
    BY <2>1, <2>2, <2>3
<1>9. Config'
  <2>1. {check_dup', total_good', processed', abort_signal'} \subseteq BOOLEAN
    BY <1>1, Zenon
  <2>2. runs' \in Nat /\ names' \in Seq(File)
    BY <1>1 DEF IInv, Config
  <2>3. mode' \in Mode /\ since' \in Nat \cup {NoTime}
    BY <1>1, Zenon DEF IInv, Config
  <2>. QED
    BY <2>1, <2>2, <2>3, Zenon DEF Config, NoTime
<1>10. Reading' /\ OnePlace'
  <2>1. \A f \in File : Len(file[f]) \in Nat
    BY LogAssumption DEF LogAssumption, IInv, Reading
  <2>. QED
    BY <1>1, <1>2, <2>1 DEF IInv, Reading, OnePlace, InHand
<1>11. Kept'
  <2>1. state' \in MonthState
    BY <1>3 DEF MonthState
  <2>. QED
    BY <1>1, <1>2, <1>8, <2>1 DEF Kept
<1>12. InTime'
  BY <1>1 DEF InTime
<1>13. Past'
  <2>1. NotLater(state)'
    BY <1>2, <1>3 DEF NotLater
  <2>2. NotLater(db)'
    BY <1>2, <1>8 DEF NotLater
  <2>. QED
    BY <1>1, <2>1, <2>2 DEF Past
<1>14. AllOnce' /\ AllInMonth'
  <2>1. Once(state)' /\ InMonth(state, state.cur_tstamp)'
    BY <1>2, <1>3 DEF Once, InMonth
  <2>2. Once(db)' /\ InMonth(db, db.cur_tstamp)'
    BY <1>2, <1>8 DEF Once, InMonth
  <2>. QED
    BY <1>8, <2>1, <2>2 DEF AllOnce, AllInMonth
<1>. QED
  BY <1>9, <1>10, <1>11, <1>12, <1>13, <1>14 DEF IInv

(* Ctrl-C only raises a flag.                                              *)
LEMMA UnchangedInv ==
  ASSUME IInv, UNCHANGED <<pc, runVars, fileVars, check_dup, total_good, processed>>,
         UNCHANGED <<state, db, archive>>, abort_signal' \in BOOLEAN
  PROVE  IInv'
<1>1. /\ UNCHANGED <<pc, file, runs, mode, names, since, pos, logfiles, lfp_states, wlfs>>
      /\ UNCHANGED <<check_dup, total_good, processed, state, db, archive>>
  BY DEF runVars, fileVars
<1>2. /\ Id' = Id /\ Counts' = Counts /\ \A id : Tstamp(id)' = Tstamp(id)
  BY <1>1, SameFiles
<1>3. Config'
  BY <1>1, Zenon DEF IInv, Config, NoTime
<1>4. Reading' /\ OnePlace' /\ Kept' /\ InTime'
  <2>1. Reading' /\ OnePlace'
    BY <1>1, <1>2 DEF IInv, Reading, OnePlace, InHand
  <2>2. Kept'
    BY <1>1, <1>2 DEF IInv, Kept, MonthState, Database, Closed, NoTime
  <2>3. InTime'
    BY <1>1, <1>2 DEF IInv, InTime, rec_tstamp, NoTime
  <2>. QED
    BY <2>1, <2>2, <2>3
<1>5. Past'
  BY <1>1, <1>2 DEF IInv, Past, NotLater, PastOnly, Pending, InHand, rec_tstamp
<1>6. AllOnce' /\ AllInMonth'
  BY <1>1, <1>2 DEF IInv, AllOnce, Once, AllInMonth, InMonth
<1>. QED
  BY <1>3, <1>4, <1>5, <1>6 DEF IInv

-----------------------------------------------------------------------------
(* Theorems                                                                *)

(* Whatever the log files contain, in whatever order and mode runs read    *)
(* them and wherever Ctrl-C stops one (proc_logfile), the invariant holds. *)
THEOREM Invariance == Spec => []IInv
<1>1. Init => IInv
  BY InitIInv
<1>2. IInv /\ [Next]_vars => IInv'
  <2>. SUFFICES ASSUME IInv, [Next]_vars PROVE IInv'
    OBVIOUS
  <2>1. ASSUME NEW m \in Mode, NEW list \in Lists, StartRun(m, list) PROVE IInv'
    BY <2>1, StartRunInv
  <2>2. CASE ReadStep
    BY <2>2, ReadStepInv
  <2>3. CASE RecordStep
    BY <2>3, IgnoreRecordInv, OtherMonthInv, SameMonthInv, CountRecordInv DEF RecordStep
  <2>4. CASE LeaveUnsaved \/ SaveRun
    BY <2>4, EndRunInv
  <2>5. CASE CtrlC
    BY <2>5, UnchangedInv DEF CtrlC
  <2>6. CASE UNCHANGED vars
    <3>1. abort_signal' \in BOOLEAN
      BY <2>6, Zenon DEF vars, IInv, Config
    <3>. QED
      BY <2>6, <3>1, UnchangedInv DEF vars
  <2>. QED
    BY <2>1, <2>2, <2>3, <2>4, <2>5, <2>6 DEF Next, RunStep
<1>. QED
  BY <1>1, <1>2, PTL DEF Spec

(* The variables have their types, and only a month with a time stamp is   *)
(* closed.                                                                 *)
THEOREM TypeCorrect == Spec => []TypeOK
<1>1. IInv => TypeOK
  <2>. SUFFICES ASSUME IInv PROVE TypeOK
    OBVIOUS
  <2>1. {check_dup, total_good, processed, abort_signal} \subseteq BOOLEAN
    BY Zenon DEF IInv, Config
  <2>2. \A f \in File : pos[f] \in 0 .. Len(file[f])
    BY LogAssumption DEF LogAssumption, IInv, Reading
  <2>3. /\ state.cur_tstamp \in Nat \cup {NoTime} /\ state.counted \in Counts
        /\ db.cur_tstamp \in Nat \cup {NoTime} /\ db.counted \in Counts
    BY DEF IInv, Kept, MonthState, Database
  <2>4. /\ runs \in Nat /\ mode \in Mode /\ names \in Seq(File) /\ since \in Nat \cup {NoTime}
    BY Zenon DEF IInv, Config
  <2>5. /\ pc \in {"off", "prep", "loop", "get", "record", "count", "final"}
        /\ logfiles \in Seq(File) /\ lfp_states \in Seq(Id) /\ wlfs \in Id \cup {NoRecord}
    BY DEF IInv, Reading
  <2>6. \A i \in DOMAIN archive : archive[i].tstamp \in Nat /\ archive[i].counted \in Counts
    <3>1. \A c \in Closed : c.tstamp \in Nat /\ c.counted \in Counts
      BY DEF Closed
    <3>2. \A i \in DOMAIN archive : archive[i] \in Closed
      BY DEF IInv, Kept
    <3>. QED
      BY <3>1, <3>2
  <2>. QED
    BY <2>1, <2>2, <2>3, <2>4, <2>5, <2>6, Zenon DEF TypeOK
<1>. QED
  BY <1>1, Invariance, PTL

(* The database of a month has records of that month only: proc_logfile    *)
(* changes the month before it counts a record of another one.             *)
THEOREM MonthsStayApart == Spec => []MonthsApart
<1>1. IInv => MonthsApart
  <2>1. IInv => DOMAIN archive = 1 .. Len(archive)
    BY DEF IInv, Kept
  <2>. QED
    BY <2>1, Zenon DEF IInv, AllInMonth, MonthsApart
<1>. QED
  BY <1>1, Invariance, PTL

(* No database counts a record twice, however often runs read the same     *)
(* logs: until its first new record a run ignores what is not later than   *)
(* the last run (check_dup), and after it what is earlier.                 *)
THEOREM CountedOnce == Spec => []NoDatabaseCountsTwice
<1>1. IInv => NoDatabaseCountsTwice
  BY DEF IInv, Kept, AllOnce, Once, NoDatabaseCountsTwice
<1>. QED
  BY <1>1, Invariance, PTL

(* What the state database has counted is in the state of a run, too, as   *)
(* the run has read it (state_t::restore_state).                           *)
Covered == pc # "off" => \A id \in Id : db.counted[id] > 0 => state.counted[id] > 0

(* No step loses a record that the database has counted from a run that    *)
(* may save.                                                               *)
LEMMA CoveredStep == IInv /\ Covered /\ [Next]_vars => Covered'
<1>. SUFFICES ASSUME IInv, Covered, [Next]_vars PROVE Covered'
  OBVIOUS
<1>1. file' = file
  BY DEF Next, StartRun, RunStep, ReadStep, RecordStep, PrepLine, PrepDone, LoopTest, GetLine,
         GetRecord, IgnoreRecord, KeepReport, CloseMonth, SameMonth, CountRecord, CtrlC,
         LeaveUnsaved, SaveRun, Left, runVars, vars
<1>2. Id' = Id
  BY <1>1, SameFiles
<1>3. \A id \in Id : NoCounts[id] = 0
  BY NewProperties
<1>4. ASSUME NEW m \in Mode, NEW list \in Lists, StartRun(m, list)
      PROVE  Covered'
  <2>1. state'.counted = db'.counted
    BY <1>4, NewProperties DEF StartRun
  <2>. QED
    BY <1>2, <2>1 DEF Covered
<1>5. CASE ReadStep \/ IgnoreRecord \/ SameMonth \/ CtrlC \/ UNCHANGED vars
  <2>1. UNCHANGED <<state, db>> /\ (pc # "off" \/ pc' = pc)
    BY <1>5 DEF ReadStep, PrepLine, PrepDone, LoopTest, GetLine, GetRecord, IgnoreRecord,
                SameMonth, CtrlC, vars
  <2>. QED
    BY <1>2, <2>1 DEF Covered
<1>6. CASE KeepReport \/ CloseMonth
  <2>1. db'.counted = NoCounts
    BY <1>6, NewProperties DEF KeepReport, CloseMonth
  <2>. QED
    BY <1>2, <1>3, <2>1 DEF Covered
<1>7. CASE CountRecord
  <2>1. pc = "count" /\ wlfs \in Id /\ db' = db
    BY <1>7, RecordInHand DEF CountRecord
  <2>2. state \in MonthState /\ state.counted \in [Id -> Nat]
    BY DEF IInv, Kept, MonthState, Counts
  <2>3. \/ state'.counted = state.counted
        \/ state'.counted = [state.counted EXCEPT ![wlfs] = @ + 1]
    BY <1>7, <2>2 DEF CountRecord, MonthState
  <2>4. \A id \in Id : state.counted[id] > 0 => state'.counted[id] > 0
    BY <2>1, <2>2, <2>3
  <2>. QED
    BY <1>2, <2>1, <2>4 DEF Covered
<1>8. CASE LeaveUnsaved \/ SaveRun
  BY <1>8 DEF LeaveUnsaved, SaveRun, Left, Covered
<1>. QED
  BY <1>4, <1>5, <1>6, <1>7, <1>8 DEF Next, RunStep, RecordStep

(* A record that an incremental run has saved stays in the state database  *)
(* or goes to the database of its month: initialize refuses to truncate    *)
(* what an incremental run left, and a month is only cleared after all of  *)
(* its state, restored or counted, was closed.                             *)
THEOREM NothingIsForgotten == Spec => NothingForgotten
<1>. DEFINE Step == db.incremental => \A id \in Id :
                      Saved(id, db, archive) => Saved(id, db', archive')
<1>1. Init => Covered
  BY DEF Init, Covered
<1>2. IInv /\ Covered /\ [Next]_vars => [Step]_vars
  <2>. SUFFICES ASSUME IInv, Covered, Next, db.incremental, NEW id \in Id,
                       Saved(id, db, archive)
                PROVE  Saved(id, db', archive')
    BY DEF Saved
  <2>1. archive \in Seq(Closed)
    BY DEF IInv, Kept
  <2>2. CASE UNCHANGED <<db, archive>>
    BY <2>2
  <2>3. CASE /\ archive' = Archived(state) /\ pc # "off"
    <3>. DEFINE closed == [tstamp |-> state.cur_tstamp, counted |-> state.counted]
    <3>1. archive' = Append(archive, closed) /\ closed.counted = state.counted
      BY <2>3 DEF Archived
    <3>. HIDE DEF closed
    <3>2. /\ \A i \in DOMAIN archive : i \in DOMAIN archive' /\ archive'[i] = archive[i]
          /\ Len(archive) + 1 \in DOMAIN archive' /\ archive'[Len(archive) + 1] = closed
      BY <2>1, <3>1
    <3>3. db.counted[id] > 0 => closed.counted[id] > 0
      BY <2>3, <3>1 DEF Covered
    <3>. QED
      BY <3>2, <3>3 DEF Saved
  <2>4. CASE archive' = archive /\ db'.counted = state.counted /\ pc # "off"
    BY <2>4 DEF Saved, Covered
  <2>5. ASSUME NEW m \in Mode, NEW list \in Lists, StartRun(m, list)
        PROVE  UNCHANGED <<db, archive>>
    <3>1. ~Truncated(m)
      BY <2>5 DEF StartRun, Refused, Truncated
    <3>. QED
      BY <2>5, <3>1 DEF StartRun
  <2>6. CASE ReadStep \/ IgnoreRecord \/ SameMonth \/ CountRecord \/ CtrlC \/ LeaveUnsaved
    <3>1. UNCHANGED <<db, archive>>
      BY <2>6 DEF ReadStep, PrepLine, PrepDone, LoopTest, GetLine, GetRecord, IgnoreRecord,
                  SameMonth, CountRecord, CtrlC, LeaveUnsaved
    <3>. QED
      BY <2>2, <3>1
  <2>7. CASE KeepReport \/ CloseMonth
    BY <2>3, <2>7 DEF KeepReport, CloseMonth
  <2>8. CASE SaveRun
    BY <2>3, <2>4, <2>8 DEF SaveRun
  <2>. QED
    BY <2>2, <2>5, <2>6, <2>7, <2>8 DEF Next, RunStep, RecordStep
<1>3. Spec => []Covered
  BY <1>1, CoveredStep, Invariance, PTL DEF Spec
<1>. QED
  BY <1>2, <1>3, Invariance, PTL DEF Spec, NothingForgotten


-----------------------------------------------------------------------------
(* Sequences                                                               *)

(* RemoveAt shifts what follows the removed element.                       *)
LEMMA RemoveAtElements ==
  ASSUME NEW S, NEW s \in Seq(S), NEW p \in 1 .. Len(s)
  PROVE  /\ RemoveAt(s, p) \in Seq(S)
         /\ Len(RemoveAt(s, p)) = Len(s) - 1
         /\ \A i \in 1 .. Len(s) - 1 :
              RemoveAt(s, p)[i] = IF i < p THEN s[i] ELSE s[i + 1]
<1>. DEFINE front == SubSeq(s, 1, p - 1)
            back == SubSeq(s, p + 1, Len(s))
<1>1. /\ front \in Seq(S) /\ Len(front) = p - 1
      /\ \A i \in 1 .. p - 1 : front[i] = s[i]
  OBVIOUS
<1>2. /\ back \in Seq(S) /\ Len(back) = Len(s) - p
      /\ \A i \in 1 .. Len(s) - p : back[i] = s[p + i]
  OBVIOUS
<1>3. RemoveAt(s, p) = front \o back
  BY DEF RemoveAt
<1>. HIDE DEF front, back
<1>4. /\ front \o back \in Seq(S) /\ Len(front \o back) = Len(s) - 1
      /\ \A i \in 1 .. Len(s) - 1 :
           (front \o back)[i] = IF i <= p - 1 THEN front[i] ELSE back[i - (p - 1)]
  <2>1. /\ front \o back \in Seq(S) /\ Len(front \o back) = Len(front) + Len(back)
        /\ \A i \in 1 .. Len(front) + Len(back) :
             (front \o back)[i] = IF i <= Len(front) THEN front[i] ELSE back[i - Len(front)]
    BY <1>1, <1>2, ConcatProperties
  <2>2. Len(front) + Len(back) = Len(s) - 1
    BY <1>1, <1>2
  <2>. QED
    BY <1>1, <2>1, <2>2
<1>5. ASSUME NEW i \in 1 .. Len(s) - 1
      PROVE  (front \o back)[i] = IF i < p THEN s[i] ELSE s[i + 1]
  <2>1. CASE i < p
    BY <1>1, <1>4, <2>1
  <2>2. CASE ~(i < p)
    <3>1. i - (p - 1) \in 1 .. Len(s) - p /\ p + (i - (p - 1)) = i + 1
      BY <2>2
    <3>. QED
      BY <1>2, <1>4, <2>2, <3>1
  <2>. QED
    BY <2>1, <2>2
<1>. QED
  BY <1>3, <1>4, <1>5

(* A list without the one place of an element has the others, once each.   *)
LEMMA RemovedOnce ==
  ASSUME NEW S, NEW s \in Seq(S), NEW p \in 1 .. Len(s),
         \A i, j \in 1 .. Len(s) : s[i] = s[j] => i = j
  PROVE  LET t == RemoveAt(s, p) IN
         /\ \A i, j \in 1 .. Len(t) : t[i] = t[j] => i = j
         /\ \A x : (\E i \in 1 .. Len(t) : t[i] = x)
                      <=> x # s[p] /\ \E i \in 1 .. Len(s) : s[i] = x
<1>. DEFINE t == RemoveAt(s, p)
<1>1. /\ Len(t) = Len(s) - 1
      /\ \A i \in 1 .. Len(s) - 1 : t[i] = IF i < p THEN s[i] ELSE s[i + 1]
  BY RemoveAtElements
<1>. HIDE DEF t
<1>2. \A i, j \in 1 .. Len(t) : t[i] = t[j] => i = j
  BY <1>1
<1>3. ASSUME NEW i \in 1 .. Len(t)
      PROVE  t[i] # s[p] /\ \E j \in 1 .. Len(s) : s[j] = t[i]
  <2>1. CASE i < p
    BY <1>1, <2>1
  <2>2. CASE ~(i < p)
    <3>1. i + 1 \in 1 .. Len(s) /\ i + 1 # p /\ t[i] = s[i + 1]
      BY <1>1, <2>2
    <3>. QED
      BY <3>1
  <2>. QED
    BY <2>1, <2>2
<1>4. ASSUME NEW i \in 1 .. Len(s), i # p
      PROVE  \E j \in 1 .. Len(t) : t[j] = s[i]
  <2>1. CASE i < p
    BY <1>1, <2>1
  <2>2. CASE i > p
    <3>1. i - 1 \in 1 .. Len(t) /\ t[i - 1] = s[i]
      BY <1>1, <2>2
    <3>. QED
      BY <3>1
  <2>. QED
    BY <1>4, <2>1, <2>2
<1>5. ASSUME NEW x
      PROVE  (\E i \in 1 .. Len(t) : t[i] = x)
               <=> x # s[p] /\ \E i \in 1 .. Len(s) : s[i] = x
  BY <1>3, <1>4
<1>. QED
  BY <1>2, <1>5 DEF t

-----------------------------------------------------------------------------
(* The inductive invariants                                                *)

(* Files that have a state on the list, and the one of the record in hand  *)
(* or of the last one                                                      *)
HasState(f) == \E i \in 1 .. Len(lfp_states) : lfp_states[i][1] = f
Working(f) == wlfs # NoRecord /\ wlfs[1] = f
Named(f) == \E k \in 1 .. Len(names) : names[k] = f

(* A file is read, while the list is prepared, when it has its turn.       *)
BeingRead == IF pc = "prep" THEN Len(lfp_states) ELSE Len(logfiles)
Listed(f) == \E j \in 1 .. BeingRead : logfiles[j] = f

Sorted ==
  \A i, j \in 1 .. Len(lfp_states) : i < j => Tstamp(lfp_states[i]) <= Tstamp(lfp_states[j])

OneState ==
  /\ \A i, j \in 1 .. Len(logfiles) : logfiles[i] = logfiles[j] => i = j
  /\ \A i, j \in 1 .. Len(lfp_states) : lfp_states[i][1] = lfp_states[j][1] => i = j
  /\ wlfs # NoRecord => ~HasState(wlfs[1])

Matching ==
  /\ pc = "prep" => Len(lfp_states) <= Len(logfiles)
  /\ \A f \in File : Listed(f) <=> HasState(f) \/ Working(f)

FilesMatch == Sorted /\ OneState /\ Matching

(* A state on the list is a record. A file that is not on the list of      *)
(* files was read to its end.                                              *)
NoBad ==
  /\ \A i \in 1 .. Len(lfp_states) : Line(lfp_states[i]).kind # "bad"
  /\ wlfs # NoRecord => Line(wlfs).kind # "bad"

Finished ==
  /\ \A f \in File : Named(f) /\ (\A j \in 1 .. Len(logfiles) : logfiles[j] # f) => AtEnd(f)
  /\ pc = "final" /\ ~abort_signal => logfiles = <<>>

Since == pc \notin {"off", "count"} /\ ~total_good => state.cur_tstamp = since

(* In a run of files that are each in order, what is still to come is not  *)
(* earlier than what was counted, nor than the record in hand.             *)
Ordered == \A f \in File : Named(f) => InOrder(f)
Ahead ==
  \A id \in Id : Named(id[1]) /\ Line(id).kind # "bad" /\ Pending(id) =>
    /\ total_good => state.cur_tstamp <= Tstamp(id)
    /\ InHand => rec_tstamp <= Tstamp(id)

Countable(id) ==
  /\ Named(id[1])
  /\ Line(id).kind = "good" /\ Line(id).length < MaxLength /\ ~Swallowed(id)
  /\ Tstamp(id) > since
NotLost == \A id \in Id : Countable(id) => Pending(id) \/ CountedNow(id)

RunComplete == NoBad /\ Finished /\ Since /\ (Ordered => Ahead /\ NotLost)

-----------------------------------------------------------------------------
(* Inserting a state                                                       *)

(* A record goes to where the list stays in the order of time.             *)
LEMMA InsertedInOrder ==
  ASSUME IInv, Sorted, NEW id \in Id
  PROVE  LET new == Inserted(lfp_states, id) IN
         \E p \in 1 .. Len(lfp_states) + 1 :
           /\ new \in Seq(Id) /\ Len(new) = Len(lfp_states) + 1
           /\ \A i \in 1 .. Len(lfp_states) + 1 :
                new[i] = IF i < p THEN lfp_states[i] ELSE IF i = p THEN id
                         ELSE lfp_states[i - 1]
           /\ \A i, j \in 1 .. Len(lfp_states) + 1 : i < j => Tstamp(new[i]) <= Tstamp(new[j])
<1>. DEFINE n == Len(lfp_states)
            new == Inserted(lfp_states, id)
            p == Place(lfp_states, id)
            places == {i \in 1 .. n + 1 : i > n \/ Tstamp(lfp_states[i]) >= Tstamp(id)}
<1>1. lfp_states \in Seq(Id) /\ n \in Nat /\ \A i \in 1 .. n : lfp_states[i] \in Id
  BY DEF IInv, Reading
<1>2. Tstamp(id) \in Nat /\ \A i \in 1 .. n : Tstamp(lfp_states[i]) \in Nat
  BY <1>1, IdProperties DEF IInv, Reading
<1>3. places \subseteq Nat /\ n + 1 \in places
  BY <1>1
<1>4. p = Min(places)
  BY DEF Place
<1>5. p \in places /\ \A i \in places : p <= i
  BY <1>3, <1>4, MinExists
<1>6. p \in 1 .. n + 1
  BY <1>5
<1>7. \A i \in 1 .. n : i < p => Tstamp(lfp_states[i]) <= Tstamp(id)
  BY <1>1, <1>2, <1>5
<1>8. \A i \in 1 .. n : i >= p => Tstamp(id) <= Tstamp(lfp_states[i])
  <2>1. p <= n => Tstamp(lfp_states[p]) >= Tstamp(id)
    BY <1>1, <1>5
  <2>. QED
    BY <1>1, <1>2, <1>6, <2>1 DEF Sorted
<1>9. new = InsertAt(lfp_states, p, id)
  BY DEF Inserted
<1>. HIDE DEF p, places
<1>10. InsertAt(lfp_states, p, id) \in Seq(Id) /\ Len(InsertAt(lfp_states, p, id)) = n + 1
  BY <1>1, <1>6, InsertAtProperties
<1>11. \A i \in 1 .. n + 1 :
         InsertAt(lfp_states, p, id)[i] =
           IF i < p THEN lfp_states[i] ELSE IF i = p THEN id ELSE lfp_states[i - 1]
  BY <1>1, <1>6, InsertAtProperties
<1>. HIDE DEF new
<1>12. ASSUME NEW i \in 1 .. n + 1, NEW j \in 1 .. n + 1, i < j
       PROVE  Tstamp(new[i]) <= Tstamp(new[j])
  <2>1. CASE j < p
    <3>1. new[i] = lfp_states[i] /\ new[j] = lfp_states[j] /\ i \in 1 .. n /\ j \in 1 .. n
      BY <1>1, <1>6, <1>9, <1>11, <1>12, <2>1
    <3>. QED
      BY <1>12, <3>1 DEF Sorted
  <2>2. CASE j = p
    <3>1. new[i] = lfp_states[i] /\ new[j] = id /\ i \in 1 .. n /\ i < p
      BY <1>1, <1>6, <1>9, <1>11, <1>12, <2>2
    <3>. QED
      BY <1>7, <3>1
  <2>3. CASE j > p
    <3>1. new[j] = lfp_states[j - 1] /\ j - 1 \in 1 .. n /\ j - 1 >= p
      BY <1>1, <1>6, <1>9, <1>11, <2>3
    <3>2. CASE i < p
      <4>1. new[i] = lfp_states[i] /\ i \in 1 .. n /\ i < j - 1
        BY <1>1, <1>6, <1>9, <1>11, <3>1, <3>2
      <4>. QED
        BY <3>1, <4>1 DEF Sorted
    <3>3. CASE i = p
      BY <1>6, <1>8, <1>9, <1>11, <3>1, <3>3
    <3>4. CASE i > p
      <4>1. new[i] = lfp_states[i - 1] /\ i - 1 \in 1 .. n /\ i - 1 < j - 1
        BY <1>1, <1>6, <1>9, <1>11, <1>12, <3>4
      <4>. QED
        BY <3>1, <4>1 DEF Sorted
    <3>. QED
      BY <1>6, <3>2, <3>3, <3>4
  <2>. QED
    BY <1>6, <2>1, <2>2, <2>3
<1>. QED
  BY <1>6, <1>9, <1>10, <1>11, <1>12, Zenon DEF new

(* The state of a file that has none is added to the list.                 *)
LEMMA StateAdded ==
  ASSUME IInv, FilesMatch, file' = file, NEW f \in File, ~AtEnd(f), ~HasState(f),
         lfp_states' = Inserted(lfp_states, NextLine(f))
  PROVE  /\ Sorted'
         /\ Len(lfp_states') = Len(lfp_states) + 1
         /\ (\A i, j \in 1 .. Len(lfp_states) :
                lfp_states[i][1] = lfp_states[j][1] => i = j)'
         /\ \A g : HasState(g)' <=> HasState(g) \/ g = f
<1>. DEFINE n == Len(lfp_states)
            id == NextLine(f)
<1>1. id \in Id /\ id[1] = f
  BY LineEndProperties DEF IInv, Reading, NextLine
<1>2. PICK p \in 1 .. n + 1 :
        /\ lfp_states' \in Seq(Id) /\ Len(lfp_states') = n + 1
        /\ \A i \in 1 .. n + 1 :
             lfp_states'[i] = IF i < p THEN lfp_states[i] ELSE IF i = p THEN id
                              ELSE lfp_states[i - 1]
        /\ \A i, j \in 1 .. n + 1 : i < j => Tstamp(lfp_states'[i]) <= Tstamp(lfp_states'[j])
  <2>. HIDE DEF id
  <2>. QED
    BY <1>1, InsertedInOrder, Zenon DEF FilesMatch, id
<1>. HIDE DEF id
<1>3. n \in Nat
  BY DEF IInv, Reading
<1>4. Sorted'
  BY <1>2, SameFiles DEF Sorted
<1>5. \A i \in 1 .. n : lfp_states[i][1] # f
  BY DEF HasState
<1>6. \A i, j \in 1 .. n : lfp_states[i][1] = lfp_states[j][1] => i = j
  BY DEF FilesMatch, OneState
<1>7. ASSUME NEW i \in 1 .. n + 1, NEW j \in 1 .. n + 1, lfp_states'[i][1] = lfp_states'[j][1]
      PROVE  i = j
  <2>. DEFINE Old(k) == IF k < p THEN k ELSE k - 1
  <2>1. \A k \in 1 .. n + 1 : k # p => Old(k) \in 1 .. n /\ lfp_states'[k] = lfp_states[Old(k)]
    BY <1>2, <1>3
  <2>2. lfp_states'[p][1] = f
    BY <1>1, <1>2
  <2>3. i = p <=> j = p
    BY <1>5, <1>7, <2>1, <2>2
  <2>4. i # p => Old(i) = Old(j)
    BY <1>6, <1>7, <2>1, <2>3, SMTT(20)
  <2>. QED
    BY <2>3, <2>4
<1>8. ASSUME NEW g
      PROVE  HasState(g)' <=> HasState(g) \/ g = f
  <2>1. ASSUME NEW i \in 1 .. n + 1, lfp_states'[i][1] = g
        PROVE  HasState(g) \/ g = f
    <3>1. CASE i < p
      BY <1>2, <1>3, <2>1, <3>1 DEF HasState
    <3>2. CASE i = p
      BY <1>1, <1>2, <2>1, <3>2
    <3>3. CASE i > p
      <4>1. i - 1 \in 1 .. n /\ lfp_states'[i] = lfp_states[i - 1]
        BY <1>2, <1>3, <3>3
      <4>. QED
        BY <2>1, <4>1 DEF HasState
    <3>. QED
      BY <1>3, <3>1, <3>2, <3>3
  <2>2. ASSUME NEW i \in 1 .. n, lfp_states[i][1] = g
        PROVE  HasState(g)'
    <3>1. CASE i < p
      <4>1. i \in 1 .. n + 1 /\ lfp_states'[i] = lfp_states[i]
        BY <1>2, <1>3, <3>1
      <4>. QED
        BY <1>2, <2>2, <4>1 DEF HasState
    <3>2. CASE i >= p
      <4>1. i + 1 \in 1 .. n + 1 /\ lfp_states'[i + 1] = lfp_states[i]
        BY <1>2, <1>3, <3>2
      <4>. QED
        BY <1>2, <2>2, <4>1 DEF HasState
    <3>. QED
      BY <1>2, <1>3, <3>1, <3>2
  <2>3. HasState(f)'
    BY <1>1, <1>2 DEF HasState
  <2>. QED
    BY <1>2, <2>1, <2>2, <2>3 DEF HasState
<1>. QED
  BY <1>2, <1>4, <1>7, <1>8

-----------------------------------------------------------------------------
(* The list of states matches the list of files                            *)

(* An empty list is sorted and has no file.                                *)
LEMMA NoStates ==
  ASSUME lfp_states = <<>>
  PROVE  Sorted /\ (\A f : ~HasState(f)) /\ Len(lfp_states) = 0
BY DEF Sorted, HasState

(* A run starts with files that are listed once, and no states.            *)
LEMMA StartMatch ==
  ASSUME NEW m \in Mode, NEW list \in Lists, StartRun(m, list)
  PROVE  FilesMatch'
<1>1. /\ pc' = "prep" /\ logfiles' = list /\ lfp_states' = <<>> /\ wlfs' = NoRecord
  BY DEF StartRun
<1>2. list \in Seq(File) /\ \A i, j \in 1 .. Len(list) : list[i] = list[j] => i = j
  <2>1. list \in Seq(File) /\ IsInjective(list)
    BY ListsAreSequences DEF Lists
  <2>. QED
    BY <2>1 DEF IsInjective
<1>3. Sorted' /\ (\A f : ~HasState(f)') /\ Len(lfp_states') = 0
  BY <1>1 DEF Sorted, HasState
<1>4. OneState'
  BY <1>1, <1>2, <1>3 DEF OneState, HasState
<1>5. Matching'
  BY <1>1, <1>2, <1>3 DEF Matching, Listed, BeingRead, Working
<1>. QED
  BY <1>3, <1>4, <1>5 DEF FilesMatch

(* A run ends with no files and no states.                                 *)
LEMMA EmptyMatch ==
  ASSUME logfiles = <<>>, lfp_states = <<>>, wlfs = NoRecord
  PROVE  FilesMatch
BY DEF FilesMatch, Sorted, OneState, Matching, HasState, Listed, BeingRead, Working

(* Other steps leave the files alone.                                      *)
LEMMA UnchangedMatch ==
  ASSUME FilesMatch, file' = file, UNCHANGED <<logfiles, lfp_states, wlfs>>,
         pc' = "prep" <=> pc = "prep"
  PROVE  FilesMatch'
<1>1. \A id : Tstamp(id)' = Tstamp(id)
  BY SameFiles
<1>2. /\ \A f : HasState(f)' <=> HasState(f)
      /\ \A f : Working(f)' <=> Working(f)
      /\ \A f : Listed(f)' <=> Listed(f)
  BY DEF HasState, Working, Listed, BeingRead
<1>3. Sorted' /\ OneState'
  BY <1>1, <1>2 DEF FilesMatch, Sorted, OneState
<1>4. Matching'
  BY <1>2 DEF FilesMatch, Matching
<1>. QED
  BY <1>3, <1>4 DEF FilesMatch

(* The next file has no state yet. It gets one, or is taken off the list.  *)
LEMMA PrepLineMatch == IInv /\ FilesMatch /\ PrepLine => FilesMatch'
<1>. SUFFICES ASSUME IInv, FilesMatch, PrepLine PROVE FilesMatch'
  OBVIOUS
<1>. DEFINE n == Len(lfp_states)
            i == n + 1
            f == logfiles[i]
<1>1. /\ pc = "prep" /\ pc' = pc /\ wlfs' = wlfs /\ wlfs = NoRecord /\ file' = file
      /\ n \in Nat /\ i \in 1 .. Len(logfiles) /\ f \in File /\ logfiles \in Seq(File)
  BY DEF PrepLine, runVars, IInv, Reading
<1>2. /\ \A g \in File : (\E j \in 1 .. n : logfiles[j] = g) <=> HasState(g)
      /\ \A j, k \in 1 .. Len(logfiles) : logfiles[j] = logfiles[k] => j = k
  BY <1>1 DEF FilesMatch, OneState, Matching, Listed, BeingRead, Working
<1>3. ~HasState(f)
  BY <1>1, <1>2
<1>4. CASE /\ AtEnd(f) /\ logfiles' = RemoveAt(logfiles, i) /\ UNCHANGED <<pos, lfp_states>>
  <2>1. Len(logfiles') = Len(logfiles) - 1
    BY <1>1, <1>4, RemoveAtElements
  <2>2. \A j \in 1 .. Len(logfiles) - 1 :
          logfiles'[j] = IF j < i THEN logfiles[j] ELSE logfiles[j + 1]
    BY <1>1, <1>4, RemoveAtElements
  <2>3. \A j, k \in 1 .. Len(logfiles') : logfiles'[j] = logfiles'[k] => j = k
    BY <1>1, <1>2, <1>4, RemovedOnce
  <2>4. \A id : Tstamp(id)' = Tstamp(id)
    BY <1>1, SameFiles
  <2>5. \A g : HasState(g)' <=> HasState(g)
    BY <1>4 DEF HasState
  <2>6. Sorted' /\ OneState'
    BY <1>1, <1>4, <2>3, <2>4 DEF FilesMatch, Sorted, OneState
  <2>7. n <= Len(logfiles') /\ \A j \in 1 .. n : logfiles'[j] = logfiles[j]
    BY <1>1, <2>1, <2>2
  <2>8. Matching'
    BY <1>1, <1>2, <1>4, <2>5, <2>7 DEF Matching, Listed, BeingRead, Working
  <2>. QED
    BY <2>6, <2>8 DEF FilesMatch
<1>5. CASE UNCHANGED <<lfp_states, logfiles>>
  BY <1>1, <1>5, UnchangedMatch
<1>6. CASE /\ ~AtEnd(f) /\ lfp_states' = Inserted(lfp_states, NextLine(f))
           /\ logfiles' = logfiles
  <2>1. /\ Sorted' /\ Len(lfp_states') = n + 1
        /\ (\A j, k \in 1 .. Len(lfp_states) : lfp_states[j][1] = lfp_states[k][1] => j = k)'
        /\ \A g : HasState(g)' <=> HasState(g) \/ g = f
    BY <1>1, <1>3, <1>6, StateAdded
  <2>2. OneState'
    BY <1>1, <1>2, <1>6, <2>1 DEF OneState
  <2>3. \A g \in File : (\E j \in 1 .. n + 1 : logfiles[j] = g) <=> HasState(g) \/ g = f
    BY <1>1, <1>2
  <2>4. Matching'
    BY <1>1, <1>6, <2>1, <2>3 DEF Matching, Listed, BeingRead, Working
  <2>. QED
    BY <2>1, <2>2, <2>4 DEF FilesMatch
<1>. QED
  BY <1>4, <1>5, <1>6 DEF PrepLine

(* All files have a state when they are prepared.                          *)
LEMMA PrepDoneMatch == IInv /\ FilesMatch /\ PrepDone => FilesMatch'
<1>. SUFFICES ASSUME IInv, FilesMatch, PrepDone PROVE FilesMatch'
  OBVIOUS
<1>1. /\ pc = "prep" /\ pc' = "loop" /\ file' = file /\ Len(lfp_states) = Len(logfiles)
      /\ UNCHANGED <<logfiles, lfp_states, wlfs>>
  BY DEF PrepDone, runVars, fileVars
<1>2. \A id : Tstamp(id)' = Tstamp(id)
  BY <1>1, SameFiles
<1>3. /\ \A f : HasState(f)' <=> HasState(f)
      /\ \A f : Working(f)' <=> Working(f)
      /\ \A f : Listed(f)' <=> Listed(f)
  BY <1>1 DEF HasState, Working, Listed, BeingRead
<1>4. Sorted' /\ OneState'
  BY <1>1, <1>2, <1>3 DEF FilesMatch, Sorted, OneState
<1>5. Matching'
  BY <1>1, <1>3 DEF FilesMatch, Matching
<1>. QED
  BY <1>4, <1>5 DEF FilesMatch

(* The file of the last record has no state. It gets one, or is finished.  *)
LEMMA GetLineMatch == IInv /\ FilesMatch /\ GetLine => FilesMatch'
<1>. SUFFICES ASSUME IInv, FilesMatch, GetLine PROVE FilesMatch'
  OBVIOUS
<1>. DEFINE n == Len(lfp_states)
            f == wlfs[1]
<1>1. /\ pc = "get" /\ pc' = pc /\ file' = file /\ logfiles \in Seq(File)
      /\ wlfs # NoRecord /\ wlfs \in Id
  BY DEF GetLine, runVars, IInv, Reading
<1>2. f \in File
  BY <1>1, IdProperties DEF IInv, Reading
<1>3. /\ \A g \in File : (\E j \in 1 .. Len(logfiles) : logfiles[j] = g) <=> HasState(g) \/ g = f
      /\ \A j, k \in 1 .. Len(logfiles) : logfiles[j] = logfiles[k] => j = k
      /\ ~HasState(f)
  BY <1>1 DEF FilesMatch, OneState, Matching, Listed, BeingRead, Working
<1>4. CASE /\ AtEnd(f) /\ wlfs' = NoRecord /\ UNCHANGED <<pos, lfp_states>>
           /\ \E i \in DOMAIN logfiles : logfiles[i] = f /\ logfiles' = RemoveAt(logfiles, i)
  <2>1. PICK i \in 1 .. Len(logfiles) : logfiles[i] = f /\ logfiles' = RemoveAt(logfiles, i)
    BY <1>1, <1>4
  <2>2. /\ \A j, k \in 1 .. Len(logfiles') : logfiles'[j] = logfiles'[k] => j = k
        /\ \A g : (\E j \in 1 .. Len(logfiles') : logfiles'[j] = g)
                     <=> g # f /\ \E j \in 1 .. Len(logfiles) : logfiles[j] = g
    <3>. DEFINE t == RemoveAt(logfiles, i)
    <3>1. /\ \A j, k \in 1 .. Len(t) : t[j] = t[k] => j = k
          /\ \A g : (\E j \in 1 .. Len(t) : t[j] = g)
                       <=> g # logfiles[i] /\ \E j \in 1 .. Len(logfiles) : logfiles[j] = g
      BY <1>1, <1>3, RemovedOnce
    <3>2. logfiles' = t /\ logfiles[i] = f
      BY <2>1
    <3>. HIDE DEF t, f
    <3>. QED
      BY <3>1, <3>2
  <2>3. \A id : Tstamp(id)' = Tstamp(id)
    BY <1>1, SameFiles
  <2>4. \A g : HasState(g)' <=> HasState(g)
    BY <1>4 DEF HasState
  <2>5. Sorted' /\ OneState'
    BY <1>1, <1>4, <2>2, <2>3 DEF FilesMatch, Sorted, OneState
  <2>6. Matching'
    BY <1>1, <1>3, <1>4, <2>2, <2>4 DEF Matching, Listed, BeingRead, Working
  <2>. QED
    BY <2>5, <2>6 DEF FilesMatch
<1>5. CASE UNCHANGED <<lfp_states, logfiles, wlfs>>
  BY <1>1, <1>5, UnchangedMatch
<1>6. CASE /\ ~AtEnd(f) /\ lfp_states' = Inserted(lfp_states, NextLine(f)) /\ wlfs' = NoRecord
           /\ logfiles' = logfiles
  <2>1. /\ Sorted' /\ Len(lfp_states') = n + 1
        /\ (\A j, k \in 1 .. Len(lfp_states) : lfp_states[j][1] = lfp_states[k][1] => j = k)'
        /\ \A g : HasState(g)' <=> HasState(g) \/ g = f
    BY <1>1, <1>2, <1>3, <1>6, StateAdded
  <2>2. OneState'
    BY <1>1, <1>3, <1>6, <2>1 DEF OneState
  <2>3. Matching'
    BY <1>1, <1>3, <1>6, <2>1 DEF Matching, Listed, BeingRead, Working
  <2>. QED
    BY <2>1, <2>2, <2>3 DEF FilesMatch
<1>. QED
  BY <1>4, <1>5, <1>6 DEF GetLine

(* The first state becomes the record in hand.                             *)
LEMMA GetRecordMatch == IInv /\ FilesMatch /\ GetRecord => FilesMatch'
<1>. SUFFICES ASSUME IInv, FilesMatch, GetRecord PROVE FilesMatch'
  OBVIOUS
<1>1. /\ pc = "get" /\ Len(lfp_states) = Len(logfiles) /\ UNCHANGED <<pos, logfiles>>
      /\ wlfs = NoRecord /\ lfp_states \in Seq(Id) /\ file' = file /\ NoRecord \notin Id
  BY NoRecordIsNone DEF GetRecord, runVars, IInv, Reading
<1>2. CASE lfp_states = <<>>
  BY <1>1, <1>2, UnchangedMatch DEF GetRecord
<1>3. CASE lfp_states # <<>>
  <2>1. pc' = "record" /\ wlfs' = lfp_states[1] /\ lfp_states' = Tail(lfp_states)
    BY <1>1, <1>3 DEF GetRecord
  <2>2. /\ Len(lfp_states) = Len(lfp_states') + 1
        /\ \A i \in 1 .. Len(lfp_states') :
             lfp_states'[i] = lfp_states[i + 1] /\ i + 1 \in 1 .. Len(lfp_states)
        /\ 1 \in 1 .. Len(lfp_states)
        /\ wlfs' # NoRecord
    BY <1>1, <1>3, <2>1
  <2>3. \A i, j \in 1 .. Len(lfp_states) : lfp_states[i][1] = lfp_states[j][1] => i = j
    BY DEF FilesMatch, OneState
  <2>4. \A id : Tstamp(id)' = Tstamp(id)
    BY <1>1, SameFiles
  <2>5. Sorted'
    BY <2>2, <2>4 DEF FilesMatch, Sorted
  <2>6. ASSUME NEW f
        PROVE  HasState(f) <=> HasState(f)' \/ f = wlfs'[1]
    <3>1. ASSUME NEW i \in 1 .. Len(lfp_states), i # 1
          PROVE  i - 1 \in 1 .. Len(lfp_states') /\ lfp_states'[i - 1] = lfp_states[i]
      BY <2>2, <3>1
    <3>. QED
      BY <2>1, <2>2, <3>1 DEF HasState
  <2>7. ~HasState(wlfs[1])'
    <3>1. ASSUME NEW i \in 1 .. Len(lfp_states'), lfp_states'[i][1] = wlfs'[1]
          PROVE  FALSE
      <4>1. lfp_states[i + 1][1] = lfp_states[1][1] /\ i + 1 \in 1 .. Len(lfp_states)
        BY <2>1, <2>2, <3>1
      <4>2. i + 1 = 1
        BY <2>2, <2>3, <4>1
      <4>. QED
        BY <4>2
    <3>. QED
      BY <3>1 DEF HasState
  <2>8. OneState'
    <3>1. \A i, j \in 1 .. Len(lfp_states') : lfp_states'[i][1] = lfp_states'[j][1] => i = j
      BY <2>2, <2>3
    <3>. QED
      BY <1>1, <2>7, <3>1 DEF FilesMatch, OneState
  <2>9. Matching'
    BY <1>1, <2>1, <2>2, <2>6 DEF FilesMatch, Matching, Listed, BeingRead, Working
  <2>. QED
    BY <2>5, <2>8, <2>9 DEF FilesMatch
<1>. QED
  BY <1>2, <1>3

(* The list of states matches the files after every step.                  *)
LEMMA MatchStep == IInv /\ FilesMatch /\ [Next]_vars => FilesMatch'
<1>. SUFFICES ASSUME IInv, FilesMatch, [Next]_vars PROVE FilesMatch'
  OBVIOUS
<1>1. ASSUME NEW m \in Mode, NEW list \in Lists, StartRun(m, list) PROVE FilesMatch'
  BY <1>1, StartMatch
<1>2. CASE PrepLine \/ PrepDone \/ GetLine \/ GetRecord
  BY <1>2, PrepLineMatch, PrepDoneMatch, GetLineMatch, GetRecordMatch
<1>3. CASE LoopTest \/ RecordStep \/ CtrlC \/ UNCHANGED vars
  <2>1. /\ UNCHANGED <<file, logfiles, lfp_states, wlfs>>
        /\ pc' = "prep" <=> pc = "prep"
    BY <1>3 DEF LoopTest, RecordStep, IgnoreRecord, KeepReport, CloseMonth, SameMonth,
                CountRecord, CtrlC, vars, runVars, fileVars
  <2>. QED
    BY <2>1, UnchangedMatch
<1>4. CASE LeaveUnsaved \/ SaveRun
  <2>1. logfiles' = <<>> /\ lfp_states' = <<>> /\ wlfs' = NoRecord
    BY <1>4 DEF LeaveUnsaved, SaveRun, Left
  <2>. QED
    BY <2>1 DEF FilesMatch, Sorted, OneState, Matching, HasState, Listed, BeingRead, Working
<1>. QED
  BY <1>1, <1>2, <1>3, <1>4 DEF Next, RunStep, ReadStep

(* List of states and list of files match in all reachable states.         *)
LEMMA MatchAlways == Spec => []FilesMatch
<1>1. Init => FilesMatch
  BY EmptyMatch DEF Init
<1>. QED
  BY <1>1, MatchStep, Invariance, PTL DEF Spec

(* After prep_lfstates, and whichever files end, the list of states has    *)
(* one state of each file on the list of files, except the one that        *)
(* get_logrec reads next, and is in the order of time.                     *)
THEOREM StatesMatch == Spec => []StatesMatchFiles
<1>1. IInv /\ FilesMatch => StatesMatchFiles
  <2>. SUFFICES ASSUME IInv, FilesMatch PROVE StatesMatchFiles
    OBVIOUS
  <2>. DEFINE files == {s[1] : s \in ToSet(lfp_states)}
              n == Len(lfp_states)
  <2>1. /\ lfp_states \in Seq(Id) /\ DOMAIN lfp_states = 1 .. n /\ n \in Nat
        /\ logfiles \in Seq(File) /\ NoFile \notin File
        /\ \A id \in Id : id[1] \in File
    BY IdProperties, LogAssumption DEF IInv, Reading, LogAssumption
  <2>2. files = {lfp_states[i][1] : i \in 1 .. n}
    BY <2>1 DEF ToSet
  <2>3. \A f : f \in files <=> HasState(f)
    BY <2>2 DEF HasState
  <2>4. files \subseteq File
    <3>1. \A i \in 1 .. n : lfp_states[i] \in Id
      BY <2>1
    <3>. QED
      BY <2>1, <2>2, <3>1
  <2>5. Cardinality(files) = n
    <3>. DEFINE place == [i \in 1 .. n |-> lfp_states[i][1]]
    <3>1. place \in Bijection(1 .. n, files)
      BY <2>2 DEF Bijection, Injection, Surjection, IsInjective, FilesMatch, OneState
    <3>. HIDE DEF files, place
    <3>2. ExistsBijection(1 .. n, files)
      BY <3>1 DEF ExistsBijection
    <3>3. IsFiniteSet(1 .. n) /\ Cardinality(1 .. n) = n
      <4>1. \A k \in Nat : IsFiniteSet(1 .. k) /\ Cardinality(1 .. k) = k
        BY FS_Interval
      <4>. QED
        BY <2>1, <4>1
    <3>. QED
      BY <3>2, <3>3, FS_Bijection
  <2>6. wlfs[1] \notin files
    BY <2>1, <2>3, <2>4 DEF FilesMatch, OneState, NoRecord
  <2>7. ASSUME pc # "prep"
        PROVE  ToSet(logfiles) = files \cup ({wlfs[1]} \ {NoFile})
    <3>1. ToSet(logfiles) = {logfiles[j] : j \in 1 .. Len(logfiles)}
      BY <2>1 DEF ToSet
    <3>2. \A f \in File : f \in ToSet(logfiles) <=> f \in files \/ Working(f)
      BY <2>3, <2>7, <3>1 DEF FilesMatch, Matching, Listed, BeingRead
    <3>3. \A f : Working(f) <=> f \in {wlfs[1]} \ {NoFile}
      BY <2>1 DEF Working, NoRecord, IInv, Reading
    <3>4. ToSet(logfiles) \subseteq File
      BY <2>1, <3>1
    <3>5. {wlfs[1]} \ {NoFile} \subseteq File
      BY <2>1 DEF NoRecord, IInv, Reading
    <3>. QED
      BY <2>4, <3>2, <3>3, <3>4, <3>5
  <2>8. \A i, j \in DOMAIN lfp_states : i < j => Tstamp(lfp_states[i]) <= Tstamp(lfp_states[j])
    BY <2>1 DEF FilesMatch, Sorted
  <2>. HIDE DEF files
  <2>9. pc # "prep" =>
          /\ Cardinality(files) = n
          /\ ToSet(logfiles) = files \cup ({wlfs[1]} \ {NoFile})
          /\ wlfs[1] \notin files
    BY <2>5, <2>6, <2>7
  <2>. QED
    BY <2>8, <2>9, Zenon DEF StatesMatchFiles, files
<1>. QED
  BY <1>1, MatchAlways, Invariance, PTL

-----------------------------------------------------------------------------
(* Reading a line                                                          *)

(* Files that stay have the same lines, in the same order.                 *)
LEMMA SameLines ==
  ASSUME file' = file
  PROVE  /\ \A id : Line(id)' = Line(id) /\ (Swallowed(id)' <=> Swallowed(id))
         /\ \A f : InOrder(f)' <=> InOrder(f)
BY DEF Line, Swallowed, RestEnds, InOrder

(* What read_log_line passes over is the rest of an oversized line.        *)
LEMMA NotSkipped ==
  ASSUME IInv, NEW f \in File, ~AtEnd(f), NEW id \in Id, id[1] = f,
         id[2] \in pos[f] + 1 .. LineEnd(f), ~Swallowed(id)
  PROVE  id = NextLine(f)
<1>1. /\ pos[f] \in Nat /\ Len(file[f]) \in Nat /\ LineEnd(f) \in pos[f] + 1 .. Len(file[f])
      /\ id[2] \in 1 .. Len(file[f])
  BY LineEndProperties, IdProperties DEF IInv, Reading
<1>2. id = <<f, id[2]>>
  BY DEF Id
<1>3. CASE ~Oversized(NextLine(f))
  BY <1>1, <1>2, <1>3 DEF LineEnd, NextLine
<1>4. CASE Oversized(NextLine(f))
  <2>. DEFINE ends == {i \in pos[f] + 1 .. Len(file[f]) : RestEnds(f, i)}
  <2>1. LineEnd(f) = Min(ends) /\ ends \subseteq Nat
    BY <1>1, <1>4 DEF LineEnd
  <2>2. SUFFICES ASSUME id[2] # pos[f] + 1 PROVE FALSE
    BY <1>2 DEF NextLine
  <2>3. id[2] - 1 \in ends
    BY <1>1, <2>2 DEF Swallowed
  <2>4. Min(ends) <= id[2] - 1
    BY <2>1, <2>3, MinExists
  <2>. QED
    BY <1>1, <2>1, <2>4
<1>. QED
  BY <1>3, <1>4

(* A record that counts stays to come when a line is read.                 *)
LEMMA ReadOn ==
  ASSUME IInv, file' = file, NEW f \in File, ~AtEnd(f),
         pos' = [pos EXCEPT ![f] = LineEnd(f)],
         \/ BadLine(NextLine(f)) /\ lfp_states' = lfp_states
         \/ lfp_states' = Inserted(lfp_states, NextLine(f)),
         ~InHand, NEW id \in Id, Countable(id), Pending(id)
  PROVE  Pending(id)'
<1>. DEFINE n == Len(lfp_states)
<1>1. /\ pos \in [File -> Nat] /\ LineEnd(f) \in pos[f] + 1 .. Len(file[f])
      /\ Len(file[f]) \in Nat /\ NextLine(f) \in Id
      /\ id[1] \in File /\ id[2] \in Nat /\ n \in Nat /\ lfp_states \in Seq(Id)
  <2>1. /\ pos \in [File -> Nat] /\ file \in [File -> Contents] /\ lfp_states \in Seq(Id)
        /\ \A g \in File : pos[g] <= Len(file[g])
    BY DEF IInv, Reading
  <2>2. LineEnd(f) \in pos[f] + 1 .. Len(file[f]) /\ NextLine(f) \in Id
    BY <2>1, LineEndProperties
  <2>3. id[1] \in File /\ id[2] \in 1 .. Len(file[id[1]])
    BY <2>1, IdProperties
  <2>4. \A g \in File : Len(file[g]) \in Nat
    BY <2>1, LogAssumption DEF LogAssumption
  <2>. QED
    BY <2>1, <2>2, <2>3, <2>4
<1>2. CASE lfp_states' = Inserted(lfp_states, NextLine(f))
  <2>1. PICK p \in 1 .. n + 1 :
          /\ Len(lfp_states') = n + 1
          /\ \A i \in 1 .. n + 1 :
               lfp_states'[i] = IF i < p THEN lfp_states[i] ELSE IF i = p THEN NextLine(f)
                                ELSE lfp_states[i - 1]
    <3>. DEFINE new == NextLine(f)
    <3>. HIDE DEF new
    <3>1. /\ Len(Inserted(lfp_states, new)) = n + 1
          /\ \E p \in 1 .. n + 1 : \A i \in 1 .. n + 1 :
               Inserted(lfp_states, new)[i] = IF i < p THEN lfp_states[i] ELSE IF i = p THEN new
                                              ELSE lfp_states[i - 1]
      BY <1>1, InsertedProperties, Zenon DEF new
    <3>. QED
      BY <1>2, <3>1, Zenon DEF new
  <2>2. ASSUME NEW i \in 1 .. n, lfp_states[i] = id
        PROVE  Pending(id)'
    <3>1. CASE i < p
      <4>1. i \in 1 .. n + 1 /\ lfp_states'[i] = id
        BY <1>1, <2>1, <2>2, <3>1
      <4>. QED
        BY <2>1, <4>1 DEF Pending
    <3>2. CASE i >= p
      <4>1. i + 1 \in 1 .. n + 1 /\ lfp_states'[i + 1] = id
        BY <1>1, <2>1, <2>2, <3>2
      <4>. QED
        BY <2>1, <4>1 DEF Pending
    <3>. QED
      BY <1>1, <3>1, <3>2
  <2>3. ASSUME id = NextLine(f)
        PROVE  Pending(id)'
    BY <1>1, <2>1, <2>3 DEF Pending
  <2>4. CASE id[2] > pos[id[1]] /\ ~(id[2] > pos'[id[1]])
    <3>1. id[1] = f /\ id[2] \in pos[f] + 1 .. LineEnd(f)
      BY <1>1, <2>4
    <3>2. id = NextLine(f)
      BY <3>1, NotSkipped DEF Countable
    <3>. QED
      BY <2>3, <3>2
  <2>. QED
    BY <2>2, <2>4 DEF Pending
<1>3. CASE BadLine(NextLine(f)) /\ lfp_states' = lfp_states
  <2>1. CASE id[2] > pos[id[1]] /\ ~(id[2] > pos'[id[1]])
    <3>1. id[1] = f /\ id[2] \in pos[f] + 1 .. LineEnd(f)
      BY <1>1, <2>1
    <3>2. id = NextLine(f)
      BY <3>1, NotSkipped DEF Countable
    <3>3. /\ Line(id).kind = "good" /\ Line(id).length < MaxLength
          /\ Line(id).length \in Nat /\ MaxLength \in Nat
      <4>1. Line(id) \in Lines
        BY IdProperties, SMTT(20) DEF Line, IInv, Reading
      <4>. QED
        BY <4>1, LogAssumption DEF Countable, Lines, LogAssumption
    <3>. QED
      BY <1>3, <3>2, <3>3 DEF BadLine, Oversized
  <2>. QED
    BY <1>3, <2>1 DEF Pending
<1>. QED
  BY <1>2, <1>3

(* A file that is read has no bad line on the list.                        *)
LEMMA GoodInserted ==
  ASSUME IInv, NoBad, file' = file, NEW f \in File, ~AtEnd(f), ~BadLine(NextLine(f)),
         lfp_states' = Inserted(lfp_states, NextLine(f))
  PROVE  (\A i \in 1 .. Len(lfp_states) : Line(lfp_states[i]).kind # "bad")'
<1>. DEFINE n == Len(lfp_states)
            new == NextLine(f)
<1>1. new \in Id /\ lfp_states \in Seq(Id) /\ n \in Nat
  BY LineEndProperties DEF IInv, Reading
<1>2. Line(new).kind # "bad" /\ \A i \in 1 .. n : Line(lfp_states[i]).kind # "bad"
  BY DEF NoBad, BadLine
<1>. HIDE DEF new
<1>3. PICK p \in 1 .. n + 1 :
        /\ Len(lfp_states') = n + 1
        /\ \A i \in 1 .. n + 1 :
             lfp_states'[i] = IF i < p THEN lfp_states[i] ELSE IF i = p THEN new
                              ELSE lfp_states[i - 1]
  <2>1. /\ Len(Inserted(lfp_states, new)) = n + 1
        /\ \E p \in 1 .. n + 1 : \A i \in 1 .. n + 1 :
             Inserted(lfp_states, new)[i] = IF i < p THEN lfp_states[i] ELSE IF i = p THEN new
                                            ELSE lfp_states[i - 1]
    BY <1>1, InsertedProperties, Zenon
  <2>. QED
    BY <2>1, Zenon DEF new
<1>4. ASSUME NEW i \in 1 .. n + 1
      PROVE  lfp_states'[i] = new \/ \E j \in 1 .. n : lfp_states'[i] = lfp_states[j]
  <2>1. CASE i < p
    BY <1>1, <1>3, <2>1
  <2>2. CASE i = p
    BY <1>3, <2>2
  <2>3. CASE i > p
    <3>1. i - 1 \in 1 .. n /\ lfp_states'[i] = lfp_states[i - 1]
      BY <1>1, <1>3, <2>3
    <3>. QED
      BY <3>1
  <2>. QED
    BY <1>1, <2>1, <2>2, <2>3
<1>5. \A i \in 1 .. n + 1 : Line(lfp_states'[i]).kind # "bad"
  BY <1>2, <1>4
<1>. QED
  BY <1>3, <1>5, SameLines

-----------------------------------------------------------------------------
(* No record is lost                                                       *)

(* Before a run and after it no file is named.                             *)
LEMMA NothingNamed ==
  ASSUME names = <<>>, lfp_states = <<>>, wlfs = NoRecord, pc = "off"
  PROVE  RunComplete
BY DEF RunComplete, NoBad, Finished, Since, Ahead, NotLost, Named, Countable

(* When a run starts, all records of its files are still to come.          *)
LEMMA StartComplete ==
  ASSUME IInv, NEW m \in Mode, NEW list \in Lists, StartRun(m, list)
  PROVE  RunComplete'
<1>. DEFINE restored == IF Truncated(m) THEN NewDb ELSE db
<1>1. /\ pc' = "prep" /\ names' = list /\ logfiles' = list /\ lfp_states' = <<>>
      /\ wlfs' = NoRecord /\ total_good' = FALSE /\ pos' = [f \in File |-> 0]
      /\ since' = restored.cur_tstamp /\ file' = file
      /\ state' = [f \in DOMAIN NewState |-> restored[f]]
  BY DEF StartRun
<1>2. state'.cur_tstamp = since'
  <2>. HIDE DEF restored
  <2>. QED
    BY <1>1, NewProperties
<1>3. NoBad' /\ Since' /\ Ahead'
  BY <1>1, <1>2 DEF NoBad, Since, Ahead, InHand
<1>4. Finished'
  BY <1>1 DEF Finished, Named
<1>5. \A id \in Id' : Pending(id)'
  <2>1. Id' = Id /\ \A id \in Id : id[1] \in File /\ id[2] \in 1 .. Len(file[id[1]])
    BY <1>1, SameFiles, IdProperties DEF IInv, Reading
  <2>2. \A id \in Id : id[2] > 0
    BY <2>1, LogAssumption DEF LogAssumption, IInv, Reading
  <2>. QED
    BY <1>1, <2>1, <2>2 DEF Pending
<1>6. NotLost'
  BY <1>5 DEF NotLost
<1>. QED
  BY <1>3, <1>4, <1>6 DEF RunComplete

(* A step after which no more is to come than before, no record is in hand *)
(* and nothing that counts is missing.                                     *)
LEMMA CompleteKept ==
  ASSUME IInv, RunComplete, file' = file,
         UNCHANGED <<names, since, state, archive, total_good>>,
         pc \notin {"off", "count"}, ~InHand',
         \A id \in Id : Pending(id)' => Pending(id),
         Ordered => \A id \in Id : Countable(id) /\ Pending(id) => Pending(id)',
         NoBad', Finished'
  PROVE  RunComplete'
<1>1. /\ Id' = Id
      /\ \A id : Tstamp(id)' = Tstamp(id) /\ Line(id)' = Line(id)
      /\ \A id : Named(id[1])' <=> Named(id[1])
      /\ \A id : Countable(id)' <=> Countable(id)
  BY SameFiles, SameLines DEF Named, Countable
<1>2. Ordered' <=> Ordered
  BY SameLines DEF Ordered, Named
<1>3. Since'
  BY DEF RunComplete, Since
<1>4. Ordered /\ Ahead => Ahead'
  BY <1>1 DEF Ahead
<1>5. \A id : CountedNow(id)' <=> CountedNow(id)
  BY DEF CountedNow
<1>6. Ordered /\ NotLost => NotLost'
  BY <1>1, <1>5 DEF NotLost
<1>. QED
  BY <1>2, <1>3, <1>4, <1>6 DEF RunComplete

(* The first line of each file is read, and loses no record.               *)
LEMMA PrepLineComplete == IInv /\ FilesMatch /\ RunComplete /\ PrepLine => RunComplete'
<1>. SUFFICES ASSUME IInv, FilesMatch, RunComplete, PrepLine PROVE RunComplete'
  OBVIOUS
<1>. DEFINE i == Len(lfp_states) + 1
            f == logfiles[i]
<1>1. /\ pc = "prep" /\ pc' = pc /\ wlfs' = wlfs /\ wlfs = NoRecord /\ file' = file
      /\ UNCHANGED <<names, since, state, archive, total_good>>
      /\ i \in 1 .. Len(logfiles) /\ f \in File /\ logfiles \in Seq(File)
  BY DEF PrepLine, runVars, IInv, Reading
<1>2. NoBad /\ Finished
  BY DEF RunComplete
<1>3. CASE /\ AtEnd(f) /\ logfiles' = RemoveAt(logfiles, i) /\ UNCHANGED <<pos, lfp_states>>
  <2>. DEFINE t == RemoveAt(logfiles, i)
  <2>1. \A g : (\E j \in 1 .. Len(t) : t[j] = g)
                <=> g # f /\ \E j \in 1 .. Len(logfiles) : logfiles[j] = g
    BY <1>1, RemovedOnce DEF FilesMatch, OneState
  <2>2. \A g : AtEnd(g)' <=> AtEnd(g)
    BY <1>1, <1>3 DEF AtEnd
  <2>3. \A g : (\A j \in 1 .. Len(logfiles') : logfiles'[j] # g)
                => g = f \/ \A j \in 1 .. Len(logfiles) : logfiles[j] # g
    BY <1>3, <2>1
  <2>4. Finished'
    BY <1>1, <1>2, <1>3, <2>2, <2>3 DEF Finished, Named
  <2>5. NoBad'
    BY <1>1, <1>2, <1>3, SameLines DEF NoBad
  <2>6. \A id : Pending(id)' <=> Pending(id)
    BY <1>1, <1>3 DEF Pending, InHand
  <2>. QED
    BY <1>1, <2>4, <2>5, <2>6, CompleteKept DEF InHand
<1>4. CASE ~AtEnd(f) /\ pos' = [pos EXCEPT ![f] = LineEnd(f)] /\ logfiles' = logfiles
  <2>1. \A g \in File : g # f => (AtEnd(g)' <=> AtEnd(g))
    BY <1>1, <1>4 DEF AtEnd, IInv, Reading
  <2>2. Finished'
    BY <1>1, <1>2, <1>4, <2>1 DEF Finished, Named
  <2>3. CASE BadLine(NextLine(f)) /\ lfp_states' = lfp_states
    <3>1. \A id \in Id : Pending(id)' => Pending(id)
      BY <1>1, <1>4, <2>3, BadLineRead
    <3>2. \A id \in Id : Countable(id) /\ Pending(id) => Pending(id)'
      BY <1>1, <1>4, <2>3, ReadOn DEF InHand
    <3>3. NoBad'
      BY <1>1, <1>2, <2>3, SameLines DEF NoBad
    <3>. QED
      BY <1>1, <2>2, <3>1, <3>2, <3>3, CompleteKept DEF InHand
  <2>4. CASE ~BadLine(NextLine(f)) /\ lfp_states' = Inserted(lfp_states, NextLine(f))
    <3>1. \A id \in Id : Pending(id)' => Pending(id)
      BY <1>1, <1>4, <2>4, RecordInserted
    <3>2. \A id \in Id : Countable(id) /\ Pending(id) => Pending(id)'
      BY <1>1, <1>4, <2>4, ReadOn DEF InHand
    <3>3. NoBad'
      BY <1>1, <1>2, <1>4, <2>4, GoodInserted DEF NoBad
    <3>. QED
      BY <1>1, <2>2, <3>1, <3>2, <3>3, CompleteKept DEF InHand
  <2>. QED
    BY <1>4, <2>3, <2>4 DEF PrepLine
<1>. QED
  BY <1>3, <1>4 DEF PrepLine

(* Nor does the next line of the file whose record was taken.              *)
LEMMA GetLineComplete == IInv /\ FilesMatch /\ RunComplete /\ GetLine => RunComplete'
<1>. SUFFICES ASSUME IInv, FilesMatch, RunComplete, GetLine PROVE RunComplete'
  OBVIOUS
<1>. DEFINE f == wlfs[1]
<1>1. /\ pc = "get" /\ pc' = pc /\ wlfs # NoRecord /\ wlfs \in Id /\ file' = file
      /\ UNCHANGED <<names, since, state, archive, total_good>>
      /\ logfiles \in Seq(File)
  BY DEF GetLine, runVars, IInv, Reading
<1>2. NoBad /\ Finished
  BY DEF RunComplete
<1>3. f \in File /\ \E j \in 1 .. Len(logfiles) : logfiles[j] = f
  <2>1. f \in File
    BY <1>1, IdProperties DEF IInv, Reading
  <2>. QED
    BY <1>1, <2>1 DEF FilesMatch, Matching, Listed, BeingRead, Working
<1>4. CASE /\ AtEnd(f) /\ wlfs' = NoRecord /\ UNCHANGED <<pos, lfp_states>>
           /\ \E i \in DOMAIN logfiles : logfiles[i] = f /\ logfiles' = RemoveAt(logfiles, i)
  <2>1. PICK i \in 1 .. Len(logfiles) : logfiles[i] = f /\ logfiles' = RemoveAt(logfiles, i)
    BY <1>1, <1>4
  <2>. DEFINE t == RemoveAt(logfiles, i)
  <2>2. \A g : (\E j \in 1 .. Len(t) : t[j] = g)
                <=> g # logfiles[i] /\ \E j \in 1 .. Len(logfiles) : logfiles[j] = g
    BY <1>1, RemovedOnce DEF FilesMatch, OneState
  <2>3. \A g : AtEnd(g)' <=> AtEnd(g)
    BY <1>1, <1>4 DEF AtEnd
  <2>4. \A g : (\A j \in 1 .. Len(logfiles') : logfiles'[j] # g)
                => g = f \/ \A j \in 1 .. Len(logfiles) : logfiles[j] # g
    BY <2>1, <2>2
  <2>5. Finished'
    BY <1>1, <1>2, <1>4, <2>3, <2>4 DEF Finished, Named
  <2>6. NoBad'
    BY <1>1, <1>2, <1>4, SameLines DEF NoBad
  <2>7. \A id : Pending(id)' <=> Pending(id)
    BY <1>1, <1>4 DEF Pending, InHand
  <2>. QED
    BY <1>1, <2>5, <2>6, <2>7, CompleteKept DEF InHand
<1>5. CASE ~AtEnd(f) /\ pos' = [pos EXCEPT ![f] = LineEnd(f)] /\ logfiles' = logfiles
  <2>1. \A g \in File : g # f => (AtEnd(g)' <=> AtEnd(g))
    BY <1>1, <1>5 DEF AtEnd, IInv, Reading
  <2>2. Finished'
    BY <1>1, <1>2, <1>3, <1>5, <2>1 DEF Finished, Named
  <2>3. CASE BadLine(NextLine(f)) /\ UNCHANGED <<lfp_states, wlfs>>
    <3>1. \A id \in Id : Pending(id)' => Pending(id)
      BY <1>1, <1>3, <1>5, <2>3, BadLineRead
    <3>2. \A id \in Id : Countable(id) /\ Pending(id) => Pending(id)'
      BY <1>1, <1>3, <1>5, <2>3, ReadOn DEF InHand
    <3>3. NoBad'
      BY <1>1, <1>2, <2>3, SameLines DEF NoBad
    <3>. QED
      BY <1>1, <2>2, <3>1, <3>2, <3>3, CompleteKept DEF InHand
  <2>4. CASE /\ ~BadLine(NextLine(f)) /\ wlfs' = NoRecord
             /\ lfp_states' = Inserted(lfp_states, NextLine(f))
    <3>1. \A id \in Id : Pending(id)' => Pending(id)
      BY <1>1, <1>3, <1>5, <2>4, RecordInserted
    <3>2. \A id \in Id : Countable(id) /\ Pending(id) => Pending(id)'
      BY <1>1, <1>3, <1>5, <2>4, ReadOn DEF InHand
    <3>3. NoBad'
      BY <1>1, <1>2, <1>3, <1>5, <2>4, GoodInserted DEF NoBad
    <3>. QED
      BY <1>1, <2>2, <3>1, <3>2, <3>3, CompleteKept DEF InHand
  <2>. QED
    BY <1>5, <2>3, <2>4 DEF GetLine
<1>. QED
  BY <1>4, <1>5 DEF GetLine

(* Steps that only go on: the loop ends with the files, or with Ctrl-C.    *)
LEMMA GoOnComplete ==
  ASSUME IInv, RunComplete, PrepDone \/ LoopTest \/ CtrlC \/ UNCHANGED vars
  PROVE  RunComplete'
<1>1. /\ UNCHANGED <<file, names, since, pos, logfiles, lfp_states, wlfs>>
      /\ UNCHANGED <<total_good, state, archive>>
      /\ InHand' <=> InHand
      /\ pc' \notin {"off", "count"} => pc \notin {"off", "count"}
      /\ rec_tstamp' = rec_tstamp
  BY SameFiles
  DEF PrepDone, LoopTest, CtrlC, vars, runVars, fileVars, InHand, rec_tstamp, Tstamp, Line
<1>2. /\ Id' = Id
      /\ \A id : Tstamp(id)' = Tstamp(id) /\ Line(id)' = Line(id)
      /\ \A id : Named(id[1])' <=> Named(id[1])
      /\ \A id : Countable(id)' <=> Countable(id)
      /\ \A id : Pending(id)' <=> Pending(id)
      /\ \A id : CountedNow(id)' <=> CountedNow(id)
      /\ Ordered' <=> Ordered
  BY <1>1, SameFiles, SameLines
  DEF Named, Countable, Pending, CountedNow, Ordered
<1>3. NoBad' /\ Since'
  BY <1>1, <1>2 DEF RunComplete, NoBad, Since
<1>4. Finished'
  <2>1. pc' = "final" /\ ~abort_signal' => logfiles' = <<>>
    BY <1>1 DEF RunComplete, Finished, PrepDone, LoopTest, LoopDone, CtrlC, vars
  <2>2. \A f : AtEnd(f)' <=> AtEnd(f)
    BY <1>1 DEF AtEnd
  <2>. QED
    BY <1>1, <2>1, <2>2 DEF RunComplete, Finished, Named
<1>5. Ordered => Ahead' /\ NotLost'
  BY <1>1, <1>2 DEF RunComplete, Ahead, NotLost
<1>. QED
  BY <1>2, <1>3, <1>4, <1>5 DEF RunComplete

(* A file that is not read to its end has its state on the list, with an   *)
(* earlier record, when the next one is taken. So the first on the list is *)
(* the earliest of all that are to come.                                   *)
LEMMA EarliestFirst ==
  ASSUME IInv, FilesMatch, RunComplete, Ordered, pc = "get",
         Len(lfp_states) = Len(logfiles), lfp_states # <<>>,
         NEW id \in Id, Named(id[1]), Line(id).kind # "bad", Pending(id)
  PROVE  Tstamp(lfp_states[1]) <= Tstamp(id)
<1>. DEFINE n == Len(lfp_states)
            f == id[1]
<1>1. /\ lfp_states \in Seq(Id) /\ wlfs = NoRecord /\ n \in Nat /\ 1 \in 1 .. n
      /\ f \in File /\ id[2] \in 1 .. Len(file[f]) /\ Len(file[f]) \in Nat
      /\ Tstamp(id) \in Nat /\ \A i \in 1 .. n : Tstamp(lfp_states[i]) \in Nat
  <2>1. file \in [File -> Contents] /\ lfp_states \in Seq(Id) /\ wlfs = NoRecord
    BY DEF IInv, Reading
  <2>2. \A i \in 1 .. n : lfp_states[i] \in Id
    BY <2>1
  <2>3. f \in File /\ id[2] \in 1 .. Len(file[f]) /\ Len(file[f]) \in Nat /\ Tstamp(id) \in Nat
    BY <2>1, IdProperties
  <2>4. \A i \in 1 .. n : Tstamp(lfp_states[i]) \in Nat
    BY <2>1, <2>2, IdProperties
  <2>. QED
    BY <2>1, <2>3, <2>4
<1>2. \A i \in 1 .. n : Tstamp(lfp_states[1]) <= Tstamp(lfp_states[i])
  BY <1>1 DEF FilesMatch, Sorted
<1>3. CASE \E i \in 1 .. n : lfp_states[i] = id
  BY <1>2, <1>3
<1>4. CASE id[2] > pos[f]
  <2>1. ~AtEnd(f)
    BY <1>1, <1>4 DEF AtEnd, IInv, Reading
  <2>2. \E j \in 1 .. Len(logfiles) : logfiles[j] = f
    BY <1>1, <2>1 DEF RunComplete, Finished
  <2>3. HasState(f)
    BY <1>1, <2>2 DEF FilesMatch, Matching, Listed, BeingRead, Working
  <2>4. PICK i \in 1 .. n : lfp_states[i][1] = f
    BY <2>3 DEF HasState
  <2>5. /\ lfp_states[i] \in Id /\ lfp_states[i][2] \in 1 .. Len(file[f])
        /\ lfp_states[i][2] <= pos[f]
    <3>1. lfp_states[i] \in Id
      BY <1>1
    <3>2. lfp_states[i][2] \in 1 .. Len(file[lfp_states[i][1]])
      BY <3>1, IdProperties DEF IInv, Reading
    <3>. QED
      BY <2>4, <3>1, <3>2 DEF IInv, OnePlace
  <2>6. /\ file[f][lfp_states[i][2]].kind # "bad" /\ file[f][id[2]].kind # "bad"
    BY <2>4 DEF RunComplete, NoBad, Line
  <2>7. lfp_states[i][2] < id[2] /\ DOMAIN file[f] = 1 .. Len(file[f])
    <3>1. file[f] \in Seq(Lines) /\ pos[f] \in Nat
      BY <1>1, IdProperties DEF IInv, Reading
    <3>. QED
      BY <1>1, <1>4, <2>5, <3>1
  <2>8. file[f][lfp_states[i][2]].tstamp <= file[f][id[2]].tstamp
    BY <1>1, <2>5, <2>6, <2>7 DEF Ordered, InOrder
  <2>9. Tstamp(lfp_states[i]) <= Tstamp(id)
    BY <2>4, <2>8 DEF Tstamp, Line
  <2>. QED
    BY <1>1, <1>2, <2>9
<1>. QED
  BY <1>3, <1>4 DEF Pending, InHand

(* The record in hand is the earliest of all that are pending.             *)
LEMMA GetRecordComplete == IInv /\ FilesMatch /\ RunComplete /\ GetRecord => RunComplete'
<1>. SUFFICES ASSUME IInv, FilesMatch, RunComplete, GetRecord PROVE RunComplete'
  OBVIOUS
<1>1. /\ pc = "get" /\ Len(lfp_states) = Len(logfiles) /\ wlfs = NoRecord
      /\ UNCHANGED <<file, names, since, pos, logfiles>>
      /\ UNCHANGED <<total_good, state, archive, abort_signal>>
      /\ lfp_states \in Seq(Id) /\ NoRecord \notin Id
  BY NoRecordIsNone DEF GetRecord, runVars, IInv, Reading
<1>2. pc' # "final" /\ pc' \in {"loop", "record"}
  BY <1>1 DEF GetRecord
<1>3. Finished'
  BY <1>1, <1>2 DEF RunComplete, Finished, AtEnd, Named
<1>4. CASE lfp_states = <<>>
  <2>1. pc' = "loop" /\ UNCHANGED <<lfp_states, wlfs>>
    BY <1>4 DEF GetRecord
  <2>2. NoBad'
    BY <1>1, <2>1, SameLines DEF RunComplete, NoBad
  <2>3. \A id : Pending(id)' <=> Pending(id)
    BY <1>1, <2>1 DEF Pending, InHand
  <2>. QED
    BY <1>1, <1>3, <2>1, <2>2, <2>3, CompleteKept DEF InHand
<1>5. CASE lfp_states # <<>>
  <2>1. pc' = "record" /\ wlfs' = lfp_states[1] /\ lfp_states' = Tail(lfp_states)
    BY <1>1, <1>5 DEF GetRecord
  <2>2. /\ Len(lfp_states) = Len(lfp_states') + 1
        /\ \A i \in 1 .. Len(lfp_states') :
             lfp_states'[i] = lfp_states[i + 1] /\ i + 1 \in 1 .. Len(lfp_states)
        /\ \A i \in 1 .. Len(lfp_states) :
             i # 1 => i - 1 \in 1 .. Len(lfp_states') /\ lfp_states'[i - 1] = lfp_states[i]
        /\ 1 \in 1 .. Len(lfp_states)
    BY <1>1, <1>5, <2>1
  <2>3. /\ Id' = Id
        /\ \A id : Tstamp(id)' = Tstamp(id) /\ Line(id)' = Line(id)
        /\ \A id : Named(id[1])' <=> Named(id[1])
        /\ \A id : Countable(id)' <=> Countable(id)
        /\ \A id : CountedNow(id)' <=> CountedNow(id)
        /\ Ordered' <=> Ordered
    BY <1>1, SameFiles, SameLines DEF Named, Countable, CountedNow, Ordered
  <2>4. ASSUME NEW id
        PROVE  Pending(id)' <=> Pending(id)
    <3>1. (\E i \in 1 .. Len(lfp_states) : lfp_states[i] = id)
            <=> id = lfp_states[1] \/ \E i \in 1 .. Len(lfp_states') : lfp_states'[i] = id
      BY <2>2
    <3>. QED
      BY <1>1, <2>1, <3>1 DEF Pending, InHand
  <2>5. NoBad'
    BY <1>1, <2>1, <2>2, <2>3 DEF RunComplete, NoBad
  <2>6. Since'
    BY <1>1, <2>1 DEF RunComplete, Since
  <2>7. rec_tstamp' = Tstamp(lfp_states[1])
    BY <2>1, <2>3 DEF rec_tstamp
  <2>8. Ordered => Ahead'
    <3>. SUFFICES ASSUME Ordered, NEW id \in Id, Named(id[1]), Line(id).kind # "bad", Pending(id)
                  PROVE  /\ total_good => state.cur_tstamp <= Tstamp(id)
                         /\ Tstamp(lfp_states[1]) <= Tstamp(id)
      BY <1>1, <2>3, <2>4, <2>7 DEF Ahead
    <3>1. Tstamp(lfp_states[1]) <= Tstamp(id)
      BY <1>1, <1>5, EarliestFirst
    <3>. QED
      BY <3>1 DEF RunComplete, Ahead
  <2>9. Ordered => NotLost'
    BY <2>3, <2>4 DEF RunComplete, NotLost
  <2>. QED
    BY <1>3, <2>3, <2>5, <2>6, <2>8, <2>9 DEF RunComplete
<1>. QED
  BY <1>4, <1>5

(* A record that is ignored is not later than the last run: in files that  *)
(* are in order none is earlier than what this run has counted.            *)
LEMMA IgnoreRecordComplete == IInv /\ RunComplete /\ IgnoreRecord => RunComplete'
<1>. SUFFICES ASSUME IInv, RunComplete, IgnoreRecord PROVE RunComplete'
  OBVIOUS
<1>1. /\ pc = "record" /\ pc' = "loop"
      /\ UNCHANGED <<file, names, since, pos, logfiles, lfp_states, wlfs>>
      /\ UNCHANGED <<total_good, state, archive, abort_signal>>
      /\ Duplicate \/ rec_tstamp < state.cur_tstamp
  BY DEF IgnoreRecord, runVars, fileVars
<1>2. NoBad' /\ Finished'
  BY <1>1, SameLines DEF RunComplete, NoBad, Finished, AtEnd, Named
<1>3. \A id : Pending(id)' => Pending(id)
  BY <1>1 DEF Pending, InHand
<1>4. ASSUME Ordered, NEW id \in Id, Countable(id), Pending(id)
      PROVE  Pending(id)'
  <2>1. SUFFICES ASSUME id = wlfs PROVE FALSE
    BY <1>1, <1>4 DEF Pending
  <2>2. /\ wlfs \in Id /\ rec_tstamp \in Nat /\ rec_tstamp = Tstamp(id)
        /\ state.cur_tstamp \in Nat \cup {-1} /\ since \in Nat \cup {-1}
    BY <1>1, <2>1, RecordInHand, NewProperties
    DEF rec_tstamp, IInv, Kept, MonthState, Config
  <2>3. CASE total_good
    <3>1. state.cur_tstamp <= Tstamp(id)
      BY <1>4, <2>3 DEF RunComplete, Ahead, Countable
    <3>. QED
      BY <1>1, <2>2, <2>3, <3>1 DEF Duplicate
  <2>4. CASE ~total_good
    <3>1. state.cur_tstamp = since
      BY <1>1, <2>4 DEF RunComplete, Since
    <3>2. rec_tstamp > since
      BY <1>4, <2>2 DEF Countable
    <3>. QED
      BY <1>1, <2>2, <3>1, <3>2 DEF Duplicate
  <2>. QED
    BY <2>3, <2>4
<1>. QED
  BY <1>1, <1>2, <1>3, <1>4, CompleteKept DEF InHand

(* What a month has counted goes to its database.                          *)
LEMMA OtherMonthComplete == IInv /\ RunComplete /\ (KeepReport \/ CloseMonth) => RunComplete'
<1>. SUFFICES ASSUME IInv, RunComplete, KeepReport \/ CloseMonth PROVE RunComplete'
  OBVIOUS
<1>1. /\ pc = "record" /\ pc' = "count"
      /\ UNCHANGED <<file, names, since, pos, logfiles, lfp_states, wlfs>>
      /\ UNCHANGED <<total_good, abort_signal>>
      /\ archive' = Archived(state)
      /\ \/ state' = [NewState EXCEPT !.cur_tstamp = rec_tstamp]
         \/ state' = NewState
  BY DEF KeepReport, CloseMonth, Reset, runVars, fileVars
<1>2. /\ Id' = Id
      /\ \A id : Tstamp(id)' = Tstamp(id) /\ Line(id)' = Line(id)
      /\ \A id : Named(id[1])' <=> Named(id[1])
      /\ \A id : Countable(id)' <=> Countable(id)
      /\ \A id : Pending(id)' <=> Pending(id)
      /\ Ordered' <=> Ordered
      /\ rec_tstamp' = rec_tstamp
  BY <1>1, SameFiles, SameLines DEF Named, Countable, Pending, InHand, Ordered, rec_tstamp
<1>3. wlfs \in Id /\ rec_tstamp \in Nat /\ state'.cur_tstamp \in {-1, rec_tstamp}
  BY <1>1, RecordInHand, NewProperties
<1>4. NoBad' /\ Finished' /\ Since'
  BY <1>1, SameLines DEF RunComplete, NoBad, Finished, AtEnd, Named, Since
<1>5. ASSUME Ordered
      PROVE  Ahead'
  <2>1. \A id \in Id : Named(id[1]) /\ Line(id).kind # "bad" /\ Pending(id) =>
                         rec_tstamp <= Tstamp(id) /\ Tstamp(id) \in Nat
    BY <1>1, <1>5, IdProperties DEF RunComplete, Ahead, InHand, IInv, Reading
  <2>2. \A id \in Id : Named(id[1]) /\ Line(id).kind # "bad" /\ Pending(id) =>
                         state'.cur_tstamp <= Tstamp(id)
    BY <1>3, <2>1
  <2>. QED
    BY <1>2, <2>1, <2>2 DEF Ahead
<1>6. ASSUME NEW id \in Id, CountedNow(id)
      PROVE  CountedNow(id)'
  <2>. DEFINE closed == [tstamp |-> state.cur_tstamp, counted |-> state.counted]
  <2>1. archive \in Seq(Closed) /\ archive' = Append(archive, closed)
    BY <1>1 DEF Archived, IInv, Kept
  <2>2. closed.counted = state.counted
    OBVIOUS
  <2>. HIDE DEF closed
  <2>3. /\ \A i \in DOMAIN archive : i \in DOMAIN archive' /\ archive'[i] = archive[i]
        /\ Len(archive) + 1 \in DOMAIN archive' /\ archive'[Len(archive) + 1] = closed
    BY <2>1
  <2>. QED
    BY <1>6, <2>2, <2>3 DEF CountedNow
<1>7. Ordered => NotLost'
  BY <1>2, <1>6 DEF RunComplete, NotLost
<1>. QED
  BY <1>2, <1>4, <1>5, <1>7 DEF RunComplete

(* It is counted, or a duplicate of the last run.                          *)
LEMMA SameMonthComplete == IInv /\ RunComplete /\ SameMonth => RunComplete'
<1>. SUFFICES ASSUME IInv, RunComplete, SameMonth PROVE RunComplete'
  OBVIOUS
<1>1. /\ pc = "record" /\ pc' = "count"
      /\ UNCHANGED <<file, names, since, pos, logfiles, lfp_states, wlfs>>
      /\ UNCHANGED <<total_good, abort_signal, state, archive>>
  BY DEF SameMonth, runVars, fileVars
<1>2. /\ Id' = Id
      /\ \A id : Tstamp(id)' = Tstamp(id) /\ Line(id)' = Line(id)
      /\ \A id : Named(id[1])' <=> Named(id[1])
      /\ \A id : Countable(id)' <=> Countable(id)
      /\ \A id : Pending(id)' <=> Pending(id)
      /\ \A id : CountedNow(id)' <=> CountedNow(id)
      /\ Ordered' <=> Ordered
      /\ rec_tstamp' = rec_tstamp
  BY <1>1, SameFiles, SameLines
  DEF Named, Countable, Pending, CountedNow, InHand, Ordered, rec_tstamp
<1>3. NoBad' /\ Finished' /\ Since'
  BY <1>1, SameLines DEF RunComplete, NoBad, Finished, AtEnd, Named, Since
<1>4. Ordered => Ahead' /\ NotLost'
  BY <1>1, <1>2 DEF RunComplete, Ahead, NotLost, InHand
<1>. QED
  BY <1>2, <1>3, <1>4 DEF RunComplete

(* The record in hand is counted, and nothing that is to come is earlier.  *)
LEMMA CountRecordComplete == IInv /\ RunComplete /\ CountRecord => RunComplete'
<1>. SUFFICES ASSUME IInv, RunComplete, CountRecord PROVE RunComplete'
  OBVIOUS
<1>1. /\ pc = "count" /\ pc' = "loop" /\ total_good' = TRUE
      /\ UNCHANGED <<file, names, since, pos, logfiles, lfp_states, wlfs>>
      /\ UNCHANGED <<abort_signal, archive>>
  BY DEF CountRecord, runVars, fileVars
<1>2. /\ Id' = Id
      /\ \A id : Tstamp(id)' = Tstamp(id) /\ Line(id)' = Line(id)
      /\ \A id : Named(id[1])' <=> Named(id[1])
      /\ \A id : Countable(id)' <=> Countable(id)
      /\ \A id : Pending(id)' => Pending(id)
      /\ \A id : Pending(id) => Pending(id)' \/ id = wlfs
      /\ Ordered' <=> Ordered
  BY <1>1, SameFiles, SameLines DEF Named, Countable, Pending, InHand, Ordered
<1>3. /\ wlfs \in Id /\ state \in MonthState /\ state.counted \in [Id -> Nat]
  BY <1>1, RecordInHand DEF IInv, Kept, MonthState, Counts
<1>4. state'.cur_tstamp = rec_tstamp
  BY <1>3 DEF CountRecord, MonthState
<1>5. /\ state'.counted = state.counted \/ state'.counted = [state.counted EXCEPT ![wlfs] = @ + 1]
      /\ Line(wlfs).kind = "good" => state'.counted = [state.counted EXCEPT ![wlfs] = @ + 1]
  BY <1>3 DEF CountRecord, MonthState
<1>6. /\ \A id \in Id : state.counted[id] > 0 => state'.counted[id] > 0
      /\ Line(wlfs).kind = "good" => state'.counted[wlfs] > 0
  BY <1>3, <1>5
<1>7. NoBad' /\ Finished' /\ Since'
  BY <1>1, SameLines DEF RunComplete, NoBad, Finished, AtEnd, Named, Since
<1>8. Ordered => Ahead'
  BY <1>1, <1>2, <1>4 DEF RunComplete, Ahead, InHand
<1>9. Ordered => NotLost'
  BY <1>1, <1>2, <1>6 DEF RunComplete, NotLost, CountedNow, Countable
<1>. QED
  BY <1>2, <1>7, <1>8, <1>9 DEF RunComplete

(* No step of a run over ordered files loses a record.                     *)
LEMMA CompleteStep == IInv /\ FilesMatch /\ RunComplete /\ [Next]_vars => RunComplete'
<1>. SUFFICES ASSUME IInv, FilesMatch, RunComplete, [Next]_vars PROVE RunComplete'
  OBVIOUS
<1>1. ASSUME NEW m \in Mode, NEW list \in Lists, StartRun(m, list) PROVE RunComplete'
  BY <1>1, StartComplete
<1>2. CASE PrepLine \/ GetLine \/ GetRecord
  BY <1>2, PrepLineComplete, GetLineComplete, GetRecordComplete
<1>3. CASE PrepDone \/ LoopTest \/ CtrlC \/ UNCHANGED vars
  BY <1>3, GoOnComplete
<1>4. CASE RecordStep
  BY <1>4, IgnoreRecordComplete, OtherMonthComplete, SameMonthComplete, CountRecordComplete
  DEF RecordStep
<1>5. CASE LeaveUnsaved \/ SaveRun
  <2>1. names' = <<>> /\ lfp_states' = <<>> /\ wlfs' = NoRecord /\ pc' = "off"
    BY <1>5 DEF LeaveUnsaved, SaveRun, Left
  <2>. QED
    BY <2>1 DEF RunComplete, NoBad, Finished, Since, Ahead, NotLost, Named, Countable
<1>. QED
  BY <1>1, <1>2, <1>3, <1>4, <1>5 DEF Next, RunStep, ReadStep

(* So that in all reachable states each is pending or counted.             *)
LEMMA CompleteAlways == Spec => []RunComplete
<1>1. Init => RunComplete
  BY NothingNamed DEF Init
<1>. QED
  BY <1>1, CompleteStep, MatchAlways, Invariance, PTL DEF Spec

(* A run that reads log files to the end which are each in the order of    *)
(* time counts every record that is later than the last run and that       *)
(* read_log_line returns, whatever its files are merged with (get_logrec), *)
(* and whatever month is closed in between.                                *)
THEOREM OrderedCounted == Spec => []OrderedFilesCounted
<1>1. IInv /\ RunComplete => OrderedFilesCounted
  <2>. SUFFICES ASSUME IInv, RunComplete, pc = "final", ~abort_signal,
                       \A f \in ToSet(names) : InOrder(f),
                       NEW id \in Id, id[1] \in ToSet(names),
                       Line(id).kind = "good", Line(id).length < MaxLength, ~Swallowed(id),
                       Tstamp(id) > since
                PROVE  CountedNow(id)
    BY DEF OrderedFilesCounted
  <2>1. \A f : f \in ToSet(names) <=> Named(f)
    BY DEF ToSet, Named, IInv, Config
  <2>2. Pending(id) \/ CountedNow(id)
    BY <2>1 DEF RunComplete, Ordered, NotLost, Countable
  <2>3. logfiles = <<>> /\ Len(lfp_states) = 0
    BY DEF RunComplete, Finished, IInv, Reading
  <2>4. id[1] \in File /\ id[2] \in 1 .. Len(file[id[1]]) /\ Len(file[id[1]]) \in Nat
    BY IdProperties DEF IInv, Reading
  <2>5. AtEnd(id[1])
    BY <2>1, <2>3, <2>4 DEF RunComplete, Finished
  <2>6. ~Pending(id)
    BY <2>3, <2>4, <2>5 DEF Pending, InHand, AtEnd
  <2>. QED
    BY <2>2, <2>6
<1>. QED
  BY <1>1, CompleteAlways, Invariance, PTL

-----------------------------------------------------------------------------
(* Runs with a history                                                     *)

(* The history of the site, its file and the reports stop no step of a run *)
(* and add none (history_t, webalizer_t::write_main_index).                *)
THEOREM HistoryKeepsRuns == FairHistSpec => Spec
<1>1. HistInit => Init
  BY DEF HistInit
<1>2. [HistNext]_allVars => [Next]_vars
  <2>. SUFFICES ASSUME HistNext \/ UNCHANGED allVars PROVE Next \/ UNCHANGED vars
    OBVIOUS
  <2>1. CASE StartWithHistory
    BY <2>1 DEF StartWithHistory, Next
  <2>2. CASE HistRunStep
    BY <2>2
    DEF HistRunStep, CloseMonthReported, SaveRunReported, LeaveWithoutHistory,
        StepWithoutHistory, Next, RunStep, RecordStep
  <2>3. CASE CtrlC /\ UNCHANGED histVars
    BY <2>3 DEF Next
  <2>4. CASE LoseHistory
    BY <2>4 DEF LoseHistory
  <2>5. CASE UNCHANGED allVars
    BY <2>5 DEF allVars
  <2>. QED
    BY <2>1, <2>2, <2>3, <2>4, <2>5 DEF HistNext
<1>. QED
  BY <1>1, <1>2, PTL DEF FairHistSpec, Spec

(* What is proved of the runs holds with the history, which may be lost    *)
(* between any two of them.                                                *)
THEOREM RunsWithHistory ==
  FairHistSpec => /\ [](StatesMatchFiles /\ OrderedFilesCounted)
                  /\ [](MonthsApart /\ NoDatabaseCountsTwice)
                  /\ NothingForgotten
BY HistoryKeepsRuns, StatesMatch, OrderedCounted, MonthsStayApart, CountedOnce,
   NothingIsForgotten, PTL

-----------------------------------------------------------------------------
(* Months in order                                                         *)

Months == [year : Nat, month : 1 .. 12, hits : Nat]
Has(s, e) == \E i \in 1 .. Len(s) : s[i] = e

(* A history is in the order of time, and not too long.                    *)
Rising(s) == \A i, j \in 1 .. Len(s) : i < j => Number(s[i]) < Number(s[j])
Within(s) == \A i, j \in 1 .. Len(s) : Number(s[j]) - Number(s[i]) < max_length
IsHistory(s) == s \in Seq(Months) /\ Rising(s) /\ Within(s)

(* Months are compared as their numbers are.                               *)
LEMMA Numbers ==
  /\ \A m \in Months : Number(m) \in Nat
  /\ \A m, n \in Months : /\ Same(m, n) <=> Number(m) = Number(n)
                          /\ After(m, n) <=> Number(m) > Number(n)
                          /\ Same(m, n) <=> Key(m) = Key(n)
<1>1. \A m \in Months : m.year \in Nat /\ m.month \in 1 .. 12
  BY DEF Months
<1>2. ASSUME NEW m \in Months, NEW n \in Months
      PROVE  /\ Number(m) \in Nat
             /\ Same(m, n) <=> Number(m) = Number(n)
             /\ After(m, n) <=> Number(m) > Number(n)
             /\ Same(m, n) <=> Key(m) = Key(n)
  <2>1. PICK y \in Nat, i \in 1 .. 12 : y = m.year /\ i = m.month
    BY <1>1
  <2>2. PICK z \in Nat, k \in 1 .. 12 : z = n.year /\ k = n.month
    BY <1>1
  <2>3. /\ (y = z /\ i = k) <=> y * 12 + i = z * 12 + k
        /\ (y > z \/ (y = z /\ i > k)) <=> y * 12 + i > z * 12 + k
        /\ y * 12 + i \in Nat
    OBVIOUS
  <2>4. Number(m) = y * 12 + i /\ Number(n) = z * 12 + k
    BY <2>1, <2>2 DEF Number
  <2>5. /\ Same(m, n) <=> (y = z /\ i = k)
        /\ After(m, n) <=> (y > z \/ (y = z /\ i > k))
        /\ Key(m) = Key(n) <=> (y = z /\ i = k)
    BY <2>1, <2>2 DEF Same, After, Key
  <2>. QED
    BY <2>3, <2>4, <2>5
<1>. QED
  BY <1>2

(* A history may span a year at least.                                     *)
LEMMA MaxLengthIs == max_length \in Nat /\ max_length >= 12
BY HistoryAssumption DEF HistoryAssumption, max_length

(* The length of the months from one on                                    *)
LEMMA LengthFrom ==
  ASSUME NEW s \in Seq(Months), Rising(s), NEW i \in 1 .. Len(s) + 1
  PROVE  length(SubSeq(s, i, Len(s))) =
           IF i > Len(s) THEN 0 ELSE Number(s[Len(s)]) - Number(s[i]) + 1
<1>. DEFINE t == SubSeq(s, i, Len(s))
<1>1. Len(s) \in Nat
  OBVIOUS
<1>2. CASE i > Len(s)
  <2>1. t = <<>>
    BY <1>1, <1>2
  <2>. QED
    BY <1>2, <2>1 DEF length
<1>3. CASE i <= Len(s)
  <2>1. /\ t \in Seq(Months) /\ Len(t) = Len(s) - i + 1
        /\ t[1] = s[i] /\ t[Len(t)] = s[Len(s)] /\ t # <<>>
    <3>1. PICK n \in Nat : n = Len(s) /\ i \in 1 .. n
      BY <1>1, <1>3
    <3>2. SubSeq(s, i, n) \in Seq(Months) /\ Len(SubSeq(s, i, n)) = n - i + 1
      BY <3>1, SubSeqProperties
    <3>3. \A k \in 1 .. n - i + 1 : SubSeq(s, i, n)[k] = s[i + k - 1]
      BY <3>1, SubSeqProperties
    <3>4. 1 \in 1 .. n - i + 1 /\ n - i + 1 \in 1 .. n - i + 1
      BY <3>1
    <3>5. SubSeq(s, i, n)[1] = s[i] /\ SubSeq(s, i, n)[n - i + 1] = s[n]
      BY <3>1, <3>3, <3>4
    <3>6. SubSeq(s, i, n) # <<>>
      BY <3>1, <3>2
    <3>. QED
      BY <3>1, <3>2, <3>5, <3>6
  <2>2. Head(t) = s[i] /\ Last(t) = s[Len(s)]
    BY <2>1 DEF Last
  <2>. HIDE DEF t
  <2>3. PICK a \in Months : a = s[i]
    BY <1>3
  <2>4. PICK b \in Months : b = s[Len(s)]
    BY <1>3
  <2>5. length(t) = IF a.year = b.year THEN b.month - a.month + 1
                    ELSE (b.year - a.year - 1) * 12 + b.month + (12 - a.month) + 1
    BY <2>1, <2>2, <2>3, <2>4 DEF length
  <2>6. a.year \in Nat /\ b.year \in Nat /\ a.month \in 1 .. 12 /\ b.month \in 1 .. 12
    BY DEF Months
  <2>7. length(t) = Number(b) - Number(a) + 1
    <3>1. PICK y \in Nat, k \in 1 .. 12 : y = a.year /\ k = a.month
      BY <2>6
    <3>2. PICK z \in Nat, l \in 1 .. 12 : z = b.year /\ l = b.month
      BY <2>6
    <3>3. (IF y = z THEN l - k + 1 ELSE (z - y - 1) * 12 + l + (12 - k) + 1)
            = z * 12 + l - (y * 12 + k) + 1
      OBVIOUS
    <3>4. Number(a) = y * 12 + k /\ Number(b) = z * 12 + l
      BY <3>1, <3>2 DEF Number
    <3>5. length(t) = IF y = z THEN l - k + 1 ELSE (z - y - 1) * 12 + l + (12 - k) + 1
      BY <2>5, <3>1, <3>2
    <3>6. length(t) = z * 12 + l - (y * 12 + k) + 1
      BY ONLY <3>3, <3>5
    <3>. QED
      BY <3>4, <3>6
  <2>. QED
    BY <1>3, <2>3, <2>4, <2>7 DEF t
<1>. QED
  BY <1>1, <1>2, <1>3

(* Trimming drops the months that are too long before the last one.        *)
LEMMA Trimming ==
  ASSUME NEW s \in Seq(Months), Rising(s)
  PROVE  /\ IsHistory(Trimmed(s))
         /\ \A e : Has(Trimmed(s), e)
                     <=> Has(s, e) /\ Number(s[Len(s)]) - Number(e) < max_length
<1>. DEFINE starts == {i \in 1 .. Len(s) + 1 : length(SubSeq(s, i, Len(s))) <= max_length}
<1>1. PICK n \in Nat : n = Len(s)
  OBVIOUS
<1>2. starts \in SUBSET Nat /\ n + 1 \in starts
  <2>1. length(SubSeq(s, n + 1, Len(s))) = 0
    BY <1>1, LengthFrom
  <2>. QED
    BY <1>1, <2>1, MaxLengthIs
<1>3. PICK p : p = Min(starts)
  OBVIOUS
<1>4. p \in starts /\ \A i \in starts : p <= i
  BY <1>2, <1>3, MinExists
<1>5. \A i \in 1 .. n : s[i] \in Months /\ Number(s[i]) \in Nat
  BY <1>1, Numbers
<1>6. \A i \in 1 .. n : i \in starts <=> Number(s[n]) - Number(s[i]) < max_length
  <2>. SUFFICES ASSUME NEW i \in 1 .. n
       PROVE  i \in starts <=> Number(s[n]) - Number(s[i]) < max_length
    OBVIOUS
  <2>1. length(SubSeq(s, i, Len(s))) = Number(s[n]) - Number(s[i]) + 1
    BY <1>1, LengthFrom
  <2>2. n \in 1 .. n
    OBVIOUS
  <2>. QED
    BY <1>1, <1>5, <2>1, <2>2, MaxLengthIs
<1>7. p \in 1 .. n + 1
  BY <1>1, <1>4
<1>8. PICK t : t = Trimmed(s)
  OBVIOUS
<1>9. t = SubSeq(s, p, n)
  BY <1>1, <1>3, <1>8 DEF Trimmed
<1>. HIDE DEF starts
<1>10. /\ t \in Seq(Months) /\ Len(t) = n - p + 1
       /\ \A i \in 1 .. n - p + 1 : t[i] = s[p + i - 1]
  BY <1>1, <1>7, <1>9
<1>11. \A i \in 1 .. n : i >= p <=> Number(s[n]) - Number(s[i]) < max_length
  <2>. SUFFICES ASSUME NEW i \in 1 .. n
       PROVE  i >= p <=> Number(s[n]) - Number(s[i]) < max_length
    OBVIOUS
  <2>1. CASE i < p
    <3>1. i \notin starts
      BY <1>4, <1>7, <2>1
    <3>. QED
      BY <1>6, <1>7, <2>1, <3>1
  <2>2. CASE i >= p
    <3>1. p \in 1 .. n
      BY <1>7, <2>2
    <3>2. Number(s[n]) - Number(s[p]) < max_length
      BY <1>4, <1>6, <3>1
    <3>3. Number(s[p]) <= Number(s[i])
      <4>1. CASE p = i
        BY <1>5, <4>1
      <4>2. CASE p < i
        BY <1>1, <1>5, <3>1, <4>2 DEF Rising
      <4>. QED
        BY <2>2, <3>1, <4>1, <4>2
    <3>4. /\ Number(s[n]) \in Nat /\ Number(s[p]) \in Nat /\ Number(s[i]) \in Nat
          /\ max_length \in Nat
      BY <1>5, <3>1, MaxLengthIs
    <3>. QED
      BY <2>2, <3>2, <3>3, <3>4
  <2>. QED
    BY <1>7, <2>1, <2>2
<1>12. Rising(t)
  <2>. SUFFICES ASSUME NEW i \in 1 .. Len(t), NEW j \in 1 .. Len(t), i < j
       PROVE  Number(t[i]) < Number(t[j])
    BY DEF Rising
  <2>1. p + i - 1 \in 1 .. n /\ p + j - 1 \in 1 .. n /\ p + i - 1 < p + j - 1
    BY <1>7, <1>10
  <2>. QED
    BY <1>1, <1>10, <2>1 DEF Rising
<1>13. Within(t)
  <2>. SUFFICES ASSUME NEW i \in 1 .. Len(t), NEW j \in 1 .. Len(t)
       PROVE  Number(t[j]) - Number(t[i]) < max_length
    BY DEF Within
  <2>1. p + i - 1 \in 1 .. n /\ p + j - 1 \in 1 .. n /\ p + i - 1 >= p /\ n \in 1 .. n
    BY <1>7, <1>10
  <2>2. Number(s[n]) - Number(s[p + i - 1]) < max_length
    BY <1>11, <2>1
  <2>3. Number(s[p + j - 1]) <= Number(s[n])
    <3>1. CASE p + j - 1 = n
      BY <1>5, <2>1, <3>1
    <3>2. CASE p + j - 1 < n
      BY <1>1, <2>1, <3>2, <1>5 DEF Rising
    <3>. QED
      BY <2>1, <3>1, <3>2
  <2>4. t[i] = s[p + i - 1] /\ t[j] = s[p + j - 1]
    BY <1>10
  <2>5. /\ Number(s[n]) \in Nat /\ Number(t[i]) \in Nat /\ Number(t[j]) \in Nat
        /\ max_length \in Nat
    BY <1>5, <2>1, <2>4, MaxLengthIs
  <2>. QED
    BY <2>2, <2>3, <2>4, <2>5
<1>14. ASSUME NEW e
       PROVE  Has(t, e) <=> Has(s, e) /\ Number(s[n]) - Number(e) < max_length
  <2>1. ASSUME NEW i \in 1 .. Len(t), t[i] = e
        PROVE  Has(s, e) /\ Number(s[n]) - Number(e) < max_length
    <3>1. p + i - 1 \in 1 .. n /\ p + i - 1 >= p
      BY <1>7, <1>10
    <3>2. s[p + i - 1] = e
      BY <1>10, <2>1
    <3>. QED
      BY <1>1, <1>11, <3>1, <3>2 DEF Has
  <2>2. ASSUME NEW i \in 1 .. n, s[i] = e, Number(s[n]) - Number(e) < max_length
        PROVE  Has(t, e)
    <3>1. i >= p
      BY <1>11, <2>2
    <3>2. i - p + 1 \in 1 .. Len(t) /\ p + (i - p + 1) - 1 = i
      BY <1>7, <1>10, <3>1
    <3>3. t[i - p + 1] = s[i]
      BY <1>10, <3>2
    <3>. QED
      BY <2>2, <3>2, <3>3 DEF Has
  <2>. QED
    BY <1>1, <2>1, <2>2 DEF Has
<1>. QED
  BY <1>1, <1>8, <1>10, <1>12, <1>13, <1>14 DEF IsHistory

-----------------------------------------------------------------------------
(* A month that is put into its place                                      *)

(* The order stays, and there is one month more.                           *)
LEMMA Placing ==
  ASSUME NEW s \in Seq(Months), Rising(s), NEW m \in Months,
         \A i \in 1 .. Len(s) : Number(s[i]) # Number(m)
  PROVE  LET t == WithMonth(s, m) IN
         /\ t \in Seq(Months) /\ Rising(t) /\ Len(t) = Len(s) + 1
         /\ \A e : Has(t, e) <=> Has(s, e) \/ e = m
         /\ (\A i \in 1 .. Len(s) : Number(s[i]) < Number(m))
              => /\ t[Len(s) + 1] = m
                 /\ \A i \in 1 .. Len(s) : t[i] = s[i]
<1>. DEFINE places == {i \in 1 .. Len(s) + 1 : \A k \in i .. Len(s) : ~After(m, s[k])}
<1>1. PICK n \in Nat : n = Len(s)
  OBVIOUS
<1>2. places \in SUBSET Nat /\ n + 1 \in places
  BY <1>1
<1>3. PICK p : p = Min(places)
  OBVIOUS
<1>4. p \in places /\ \A i \in places : p <= i
  BY <1>2, <1>3, MinExists
<1>5. p \in 1 .. n + 1
  BY <1>1, <1>4
<1>6. PICK t : t = WithMonth(s, m)
  OBVIOUS
<1>7. t = InsertAt(s, p, m)
  BY <1>1, <1>3, <1>6 DEF WithMonth
<1>8. /\ t \in Seq(Months) /\ Len(t) = n + 1
      /\ \A i \in 1 .. n + 1 : t[i] = IF i < p THEN s[i] ELSE IF i = p THEN m ELSE s[i - 1]
  <2>1. p \in 1 .. Len(s) + 1
    BY <1>1, <1>5
  <2>2. InsertAt(s, p, m) \in Seq(Months) /\ Len(InsertAt(s, p, m)) = Len(s) + 1
    BY <2>1, InsertAtProperties
  <2>. HIDE DEF places
  <2>3. \A i \in 1 .. Len(s) + 1 :
          InsertAt(s, p, m)[i] = IF i < p THEN s[i] ELSE IF i = p THEN m ELSE s[i - 1]
    <3>1. PICK X : X = Months
      OBVIOUS
    <3>2. s \in Seq(X) /\ m \in X
      BY <3>1
    <3>. QED
      BY ONLY <2>1, <3>2, InsertAtProperties
  <2>. QED
    BY <1>1, <1>7, <2>2, <2>3
<1>9. \A i \in 1 .. n : /\ s[i] \in Months /\ Number(s[i]) \in Nat
                        /\ After(m, s[i]) <=> Number(m) > Number(s[i])
  BY <1>1, Numbers
<1>10. Number(m) \in Nat
  BY Numbers
<1>11. \A i \in p .. n : Number(s[i]) > Number(m)
  BY <1>1, <1>4, <1>5, <1>9, <1>10
<1>12. ASSUME NEW i \in 1 .. n, i < p  PROVE Number(s[i]) < Number(m)
  <2>1. p - 1 \in 1 .. n
    BY <1>5, <1>12
  <2>2. p - 1 \notin places
    BY <1>4, <1>5
  <2>3. PICK k \in p - 1 .. n : After(m, s[k])
    BY <1>1, <2>1, <2>2
  <2>4. k = p - 1
    <3>1. CASE k \in p .. n
      BY <1>5, <1>9, <1>10, <1>11, <2>3, <3>1
    <3>. QED
      BY <1>5, <3>1
  <2>5. Number(s[p - 1]) < Number(m)
    BY <1>9, <2>1, <2>3, <2>4
  <2>6. i = p - 1 \/ i < p - 1
    BY <1>5, <1>12
  <2>. QED
    BY <1>1, <1>9, <1>10, <2>1, <2>5, <2>6 DEF Rising
<1>. HIDE DEF places
<1>13. Rising(t)
  <2>. SUFFICES ASSUME NEW i \in 1 .. n + 1, NEW j \in 1 .. n + 1, i < j
       PROVE  Number(t[i]) < Number(t[j])
    BY <1>8 DEF Rising
  <2>1. CASE j < p
    BY <1>1, <1>5, <1>8, <2>1 DEF Rising
  <2>2. CASE j = p
    BY <1>5, <1>8, <1>12, <2>2
  <2>3. CASE i < p /\ p < j
    <3>1. t[i] = s[i] /\ t[j] = s[j - 1] /\ i \in 1 .. n /\ j - 1 \in p .. n /\ j - 1 \in 1 .. n
      BY <1>5, <1>8, <2>3
    <3>. QED
      BY <1>9, <1>10, <1>11, <1>12, <2>3, <3>1
  <2>4. CASE i = p
    <3>1. t[i] = m /\ t[j] = s[j - 1] /\ j - 1 \in p .. n
      BY <1>5, <1>8, <2>4
    <3>. QED
      BY <1>11, <3>1, <1>10
  <2>5. CASE p < i
    <3>1. t[i] = s[i - 1] /\ t[j] = s[j - 1] /\ i - 1 \in 1 .. n /\ j - 1 \in 1 .. n
      BY <1>5, <1>8, <2>5
    <3>. QED
      BY <1>1, <3>1 DEF Rising
  <2>. QED
    BY <1>5, <2>1, <2>2, <2>3, <2>4, <2>5
<1>14. ASSUME NEW e PROVE Has(t, e) <=> Has(s, e) \/ e = m
  <2>1. ASSUME NEW i \in 1 .. n + 1, t[i] = e PROVE Has(s, e) \/ e = m
    <3>1. CASE i < p
      BY <1>1, <1>5, <1>8, <2>1, <3>1 DEF Has
    <3>2. CASE i = p
      BY <1>8, <2>1, <3>2
    <3>3. CASE p < i
      <4>1. i - 1 \in 1 .. n /\ t[i] = s[i - 1]
        BY <1>5, <1>8, <3>3
      <4>. QED
        BY <1>1, <2>1, <4>1 DEF Has
    <3>. QED
      BY <1>5, <3>1, <3>2, <3>3
  <2>2. ASSUME NEW i \in 1 .. n, s[i] = e PROVE Has(t, e)
    <3>1. CASE i < p
      BY <1>5, <1>8, <2>2, <3>1 DEF Has
    <3>2. CASE p <= i
      <4>1. i + 1 \in 1 .. n + 1 /\ t[i + 1] = s[(i + 1) - 1] /\ (i + 1) - 1 = i
        BY <1>5, <1>8, <3>2
      <4>. QED
        BY <1>8, <2>2, <4>1 DEF Has
    <3>. QED
      BY <1>5, <3>1, <3>2
  <2>3. t[p] = m
    BY <1>5, <1>8
  <2>. QED
    BY <1>1, <1>5, <1>8, <2>1, <2>2, <2>3 DEF Has
<1>15. ASSUME \A i \in 1 .. n : Number(s[i]) < Number(m)
       PROVE  t[n + 1] = m /\ \A i \in 1 .. n : t[i] = s[i]
  <2>1. p = n + 1
    <3>1. CASE p <= n
      BY <1>5, <1>9, <1>10, <1>11, <1>15, <3>1
    <3>. QED
      BY <1>5, <3>1
  <2>. QED
    BY <1>8, <2>1
<1>. QED
  BY <1>1, <1>6, <1>8, <1>13, <1>14, <1>15

(* A month of an update is in the history, unless it is too long before    *)
(* others, and so are those that were there.                               *)
LEMMA Updating ==
  ASSUME NEW s, IsHistory(s), NEW m \in Months
  PROVE  LET t == update(s, m)
             Far(e) == \E x : /\ Has(s, x) \/ x = m
                              /\ Has(t, x) /\ Number(x) - Number(e) >= max_length
         IN  /\ IsHistory(t)
             /\ \A e : Has(t, e) => e = m \/ (Has(s, e) /\ Number(e) # Number(m))
             /\ \A e : Has(s, e) /\ Number(e) # Number(m) => Has(t, e) \/ Far(e)
             /\ Has(t, m) \/ Far(m)
             /\ \A x : Has(s, x) /\ Number(x) - Number(m) >= max_length => ~Has(t, m)
<1>1. PICK n \in Nat : n = Len(s)
  BY DEF IsHistory
<1>2. s \in Seq(Months) /\ Rising(s) /\ DOMAIN s = 1 .. n
  BY <1>1 DEF IsHistory
<1>3. \A i \in 1 .. n : s[i] \in Months /\ Number(s[i]) \in Nat
                        /\ (Same(s[i], m) <=> Number(s[i]) = Number(m))
  BY <1>1, <1>2, Numbers
<1>4. Number(m) \in Nat /\ max_length \in Nat /\ max_length >= 12
  BY Numbers, MaxLengthIs
<1>5. PICK t : t = update(s, m)
  OBVIOUS
<1>. DEFINE Far(e) == \E x : /\ Has(s, x) \/ x = m
                             /\ Has(t, x) /\ Number(x) - Number(e) >= max_length
<1>6. CASE \E i \in 1 .. n : Number(s[i]) = Number(m)
  <2>1. t = [i \in 1 .. n |-> IF Same(s[i], m) THEN m ELSE s[i]]
    BY <1>2, <1>3, <1>5, <1>6 DEF update, find_month
  <2>2. /\ t \in Seq(Months) /\ Len(t) = n
        /\ \A i \in 1 .. n : t[i] = IF Number(s[i]) = Number(m) THEN m ELSE s[i]
    BY <1>3, <2>1
  <2>3. \A i \in 1 .. n : Number(t[i]) = Number(s[i])
    BY <2>2
  <2>4. IsHistory(t)
    <3>1. Rising(t)
      BY <1>1, <1>2, <2>2, <2>3 DEF Rising
    <3>2. Within(t)
      BY <1>1, <2>2, <2>3 DEF Within, IsHistory
    <3>. QED
      BY <2>2, <3>1, <3>2 DEF IsHistory
  <2>5. \A e : Has(t, e) => e = m \/ (Has(s, e) /\ Number(e) # Number(m))
    BY <1>1, <2>2 DEF Has
  <2>6. \A e : Has(s, e) /\ Number(e) # Number(m) => Has(t, e)
    BY <1>1, <2>2 DEF Has
  <2>7. Has(t, m)
    BY <1>6, <2>2 DEF Has
  <2>8. ASSUME NEW x, Has(s, x), Number(x) - Number(m) >= max_length PROVE FALSE
    <3>1. PICK i \in 1 .. n : s[i] = x
      BY <1>1, <2>8 DEF Has
    <3>2. PICK k \in 1 .. n : Number(s[k]) = Number(m)
      BY <1>6
    <3>3. Number(s[i]) - Number(s[k]) < max_length
      BY <1>1 DEF IsHistory, Within
    <3>. QED
      BY <1>3, <1>4, <2>8, <3>1, <3>2, <3>3
  <2>. QED
    BY <1>5, <2>4, <2>5, <2>6, <2>7, <2>8
<1>7. CASE \A i \in 1 .. n : Number(s[i]) # Number(m)
  <2>1. PICK u : u = WithMonth(s, m)
    OBVIOUS
  <2>2. /\ u \in Seq(Months) /\ Rising(u) /\ Len(u) = n + 1
        /\ \A e : Has(u, e) <=> Has(s, e) \/ e = m
    BY <1>1, <1>2, <1>7, <2>1, Placing
  <2>3. t = Trimmed(u)
    BY <1>2, <1>3, <1>5, <1>7, <2>1 DEF update, find_month
  <2>4. PICK l : l = u[n + 1]
    OBVIOUS
  <2>5. /\ IsHistory(t)
        /\ \A e : Has(t, e) <=> Has(u, e) /\ Number(l) - Number(e) < max_length
    BY <2>2, <2>3, <2>4, Trimming
  <2>6. \A e : Has(u, e) => e \in Months /\ Number(e) \in Nat
    BY <2>2, Numbers DEF Has
  <2>7. \A e : Has(u, e) => Number(e) <= Number(l)
    <3>. SUFFICES ASSUME NEW i \in 1 .. n + 1 PROVE Number(u[i]) <= Number(u[n + 1])
      BY <2>2, <2>4 DEF Has
    <3>1. Number(u[i]) \in Nat /\ Number(u[n + 1]) \in Nat
      BY <2>2, Numbers
    <3>2. i = n + 1 \/ i < n + 1
      OBVIOUS
    <3>. QED
      BY <2>2, <3>1, <3>2 DEF Rising
  <2>8. Has(u, l) /\ Number(l) \in Nat
    BY <2>2, <2>4, <2>6 DEF Has
  <2>9. Has(t, l)
    BY <1>4, <2>5, <2>8
  <2>10. ASSUME NEW e, Has(u, e), ~Has(t, e) PROVE Far(e)
    <3>1. Number(l) - Number(e) >= max_length
      BY <1>4, <2>5, <2>6, <2>8, <2>10
    <3>. QED
      BY <2>2, <2>8, <2>9, <3>1
  <2>11. ASSUME NEW x, Has(s, x), Number(x) - Number(m) >= max_length PROVE ~Has(t, m)
    <3>1. Number(x) \in Nat /\ Number(x) <= Number(l)
      BY <2>2, <2>6, <2>7, <2>11
    <3>2. ~(Number(l) - Number(m) < max_length)
      BY <1>4, <2>8, <2>11, <3>1
    <3>. QED
      BY <2>5, <3>2
  <2>12. \A e : Has(s, e) => Number(e) # Number(m)
    BY <1>1, <1>7 DEF Has
  <2>. QED
    BY <1>5, <2>2, <2>5, <2>10, <2>11, <2>12
<1>. QED
  BY <1>6, <1>7

(* The months that have hits, in the same order                            *)
LEMMA WithHitsIs ==
  ASSUME NEW s, IsHistory(s)
  PROVE  /\ IsHistory(WithHits(s))
         /\ \A e : Has(WithHits(s), e) <=> Has(s, e) /\ e.hits # 0
<1>1. PICK n \in Nat : n = Len(s)
  BY DEF IsHistory
<1>2. s \in Seq(Months) /\ Rising(s) /\ DOMAIN s = 1 .. n
  BY <1>1 DEF IsHistory
<1>3. PICK T : T = {m \in ToSet(s) : m.hits # 0}
  OBVIOUS
<1>4. \A i \in 1 .. n : s[i] \in T <=> s[i].hits # 0
  BY <1>2, <1>3 DEF ToSet
<1>5. PICK t : t = WithHits(s)
  OBVIOUS
<1>6. t \in Seq(Months) /\ \E a : PicksFrom(t, s, T, a)
  <2>1. t = Selected(s, T)
    BY <1>3, <1>5 DEF WithHits
  <2>2. t \in Seq(Months \cap T) /\ \E a : PicksFrom(t, s, T, a)
    BY <1>2, <2>1, SelectedIs
  <2>. QED
    BY <2>2
<1>7. PICK a : PicksFrom(t, s, T, a)
  BY <1>6
<1>8. PICK c \in Nat : c = Len(t)
  BY <1>6
<1>9. /\ \A k \in 1 .. c : a[k] \in 1 .. n /\ t[k] = s[a[k]]
      /\ \A i, j \in 1 .. c : i < j => a[i] < a[j]
      /\ \A i \in 1 .. n : s[i] \in T <=> \E k \in 1 .. c : a[k] = i
  BY <1>1, <1>7, <1>8 DEF PicksFrom
<1>10. \A k \in 1 .. c : s[a[k]].hits # 0 /\ s[a[k]] \in Months
  BY <1>1, <1>2, <1>4, <1>9
<1>11. Rising(t)
  BY <1>1, <1>2, <1>8, <1>9, <1>10 DEF Rising
<1>12. Within(t)
  BY <1>1, <1>8, <1>9, <1>10 DEF Within, IsHistory
<1>13. ASSUME NEW e PROVE Has(t, e) <=> Has(s, e) /\ e.hits # 0
  <2>1. Has(t, e) => Has(s, e) /\ e.hits # 0
    BY <1>1, <1>8, <1>9, <1>10 DEF Has
  <2>2. ASSUME NEW i \in 1 .. n, s[i] = e, e.hits # 0 PROVE Has(t, e)
    <3>1. PICK k \in 1 .. c : a[k] = i
      BY <1>4, <1>9, <2>2
    <3>. QED
      BY <1>8, <1>9, <2>2, <3>1 DEF Has
  <2>. QED
    BY <1>1, <2>1, <2>2 DEF Has
<1>. QED
  BY <1>5, <1>6, <1>11, <1>12, <1>13 DEF IsHistory

(* A history is read as it was written.                                    *)
LEMMA ReadingBack ==
  ASSUME IsHistory(hist_file)
  PROVE  IsHistory(get_history) /\ \A e : Has(get_history, e) <=> Has(hist_file, e)
<1>. DEFINE Line1(g) == [n \in 0 .. Len(hist_file) |->
                           IF n = 0 THEN <<>> ELSE WithMonth(g[n - 1], hist_file[n])]
            part == [n \in 0 .. Len(hist_file) |-> SubSeq(hist_file, 1, n)]
<1>1. PICK l \in Nat : l = Len(hist_file)
  BY DEF IsHistory
<1>2. hist_file \in Seq(Months) /\ Rising(hist_file)
  BY DEF IsHistory
<1>3. ASSUME NEW n \in 1 .. l
      PROVE  WithMonth(SubSeq(hist_file, 1, n - 1), hist_file[n]) = SubSeq(hist_file, 1, n)
  <2>. DEFINE s == SubSeq(hist_file, 1, n - 1)
              m == hist_file[n]
              t == WithMonth(s, m)
              r == SubSeq(hist_file, 1, n)
  <2>1. /\ s \in Seq(Months) /\ Len(s) = n - 1
        /\ \A i \in 1 .. n - 1 : s[i] = hist_file[i]
        /\ r \in Seq(Months) /\ Len(r) = n
        /\ \A i \in 1 .. n : r[i] = hist_file[i]
        /\ m \in Months
    BY <1>1, <1>2, <1>3
  <2>. HIDE DEF s, r, m, t
  <2>2. Rising(s)
    BY <1>1, <1>2, <2>1 DEF Rising
  <2>3. \A i \in 1 .. Len(s) : Number(s[i]) < Number(m)
    BY <1>1, <1>2, <2>1 DEF Rising, m
  <2>4. \A i \in 1 .. Len(s) : Number(s[i]) # Number(m)
    BY <2>1, <2>3, Numbers
  <2>5. t \in Seq(Months) /\ Len(t) = n /\ t[n] = m /\ \A i \in 1 .. n - 1 : t[i] = s[i]
    BY <2>1, <2>2, <2>3, <2>4, Placing DEF t
  <2>6. \A i \in 1 .. n : t[i] = r[i]
    BY <2>1, <2>5 DEF m
  <2>7. t = r
    BY <2>1, <2>5, <2>6
  <2>. QED
    BY <2>7 DEF t, s, m, r
<1>4. part = Line1(part)
  <2>1. ASSUME NEW n \in 0 .. l PROVE part[n] = Line1(part)[n]
    <3>1. CASE n = 0
      BY <1>1, <1>2, <3>1
    <3>2. CASE n # 0
      <4>1. n \in 1 .. l /\ n - 1 \in 0 .. l
        BY <2>1, <3>2
      <4>. QED
        BY <1>1, <1>3, <3>2, <4>1
    <3>. QED
      BY <3>1, <3>2
  <2>. QED
    BY <1>1, <2>1
<1>5. PICK read : /\ read = (CHOOSE g : g = Line1(g))
                  /\ read = Line1(read)
  BY <1>4
<1>6. \A n \in Nat : n <= l => read[n] = SubSeq(hist_file, 1, n)
  <2>. DEFINE N == {n \in Nat : n <= l => read[n] = SubSeq(hist_file, 1, n)}
  <2>1. 0 \in N
    <3>1. 0 \in 0 .. Len(hist_file)
      BY <1>1
    <3>2. read[0] = <<>>
      BY <1>5, <3>1
    <3>3. SubSeq(hist_file, 1, 0) = <<>>
      BY <1>2
    <3>. QED
      BY <3>2, <3>3
  <2>2. ASSUME NEW n \in Nat, n \in N PROVE n + 1 \in N
    <3>1. SUFFICES ASSUME n + 1 <= l PROVE read[n + 1] = SubSeq(hist_file, 1, n + 1)
      OBVIOUS
    <3>2. n + 1 \in 0 .. Len(hist_file) /\ n + 1 # 0 /\ (n + 1) - 1 = n /\ n + 1 \in 1 .. l
      BY <1>1, <3>1
    <3>3. read[n + 1] = WithMonth(read[n], hist_file[n + 1])
      BY <1>5, <3>2
    <3>4. read[n] = SubSeq(hist_file, 1, n)
      BY <2>2, <3>1
    <3>. QED
      BY <1>3, <3>2, <3>3, <3>4
  <2>. HIDE DEF N
  <2>3. Nat \subseteq N
    BY <2>1, <2>2, AllNumbers
  <2>. QED
    BY <2>3 DEF N
<1>7. read[l] = hist_file
  BY <1>1, <1>2, <1>6
<1>8. get_history = Trimmed(hist_file)
  BY <1>1, <1>5, <1>7 DEF get_history
<1>9. ASSUME NEW e, Has(hist_file, e)
      PROVE  Number(hist_file[Len(hist_file)]) - Number(e) < max_length
  BY <1>1, <1>9 DEF Has, IsHistory, Within
<1>. QED
  BY <1>2, <1>8, <1>9, Trimming

-----------------------------------------------------------------------------
(* The history between and during runs                                     *)

(* The time that a run has come to                                         *)
Now == IF pc = "count" THEN rec_tstamp ELSE state.cur_tstamp
MonthNo(t) == FirstMonth + Month(t) + 1

(* While records may be duplicates none was counted, and a run does not go *)
(* back before the end of the last one.                                    *)
Going ==
  /\ check_dup => ~total_good /\ pc # "count"
  /\ pc # "off" => since <= Now

(* The history of a run and the file, which has only months with hits      *)
Histories ==
  /\ IsHistory(history) /\ IsHistory(hist_file)
  /\ \A e : Has(hist_file, e) => e.hits # 0
  /\ pc = "off" => history = <<>>

(* An incremental run has read the months of the file, except those that   *)
(* the month of the database has made too old.                             *)
Remembered ==
  pc # "off" /\ mode.incremental /\ ~ignore_hist =>
    \A e : Has(hist_file, e) =>
      Has(history, e) \/ (since # NoTime /\ MonthNo(since) - Number(e) >= max_length)

(* A month that is not in the file is over or the current one, and has no  *)
(* hits unless it came back from the database.                             *)
Recent ==
  \A e : Has(history, e) /\ ~Has(hist_file, e) =>
    /\ Now # NoTime /\ Number(e) <= MonthNo(Now)
    /\ e.hits # 0 => (CanLose \/ ignore_hist) /\ since # NoTime

(* The month of the database is in the file, unless it is too old.         *)
DbListed ==
  db.cur_tstamp # NoTime /\ ~CanLose =>
    \/ HistMonth(db).hits = 0
    \/ Has(hist_file, HistMonth(db))
    \/ \E x : Has(hist_file, x) /\ Number(x) - Number(HistMonth(db)) >= max_length

(* Every month has a report of its hits or is known to have none.          *)
Reported(e) == Key(e) \notin unreported => Key(e) \in DOMAIN usage /\ usage[Key(e)] = e.hits
AllReported ==
  /\ \A e : Has(history, e) \/ Has(hist_file, e) => Reported(e)
  /\ db.cur_tstamp # NoTime => Reported(HistMonth(db))

(* Links of the index page go back in time, and bars are at their labels.  *)
IndexInOrder(page) ==
  /\ \A i, j \in DOMAIN page.links : i < j => Number(page.links[i]) > Number(page.links[j])
  /\ \A b, c \in page.bars :
       /\ b[1] \in DOMAIN page.labels /\ page.labels[b[1]] = b[2].month
       /\ b[1] - c[1] = Number(b[2]) - Number(c[2])

(* The invariant of the history                                            *)
HistInv ==
  /\ Going /\ Histories /\ Remembered /\ Recent /\ DbListed /\ AllReported
  /\ IndexInOrder(index)

-----------------------------------------------------------------------------
(* Months of time stamps                                                   *)

(* Log files have finitely many records.                                   *)
LEMMA FiniteId ==
  ASSUME file \in [File -> Contents]
  PROVE  IsFiniteSet(Id)
<1>. DEFINE recs(f) == {f} \X DOMAIN file[f]
            parts == {recs(f) : f \in File}
<1>1. ASSUME NEW f \in File PROVE IsFiniteSet(recs(f))
  <2>1. file[f] \in Seq(Lines)
    BY LogAssumption DEF LogAssumption
  <2>2. DOMAIN file[f] = 1 .. Len(file[f]) /\ Len(file[f]) \in Nat
    BY <2>1
  <2>3. IsFiniteSet(DOMAIN file[f])
    BY <2>2, FS_Interval
  <2>4. IsFiniteSet({f})
    BY FS_Singleton
  <2>. QED
    BY <2>3, <2>4, FS_Product
<1>. HIDE DEF recs
<1>2. IsFiniteSet(parts)
  <2>. DEFINE r == [f \in File |-> recs(f)]
  <2>1. r \in Surjection(File, parts)
    BY DEF Surjection
  <2>2. IsFiniteSet(File)
    BY LogAssumption DEF LogAssumption
  <2>. HIDE DEF r, parts
  <2>. QED
    BY <2>1, <2>2, FS_Surjection
<1>3. IsFiniteSet(UNION parts)
  BY <1>1, <1>2, FS_UNION
<1>4. Id = UNION parts
  BY DEF Id, recs
<1>. QED
  BY <1>3, <1>4

(* A time stamp has a month, and a later one no earlier month.             *)
LEMMA MonthsGrow ==
  /\ \A t \in Nat : Month(t) \in Nat /\ MonthNo(t) \in Nat
  /\ \A t, u \in Nat : t <= u => MonthNo(t) <= MonthNo(u)
<1>1. PICK n \in Nat \ {0} : n = MonthLength
  BY LogAssumption DEF LogAssumption
<1>2. FirstMonth \in Nat
  BY HistoryAssumption DEF HistoryAssumption
<1>3. ASSUME NEW t \in Nat, NEW u \in Nat, t <= u
      PROVE  t \div n \in Nat /\ u \div n \in Nat /\ t \div n <= u \div n
  <2>1. PICK a : a = t \div n
    OBVIOUS
  <2>2. PICK b : b = u \div n
    OBVIOUS
  <2>3. a \in Nat /\ b \in Nat /\ n * a <= t /\ u < n * (b + 1)
    BY <2>1, <2>2, Z3
  <2>4. CASE b < a
    <3>1. n * (b + 1) <= n * a
      <4>1. PICK d \in Nat : a = b + 1 + d
        BY <2>3, <2>4
      <4>2. n * a = n * (b + 1) + n * d /\ n * d \in Nat /\ n * (b + 1) \in Nat
        BY <2>3, <4>1
      <4>. QED
        BY <4>2
    <3>2. n * a \in Nat /\ n * (b + 1) \in Nat
      BY <2>3
    <3>. QED
      BY <1>3, <2>3, <3>1, <3>2
  <2>. QED
    BY <2>1, <2>2, <2>3, <2>4
<1>. QED
  BY <1>1, <1>2, <1>3 DEF Month, MonthNo

(* A state with a time stamp is of the month of that.                      *)
LEMMA HistMonthIs ==
  ASSUME file \in [File -> Contents], NEW s, s.cur_tstamp \in Nat
  PROVE  HistMonth(s) \in Months /\ Number(HistMonth(s)) = MonthNo(s.cur_tstamp)
<1>1. PICK n \in Nat : n = FirstMonth + Month(s.cur_tstamp)
  BY MonthsGrow, HistoryAssumption DEF HistoryAssumption
<1>2. PICK h \in Nat : h = Cardinality({id \in Id : s.counted[id] > 0})
  BY FiniteId, FS_Subset, FS_CardinalityType
<1>3. HistMonth(s) = [year |-> n \div 12, month |-> (n % 12) + 1, hits |-> h]
  BY <1>1, <1>2 DEF HistMonth
<1>4. n \div 12 \in Nat /\ (n % 12) + 1 \in 1 .. 12 /\ (n \div 12) * 12 + (n % 12) = n
  OBVIOUS
<1>5. HistMonth(s) \in Months
  BY <1>3, <1>4 DEF Months
<1>6. Number(HistMonth(s)) = (n \div 12) * 12 + ((n % 12) + 1)
  BY <1>3 DEF Number
<1>7. MonthNo(s.cur_tstamp) = n + 1
  BY <1>1 DEF MonthNo
<1>. QED
  BY <1>4, <1>5, <1>6, <1>7

-----------------------------------------------------------------------------
(* The index page                                                          *)

(* The length of a history reaches from its first month to its last one.   *)
LEMMA LengthIs ==
  ASSUME NEW s, IsHistory(s), s # <<>>
  PROVE  /\ Last(s) \in Months /\ disp_length(s) \in Nat /\ disp_length(s) >= 12
         /\ \A e : Has(s, e) => /\ e \in Months /\ Number(e) <= Number(Last(s))
                                /\ Number(Last(s)) - Number(e) < disp_length(s)
<1>1. PICK n \in Nat : n = Len(s)
  BY DEF IsHistory
<1>2. s \in Seq(Months) /\ Rising(s) /\ n > 0
  BY <1>1 DEF IsHistory
<1>3. \A i \in 1 .. n : s[i] \in Months /\ Number(s[i]) \in Nat
  BY <1>1, <1>2, Numbers
<1>4. Last(s) = s[n]
  BY <1>1 DEF Last
<1>5. \A i \in 1 .. n : Number(s[1]) <= Number(s[i]) /\ Number(s[i]) <= Number(s[n])
  <2>. SUFFICES ASSUME NEW i \in 1 .. n
       PROVE  Number(s[1]) <= Number(s[i]) /\ Number(s[i]) <= Number(s[n])
    OBVIOUS
  <2>1. Number(s[1]) <= Number(s[i])
    <3>1. CASE i = 1
      BY <1>3, <3>1
    <3>2. CASE 1 < i
      BY <1>1, <1>2, <1>3, <3>2 DEF Rising
    <3>. QED
      BY <3>1, <3>2
  <2>2. Number(s[i]) <= Number(s[n])
    <3>1. CASE i = n
      BY <1>3, <3>1
    <3>2. CASE i < n
      BY <1>1, <1>2, <1>3, <3>2 DEF Rising
    <3>. QED
      BY <3>1, <3>2
  <2>. QED
    BY <2>1, <2>2
<1>6. length(s) = Number(s[n]) - Number(s[1]) + 1
  <2>1. SubSeq(s, 1, Len(s)) = s
    BY <1>2
  <2>2. length(SubSeq(s, 1, Len(s))) = IF 1 > Len(s) THEN 0 ELSE Number(s[Len(s)]) - Number(s[1]) + 1
    BY <1>1, <1>2, LengthFrom
  <2>3. length(SubSeq(s, 1, Len(s))) = Number(s[n]) - Number(s[1]) + 1
    BY <1>1, <1>2, <2>2
  <2>. QED
    BY <2>1, <2>3, Zenon
<1>7. PICK d : d = disp_length(s)
  OBVIOUS
<1>8. length(s) \in Nat
  BY <1>2, <1>3, <1>5, <1>6
<1>9. d \in Nat /\ d >= 12 /\ d >= length(s)
  BY <1>7, <1>8 DEF disp_length
<1>10. ASSUME NEW e, Has(s, e)
       PROVE  /\ e \in Months /\ Number(e) <= Number(s[n])
              /\ Number(s[n]) - Number(e) < d
  <2>1. PICK i \in 1 .. n : s[i] = e
    BY <1>1, <1>10 DEF Has
  <2>2. Number(s[1]) <= Number(e) /\ Number(e) <= Number(s[n]) /\ e \in Months
    BY <1>3, <1>5, <2>1
  <2>3. Number(e) \in Nat /\ Number(s[1]) \in Nat /\ Number(s[n]) \in Nat
    BY <1>2, <1>3, <2>1
  <2>. QED
    BY <1>6, <1>8, <1>9, <2>2, <2>3
<1>. QED
  BY <1>2, <1>3, <1>4, <1>7, <1>9, <1>10

(* A label of the chart is the month that many months before the last.     *)
LEMMA LabelIs ==
  ASSUME NEW d \in Nat, d >= 12, NEW y \in Nat, NEW k \in 1 .. 12,
         NEW z \in Nat, NEW l \in 1 .. 12,
         NEW i \in 0 .. d - 1, i = d - (z * 12 + l - (y * 12 + k)) - 1
  PROVE  (((12 - ((d - l) % 12)) % 12) + i) % 12 = k - 1
<1>1. PICK q \in Nat, r \in 0 .. 11 : d - l = 12 * q + r /\ r = (d - l) % 12
  <2>1. d - l \in Nat
    OBVIOUS
  <2>2. (d - l) \div 12 \in Nat /\ (d - l) % 12 \in 0 .. 11
        /\ d - l = 12 * ((d - l) \div 12) + ((d - l) % 12)
    BY <2>1
  <2>. QED
    BY <2>2
<1>2. i = 12 * (q - z + y) + r + k - 1
  BY <1>1
<1>3. CASE r = 0
  <2>1. (12 - r) % 12 = 0
    BY <1>3
  <2>2. 0 + i = 12 * (q - z + y) + (k - 1)
    BY <1>2, <1>3
  <2>3. (0 + i) % 12 = k - 1
    BY <2>2
  <2>. QED
    BY <1>1, <2>1, <2>3
<1>4. CASE r # 0
  <2>1. (12 - r) % 12 = 12 - r
    BY <1>4
  <2>2. (12 - r) + i = 12 * (q - z + y + 1) + (k - 1)
    BY <1>2
  <2>3. ((12 - r) + i) % 12 = k - 1
    BY <2>2
  <2>. QED
    BY <1>1, <2>1, <2>3
<1>. QED
  BY <1>3, <1>4

(* The index of a month in the chart                                       *)
LEMMA IndexIs ==
  ASSUME NEW s, IsHistory(s), NEW e, Has(s, e)
  PROVE  LET i == month_index(s, e) IN
         /\ i = disp_length(s) - (Number(Last(s)) - Number(e)) - 1
         /\ i \in DOMAIN Labels(s) /\ Labels(s)[i] = e.month
<1>1. s # <<>>
  BY DEF IsHistory, Has
<1>2. PICK d : d = disp_length(s)
  OBVIOUS
<1>3. PICK last : last = Last(s)
  OBVIOUS
<1>4. /\ d \in Nat /\ d >= 12 /\ last \in Months /\ e \in Months
      /\ Number(e) <= Number(last) /\ Number(last) - Number(e) < d
  BY <1>1, <1>2, <1>3, LengthIs
<1>5. PICK y \in Nat, k \in 1 .. 12 : y = e.year /\ k = e.month
  BY <1>4 DEF Months
<1>6. PICK z \in Nat, l \in 1 .. 12 : z = last.year /\ l = last.month
  BY <1>4 DEF Months
<1>7. Number(e) = y * 12 + k /\ Number(last) = z * 12 + l
  BY <1>5, <1>6 DEF Number
<1>8. PICK i : i = month_index(s, e)
  OBVIOUS
<1>9. i = IF z = y THEN d - (l - k) - 1 ELSE d - ((z - y - 1) * 12 + l + (12 - k)) - 1
  BY <1>2, <1>3, <1>5, <1>6, <1>8 DEF month_index
<1>10. i = d - (z * 12 + l - (y * 12 + k)) - 1
  BY ONLY <1>4, <1>9
<1>11. i \in 0 .. d - 1
  BY <1>4, <1>7, <1>10
<1>12. first_month(s) - 1 = (12 - ((d - l) % 12)) % 12
  <2>1. (12 - ((d - l) % 12)) % 12 \in Nat
    BY <1>4
  <2>. QED
    BY <1>2, <1>3, <1>6, <2>1 DEF first_month
<1>13. DOMAIN Labels(s) = 0 .. d - 1
       /\ Labels(s)[i] = ((first_month(s) - 1 + i) % 12) + 1
  BY <1>2, <1>11 DEF Labels
<1>14. (first_month(s) - 1 + i) % 12 = k - 1
  BY <1>4, <1>10, <1>11, <1>12, LabelIs
<1>15. Labels(s)[i] = k
  BY <1>13, <1>14
<1>. QED
  BY <1>2, <1>3, <1>5, <1>7, <1>8, <1>10, <1>11, <1>13, <1>15

(* A page that is made of a history is in order.                           *)
LEMMA PageInOrder ==
  ASSUME NEW s, IsHistory(s)
  PROVE  IndexInOrder(MainIndex(s))
<1>. DEFINE page == MainIndex(s)
<1>1. /\ page.links = Reverse(WithHits(s)) /\ page.labels = Labels(s) /\ page.bars = Bars(s)
  BY DEF MainIndex
<1>2. \A i, j \in DOMAIN page.links : i < j => Number(page.links[i]) > Number(page.links[j])
  <2>1. PICK w : w = WithHits(s)
    OBVIOUS
  <2>2. w \in Seq(Months) /\ Rising(w)
    BY <2>1, WithHitsIs DEF IsHistory
  <2>3. PICK n \in Nat : n = Len(w)
    BY <2>2
  <2>4. page.links = [i \in 1 .. n |-> w[(n - i) + 1]]
    BY <1>1, <2>1, <2>3 DEF Reverse
  <2>. SUFFICES ASSUME NEW i \in 1 .. n, NEW j \in 1 .. n, i < j
       PROVE  Number(page.links[i]) > Number(page.links[j])
    BY <2>4
  <2>5. (n - i) + 1 \in 1 .. n /\ (n - j) + 1 \in 1 .. n /\ (n - j) + 1 < (n - i) + 1
    OBVIOUS
  <2>6. Number(w[(n - j) + 1]) < Number(w[(n - i) + 1])
    BY <2>2, <2>3, <2>5 DEF Rising
  <2>7. Number(w[(n - j) + 1]) \in Nat /\ Number(w[(n - i) + 1]) \in Nat
    BY <2>2, <2>3, <2>5, Numbers
  <2>. QED
    BY <2>4, <2>6, <2>7
<1>3. ASSUME NEW b \in page.bars
      PROVE  /\ b[1] \in DOMAIN page.labels /\ page.labels[b[1]] = b[2].month
             /\ b[1] = disp_length(s) - (Number(Last(s)) - Number(b[2])) - 1
             /\ disp_length(s) \in Nat /\ Number(Last(s)) \in Nat /\ Number(b[2]) \in Nat
  <2>1. PICK m \in ToSet(s) : b = <<month_index(s, m), m>>
    BY <1>1 DEF Bars
  <2>2. Has(s, m) /\ s # <<>>
    BY <2>1 DEF ToSet, Has, IsHistory
  <2>3. b[1] = month_index(s, m) /\ b[2] = m
    BY <2>1
  <2>4. /\ month_index(s, m) = disp_length(s) - (Number(Last(s)) - Number(m)) - 1
        /\ month_index(s, m) \in DOMAIN Labels(s) /\ Labels(s)[month_index(s, m)] = m.month
    BY <2>2, IndexIs
  <2>5. disp_length(s) \in Nat /\ Number(Last(s)) \in Nat /\ Number(m) \in Nat
    BY <2>2, LengthIs, Numbers
  <2>. QED
    BY <1>1, <2>3, <2>4, <2>5
<1>4. ASSUME NEW b \in page.bars, NEW c \in page.bars
      PROVE  b[1] - c[1] = Number(b[2]) - Number(c[2])
  <2>1. /\ b[1] = disp_length(s) - (Number(Last(s)) - Number(b[2])) - 1
        /\ c[1] = disp_length(s) - (Number(Last(s)) - Number(c[2])) - 1
        /\ disp_length(s) \in Nat /\ Number(Last(s)) \in Nat
        /\ Number(b[2]) \in Nat /\ Number(c[2]) \in Nat
    BY <1>3
  <2>. QED
    BY <2>1
<1>. HIDE DEF page
<1>. QED
  BY <1>2, <1>3, <1>4 DEF IndexInOrder, page

-----------------------------------------------------------------------------
(* The steps of runs with a history                                        *)

(* The configuration and the reports while log files do not change         *)
LEMMA SameMonths ==
  ASSUME file' = file
  PROVE  /\ \A s : HistMonth(s)' = HistMonth(s)
         /\ db' = db => HistMonth(db)' = HistMonth(db)
         /\ wlfs' = wlfs => rec_tstamp' = rec_tstamp
BY SameFiles DEF HistMonth, Month, rec_tstamp

(* A step that leaves the history alone goes on in time and, if it changes *)
(* the database, leaves an empty one.                                      *)
GoesOn ==
  /\ file' = file /\ since' = since /\ mode' = mode
  /\ pc' = "off" <=> pc = "off"
  /\ db' = db \/ db' = NewDb
  /\ Now <= Now' /\ Now' \in Nat \cup {NoTime}
  /\ Going'

(* The steps of a run that neither start, save nor leave it                *)
LEMMA StepGoesOn ==
  ASSUME IInv, Going,
         \/ ReadStep \/ IgnoreRecord \/ KeepReport \/ SameMonth \/ CountRecord
         \/ CtrlC \/ UNCHANGED vars
  PROVE  GoesOn
<1>1. /\ file \in [File -> Contents] /\ state \in MonthState
      /\ state.cur_tstamp \in Nat \cup {-1} /\ NoTime = -1
  BY DEF IInv, Reading, Kept, MonthState, NoTime
<1>2. pc \in {"record", "count"} => rec_tstamp \in Nat
  BY RecordInHand
<1>3. since \in Nat \cup {-1}
  BY <1>1 DEF IInv, Config
<1>4. Now \in Nat \cup {-1}
  BY <1>1, <1>2 DEF Now
<1>5. CASE ReadStep \/ IgnoreRecord
  <2>1. /\ file' = file /\ since' = since /\ mode' = mode /\ db' = db /\ state' = state
        /\ check_dup' = check_dup /\ total_good' = total_good
        /\ pc \notin {"off", "count"} /\ pc' \notin {"off", "count"}
    BY <1>5 DEF ReadStep, PrepLine, PrepDone, LoopTest, GetLine, GetRecord, IgnoreRecord,
                runVars, fileVars
  <2>2. Now' = Now
    BY <2>1 DEF Now
  <2>. QED
    BY <1>1, <1>4, <2>1, <2>2 DEF GoesOn, Going
<1>6. CASE CtrlC \/ UNCHANGED vars
  <2>1. /\ file' = file /\ since' = since /\ mode' = mode /\ db' = db /\ state' = state
        /\ check_dup' = check_dup /\ total_good' = total_good /\ pc' = pc /\ wlfs' = wlfs
    BY <1>6 DEF CtrlC, vars, runVars, fileVars
  <2>2. Now' = Now
    BY <2>1, SameMonths DEF Now
  <2>. QED
    BY <1>1, <1>4, <2>1, <2>2 DEF GoesOn, Going
<1>7. CASE SameMonth \/ KeepReport
  <2>1. /\ file' = file /\ since' = since /\ mode' = mode /\ (db' = db \/ db' = NewDb)
        /\ check_dup' = FALSE /\ pc = "record" /\ pc' = "count" /\ wlfs' = wlfs
    BY <1>7 DEF SameMonth, KeepReport, runVars, fileVars
  <2>2. Now = state.cur_tstamp /\ Now' = rec_tstamp /\ rec_tstamp \in Nat
    BY <1>2, <2>1, SameMonths DEF Now
  <2>3. state.cur_tstamp <= rec_tstamp
    <3>1. CASE SameMonth
      BY <1>1, <2>2, <3>1 DEF SameMonth
    <3>2. CASE KeepReport
      <4>1. check_dup /\ ~total_good /\ ~Duplicate
        BY <3>2 DEF KeepReport, Going
      <4>. QED
        BY <1>1, <2>2, <4>1 DEF Duplicate
    <3>. QED
      BY <1>7, <3>1, <3>2
  <2>4. since <= Now'
    BY <1>1, <1>3, <2>1, <2>2, <2>3 DEF Going
  <2>. QED
    BY <1>1, <2>1, <2>2, <2>3, <2>4 DEF GoesOn, Going
<1>8. CASE CountRecord
  <2>1. /\ file' = file /\ since' = since /\ mode' = mode /\ db' = db
        /\ check_dup' = check_dup /\ pc = "count" /\ pc' = "loop"
    BY <1>8 DEF CountRecord, runVars, fileVars
  <2>2. state'.cur_tstamp = rec_tstamp
    BY <1>1, <1>8 DEF CountRecord, MonthState
  <2>3. Now = rec_tstamp /\ Now' = rec_tstamp /\ rec_tstamp \in Nat
    BY <1>2, <2>1, <2>2 DEF Now
  <2>. QED
    BY <1>1, <2>1, <2>3 DEF GoesOn, Going
<1>. QED
  BY <1>5, <1>6, <1>7, <1>8

(* Such a step keeps what is known of the history.                         *)
LEMMA GoesOnInv ==
  ASSUME IInv, HistInv, GoesOn, UNCHANGED histVars
  PROVE  HistInv'
<1>1. UNCHANGED <<history, hist_file, usage, index, unreported>>
  BY DEF histVars
<1>2. /\ file' = file /\ since' = since /\ mode' = mode /\ (pc' = "off" <=> pc = "off")
      /\ (db' = db \/ db' = NewDb) /\ Now <= Now' /\ Now' \in Nat \cup {NoTime}
  BY DEF GoesOn
<1>3. \A e : Reported(e)' <=> Reported(e)
  BY <1>1 DEF Reported, Key
<1>4. db' # db => db'.cur_tstamp = NoTime
  BY <1>2, NewProperties DEF NewDb
<1>5. db' = db => HistMonth(db)' = HistMonth(db)
  BY <1>2, SameMonths
<1>6. Histories' /\ IndexInOrder(index)'
  BY <1>1, <1>2 DEF HistInv, Histories, IndexInOrder, Number
<1>7. Remembered'
  BY <1>1, <1>2 DEF HistInv, Remembered, MonthNo, Month
<1>8. Recent'
  <2>. SUFFICES ASSUME NEW e, Has(history, e), ~Has(hist_file, e)
       PROVE  /\ Now' # NoTime /\ Number(e) <= MonthNo(Now')
              /\ e.hits # 0 => (CanLose \/ ignore_hist) /\ since # NoTime
    BY <1>1, <1>2 DEF Recent, MonthNo, Month
  <2>1. /\ Now # NoTime /\ Number(e) <= MonthNo(Now)
        /\ e.hits # 0 => (CanLose \/ ignore_hist) /\ since # NoTime
    BY DEF HistInv, Recent
  <2>2. Number(e) \in Nat
    BY Numbers DEF HistInv, Histories, IsHistory, Has
  <2>3. Now \in Nat
    BY <2>1, RecordInHand DEF Now, IInv, Kept, MonthState, NoTime
  <2>4. MonthNo(Now) <= MonthNo(Now') /\ MonthNo(Now) \in Nat /\ MonthNo(Now') \in Nat
        /\ Now' # NoTime
    <3>1. Now' \in Nat
      BY <1>2, <2>3 DEF NoTime
    <3>. QED
      BY <1>2, <2>3, <3>1, MonthsGrow DEF NoTime
  <2>. QED
    BY <2>1, <2>2, <2>4
<1>9. DbListed'
  BY <1>1, <1>4, <1>5 DEF HistInv, DbListed
<1>10. AllReported'
  BY <1>1, <1>3, <1>4, <1>5 DEF HistInv, AllReported
<1>. QED
  BY <1>6, <1>7, <1>8, <1>9, <1>10 DEF HistInv, GoesOn

(* The month of the state and the history that a save makes of it          *)
SavedMonth == HistMonth(state)
SavedHistory == update(history, SavedMonth)
SavedFile == put_history(SavedHistory)

(* What a save changes in the history and in its file                      *)
LEMMA Saving ==
  ASSUME IInv, HistInv, pc \in {"record", "final"}, state.cur_tstamp # NoTime
  PROVE  /\ SavedMonth \in Months /\ Number(SavedMonth) = MonthNo(state.cur_tstamp)
         /\ IsHistory(SavedHistory) /\ IsHistory(SavedFile)
         /\ \A e : Has(SavedFile, e) <=> Has(SavedHistory, e) /\ e.hits # 0
         /\ \A e : Has(SavedHistory, e) =>
              e = SavedMonth \/ (Has(history, e) /\ Number(e) # Number(SavedMonth))
         /\ \A e : Has(SavedHistory, e) /\ e.hits = 0 =>
              Number(e) <= MonthNo(state.cur_tstamp)
         /\ mode.incremental /\ ~ignore_hist =>
              \A e : Has(hist_file, e) =>
                \/ Has(SavedFile, e) \/ Number(e) = Number(SavedMonth)
                \/ \E x : /\ Has(hist_file, x) \/ x = SavedMonth
                          /\ Number(x) - Number(e) >= max_length
         /\ \/ Has(SavedFile, SavedMonth) \/ SavedMonth.hits = 0
            \/ \E x : /\ Has(hist_file, x) /\ Has(SavedFile, x)
                      /\ Number(x) - Number(SavedMonth) >= max_length
         /\ \A e : Has(SavedFile, e) /\ ~Has(hist_file, e) /\ e # SavedMonth =>
              (CanLose \/ ignore_hist) /\ since # NoTime
<1>1. state.cur_tstamp \in Nat /\ file \in [File -> Contents] /\ since \in Nat \cup {NoTime}
  BY DEF IInv, Kept, MonthState, Reading, Config
<1>2. PICK m \in Months : m = SavedMonth /\ Number(m) = MonthNo(state.cur_tstamp)
  BY <1>1, HistMonthIs DEF SavedMonth
<1>3. PICK t : t = SavedHistory
  OBVIOUS
<1>4. PICK f : f = SavedFile
  OBVIOUS
<1>5. IsHistory(history) /\ IsHistory(hist_file) /\ \A e : Has(hist_file, e) => e.hits # 0
  BY DEF HistInv, Histories
<1>. DEFINE Far(e) == \E x : /\ Has(history, x) \/ x = m
                             /\ Has(t, x) /\ Number(x) - Number(e) >= max_length
<1>6. /\ IsHistory(t)
      /\ \A e : Has(t, e) => e = m \/ (Has(history, e) /\ Number(e) # Number(m))
      /\ \A e : Has(history, e) /\ Number(e) # Number(m) => Has(t, e) \/ Far(e)
      /\ Has(t, m) \/ Far(m)
  BY <1>2, <1>3, <1>5, Updating DEF SavedHistory
<1>7. IsHistory(f) /\ \A e : Has(f, e) <=> Has(t, e) /\ e.hits # 0
  BY <1>3, <1>4, <1>6, WithHitsIs DEF SavedFile, put_history
<1>8. \A s, e : IsHistory(s) /\ Has(s, e) => Number(e) \in Nat
  BY Numbers DEF IsHistory, Has
<1>9. Number(m) \in Nat /\ max_length \in Nat /\ max_length >= 12
  BY Numbers, MaxLengthIs
<1>10. Now = state.cur_tstamp /\ since <= Now /\ pc # "off"
  BY DEF Now, HistInv, Going
<1>11. \A e : Has(history, e) /\ ~Has(hist_file, e) =>
         /\ Number(e) <= Number(m)
         /\ e.hits # 0 => (CanLose \/ ignore_hist) /\ since # NoTime
  BY <1>2, <1>10 DEF HistInv, Recent
<1>12. ASSUME NEW e, Has(t, e), e.hits = 0 PROVE Number(e) <= Number(m)
  <2>1. CASE e = m
    BY <1>9, <2>1
  <2>2. CASE e # m
    BY <1>5, <1>6, <1>11, <1>12, <2>2
  <2>. QED
    BY <2>1, <2>2
<1>13. ASSUME mode.incremental, ~ignore_hist, NEW e, Has(hist_file, e)
       PROVE  \/ Has(f, e) \/ Number(e) = Number(m)
              \/ \E x : /\ Has(hist_file, x) \/ x = m
                        /\ Number(x) - Number(e) >= max_length
  <2>1. Number(e) \in Nat /\ e.hits # 0
    BY <1>5, <1>8, <1>13
  <2>2. CASE ~Has(history, e)
    <3>1. since # NoTime /\ MonthNo(since) - Number(e) >= max_length
      BY <1>10, <1>13, <2>2 DEF HistInv, Remembered
    <3>2. since \in Nat
      BY <1>1, <3>1
    <3>3. MonthNo(since) <= Number(m) /\ MonthNo(since) \in Nat
      BY <1>1, <1>2, <1>10, <3>2, MonthsGrow
    <3>4. Number(m) - Number(e) >= max_length
      BY <1>9, <2>1, <3>1, <3>3
    <3>. QED
      BY <3>4
  <2>3. CASE Has(history, e) /\ Number(e) # Number(m)
    <3>1. CASE Has(t, e)
      BY <1>7, <2>1, <3>1
    <3>2. CASE Far(e)
      <4>1. PICK x : (Has(history, x) \/ x = m) /\ Number(x) - Number(e) >= max_length
        BY <3>2
      <4>2. CASE Has(history, x) /\ ~Has(hist_file, x)
        <5>1. Number(x) \in Nat /\ Number(x) <= Number(m)
          BY <1>5, <1>8, <1>11, <4>2
        <5>2. Number(m) - Number(e) >= max_length
          BY <1>9, <2>1, <4>1, <5>1
        <5>. QED
          BY <5>2
      <4>. QED
        BY <4>1, <4>2
    <3>. QED
      BY <1>6, <2>3, <3>1, <3>2
  <2>. QED
    BY <2>2, <2>3
<1>14. \/ Has(f, m) \/ m.hits = 0
       \/ \E x : /\ Has(hist_file, x) /\ Has(f, x)
                 /\ Number(x) - Number(m) >= max_length
  <2>1. CASE Has(t, m)
    BY <1>7, <2>1
  <2>2. CASE Far(m)
    <3>1. PICK x : /\ Has(history, x) \/ x = m
                   /\ Has(t, x) /\ Number(x) - Number(m) >= max_length
      BY <2>2
    <3>2. x # m
      BY <1>9, <3>1
    <3>3. Number(x) \in Nat
      BY <1>5, <1>8, <3>1, <3>2
    <3>4. ~(Number(x) <= Number(m))
      BY <1>9, <3>1, <3>3
    <3>5. Has(hist_file, x)
      BY <1>11, <3>1, <3>2, <3>4
    <3>6. Has(f, x)
      BY <1>5, <1>7, <3>1, <3>5
    <3>. QED
      BY <3>1, <3>5, <3>6
  <2>. QED
    BY <1>6, <2>1, <2>2
<1>15. ASSUME NEW e, Has(f, e), ~Has(hist_file, e), e # m
       PROVE  (CanLose \/ ignore_hist) /\ since # NoTime
  BY <1>6, <1>7, <1>11, <1>15
<1>. QED
  BY <1>2, <1>3, <1>4, <1>6, <1>7, <1>12, <1>13, <1>14, <1>15

(* The reports after a save, with or without one of the saved month        *)
LEMMA SavingReported ==
  ASSUME IInv, HistInv, pc \in {"record", "final"}, state.cur_tstamp # NoTime,
         \/ usage' = MonthlyReport(SavedMonth) /\ unreported' = unreported \ {Key(SavedMonth)}
         \/ usage' = usage /\ unreported' = unreported \cup {Key(SavedMonth)}
  PROVE  \A e : e = SavedMonth \/ Has(SavedHistory, e) => Reported(e)'
<1>. DEFINE Good(e) == Key(e) \notin unreported' =>
                         Key(e) \in DOMAIN usage' /\ usage'[Key(e)] = e.hits
<1>1. PICK m \in Months : m = SavedMonth
  BY Saving
<1>2. Good(m)
  BY <1>1 DEF MonthlyReport
<1>3. ASSUME NEW e, Has(SavedHistory, e) PROVE Good(e)
  <2>1. CASE e = m
    BY <1>2, <2>1
  <2>2. CASE e # m
    <3>1. Has(history, e) /\ Number(e) # Number(m)
      BY <1>1, <1>3, <2>2, Saving
    <3>2. e \in Months
      BY <3>1 DEF HistInv, Histories, IsHistory, Has
    <3>3. Key(e) # Key(m)
      BY <3>1, <3>2, Numbers
    <3>4. Reported(e)
      BY <3>1 DEF HistInv, AllReported
    <3>. QED
      BY <1>1, <3>3, <3>4 DEF Reported, MonthlyReport
  <2>. QED
    BY <2>1, <2>2
<1>. QED
  BY <1>1, <1>2, <1>3 DEF Reported, Key

(* An empty history has no months.                                         *)
LEMMA NoHistory == IsHistory(<<>>) /\ \A e : ~Has(<<>>, e)
BY MaxLengthIs DEF IsHistory, Rising, Within, Has

(* Of a month that a record of another one closes                          *)
LEMMA CloseMonthHist == IInv /\ HistInv /\ CloseMonthReported => HistInv'
<1>. SUFFICES ASSUME IInv, HistInv, CloseMonthReported PROVE HistInv'
  OBVIOUS
<1>1. /\ pc = "record" /\ pc' = "count" /\ file' = file /\ since' = since /\ mode' = mode
      /\ wlfs' = wlfs /\ check_dup' = FALSE /\ db' = NewDb
      /\ state.cur_tstamp <= rec_tstamp /\ state.cur_tstamp # NoTime
  BY DEF CloseMonthReported, CloseMonth, OtherMonth, runVars, fileVars
<1>2. /\ history' = SavedHistory /\ hist_file' = put_history(history')
      /\ usage' = MonthlyReport(SavedMonth) /\ unreported' = unreported \ {Key(SavedMonth)}
      /\ index' = index
  BY DEF CloseMonthReported, SavedHistory, SavedMonth
<1>3. hist_file' = SavedFile
  BY <1>2 DEF SavedFile
<1>4. state.cur_tstamp \in Nat /\ rec_tstamp \in Nat /\ since \in Nat \cup {-1} /\ NoTime = -1
  BY <1>1, RecordInHand DEF IInv, Kept, MonthState, Config, NoTime
<1>5. Now = state.cur_tstamp /\ Now' = rec_tstamp
  BY <1>1, SameMonths DEF Now
<1>6. Going'
  BY <1>1, <1>4, <1>5 DEF HistInv, Going
<1>7. /\ IsHistory(SavedHistory) /\ IsHistory(SavedFile)
      /\ \A e : Has(SavedFile, e) <=> Has(SavedHistory, e) /\ e.hits # 0
      /\ \A e : Has(SavedHistory, e) /\ e.hits = 0 => Number(e) <= MonthNo(state.cur_tstamp)
  BY <1>1, Saving
<1>8. PICK t : t = SavedHistory
  OBVIOUS
<1>9. PICK f : f = SavedFile
  OBVIOUS
<1>10. history' = t /\ hist_file' = f
  BY <1>2, <1>3, <1>8, <1>9
<1>11. Histories'
  BY <1>1, <1>7, <1>8, <1>9, <1>10 DEF Histories
<1>12. Remembered'
  BY <1>7, <1>8, <1>9, <1>10 DEF Remembered
<1>13. Recent'
  <2>. SUFFICES ASSUME NEW e, Has(t, e), ~Has(f, e)
       PROVE  /\ Now' # NoTime /\ Number(e) <= MonthNo(Now')
              /\ e.hits # 0 => (CanLose \/ ignore_hist) /\ since # NoTime
    BY <1>1, <1>10 DEF Recent, MonthNo, Month
  <2>1. e.hits = 0 /\ Number(e) <= MonthNo(state.cur_tstamp) /\ Number(e) \in Nat
    BY <1>7, <1>8, <1>9, Numbers DEF IsHistory, Has
  <2>2. /\ MonthNo(state.cur_tstamp) <= MonthNo(rec_tstamp)
        /\ MonthNo(state.cur_tstamp) \in Nat /\ MonthNo(rec_tstamp) \in Nat
    BY <1>1, <1>4, MonthsGrow
  <2>. QED
    BY <1>4, <1>5, <2>1, <2>2
<1>14. DbListed'
  BY <1>1 DEF DbListed, NewDb
<1>15. AllReported'
  <2>1. \A e : Has(t, e) => Reported(e)'
    BY <1>1, <1>2, <1>8, SavingReported
  <2>2. \A e : Has(f, e) => Has(t, e)
    BY <1>7, <1>8, <1>9
  <2>. QED
    BY <1>1, <1>10, <2>1, <2>2 DEF AllReported, NewDb
<1>16. IndexInOrder(index)'
  BY <1>2 DEF HistInv, IndexInOrder, Number
<1>. QED
  BY <1>6, <1>11, <1>12, <1>13, <1>14, <1>15, <1>16 DEF HistInv

(* Of the month that is left when a run ends                               *)
LEMMA SaveRunHist == IInv /\ HistInv /\ SaveRunReported => HistInv'
<1>. SUFFICES ASSUME IInv, HistInv, SaveRunReported PROVE HistInv'
  OBVIOUS
<1>1. /\ pc = "final" /\ pc' = "off" /\ file' = file /\ check_dup' = FALSE
      /\ \/ db' = NewDb
         \/ db'.cur_tstamp = state.cur_tstamp /\ db'.counted = state.counted
  BY DEF SaveRunReported, SaveRun, Left
<1>2. state.cur_tstamp # NoTime
  BY DEF SaveRunReported, SaveRun, NothingToSave, IInv, Kept
<1>3. /\ history' = <<>> /\ hist_file' = SavedFile
      /\ \/ usage' = MonthlyReport(SavedMonth) /\ unreported' = unreported \ {Key(SavedMonth)}
         \/ usage' = usage /\ unreported' = unreported \cup {Key(SavedMonth)}
      /\ index' = index \/ index' = MainIndex(SavedHistory)
  BY DEF SaveRunReported, SavedFile, SavedHistory, SavedMonth
<1>4. /\ IsHistory(SavedHistory) /\ IsHistory(SavedFile)
      /\ \A e : Has(SavedFile, e) <=> Has(SavedHistory, e) /\ e.hits # 0
      /\ \/ Has(SavedFile, SavedMonth) \/ SavedMonth.hits = 0
         \/ \E x : /\ Has(hist_file, x) /\ Has(SavedFile, x)
                   /\ Number(x) - Number(SavedMonth) >= max_length
  BY <1>1, <1>2, Saving
<1>5. PICK f : f = SavedFile
  OBVIOUS
<1>6. PICK m : m = SavedMonth
  OBVIOUS
<1>7. db'.cur_tstamp # NoTime => HistMonth(db)' = m
  <2>1. CASE db' = NewDb
    BY <2>1 DEF NewDb
  <2>2. CASE db'.cur_tstamp = state.cur_tstamp /\ db'.counted = state.counted
    <3>1. Id' = Id
      BY <1>1, SameFiles
    <3>. QED
      BY <1>6, <2>2, <3>1 DEF HistMonth, SavedMonth, Month
  <2>. QED
    BY <1>1, <2>1, <2>2
<1>8. Going' /\ Remembered'
  BY <1>1 DEF Going, Remembered
<1>9. Histories' /\ Recent'
  BY <1>3, <1>4, NoHistory DEF Histories, Recent
<1>10. DbListed'
  BY <1>3, <1>4, <1>5, <1>6, <1>7 DEF DbListed
<1>11. AllReported'
  <2>1. \A e : e = m \/ Has(f, e) => Reported(e)'
    BY <1>1, <1>2, <1>3, <1>4, <1>5, <1>6, SavingReported
  <2>2. hist_file' = f /\ \A e : ~Has(history', e)
    BY <1>3, <1>5, NoHistory
  <2>3. Reported(HistMonth(db))' <=> (Key(HistMonth(db)') \notin unreported' =>
          Key(HistMonth(db)') \in DOMAIN usage' /\ usage'[Key(HistMonth(db)')] = HistMonth(db)'.hits)
    BY DEF Reported, Key
  <2>4. Reported(m)' <=> (Key(m) \notin unreported' =>
          Key(m) \in DOMAIN usage' /\ usage'[Key(m)] = m.hits)
    BY DEF Reported, Key
  <2>5. db'.cur_tstamp # NoTime => Reported(HistMonth(db))'
    BY <1>7, <2>1, <2>3, <2>4
  <2>. QED
    BY <2>1, <2>2, <2>5 DEF AllReported
<1>12. IndexInOrder(index')
  BY <1>3, <1>4, PageInOrder DEF HistInv
<1>13. IndexInOrder(index)'
  BY <1>12 DEF IndexInOrder, Number
<1>. QED
  BY <1>8, <1>9, <1>10, <1>11, <1>13 DEF HistInv

(* A run that saves nothing leaves the file, which may then be lost.       *)
LEMMA LeaveHist == IInv /\ HistInv /\ (LeaveWithoutHistory \/ LoseHistory) => HistInv'
<1>. SUFFICES ASSUME IInv, HistInv, LeaveWithoutHistory \/ LoseHistory PROVE HistInv'
  OBVIOUS
<1>1. /\ pc' = "off" /\ file' = file /\ db' = db /\ UNCHANGED <<usage, index, unreported>>
      /\ check_dup' = FALSE \/ UNCHANGED <<check_dup, total_good>>
  BY DEF LeaveWithoutHistory, LeaveUnsaved, Left, LoseHistory, vars, runVars
<1>2. history' = <<>> /\ (hist_file' = hist_file \/ (hist_file' = <<>> /\ CanLose))
  BY DEF LeaveWithoutHistory, LoseHistory, HistInv, Histories
<1>3. HistMonth(db)' = HistMonth(db)
  BY <1>1, SameMonths
<1>4. \A e : Reported(e)' <=> Reported(e)
  BY <1>1 DEF Reported, Key
<1>5. Reported(HistMonth(db))' <=> Reported(HistMonth(db))
  BY <1>1, <1>3 DEF Reported, Key
<1>6. Going' /\ Remembered'
  BY <1>1 DEF Going, Remembered, HistInv
<1>7. Histories' /\ Recent'
  BY <1>2, NoHistory DEF Histories, Recent, HistInv
<1>8. DbListed'
  BY <1>1, <1>2, <1>3 DEF DbListed, HistInv
<1>9. AllReported'
  BY <1>1, <1>2, <1>4, <1>5, NoHistory DEF AllReported, HistInv
<1>10. IndexInOrder(index)'
  BY <1>1 DEF HistInv, IndexInOrder, Number
<1>. QED
  BY <1>6, <1>7, <1>8, <1>9, <1>10 DEF HistInv

(* What a run has read of the file, and of the database (d)                *)
LEMMA RestoredIs ==
  ASSUME IInv, HistInv, NEW d, d = NewDb \/ d = db
  PROVE  LET t == Restored(Read, d) IN
         /\ IsHistory(t)
         /\ \A e : Has(t, e) =>
              \/ Has(hist_file, e)
              \/ /\ d = db /\ db.cur_tstamp # NoTime /\ e = HistMonth(db)
                 /\ e.hits # 0 => CanLose \/ ignore_hist
         /\ ~ignore_hist => \A e : Has(hist_file, e) =>
              \/ Has(t, e)
              \/ /\ d.cur_tstamp # NoTime
                 /\ MonthNo(d.cur_tstamp) - Number(e) >= max_length
<1>1. PICK r : r = Read
  OBVIOUS
<1>2. IsHistory(hist_file)
  BY DEF HistInv, Histories
<1>3. /\ IsHistory(r)
      /\ \A e : Has(r, e) => Has(hist_file, e)
      /\ ~ignore_hist => \A e : Has(hist_file, e) => Has(r, e)
  <2>1. CASE ignore_hist
    <3>1. r = <<>>
      BY <1>1, <2>1 DEF Read
    <3>. QED
      BY <2>1, <3>1, NoHistory
  <2>2. CASE ~ignore_hist
    <3>1. r = get_history
      BY <1>1, <2>2 DEF Read
    <3>. QED
      BY <1>2, <3>1, ReadingBack
  <2>. QED
    BY <2>1, <2>2
<1>4. PICK t : t = Restored(Read, d)
  OBVIOUS
<1>5. PICK b : b = HistMonth(d)
  OBVIOUS
<1>6. CASE d.cur_tstamp = NoTime \/ find_month(r, b)
  <2>1. t = r
    BY <1>1, <1>4, <1>5, <1>6 DEF Restored
  <2>. QED
    BY <1>3, <1>4, <2>1
<1>7. CASE d.cur_tstamp # NoTime /\ ~find_month(r, b)
  <2>1. t = update(r, b)
    BY <1>1, <1>4, <1>5, <1>7 DEF Restored
  <2>2. d = db /\ db.cur_tstamp \in Nat /\ file \in [File -> Contents] /\ db.cur_tstamp # NoTime
    BY <1>7 DEF NewDb, IInv, Kept, Database, Reading
  <2>3. b \in Months /\ Number(b) = MonthNo(db.cur_tstamp) /\ b = HistMonth(db)
    BY <1>5, <2>2, HistMonthIs
  <2>4. ASSUME NEW e, Has(r, e)  PROVE Number(e) # Number(b) /\ Number(e) \in Nat
    <3>1. PICK i \in 1 .. Len(r) : r[i] = e
      BY <2>4 DEF Has
    <3>2. r \in Seq(Months) /\ DOMAIN r = 1 .. Len(r)
      BY <1>3 DEF IsHistory
    <3>3. ~Same(e, b) /\ e \in Months
      BY <1>7, <3>1, <3>2 DEF find_month
    <3>. QED
      BY <2>3, <3>3, Numbers
  <2>. DEFINE Far(e) == \E x : /\ Has(r, x) \/ x = b
                               /\ Has(t, x) /\ Number(x) - Number(e) >= max_length
  <2>5. /\ IsHistory(t)
        /\ \A e : Has(t, e) => e = b \/ (Has(r, e) /\ Number(e) # Number(b))
        /\ \A e : Has(r, e) /\ Number(e) # Number(b) => Has(t, e) \/ Far(e)
        /\ \A x : Has(r, x) /\ Number(x) - Number(b) >= max_length => ~Has(t, b)
    BY <1>3, <2>1, <2>3, Updating
  <2>6. ASSUME NEW e, Has(t, e), ~Has(hist_file, e)
        PROVE  e = b /\ (e.hits # 0 => CanLose \/ ignore_hist)
    <3>1. e = b
      BY <1>3, <2>5, <2>6
    <3>2. ASSUME e.hits # 0, ~CanLose, ~ignore_hist PROVE FALSE
      <4>1. PICK x : Has(hist_file, x) /\ Number(x) - Number(b) >= max_length
        BY <2>2, <2>3, <2>6, <3>1, <3>2 DEF HistInv, DbListed
      <4>2. Has(r, x)
        BY <1>3, <3>2, <4>1
      <4>. QED
        BY <2>5, <2>6, <3>1, <4>1, <4>2
    <3>. QED
      BY <3>1, <3>2
  <2>7. ASSUME ~ignore_hist, NEW e, Has(hist_file, e), ~Has(t, e)
        PROVE  MonthNo(db.cur_tstamp) - Number(e) >= max_length
    <3>1. Has(r, e) /\ Number(e) # Number(b)
      BY <1>3, <2>4, <2>7
    <3>2. PICK x : (Has(r, x) \/ x = b) /\ Number(x) - Number(e) >= max_length
      BY <2>5, <2>7, <3>1
    <3>3. CASE Has(r, x)
      <4>1. PICK i \in 1 .. Len(r), k \in 1 .. Len(r) : r[i] = e /\ r[k] = x
        BY <3>1, <3>3 DEF Has
      <4>2. Number(x) - Number(e) < max_length
        BY <1>3, <4>1 DEF IsHistory, Within
      <4>. QED
        BY <2>4, <3>1, <3>2, <3>3, <4>2, MaxLengthIs
    <3>4. CASE x = b
      BY <2>3, <3>2, <3>4
    <3>. QED
      BY <3>2, <3>3, <3>4
  <2>. QED
    BY <1>4, <2>2, <2>3, <2>5, <2>6, <2>7
<1>. QED
  BY <1>1, <1>5, <1>6, <1>7

(* The start of a run                                                      *)
LEMMA StartHist == IInv /\ HistInv /\ StartWithHistory => HistInv'
<1>. SUFFICES ASSUME IInv, HistInv, StartWithHistory PROVE HistInv'
  OBVIOUS
<1>1. PICK m \in Mode, list \in Lists :
        /\ StartRun(m, list)
        /\ history' = IF m.incremental THEN Restored(Read, db') ELSE <<>>
  BY DEF StartWithHistory
<1>2. UNCHANGED <<hist_file, usage, index, unreported>>
  BY DEF StartWithHistory
<1>3. PICK d : d = db'
  OBVIOUS
<1>4. /\ d = NewDb \/ d = db
      /\ state'.cur_tstamp = d.cur_tstamp /\ since' = d.cur_tstamp
      /\ file' = file /\ mode' = m /\ pc' = "prep" /\ total_good' = FALSE
  <2>1. DOMAIN NewState = {"cur_tstamp", "counted", "active"}
    BY DEF NewState
  <2>. QED
    BY <1>1, <1>3, <2>1 DEF StartRun
<1>5. Now' = d.cur_tstamp
  BY <1>4 DEF Now
<1>6. PICK t : t = Restored(Read, d)
  OBVIOUS
<1>7. /\ IsHistory(t)
      /\ \A e : Has(t, e) =>
           \/ Has(hist_file, e)
           \/ /\ d = db /\ db.cur_tstamp # NoTime /\ e = HistMonth(db)
              /\ e.hits # 0 => CanLose \/ ignore_hist
      /\ ~ignore_hist => \A e : Has(hist_file, e) =>
           \/ Has(t, e)
           \/ /\ d.cur_tstamp # NoTime
              /\ MonthNo(d.cur_tstamp) - Number(e) >= max_length
  BY <1>4, <1>6, RestoredIs
<1>8. PICK h : h = history'
  OBVIOUS
<1>9. h = IF m.incremental THEN t ELSE <<>>
  BY <1>1, <1>3, <1>6, <1>8
<1>10. d.cur_tstamp \in Nat \cup {-1} /\ NoTime = -1
  BY <1>4 DEF NewDb, NoTime, IInv, Kept, Database
<1>11. Going'
  BY <1>4, <1>5, <1>10 DEF Going
<1>12. Histories'
  BY <1>2, <1>4, <1>7, <1>8, <1>9, NoHistory DEF Histories, HistInv
<1>13. Remembered'
  BY <1>2, <1>4, <1>7, <1>8, <1>9 DEF Remembered, MonthNo, Month
<1>14. Recent'
  <2>. SUFFICES ASSUME NEW e, Has(h, e), ~Has(hist_file, e)
       PROVE  /\ Now' # NoTime /\ Number(e) <= MonthNo(Now')
              /\ e.hits # 0 => (CanLose \/ ignore_hist) /\ since' # NoTime
    BY <1>2, <1>8 DEF Recent, MonthNo, Month
  <2>1. /\ d = db /\ db.cur_tstamp # NoTime /\ e = HistMonth(db)
        /\ e.hits # 0 => CanLose \/ ignore_hist
    BY <1>7, <1>9, NoHistory
  <2>2. /\ HistMonth(db) \in Months /\ Number(HistMonth(db)) = MonthNo(db.cur_tstamp)
        /\ MonthNo(db.cur_tstamp) \in Nat
    BY <1>10, <2>1, HistMonthIs, MonthsGrow DEF IInv, Reading
  <2>. QED
    BY <1>4, <1>5, <2>1, <2>2
<1>15. DbListed'
  <2>1. db' = db => HistMonth(db)' = HistMonth(db)
    BY <1>4, SameMonths
  <2>2. db' = db \/ db'.cur_tstamp = NoTime
    BY <1>3, <1>4 DEF NewDb
  <2>. QED
    BY <1>2, <2>1, <2>2 DEF HistInv, DbListed
<1>16. AllReported'
  <2>1. \A e : Reported(e)' <=> Reported(e)
    BY <1>2 DEF Reported, Key
  <2>2. db' = db => HistMonth(db)' = HistMonth(db) /\ (Reported(HistMonth(db))' <=> Reported(HistMonth(db)))
    BY <1>2, <1>4, SameMonths DEF Reported, Key
  <2>3. db' = db \/ db'.cur_tstamp = NoTime
    BY <1>3, <1>4 DEF NewDb
  <2>4. \A e : Has(h, e) \/ Has(hist_file, e) => Reported(e)
    BY <1>7, <1>9, NoHistory DEF HistInv, AllReported
  <2>5. db'.cur_tstamp # NoTime => Reported(HistMonth(db))'
    BY <2>2, <2>3 DEF HistInv, AllReported
  <2>. QED
    BY <1>2, <1>8, <2>1, <2>4, <2>5 DEF AllReported
<1>17. IndexInOrder(index)'
  BY <1>2 DEF HistInv, IndexInOrder, Number
<1>. QED
  BY <1>11, <1>12, <1>13, <1>14, <1>15, <1>16, <1>17 DEF HistInv

-----------------------------------------------------------------------------
(* What holds of runs with a history                                       *)

(* Every step keeps the invariant of the history.                          *)
LEMMA HistStep == IInv /\ HistInv /\ [HistNext]_allVars => HistInv'
<1>. SUFFICES ASSUME IInv, HistInv, HistNext \/ UNCHANGED allVars PROVE HistInv'
  OBVIOUS
<1>1. CASE StartWithHistory
  BY <1>1, StartHist
<1>2. CASE CloseMonthReported
  BY <1>2, CloseMonthHist
<1>3. CASE SaveRunReported
  BY <1>3, SaveRunHist
<1>4. CASE LeaveWithoutHistory \/ LoseHistory
  BY <1>4, LeaveHist
<1>5. CASE StepWithoutHistory \/ (CtrlC /\ UNCHANGED histVars) \/ UNCHANGED allVars
  <2>1. UNCHANGED histVars
    BY <1>5 DEF StepWithoutHistory, allVars
  <2>2. GoesOn
    BY <1>5, StepGoesOn DEF StepWithoutHistory, allVars, HistInv
  <2>. QED
    BY <2>1, <2>2, GoesOnInv
<1>. QED
  BY <1>1, <1>2, <1>3, <1>4, <1>5 DEF HistNext, HistRunStep

(* The runs and their history keep their invariants.                       *)
LEMMA HistAlways == FairHistSpec => [](IInv /\ HistInv)
<1>1. HistInit => HistInv
  <2>. SUFFICES ASSUME HistInit PROVE HistInv
    OBVIOUS
  <2>1. /\ history = <<>> /\ hist_file = <<>> /\ index = NoIndex
        /\ check_dup = FALSE /\ pc = "off" /\ db = NewDb
    BY DEF HistInit, Init
  <2>2. IndexInOrder(index)
    BY <2>1 DEF NoIndex, IndexInOrder
  <2>3. db.cur_tstamp = NoTime
    BY <2>1 DEF NewDb
  <2>. QED
    BY <2>1, <2>2, <2>3, NoHistory
    DEF HistInv, Going, Histories, Remembered, Recent, DbListed, AllReported
<1>2. FairHistSpec => []IInv
  BY HistoryKeepsRuns, Invariance, PTL
<1>. QED
  BY <1>1, <1>2, HistStep, PTL DEF FairHistSpec

(* Whichever runs wrote them, the main index page and the history file     *)
(* agree with the reports of the months (write_main_index).                *)
THEOREM IndexAgrees == FairHistSpec => []IndexShowsReports
<1>1. HistInv => IndexShowsReports
  <2>. SUFFICES ASSUME HistInv PROVE IndexShowsReports
    OBVIOUS
  <2>1. ASSUME NEW e \in ToSet(hist_file), Key(e) \notin unreported
        PROVE  Key(e) \in DOMAIN usage /\ usage[Key(e)] = e.hits
    <3>1. Has(hist_file, e)
      BY <2>1 DEF ToSet, Has, HistInv, Histories, IsHistory
    <3>. QED
      BY <2>1, <3>1 DEF HistInv, AllReported, Reported
  <2>. QED
    BY <2>1 DEF HistInv, IndexInOrder, IndexShowsReports
<1>. QED
  BY <1>1, HistAlways, PTL

(* A save changes one month of the history file, though it writes all of   *)
(* it from what an earlier step has read (put_history).                    *)
THEOREM SavesOneMonth == FairHistSpec => SaveChangesOneMonth
<1>. DEFINE months == ToSet(hist_file) \cup {HistMonth(state)}
            TooOld(m) == \E n \in months : Number(n) - Number(m) >= max_length
            Changed == CloseMonth \/ SaveRun =>
                         /\ \A m, n \in ToSet(hist_file') :
                              Number(m) - Number(n) < max_length /\ (Same(m, n) => m = n)
                         /\ \A m \in ToSet(hist_file) : mode.incremental /\ ~ignore_hist =>
                              m \in ToSet(hist_file') \/ Same(m, HistMonth(state)) \/ TooOld(m)
                         /\ \/ HistMonth(state) \in ToSet(hist_file')
                            \/ HistMonth(state).hits = 0 \/ TooOld(HistMonth(state))
                         /\ \A m \in ToSet(hist_file') \ months :
                              (CanLose \/ ignore_hist) /\ since # NoTime
<1>1. IInv /\ HistInv /\ [HistNext]_allVars => [Changed]_allVars
  <2>. SUFFICES ASSUME IInv, HistInv, HistNext, CloseMonth \/ SaveRun PROVE Changed
    OBVIOUS
  <2>1. /\ pc \in {"record", "final"} /\ state.cur_tstamp # NoTime
        /\ pc = "record" => pc' = "count"
        /\ pc = "final" => pc' = "off"
    BY DEF CloseMonth, OtherMonth, SaveRun, Left, NothingToSave, IInv, Kept
  <2>2. /\ ~StartWithHistory /\ ~LoseHistory /\ ~CtrlC
        /\ ~ReadStep /\ ~IgnoreRecord /\ ~CountRecord
    BY <2>1 DEF StartWithHistory, StartRun, LoseHistory, CtrlC, ReadStep, PrepLine, PrepDone,
                LoopTest, GetLine, GetRecord, IgnoreRecord, CountRecord
  <2>3. ~KeepReport /\ ~SameMonth /\ ~LeaveWithoutHistory
    BY DEF CloseMonth, SaveRun, KeepReport, SameMonth, LeaveWithoutHistory, LeaveUnsaved
  <2>4. CloseMonthReported \/ SaveRunReported
    BY <2>2, <2>3 DEF HistNext, HistRunStep, StepWithoutHistory
  <2>5. hist_file' = SavedFile
    BY <2>4 DEF CloseMonthReported, SaveRunReported, SavedFile, SavedHistory, SavedMonth
  <2>6. PICK f : f = SavedFile
    OBVIOUS
  <2>7. PICK m \in Months : m = SavedMonth /\ m = HistMonth(state)
    BY <2>1, Saving DEF SavedMonth
  <2>8. /\ IsHistory(f) /\ IsHistory(hist_file)
        /\ mode.incremental /\ ~ignore_hist =>
             \A e : Has(hist_file, e) =>
               \/ Has(f, e) \/ Number(e) = Number(m)
               \/ \E x : /\ Has(hist_file, x) \/ x = m
                         /\ Number(x) - Number(e) >= max_length
        /\ \/ Has(f, m) \/ m.hits = 0
           \/ \E x : Has(hist_file, x) /\ Number(x) - Number(m) >= max_length
        /\ \A e : Has(f, e) /\ ~Has(hist_file, e) /\ e # m =>
             (CanLose \/ ignore_hist) /\ since # NoTime
    BY <2>1, <2>6, <2>7, Saving DEF HistInv, Histories
  <2>9. PICK old, new : old = ToSet(hist_file) /\ new = ToSet(hist_file')
    OBVIOUS
  <2>10. /\ \A e : e \in old <=> Has(hist_file, e)
         /\ \A e : e \in new <=> Has(f, e)
    BY <2>5, <2>6, <2>8, <2>9 DEF ToSet, Has, IsHistory
  <2>11. ASSUME NEW x, NEW y, Has(f, x), Has(f, y)
         PROVE  Number(x) - Number(y) < max_length /\ (Same(x, y) => x = y)
    <3>1. PICK i \in 1 .. Len(f), j \in 1 .. Len(f) : f[i] = x /\ f[j] = y
      BY <2>11 DEF Has
    <3>2. Number(x) - Number(y) < max_length
      BY <2>8, <3>1 DEF IsHistory, Within
    <3>3. x \in Months /\ y \in Months /\ Number(x) \in Nat /\ Number(y) \in Nat
      BY <2>8, <3>1, Numbers DEF IsHistory
    <3>4. i < j => Number(x) < Number(y)
      BY <2>8, <3>1 DEF IsHistory, Rising
    <3>5. j < i => Number(y) < Number(x)
      BY <2>8, <3>1 DEF IsHistory, Rising
    <3>6. Same(x, y) => i = j
      <4>1. Same(x, y) => Number(x) = Number(y)
        BY <3>3, Numbers
      <4>2. i \in Int /\ j \in Int
        BY <2>8 DEF IsHistory
      <4>. QED
        BY <3>3, <3>4, <3>5, <4>1, <4>2
    <3>. QED
      BY <3>1, <3>2, <3>6
  <2>12. ASSUME NEW e \in old, mode.incremental, ~ignore_hist
         PROVE  e \in new \/ Same(e, m) \/ \E x \in old \cup {m} : Number(x) - Number(e) >= max_length
    <3>1. e \in Months
      BY <2>8, <2>10, <2>12 DEF Has, IsHistory
    <3>2. Number(e) = Number(m) => Same(e, m)
      BY <3>1, Numbers
    <3>. QED
      BY <2>8, <2>10, <2>12, <3>2
  <2>13. m \in new \/ m.hits = 0 \/ \E x \in old \cup {m} : Number(x) - Number(m) >= max_length
    BY <2>8, <2>10
  <2>14. \A e \in new \ (old \cup {m}) : (CanLose \/ ignore_hist) /\ since # NoTime
    BY <2>8, <2>10
  <2>15. \A x, y \in new : Number(x) - Number(y) < max_length /\ (Same(x, y) => x = y)
    BY <2>10, <2>11
  <2>. QED
    BY <2>7, <2>9, <2>12, <2>13, <2>14, <2>15
<1>. QED
  BY <1>1, HistAlways, PTL DEF SaveChangesOneMonth, FairHistSpec

=============================================================================
