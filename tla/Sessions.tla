------------------------------ MODULE Sessions ------------------------------
(***************************************************************************)
(* What the state engine promises about hosts: the hits and the visits of  *)
(* each host in the current month depend on the log records alone. A       *)
(* record is one more hit of its host, and a new visit of it exactly when  *)
(* the host has been silent for the visit timeout, when its visit has      *)
(* reached the maximum length, or when it has no visit in this month.      *)
(* Where the host is kept, and how many runs the month takes, is not       *)
(* visible here.                                                           *)
(*                                                                         *)
(* The counters are those of webalizer_t::put_hnode, update_visit and      *)
(* end_visit (webalizer.cpp).                                              *)
(***************************************************************************)
EXTENDS Integers

CONSTANTS Host, VisitTimeout, MaxVisitLength, MaxTime

VARIABLES
  now,     (* time stamp of the last record, -1 if there is none           *)
  hits,    (* hits of each host in the month                               *)
  visits,  (* visits of each host in the month                             *)
  start,   (* first and last record of the active visit of each host, -1   *)
  last     (* if it has none                                               *)

sessionVars == <<now, hits, visits, start, last>>

None == -1
Over(h, t) ==
  \/ last[h] = None
  \/ t - last[h] >= VisitTimeout
  \/ MaxVisitLength > 0 /\ last[h] - start[h] >= MaxVisitLength

Init ==
  /\ now = None
  /\ hits = [h \in Host |-> 0]
  /\ visits = [h \in Host |-> 0]
  /\ start = [h \in Host |-> None]
  /\ last = [h \in Host |-> None]

(* A record of host h at time t                                            *)
Hit(h, t) ==
  /\ t >= now
  /\ now' = t
  /\ hits' = [hits EXCEPT ![h] = @ + 1]
  /\ last' = [last EXCEPT ![h] = t]
  /\ IF Over(h, t)
       THEN start' = [start EXCEPT ![h] = t] /\ visits' = [visits EXCEPT ![h] = @ + 1]
       ELSE UNCHANGED <<start, visits>>

(* Visits of hosts whose next record would start a visit anyway are ended. *)
EndOver(S) ==
  /\ \A h \in S : Over(h, now)
  /\ start' = [h \in Host |-> IF h \in S THEN None ELSE start[h]]
  /\ last' = [h \in Host |-> IF h \in S THEN None ELSE last[h]]
  /\ UNCHANGED <<now, hits, visits>>

(* The month, or the last run of it, is over: all visits end, ...          *)
EndAll ==
  /\ start' = [h \in Host |-> None]
  /\ last' = [h \in Host |-> None]
  /\ UNCHANGED <<now, hits, visits>>

(* ... and counting starts anew.                                           *)
NewMonth ==
  /\ \A h \in Host : last[h] = None
  /\ now' = None
  /\ hits' = [h \in Host |-> 0]
  /\ visits' = [h \in Host |-> 0]
  /\ UNCHANGED <<start, last>>

Next ==
  \/ \E h \in Host, t \in 0 .. MaxTime : Hit(h, t)
  \/ \E S \in SUBSET Host : EndOver(S)
  \/ EndAll
  \/ NewMonth

Spec == Init /\ [][Next]_sessionVars
=============================================================================
