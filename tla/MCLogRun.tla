------------------------------ MODULE MCLogRun ------------------------------
(* Instances of LogRun for TLC, with the history of the site.              *)
EXTENDS LogHistory

Good(t) == [kind |-> "good", tstamp |-> t, length |-> 1]
Filtered(t) == [kind |-> "filtered", tstamp |-> t, length |-> 1]
Bad == [kind |-> "bad", tstamp |-> 0, length |-> 1]
Long(t, n) == [kind |-> "good", tstamp |-> t, length |-> n]

(* Times 1 and 2 are in one month, 4 is in the next one, 45 more than a    *)
(* year later. An empty file, a record that does not count, bad lines      *)
(* before and after a record, two records in and out of order, with the    *)
(* same time stamp, in two months, and with an oversized line before one   *)
(* and a line that just fills the buffer before the other                  *)
MCContents ==
  {<<>>, <<Filtered(2)>>, <<Bad, Good(4), Bad>>, <<Good(1), Good(2)>>,
   <<Good(2), Good(2)>>, <<Good(2), Good(45)>>, <<Good(4), Good(1)>>,
   <<Good(1), Filtered(4)>>, <<Long(1, 3), Good(2), Long(2, 2), Good(2)>>}

AllModes == [incremental : BOOLEAN, last_log : BOOLEAN]
=============================================================================
