---------------------------- MODULE HostPipeline ----------------------------
(***************************************************************************)
(* The host nodes of a run of webalizer_t::proc_logfile (webalizer.cpp)    *)
(* and their way through the DNS resolver: a log record finds or makes a   *)
(* host node and its visit, a new host or a new spammer is queued, visits  *)
(* that end are added to host groups and countries when their host is      *)
(* resolved and kept with the host until then, and host nodes leave memory *)
(* when the hash table is swapped out, at the end of a month and at the    *)
(* end of the run.                                                         *)
(*                                                                         *)
(* The resolver's own actions and the workers come from DnsResolver; this  *)
(* module is the application thread that drives them.                      *)
(***************************************************************************)
EXTENDS DnsResolver

CONSTANTS
  HostName,     (* hosts logged by name: AcceptHostNames                   *)
  Spammer,      (* hosts that may send a spam request                      *)
  CanSwapOut,   (* the hosts a full hash table may push out of memory      *)
  CanAbort,     (* Ctrl-C may be pressed                                   *)
  Incremental,  (* config.incremental and not config.last_log              *)
  MaxRecords    (* bound: log records in the run                           *)

ASSUME PipelineAssumption ==
  /\ HostName \cap Host = {}
  /\ Spammer \subseteq Host
  /\ CanSwapOut \subseteq Host \cup HostName /\ CanAbort \in BOOLEAN /\ Incremental \in BOOLEAN
  /\ MaxRecords \in Nat

AnyHost == Host \cup HostName

VARIABLES
  phase,        (* where proc_logfile is                                   *)
  records,      (* log records read                                        *)
  fresh_month,  (* no record of the current month was processed yet        *)
  in_memory,    (* hosts in hm_htab                                        *)
  stored,       (* hosts in the state database                             *)
  visit,        (* hosts with an active visit                              *)
  grp_visit     (* ended visits a host keeps until it is resolved          *)

pipeVars == <<records, fresh_month, in_memory, stored, visit, grp_visit>>
allVars == <<vars, phase, pipeVars>>

PipeInit ==
  /\ Init
  /\ phase = "read"
  /\ records = 0
  /\ fresh_month = TRUE
  /\ in_memory = {}
  /\ stored = {}
  /\ visit = {}
  /\ grp_visit = [h \in AnyHost |-> 0]

-----------------------------------------------------------------------------

(* A host that was logged by name is never marked as resolved; one that    *)
(* was read from the state database always is.                             *)
Resolved(h) == h \in Host /\ hnode[h].resolved

(* end_visit for a set of hosts: the visit of a resolved host is grouped   *)
(* right away, that of any other host is kept with the host. The variant   *)
(* keeps them all.                                                         *)
KeptAll(S) == [h \in AnyHost |->
                 IF h \in S \cap visit THEN grp_visit[h] + 1 ELSE grp_visit[h]]

Kept(S) == [h \in AnyHost |->
              IF h \in S \cap visit /\ ~Resolved(h)
                THEN grp_visit[h] + 1
                ELSE grp_visit[h]]

Goto(from, to) ==
  /\ phase = from
  /\ phase' = to

(* put_hnode of a record from host h: the host is in the hash table, or it *)
(* is read from the state database, or it is new. Its visit may have timed *)
(* out. ResolverCall is dns_resolver_t::put_hnode, for a host that is new  *)
(* or that was not known to be a spammer.                                  *)
ReadRecord(h, spam, timedout) ==
  /\ Goto("read", "retrieve")
  /\ mpc = "idle"
  /\ records < MaxRecords
  /\ spam => h \in Spammer
  /\ timedout => h \in visit
  /\ records' = records + 1
  /\ fresh_month' = FALSE
  /\ in_memory' = in_memory \cup {h}
  /\ stored' = stored
  /\ visit' = visit \cup {h}
  /\ grp_visit' = IF timedout THEN Kept({h}) ELSE grp_visit
  /\ LET newhost    == h \notin in_memory \cup stored
         newspammer == spam /\ ~hnode[h].spammer
     IN  IF h \in Host /\ (newhost \/ newspammer)
           THEN PutHNode(h, spam)
           ELSE UNCHANGED vars

(* process_resolved_hosts: one host from get_hnode, all of whose visits    *)
(* are grouped, ...                                                        *)
Retrieve ==
  /\ phase \in {"retrieve", "month_retrieve", "end_retrieve"}
  /\ GetHNode
  /\ grp_visit' = [grp_visit EXCEPT ![Head(hqueue).host] = 0]
  /\ UNCHANGED <<phase, records, fresh_month, in_memory, stored, visit>>

(* ... until there are none.                                               *)
RetrieveEnd ==
  /\ Goto("retrieve", "read")
  /\ hqueue = <<>>
  /\ UNCHANGED <<vars, pipeVars>>

(* eval_hnode_cb: active downloads, which also keep a host in memory, are  *)
(* left out.                                                               *)
EvalHNode(h) == grp_visit[h] = 0 /\ Resolved(h)

(* state_t::swap_out drops a host that was not seen for a while. Its visit *)
(* is ended and grouped, and the node is stored and deleted.               *)
SwapOut(h) ==
  /\ h \in CanSwapOut
  /\ phase = "read"
  /\ h \in in_memory
  /\ EvalHNode(h)
  /\ in_memory' = in_memory \ {h}
  /\ stored' = stored \cup {h}
  /\ visit' = visit \ {h}
  /\ grp_visit' = Kept({h})
  /\ UNCHANGED <<vars, phase, records, fresh_month>>

(* A record of the next month: wait for the resolver (the variant does     *)
(* not), ...                                                               *)
NewMonthNoWait ==
  /\ Goto("read", "month_wait")
  /\ records < MaxRecords
  /\ ~fresh_month
  /\ mpc = "idle"
  /\ UNCHANGED <<vars, pipeVars>>

NewMonth ==
  /\ Goto("read", "month_wait")
  /\ records < MaxRecords
  /\ ~fresh_month
  /\ DnsWait
  /\ UNCHANGED pipeVars

(* ... end all visits, ...                                                 *)
MonthEndVisits ==
  /\ Goto("month_wait", "month_retrieve")
  /\ mpc = "idle"
  /\ grp_visit' = Kept(visit)
  /\ visit' = {}
  /\ UNCHANGED <<vars, records, fresh_month, in_memory, stored>>

(* ... group what was resolved (not all of it in the variant), and save and*)
(* clear the state.                                                        *)
ClearState ==
  /\ hnode' = [h \in Host |-> NewHNode]
  /\ fresh_month' = TRUE
  /\ in_memory' = {}
  /\ stored' = {}
  /\ grp_visit' = [h \in AnyHost |-> 0]
  /\ UNCHANGED <<mpc, queueVars, dns_live_workers, dns_thread_stop, workerVars,
                 dns_db, records, visit>>

MonthClearEarly ==
  /\ Goto("month_retrieve", "read")
  /\ ClearState

MonthClear ==
  /\ Goto("month_retrieve", "read")
  /\ hqueue = <<>>
  /\ ClearState

(* The log files are at their end: without a good record there is nothing  *)
(* to save.                                                                *)
EndOfLogs ==
  \/ /\ Goto("read", "end_wait")
     /\ records > 0
     /\ DnsWait
     /\ UNCHANGED pipeVars
  \/ /\ Goto("read", "clean")
     /\ records = 0
     /\ UNCHANGED <<vars, pipeVars>>

(* Ctrl-C was pressed and the loop left.                                   *)
CtrlC ==
  /\ CanAbort
  /\ Goto("read", "abort")
  /\ DnsAbort
  /\ UNCHANGED pipeVars

(* dns_abort returned: the end of the run is the same from here on.        *)
Aborted ==
  \/ /\ Goto("abort", "end_wait")
     /\ records > 0
     /\ DnsWait
     /\ UNCHANGED pipeVars
  \/ /\ Goto("abort", "clean")
     /\ mpc = "idle"
     /\ records = 0
     /\ UNCHANGED <<vars, pipeVars>>

(* The end of the run ends all visits, or, in the incremental mode, those  *)
(* that timed out.                                                         *)
EndVisits ==
  /\ Goto("end_wait", "end_retrieve")
  /\ mpc = "idle"
  /\ \E S \in SUBSET visit :
       /\ Incremental \/ S = visit
       /\ grp_visit' = Kept(S)
       /\ visit' = visit \ S
  /\ UNCHANGED <<vars, records, fresh_month, in_memory, stored>>

(* save_state stores all hosts and clears the hash table.                  *)
SaveState ==
  /\ Goto("end_retrieve", "clean")
  /\ hqueue = <<>>
  /\ stored' = stored \cup in_memory
  /\ in_memory' = {}
  /\ UNCHANGED <<vars, records, fresh_month, visit, grp_visit>>

(* webalizer_t::cleanup                                                    *)
Clean ==
  /\ Goto("clean", "cleaning")
  /\ DnsCleanUp
  /\ UNCHANGED pipeVars

(* An exception reached main, which cleans up, for a second time if it     *)
(* came from the first: dns_abort threw, or a log file could not be read.  *)
CleanUpAfterError ==
  /\ \/ phase \in {"abort", "cleaning"} /\ mpc = "threw"
     \/ phase = "read"
  /\ phase' = "last_cleaning"
  /\ DnsCleanUp
  /\ UNCHANGED pipeVars

Done ==
  /\ \/ Goto("cleaning", "done") /\ mpc = "closed"
     \/ Goto("last_cleaning", "done") /\ mpc \in {"closed", "threw"}
  /\ UNCHANGED <<vars, pipeVars>>

-----------------------------------------------------------------------------

(* The resolver calls in progress go on by themselves.                     *)
ResolverReturns ==
  /\ WaitReturn \/ WaitSpurious \/ PollReturn \/ AbortDone \/ AbortTimeout
       \/ CleanUpQueues
  /\ UNCHANGED <<phase, pipeVars>>

Workers ==
  /\ \E w \in Worker : WorkerNext(w)
  /\ UNCHANGED <<phase, pipeVars>>

MainStepNext ==
  \/ \E h \in AnyHost, spam, timedout \in BOOLEAN : ReadRecord(h, spam, timedout)
  \/ Retrieve
  \/ RetrieveEnd
  \/ \E h \in AnyHost : SwapOut(h)
  \/ NewMonth
  \/ MonthEndVisits
  \/ MonthClear
  \/ EndOfLogs
  \/ CtrlC
  \/ Aborted
  \/ EndVisits
  \/ SaveState
  \/ Clean
  \/ CleanUpAfterError
  \/ Done

Finished ==
  /\ phase = "done"
  /\ Live = {}
  /\ UNCHANGED allVars

PipeNext ==
  \/ MainStepNext
  \/ ResolverReturns
  \/ Workers
  \/ Finished

PipeSpec == PipeInit /\ [][PipeNext]_allVars

(* The threads of the program run, and the log files have an end.          *)
FairPipeSpec ==
  /\ PipeSpec
  /\ \A w \in Worker : WF_allVars(WorkerProgress(w) /\ UNCHANGED <<phase, pipeVars>>)
  /\ WF_allVars(WaitReturn /\ UNCHANGED <<phase, pipeVars>>)
  /\ WF_allVars(PollReturn /\ UNCHANGED <<phase, pipeVars>>)
  /\ WF_allVars(AbortDone /\ UNCHANGED <<phase, pipeVars>>)
  /\ WF_allVars(CleanUpQueues /\ UNCHANGED <<phase, pipeVars>>)
  /\ WF_allVars(MainStepNext)

-----------------------------------------------------------------------------

(* The comment in eval_hnode_cb: a host that is still in the resolver      *)
(* pipeline is not swapped out. A lookup holds a pointer to its host node, *)
(* which a worker or get_hnode will follow, so that node is in memory.     *)
NoDanglingHost == \A h \in Host : Referenced(h) => h \in in_memory

(* The comment in ~hnode_t: a host node that is deleted has no visits left *)
(* that were not added to groups and countries. (After Ctrl-C unresolved   *)
(* hosts are saved as they are, and hosts that were logged by name never   *)
(* reach the resolver: their visits are never grouped.)                    *)
EveryVisitGrouped ==
  [][\A h \in Host :
       h \in in_memory /\ h \notin in_memory' /\ ~dns_thread_stop
         => grp_visit[h] = 0]_allVars

(* A visit that waits for its host to be resolved belongs to a host that   *)
(* the resolver will return: it is in the pipeline. (The workers may have  *)
(* been stopped; the host may be a name.)                                  *)
KeptVisitWillBeGrouped ==
  \A h \in Host :
    grp_visit[h] > 0 /\ phase # "done" =>
      \/ Referenced(h)
      \/ dns_thread_stop

(* A run ends: with the resolver closed, or with an error after the        *)
(* workers could not be stopped, but never blocked in dns_wait.            *)
RunEnds == <>(phase = "done")
=============================================================================
