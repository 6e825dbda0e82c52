----------------------------- MODULE DnsResolver -----------------------------
(***************************************************************************)
(* The DNS resolver of src/src/dns_resolv.cpp: the application thread      *)
(* queues host nodes, a pool of worker threads looks each of them up in    *)
(* the DNS cache and, when it is not there, in GeoIP, ASN and DNS, and the *)
(* application thread retrieves the resolved ones.                         *)
(*                                                                         *)
(* The application thread is modelled by its most general client: it may   *)
(* call any public method whenever no other call is in progress.           *)
(* HostPipeline replaces it by the calls that webalizer_t makes.           *)
(*                                                                         *)
(* An action is what happens between two points at which another thread    *)
(* can observe a difference: a section under dnode_mutex (in which         *)
(* hqueue_mutex may be taken as well), or one call into the DNS cache.     *)
(***************************************************************************)
EXTENDS Integers, Sequences, FiniteSets

CONSTANTS
  Worker,         (* config.dns_children threads, at least one             *)
  Host,           (* host nodes with an IP address                         *)
  NoNode,         (* a worker that holds no dnode_t                        *)
  NoRecord,       (* DB_NOTFOUND                                           *)
  HasCache,       (* config.dns_cache is not empty: there is a Db handle   *)
  InitialDb,      (* the contents a DNS cache may have from earlier runs   *)
  WorkersThrow,   (* a worker may meet an exception                        *)
  MaxQueued       (* bound: dnode_t instances in the two queues            *)

(* What a DNS cache record is to a later lookup. fmt tells a record of the *)
(* V6 layout from one that this code wrote, which has the version number   *)
(* of V6 and the data of V7; fresh tells whether it is not older than      *)
(* dns_cache_ttl.                                                          *)
CacheRecord == [fmt : {"v6", "v6asn"}, fresh : BOOLEAN, spammer : BOOLEAN]

ASSUME ResolverAssumption ==
  /\ IsFiniteSet(Worker) /\ Worker # {}
  /\ NoNode \notin [host : Host, lookup : BOOLEAN, spammer : BOOLEAN]
  /\ NoRecord \notin CacheRecord
  /\ HasCache \in BOOLEAN
  /\ WorkersThrow \in BOOLEAN
  /\ InitialDb \subseteq [Host -> CacheRecord \cup {NoRecord}]
  /\ MaxQueued \in Nat

(***************************************************************************)
(* dnode_t: lookup is hnode # nullptr, a node without a host node only     *)
(* updates the cache. A host node has what the resolver reads or writes.   *)
(***************************************************************************)
DNode == [host : Host, lookup : BOOLEAN, spammer : BOOLEAN]
HNode == [resolved : BOOLEAN, spammer : BOOLEAN]
NewHNode == [resolved |-> FALSE, spammer |-> FALSE]

VARIABLES
  mpc,            (* where the application thread is                       *)
  hnode,          (* the host nodes, owned by the application thread       *)
  dnode_list,     (* unresolved nodes, guarded by dnode_mutex              *)
  hqueue,         (* resolved nodes, guarded by hqueue_mutex               *)
  dns_unresolved, (* nodes that are not done, guarded by dnode_mutex       *)
  dns_live_workers,
  dns_thread_stop,
  signalled,      (* dns_done_event, a manual-reset event                  *)
  wpc,            (* where each worker is                                  *)
  wnode,          (* nptr of each worker                                   *)
  cached,         (* cached of each worker                                 *)
  dns_db          (* the DNS cache database                                *)

mainVars == <<mpc, hnode>>
queueVars == <<dnode_list, hqueue, dns_unresolved, signalled>>
workerVars == <<wpc, wnode, cached>>
vars == <<mpc, hnode, dnode_list, hqueue, dns_unresolved, dns_live_workers,
          dns_thread_stop, signalled, wpc, wnode, cached, dns_db>>

MainPc == {"idle", "waiting", "polling", "aborting", "cleanup_abort",
           "cleanup", "closed", "threw"}
WorkerPc == {"top", "pop", "get", "resolve", "put", "finish", "exit", "dead"}

(* Workers that took a node off dnode_list and have not accounted for it.  *)
BusyPc == {"get", "resolve", "put", "finish"}
Busy == {w \in Worker : wpc[w] \in BusyPc}
Live == {w \in Worker : wpc[w] # "dead"}

(***************************************************************************)
(* The state dns_init leaves: the event was created signalled and every    *)
(* worker is counted before its thread starts.                             *)
(***************************************************************************)
Init ==
  /\ mpc = "idle"
  /\ hnode = [h \in Host |-> NewHNode]
  /\ dnode_list = <<>>
  /\ hqueue = <<>>
  /\ dns_unresolved = 0
  /\ dns_live_workers = Cardinality(Worker)
  /\ dns_thread_stop = FALSE
  /\ signalled = TRUE
  /\ wpc = [w \in Worker |-> "top"]
  /\ wnode = [w \in Worker |-> NoNode]
  /\ cached = [w \in Worker |-> FALSE]
  /\ dns_db \in InitialDb

-----------------------------------------------------------------------------
(* The application thread.                                                 *)

(* queue_dnode: a section under dnode_mutex                                *)
QueueDNode(d) ==
  /\ dnode_list' = Append(dnode_list, d)
  /\ signalled' = FALSE
  /\ dns_unresolved' = dns_unresolved + 1

(* The dnode_t put_hnode makes of a host node: an update of the cache if   *)
(* the host node went through the resolver before, a lookup otherwise. A   *)
(* lookup does not copy the spammer flag.                                  *)
NewDNode(h, hn) == [host |-> h, lookup |-> ~hn.resolved,
                    spammer |-> hn.resolved /\ hn.spammer]

(* put_hnode for an IP address. The caller may have set the spammer flag   *)
(* of its host node before the call.                                       *)
PutHNode(h, spam) ==
  /\ mpc = "idle"
  /\ Len(dnode_list) + Len(hqueue) < MaxQueued
  /\ LET hn == [hnode[h] EXCEPT !.spammer = @ \/ spam]
     IN  /\ hnode' = [hnode EXCEPT ![h] = hn]
         /\ QueueDNode(NewDNode(h, hn))
  /\ UNCHANGED <<mpc, hqueue, dns_live_workers, dns_thread_stop, workerVars,
                 dns_db>>

(* get_hnode on a queue that is not empty. The pop and the requeueing are  *)
(* two critical sections of different mutexes; a worker that runs between  *)
(* them commutes with the pop, so they are one step here.                  *)
GetHNode ==
  /\ mpc = "idle"
  /\ hqueue # <<>>
  /\ LET d  == Head(hqueue)
         hn == hnode[d.host]
     IN  /\ hnode' = [hnode EXCEPT ![d.host] =
                        [resolved |-> TRUE, spammer |-> hn.spammer \/ d.spammer]]
         /\ IF hn.spammer /\ ~d.spammer
              THEN QueueDNode([d EXCEPT !.lookup = FALSE])
              ELSE UNCHANGED <<dnode_list, signalled, dns_unresolved>>
  /\ hqueue' = Tail(hqueue)
  /\ UNCHANGED <<mpc, dns_live_workers, dns_thread_stop, workerVars, dns_db>>

(* The application deletes host nodes, and starts over with new ones. The  *)
(* resolver holds on to a pointer to the host node of every lookup, so the *)
(* caller must not delete one that a worker or get_hnode will still use.   *)
Referenced(h) ==
  \/ \E w \in Busy : wnode[w].lookup /\ wnode[w].host = h
  \/ \E i \in DOMAIN hqueue : hqueue[i].host = h
  \/ /\ Live # {}
     /\ \E i \in DOMAIN dnode_list : dnode_list[i].lookup /\ dnode_list[i].host = h

ForgetHNodes(S) ==
  /\ mpc = "idle"
  /\ \A h \in S : ~Referenced(h)
  /\ hnode' = [h \in Host |-> IF h \in S THEN NewHNode ELSE hnode[h]]
  /\ UNCHANGED <<mpc, queueVars, dns_live_workers, dns_thread_stop, workerVars,
                 dns_db>>

MainStep(from, to) ==
  /\ mpc = from
  /\ mpc' = to

(* dns_wait blocks on the event; if event_wait returns anything other than *)
(* EVENT_OK it polls dns_unresolved instead. A caller that aborted the     *)
(* resolver queues nothing before it waits (HostPipeline shows that).      *)
DnsWait ==
  /\ MainStep("idle", "waiting")
  /\ dns_thread_stop => signalled
  /\ UNCHANGED <<hnode, queueVars, dns_live_workers, dns_thread_stop,
                 workerVars, dns_db>>

WaitReturn ==
  /\ MainStep("waiting", "idle")
  /\ signalled
  /\ UNCHANGED <<hnode, queueVars, dns_live_workers, dns_thread_stop,
                 workerVars, dns_db>>

(* pthread_cond_timedwait may wake up spuriously: event_wait then returns  *)
(* EVENT_ERROR because its loop only retries on EINTR.                     *)
WaitSpurious ==
  /\ MainStep("waiting", "polling")
  /\ ~signalled
  /\ UNCHANGED <<hnode, queueVars, dns_live_workers, dns_thread_stop,
                 workerVars, dns_db>>

(* Variant: polls the list, although workers may still hold nodes.         *)
PollReturnList ==
  /\ MainStep("polling", "idle")
  /\ dnode_list = <<>>
  /\ UNCHANGED <<hnode, queueVars, dns_live_workers, dns_thread_stop,
                 workerVars, dns_db>>

PollReturn ==
  /\ MainStep("polling", "idle")
  /\ dns_unresolved = 0
  /\ UNCHANGED <<hnode, queueVars, dns_live_workers, dns_thread_stop,
                 workerVars, dns_db>>

(* dns_abort asks the workers to stop ...                                  *)
DnsAbort ==
  /\ MainStep("idle", "aborting")
  /\ dns_thread_stop' = TRUE
  /\ UNCHANGED <<hnode, queueVars, dns_live_workers, workerVars, dns_db>>

(* ... and sets the event when all of them did ...                        *)
AbortDone ==
  /\ \/ MainStep("aborting", "idle")
     \/ MainStep("cleanup_abort", "cleanup")
  /\ dns_live_workers = 0
  /\ signalled' = TRUE
  /\ UNCHANGED <<hnode, dnode_list, hqueue, dns_unresolved, dns_live_workers,
                 dns_thread_stop, workerVars, dns_db>>

(* ... or throws after 15 seconds. Only a call out of the program takes    *)
(* that long: every other step of a worker is a matter of milliseconds.    *)
AbortTimeout ==
  /\ \/ MainStep("aborting", "threw")
     \/ MainStep("cleanup_abort", "threw")
  /\ \E w \in Worker : wpc[w] \in {"get", "resolve", "put"}
  /\ UNCHANGED <<hnode, queueVars, dns_live_workers, dns_thread_stop,
                 workerVars, dns_db>>

(* dns_clean_up stops the workers first if there are any left (main calls  *)
(* it again after an exception), ...                                       *)
DnsCleanUp ==
  /\ mpc \in {"idle", "threw"}
  /\ \/ /\ dns_live_workers = 0
        /\ mpc' = "cleanup"
        /\ UNCHANGED dns_thread_stop
     \/ /\ dns_live_workers # 0
        /\ mpc' = "cleanup_abort"
        /\ dns_thread_stop' = TRUE
  /\ UNCHANGED <<hnode, queueVars, dns_live_workers, workerVars, dns_db>>

(* ... joins them and deletes the nodes that are left in the queues.       *)
CleanUpQueues ==
  /\ MainStep("cleanup", "closed")
  /\ dnode_list' = <<>>
  /\ hqueue' = <<>>
  /\ UNCHANGED <<hnode, dns_unresolved, signalled, dns_live_workers,
                 dns_thread_stop, workerVars, dns_db>>

-----------------------------------------------------------------------------
(* A worker thread: dns_worker_thread_proc and process_node.               *)

WorkerStep(w, from, to) ==
  /\ wpc[w] = from
  /\ wpc' = [wpc EXCEPT ![w] = to]

(* The loop condition. dns_thread_stop is read without a mutex, so a worker*)
(* may go on to one more node after it is set.                             *)
LoopTest(w) ==
  /\ WorkerStep(w, "top", IF dns_thread_stop THEN "exit" ELSE "pop")
  /\ UNCHANGED <<mainVars, queueVars, dns_live_workers, dns_thread_stop, wnode,
                 cached, dns_db>>

(* The first critical section of process_node, with an empty list ...      *)
PopNothing(w) ==
  /\ dnode_list = <<>>
  /\ WorkerStep(w, "pop", "top")
  /\ UNCHANGED <<mainVars, queueVars, dns_live_workers, dns_thread_stop, wnode,
                 cached, dns_db>>

(* ... and with a node to process, which the worker now holds.             *)
Taken(w) == [wnode EXCEPT ![w] = Head(dnode_list)]

PopDNode(w) ==
  /\ dnode_list # <<>>
  /\ WorkerStep(w, "pop", IF Head(dnode_list).lookup THEN "get" ELSE "put")
  /\ wnode' = Taken(w)
  /\ cached' = [cached EXCEPT ![w] = FALSE]
  /\ dnode_list' = Tail(dnode_list)
  /\ UNCHANGED <<mainVars, hqueue, dns_unresolved, signalled, dns_live_workers,
                 dns_thread_stop, dns_db>>

(* dns_db_get finds a record that reads back to its own size, which one    *)
(* with more data than its version has does not, and that is not too old.  *)
CacheHit(rec) == rec # NoRecord /\ rec.fmt = "v6" /\ rec.fresh

DbGet(w) ==
  /\ WorkerStep(w, "get", "resolve")
  /\ LET rec == dns_db[wnode[w].host]
         hit == HasCache /\ CacheHit(rec)
     IN  /\ cached' = [cached EXCEPT ![w] = hit]
         /\ wnode' = IF hit THEN [wnode EXCEPT ![w].spammer = rec.spammer]
                            ELSE wnode
  /\ UNCHANGED <<mainVars, queueVars, dns_live_workers, dns_thread_stop,
                 dns_db>>

(* GeoIP, ASN and DNS. An address that was not in the cache is always      *)
(* stored, one that was is stored again if a newer GeoIP or ASN database   *)
(* knows more about it.                                                    *)
Resolve(w) ==
  /\ \/ WorkerStep(w, "resolve", "put")
     \/ cached[w] /\ WorkerStep(w, "resolve", "finish")
  /\ UNCHANGED <<mainVars, queueVars, dns_live_workers, dns_thread_stop, wnode,
                 cached, dns_db>>

(* dns_db_put. runtime is the time stamp of the record, so it is fresh for *)
(* the rest of the run.                                                    *)
DbPut(w) ==
  /\ WorkerStep(w, "put", "finish")
  /\ dns_db' = IF HasCache
                 THEN [dns_db EXCEPT ![wnode[w].host] =
                         [fmt |-> "v6asn", fresh |-> TRUE,
                          spammer |-> wnode[w].spammer]]
                 ELSE dns_db
  /\ UNCHANGED <<mainVars, queueVars, dns_live_workers, dns_thread_stop, wnode,
                 cached>>

(* The last critical section of process_node returns a node that has a host*)
(* node (a variant returns all), counts it as done (a variant counts only  *)
(* lookups) and signals that there are no more (a variant tests the counter*)
(* before it counts).                                                      *)
ReturnedAll(w) == Append(hqueue, wnode[w])
Returned(w) == IF wnode[w].lookup THEN Append(hqueue, wnode[w]) ELSE hqueue

UnresolvedLookups(w) == IF wnode[w].lookup THEN dns_unresolved - 1 ELSE dns_unresolved
StillUnresolved(w) == dns_unresolved - 1

LastDoneLate(w) == dns_unresolved = 0
LastDone(w) == StillUnresolved(w) = 0

Finish(w) ==
  /\ WorkerStep(w, "finish", "top")
  /\ hqueue' = Returned(w)
  /\ dns_unresolved' = StillUnresolved(w)
  /\ signalled' = (LastDone(w) \/ signalled)
  /\ wnode' = [wnode EXCEPT ![w] = NoNode]
  /\ UNCHANGED <<mainVars, dnode_list, dns_live_workers, dns_thread_stop,
                 cached, dns_db>>

(* An exception between the two critical sections leaves the loop. The node*)
(* is not deleted, queued or counted.                                      *)
Throw(w) ==
  /\ WorkersThrow
  /\ \E from \in {"get", "resolve", "put"} : WorkerStep(w, from, "exit")
  /\ wnode' = [wnode EXCEPT ![w] = NoNode]
  /\ UNCHANGED <<mainVars, queueVars, dns_live_workers, dns_thread_stop,
                 cached, dns_db>>

(* dec_live_workers *)
Exit(w) ==
  /\ WorkerStep(w, "exit", "dead")
  /\ dns_live_workers' = dns_live_workers - 1
  /\ UNCHANGED <<mainVars, queueVars, dns_thread_stop, wnode, cached, dns_db>>

(* What a worker does by itself, and all that it may do.                   *)
WorkerProgress(w) ==
  \/ LoopTest(w)
  \/ PopNothing(w)
  \/ PopDNode(w)
  \/ DbGet(w)
  \/ Resolve(w)
  \/ DbPut(w)
  \/ Finish(w)
  \/ Exit(w)

WorkerNext(w) == WorkerProgress(w) \/ Throw(w)

MainNext ==
  \/ \E h \in Host, spam \in BOOLEAN : PutHNode(h, spam)
  \/ GetHNode
  \/ \E S \in SUBSET Host : ForgetHNodes(S)
  \/ DnsWait
  \/ WaitReturn
  \/ WaitSpurious
  \/ PollReturn
  \/ DnsAbort
  \/ AbortDone
  \/ AbortTimeout
  \/ DnsCleanUp
  \/ CleanUpQueues

(* The process may end once the resolver is closed or has thrown.          *)
Terminated ==
  /\ mpc \in {"closed", "threw"}
  /\ Live = {}
  /\ UNCHANGED vars

Next == MainNext \/ (\E w \in Worker : WorkerNext(w)) \/ Terminated

Spec == Init /\ [][Next]_vars

(* A worker thread is never suspended for good and a call it makes returns;*)
(* dns_wait goes on when what it waits for is there.                       *)
Fairness ==
  /\ \A w \in Worker : WF_vars(WorkerProgress(w))
  /\ WF_vars(WaitReturn)
  /\ WF_vars(PollReturn)
  /\ WF_vars(AbortDone)
  /\ WF_vars(CleanUpQueues)

FairSpec == Spec /\ Fairness

-----------------------------------------------------------------------------
(* What has to hold of the resolver.                                       *)

TypeOK ==
  /\ mpc \in MainPc
  /\ hnode \in [Host -> HNode]
  /\ dnode_list \in Seq(DNode)
  /\ hqueue \in Seq(DNode)
  /\ dns_unresolved \in Int
  /\ dns_live_workers \in Int
  /\ dns_thread_stop \in BOOLEAN
  /\ signalled \in BOOLEAN
  /\ wpc \in [Worker -> WorkerPc]
  /\ wnode \in [Worker -> DNode \cup {NoNode}]
  /\ \A w \in Worker : wpc[w] \in BusyPc => wnode[w] \in DNode
  /\ cached \in [Worker -> BOOLEAN]
  /\ dns_db \in [Host -> CacheRecord \cup {NoRecord}]

(* Every node that was queued is on the list, with a worker or counted as  *)
(* done: dns_unresolved, on which dns_wait depends, is the number of those *)
(* that are not done, and at most one more for each worker that left its   *)
(* loop with a node.                                                       *)
Outstanding == Len(dnode_list) + Cardinality(Busy)
Gone == {w \in Worker : wpc[w] \in {"exit", "dead"}}
Lost == IF WorkersThrow THEN Cardinality(Gone) ELSE 0
Accounted ==
  mpc # "closed" =>
    /\ Outstanding <= dns_unresolved
    /\ dns_unresolved <= Outstanding + Lost

(* The event says that there is nothing to wait for: unless the workers    *)
(* were stopped it is signalled exactly when no node is unresolved, so     *)
(* dns_wait neither returns early nor misses the wake-up.                  *)
EventMeansDone == ~dns_thread_stop => (signalled <=> dns_unresolved = 0)

(* dns_wait returns, by the event or by polling, to a caller that finds    *)
(* every host node it queued in hqueue: nothing is on the list and no      *)
(* worker holds a node (unless dns_abort released it).                     *)
WaitDelivers ==
  [][(mpc \in {"waiting", "polling"} /\ mpc' = "idle" /\ ~dns_thread_stop)
       => (dnode_list = <<>> /\ Busy = {})]_vars

(* A node without a host node is never handed to get_hnode, which would    *)
(* write through a null pointer: not from the list, and not when get_hnode *)
(* itself turned a resolved node into an update.                           *)
OnlyHostNodesReturned == \A i \in DOMAIN hqueue : hqueue[i].lookup

(* dns_clean_up closes the databases and frees the queues only when every  *)
(* worker has left its loop, those that met an exception included.         *)
CleanUpAlone == mpc \in {"cleanup", "closed"} => Live = {}

(* What the caller sees of the resolver: lookups that are not done, in the *)
(* list or with a worker, and host nodes that are ready. Updates of the    *)
(* cache are the resolver's own business.                                  *)
Looking(h) ==
  Cardinality({i \in DOMAIN dnode_list : dnode_list[i].lookup /\ dnode_list[i].host = h})
    + Cardinality({w \in Busy : wnode[w].lookup /\ wnode[w].host = h})
Ready(h) == Cardinality({i \in DOMAIN hqueue : hqueue[i].host = h})
CallerPc ==
  CASE mpc = "polling" -> "waiting"
    [] mpc = "aborting" -> "stopping"
    [] mpc \in {"cleanup_abort", "cleanup"} -> "closing"
    [] OTHER -> mpc

Service == INSTANCE ResolverService WITH
             CanLose <- WorkersThrow,
             caller  <- CallerPc,
             looking <- [h \in Host |-> Looking(h)],
             ready   <- [h \in Host |-> Ready(h)],
             stopped <- dns_thread_stop

(* The resolver keeps the promise of ResolverService: no lookup is lost,   *)
(* returned twice or returned before it is done, and dns_wait returns when *)
(* all are ready.                                                          *)
ImplementsService == Service!Spec

(* The comment in s_pack_data: a record is always stored as the latest     *)
(* version. So an address whose record is there and not too old is found,  *)
(* and not looked up in DNS again.                                         *)
StoredIsFound ==
  [][\A w \in Worker :
       LET rec == dns_db[wnode[w].host]
       IN  HasCache /\ wpc[w] = "get" /\ wpc'[w] = "resolve" /\ rec # NoRecord /\ rec.fresh
             => cached'[w]]_vars
=============================================================================
