-------------------------- MODULE HostPipelineProofs --------------------------
(***************************************************************************)
(* Proofs about DnsResolver, for any number of workers, hosts and queued   *)
(* nodes, any DNS cache, and workers that may meet an exception: what its  *)
(* queues and its counter say, and that it implements ResolverService, so  *)
(* that two queues, a counter and a pool of threads look like one bag of   *)
(* lookups to the application thread. Then about HostPipeline: the calls   *)
(* that webalizer_t makes are calls that the resolver allows, no host node *)
(* is deleted that the resolver will use, and no visit is lost that waits  *)
(* for its host to be resolved.                                            *)
(***************************************************************************)
EXTENDS HostPipeline, FiniteSetTheorems, SequenceTheorems, TLAPS

(* Only Terminated leaves all variables alone.                             *)
LEMMA StutterTypeOK == ASSUME TypeOK, UNCHANGED vars PROVE TypeOK'
  BY DEF TypeOK, vars

(* The types hold when dns_init has returned.                              *)
LEMMA InitTypeOK == Init => TypeOK
<1> SUFFICES ASSUME Init PROVE TypeOK
  OBVIOUS
<1>1. IsFiniteSet(Worker) /\ InitialDb \subseteq [Host -> CacheRecord \cup {NoRecord}]
  BY ResolverAssumption DEF ResolverAssumption
<1>2. Cardinality(Worker) \in Int
  BY <1>1, FS_CardinalityType
<1>3. hnode \in [Host -> HNode]
  BY DEF Init, NewHNode, HNode
<1>4. dnode_list \in Seq(DNode) /\ hqueue \in Seq(DNode)
  BY EmptySeq DEF Init
<1>5. \A w \in Worker : wpc[w] \notin BusyPc
  BY DEF Init, BusyPc
<1>6. wpc \in [Worker -> WorkerPc] /\ wnode \in [Worker -> DNode \cup {NoNode}]
  BY DEF Init, WorkerPc
<1>7. cached \in [Worker -> BOOLEAN] /\ dns_db \in [Host -> CacheRecord \cup {NoRecord}]
  BY <1>1 DEF Init
<1>8. /\ mpc \in MainPc
      /\ dns_unresolved \in Int
      /\ dns_live_workers \in Int
  BY <1>2 DEF Init, MainPc
<1>9. dns_thread_stop \in BOOLEAN /\ signalled \in BOOLEAN
  BY Zenon DEF Init
<1>. QED
  BY <1>3, <1>4, <1>5, <1>6, <1>7, <1>8, <1>9 DEF TypeOK

(* The steps of the application thread preserve the types.                 *)
LEMMA QueueDNodeType ==
  ASSUME TypeOK, NEW d \in DNode, QueueDNode(d)
  PROVE  /\ dnode_list' \in Seq(DNode)
         /\ dns_unresolved' \in Int
         /\ signalled' \in BOOLEAN
<1>1. dnode_list \in Seq(DNode) /\ dns_unresolved \in Int
  BY DEF TypeOK
<1>2. dnode_list' = Append(dnode_list, d) /\ dns_unresolved' = dns_unresolved + 1
  BY DEF QueueDNode
<1>3. Append(dnode_list, d) \in Seq(DNode)
  BY <1>1, AppendProperties
<1>4. signalled' \in BOOLEAN
  BY Zenon DEF QueueDNode
<1>. QED
  BY <1>1, <1>2, <1>3, <1>4

(* Each step of the application thread keeps them.                         *)
LEMMA MainTypeOK == ASSUME TypeOK, MainNext PROVE TypeOK'
<1>1. ASSUME NEW h \in Host, NEW spam \in BOOLEAN, PutHNode(h, spam) PROVE TypeOK'
  <2> DEFINE hn == [hnode[h] EXCEPT !.spammer = @ \/ spam]
  <2>1. hn \in HNode
    BY DEF TypeOK, HNode
  <2>2. NewDNode(h, hn) \in DNode
    BY <2>1 DEF NewDNode, HNode, DNode
  <2>3. hnode' = [hnode EXCEPT ![h] = hn] /\ QueueDNode(NewDNode(h, hn))
    BY <1>1 DEF PutHNode
  <2> HIDE DEF hn
  <2>4. hnode' \in [Host -> HNode]
    BY <2>1, <2>3 DEF TypeOK
  <2>5. /\ dnode_list' \in Seq(DNode)
        /\ dns_unresolved' \in Int
        /\ signalled' \in BOOLEAN
    BY <2>2, <2>3, QueueDNodeType
  <2>. QED
    BY <1>1, <2>4, <2>5 DEF TypeOK, PutHNode, workerVars
<1>2. CASE GetHNode
  <2> DEFINE d == Head(hqueue)
  <2>1. d \in DNode /\ Tail(hqueue) \in Seq(DNode)
    BY <1>2, HeadTailProperties DEF GetHNode, TypeOK
  <2>2. hnode' \in [Host -> HNode]
    BY <1>2, <2>1 DEF GetHNode, TypeOK, HNode, DNode
  <2>3. [d EXCEPT !.lookup = FALSE] \in DNode
    BY <2>1 DEF DNode
  <2>4. /\ dnode_list' \in Seq(DNode)
        /\ dns_unresolved' \in Int
        /\ signalled' \in BOOLEAN
    <3>1. CASE QueueDNode([d EXCEPT !.lookup = FALSE])
      BY <2>3, <3>1, QueueDNodeType
    <3>2. CASE UNCHANGED <<dnode_list, signalled, dns_unresolved>>
      BY <3>2 DEF TypeOK
    <3>. QED
      BY <1>2, <3>1, <3>2 DEF GetHNode
  <2>. QED
    BY <1>2, <2>1, <2>2, <2>4 DEF GetHNode, TypeOK, workerVars
<1>3. ASSUME NEW S \in SUBSET Host, ForgetHNodes(S) PROVE TypeOK'
  <2>1. hnode' \in [Host -> HNode]
    BY <1>3 DEF ForgetHNodes, TypeOK, HNode, NewHNode
  <2>. QED
    BY <1>3, <2>1 DEF ForgetHNodes, TypeOK, queueVars, workerVars
<1>4. CASE DnsWait \/ WaitReturn \/ WaitSpurious \/ PollReturn \/ DnsAbort \/ AbortTimeout
  BY <1>4 DEF DnsWait, WaitReturn, WaitSpurious, PollReturn, DnsAbort, AbortTimeout,
              MainStep, MainPc, TypeOK, queueVars, workerVars
<1>5. CASE AbortDone \/ DnsCleanUp
  BY <1>5 DEF AbortDone, DnsCleanUp, MainStep, MainPc, TypeOK, queueVars, workerVars
<1>6. CASE CleanUpQueues
  BY <1>6, EmptySeq DEF CleanUpQueues, MainStep, MainPc, TypeOK, workerVars
<1>. QED
  BY <1>1, <1>2, <1>3, <1>4, <1>5, <1>6 DEF MainNext

(* So do those of a worker.                                                *)
LEMMA WorkerTypeOK ==
  ASSUME TypeOK, NEW w \in Worker, WorkerNext(w)
  PROVE  TypeOK'
<1>1. CASE LoopTest(w) \/ PopNothing(w) \/ Resolve(w) \/ Exit(w)
  <2>1. wpc' \in [Worker -> WorkerPc]
    BY <1>1 DEF LoopTest, PopNothing, Resolve, Exit, WorkerStep, TypeOK, WorkerPc
  <2>2. \A v \in Worker : wpc'[v] \in BusyPc => wpc[v] \in BusyPc
    BY <1>1 DEF LoopTest, PopNothing, Resolve, Exit, WorkerStep, TypeOK, BusyPc
  <2>3. dns_live_workers' \in Int
    BY <1>1 DEF LoopTest, PopNothing, Resolve, Exit, TypeOK
  <2>. QED
    BY <1>1, <2>1, <2>2, <2>3
       DEF LoopTest, PopNothing, Resolve, Exit, TypeOK, mainVars, queueVars
<1>2. CASE PopDNode(w)
  <2>1. Head(dnode_list) \in DNode /\ Tail(dnode_list) \in Seq(DNode)
    BY <1>2, HeadTailProperties DEF PopDNode, TypeOK
  <2>2. wpc' \in [Worker -> WorkerPc] /\ wpc' = [wpc EXCEPT ![w] = wpc'[w]]
    BY <1>2 DEF PopDNode, WorkerStep, TypeOK, WorkerPc
  <2>3. wnode' \in [Worker -> DNode \cup {NoNode}] /\ wnode'[w] \in DNode
        /\ \A v \in Worker \ {w} : wnode'[v] = wnode[v]
    BY <1>2, <2>1 DEF PopDNode, Taken, TypeOK
  <2>4. \A v \in Worker : wpc'[v] \in BusyPc => wnode'[v] \in DNode
    BY <2>2, <2>3 DEF TypeOK
  <2>5. cached' \in [Worker -> BOOLEAN]
    BY <1>2 DEF PopDNode, TypeOK
  <2>. QED
    BY <1>2, <2>1, <2>2, <2>3, <2>4, <2>5 DEF PopDNode, TypeOK, mainVars
<1>3. CASE DbGet(w)
  <2> DEFINE rec == dns_db[wnode[w].host]
             hit == HasCache /\ CacheHit(rec)
  <2>1. wpc[w] = "get" /\ wpc' = [wpc EXCEPT ![w] = "resolve"]
    BY <1>3 DEF DbGet, WorkerStep
  <2>2. wpc' \in [Worker -> WorkerPc] /\ wnode[w] \in DNode
    BY <2>1 DEF TypeOK, WorkerPc, BusyPc
  <2>3. hit => rec.spammer \in BOOLEAN
    BY <2>2 DEF TypeOK, CacheHit, CacheRecord, DNode
  <2>4. hit => [wnode[w] EXCEPT !.spammer = rec.spammer] \in DNode
    BY <2>2, <2>3 DEF DNode
  <2>5. wnode' = [wnode EXCEPT ![w] = wnode'[w]] /\ wnode'[w] \in DNode
    BY <1>3, <2>2, <2>4 DEF DbGet, TypeOK
  <2>6. \A v \in Worker : wpc'[v] \in BusyPc => wnode'[v] \in DNode
    BY <2>1, <2>5 DEF TypeOK
  <2>7. cached' \in [Worker -> BOOLEAN]
    BY <1>3, ResolverAssumption DEF DbGet, TypeOK, CacheHit, ResolverAssumption
  <2>. QED
    BY <1>3, <2>2, <2>5, <2>6, <2>7 DEF DbGet, TypeOK, mainVars, queueVars
<1>4. CASE DbPut(w)
  <2>1. wpc[w] = "put" /\ wpc' = [wpc EXCEPT ![w] = "finish"]
    BY <1>4 DEF DbPut, WorkerStep
  <2>2. wnode[w] \in DNode
    BY <2>1 DEF TypeOK, BusyPc
  <2>3. wpc' \in [Worker -> WorkerPc]
        /\ \A v \in Worker : wpc'[v] \in BusyPc => wnode[v] \in DNode
    BY <2>1, <2>2 DEF TypeOK, WorkerPc, BusyPc
  <2>4. [fmt |-> "v6asn", fresh |-> TRUE, spammer |-> wnode[w].spammer] \in CacheRecord
    BY <2>2 DEF CacheRecord, DNode
  <2>5. dns_db' \in [Host -> CacheRecord \cup {NoRecord}]
    BY <1>4, <2>4 DEF DbPut, TypeOK
  <2>. QED
    BY <1>4, <2>3, <2>5 DEF DbPut, TypeOK, mainVars, queueVars
<1>5. CASE Finish(w)
  <2>1. wpc[w] = "finish" /\ wpc' = [wpc EXCEPT ![w] = "top"]
    BY <1>5 DEF Finish, WorkerStep
  <2>2. wnode[w] \in DNode
    BY <2>1 DEF TypeOK, BusyPc
  <2>3. hqueue' \in Seq(DNode) /\ dns_unresolved' \in Int
    BY <1>5, <2>2, AppendProperties DEF Finish, Returned, StillUnresolved, TypeOK
  <2>4. signalled' \in BOOLEAN
    BY <1>5 DEF Finish, TypeOK
  <2>5. wpc' \in [Worker -> WorkerPc] /\ wnode' \in [Worker -> DNode \cup {NoNode}]
        /\ \A v \in Worker : wpc'[v] \in BusyPc => wnode'[v] \in DNode
    BY <1>5, <2>1 DEF Finish, TypeOK, WorkerPc, BusyPc
  <2>. QED
    BY <1>5, <2>3, <2>4, <2>5 DEF Finish, TypeOK, mainVars
<1>6. CASE Throw(w)
  <2>1. wpc' = [wpc EXCEPT ![w] = "exit"] /\ wnode' = [wnode EXCEPT ![w] = NoNode]
    BY <1>6 DEF Throw, WorkerStep
  <2>2. wpc' \in [Worker -> WorkerPc] /\ wnode' \in [Worker -> DNode \cup {NoNode}]
        /\ \A v \in Worker : wpc'[v] \in BusyPc => wnode'[v] \in DNode
    BY <2>1 DEF TypeOK, WorkerPc, BusyPc
  <2>. QED
    BY <1>6, <2>2 DEF Throw, TypeOK, mainVars, queueVars
<1>. QED
  BY <1>1, <1>2, <1>3, <1>4, <1>5, <1>6 DEF WorkerNext, WorkerProgress

(***************************************************************************)
(* Every variable keeps its type: the worker that looks a node up, stores  *)
(* it or returns it always holds one.                                      *)
(***************************************************************************)
THEOREM TypeCorrect == Spec => []TypeOK
<1>1. TypeOK /\ [Next]_vars => TypeOK'
  BY MainTypeOK, WorkerTypeOK, StutterTypeOK DEF Next, Terminated
<1>. QED
  BY InitTypeOK, <1>1, PTL DEF Spec

-----------------------------------------------------------------------------
(***************************************************************************)
(* The counters. Safe is inductive: to it belong the number of live        *)
(* workers, which dns_abort and dns_clean_up rely on, and that whoever gave*)
(* up on the workers had asked them to stop.                               *)
(***************************************************************************)
LiveCounted == dns_live_workers = Cardinality(Live)
StopRequested == mpc \in {"aborting", "cleanup_abort", "threw"} => dns_thread_stop

Safe ==
  /\ TypeOK
  /\ LiveCounted
  /\ StopRequested
  /\ CleanUpAlone
  /\ Accounted
  /\ EventMeansDone
  /\ OnlyHostNodesReturned

(* A worker that goes from one place to another is counted out of any set  *)
(* of places that has the first and into any that has the second.          *)
At(f, P) == {v \in Worker : f[v] \in P}
One(e, P) == IF e \in P THEN 1 ELSE 0

(* Sets of workers can be counted.                                         *)
LEMMA WorkersFinite ==
  ASSUME NEW S \in SUBSET Worker
  PROVE  IsFiniteSet(S) /\ Cardinality(S) \in Nat
  BY ResolverAssumption, FS_Subset, FS_CardinalityType DEF ResolverAssumption

(* When one worker moves to x, those at P are one more, one less, or as    *)
(* many.                                                                   *)
LEMMA MoveCount ==
  ASSUME NEW f \in [Worker -> WorkerPc], NEW w \in Worker, NEW x \in WorkerPc,
         NEW g \in [Worker -> WorkerPc], NEW P,
         g[w] = x, \A v \in Worker \ {w} : g[v] = f[v]
  PROVE  Cardinality(At(g, P))
           = Cardinality(At(f, P)) + One(x, P) - One(f[w], P)
<1> DEFINE S == At(f, P)
           T == At(g, P)
<1>1. IsFiniteSet(S) /\ Cardinality(S) \in Nat
  BY WorkersFinite DEF At
<1>2. w \in S <=> f[w] \in P
  BY DEF At
<1>3. x \in P => T = S \cup {w}
  BY DEF At
<1>4. x \notin P => T = S \ {w}
  BY DEF At
<1> HIDE DEF S, T
<1>5. CASE x \in P
  <2>1. Cardinality(T) = IF w \in S THEN Cardinality(S) ELSE Cardinality(S) + 1
    BY <1>1, <1>3, <1>5, FS_AddElement
  <2>. QED
    BY <1>1, <1>2, <1>5, <2>1 DEF One, S, T
<1>6. CASE x \notin P
  <2>1. Cardinality(T) = IF w \in S THEN Cardinality(S) - 1 ELSE Cardinality(S)
    BY <1>1, <1>4, <1>6, FS_RemoveElement
  <2>. QED
    BY <1>1, <1>2, <1>6, <2>1 DEF One, S, T
<1>. QED
  BY <1>5, <1>6

(* The same for the three sets of workers that are counted: busy, gone     *)
(* and live.                                                               *)
LEMMA WorkerMoves ==
  ASSUME TypeOK, NEW w \in Worker, NEW from, NEW x \in WorkerPc, WorkerStep(w, from, x)
  PROVE  /\ wpc[w] = from
         /\ Cardinality(Busy) \in Nat /\ Cardinality(Gone) \in Nat /\ Cardinality(Live) \in Nat
         /\ Cardinality(Busy)' = Cardinality(Busy) + One(x, BusyPc) - One(from, BusyPc)
         /\ Cardinality(Gone)' = Cardinality(Gone) + One(x, {"exit", "dead"})
                                   - One(from, {"exit", "dead"})
         /\ Cardinality(Live)' = Cardinality(Live) - One(x, {"dead"}) + One(from, {"dead"})
<1> DEFINE LivePc == WorkerPc \ {"dead"}
<1>1. /\ wpc \in [Worker -> WorkerPc] /\ wpc' \in [Worker -> WorkerPc]
      /\ wpc[w] = from /\ wpc'[w] = x
      /\ \A v \in Worker \ {w} : wpc'[v] = wpc[v]
  BY DEF WorkerStep, TypeOK
<1>2. /\ Busy = At(wpc, BusyPc) /\ Busy' = At(wpc', BusyPc)
      /\ Gone = At(wpc, {"exit", "dead"}) /\ Gone' = At(wpc', {"exit", "dead"})
  BY DEF Busy, Gone, At
<1>3. Live = At(wpc, LivePc) /\ Live' = At(wpc', LivePc)
  BY <1>1 DEF Live, At
<1>4. Cardinality(Busy) \in Nat /\ Cardinality(Gone) \in Nat /\ Cardinality(Live) \in Nat
  BY WorkersFinite DEF Busy, Gone, Live
<1>5. ASSUME NEW P
      PROVE  Cardinality(At(wpc', P))
               = Cardinality(At(wpc, P)) + One(x, P) - One(wpc[w], P)
  BY <1>1, MoveCount
<1>6. One(x, LivePc) = 1 - One(x, {"dead"}) /\ One(wpc[w], LivePc) = 1 - One(wpc[w], {"dead"})
  BY <1>1 DEF One
<1>7. One(x, {"dead"}) \in Int /\ One(wpc[w], {"dead"}) \in Int
  BY DEF One
<1> HIDE DEF LivePc
<1>8. Cardinality(Live)' = Cardinality(Live) + One(x, LivePc) - One(wpc[w], LivePc)
  BY <1>3, <1>5
<1>9. Cardinality(Live)' = Cardinality(Live) - One(x, {"dead"}) + One(wpc[w], {"dead"})
  BY <1>4, <1>6, <1>7, <1>8
<1>. QED
  BY <1>1, <1>2, <1>4, <1>5, <1>9

(* The steps of a worker preserve the counters and what they say.          *)
LEMMA WorkerSafe ==
  ASSUME Safe, NEW w \in Worker, WorkerNext(w)
  PROVE  /\ LiveCounted'
         /\ CleanUpAlone'
         /\ Accounted'
         /\ EventMeansDone'
         /\ OnlyHostNodesReturned'
<1>1. /\ TypeOK /\ wpc \in [Worker -> WorkerPc]
      /\ Len(dnode_list) \in Nat /\ dns_unresolved \in Int /\ dns_live_workers \in Int
  BY LenProperties DEF Safe, TypeOK
<1>2. /\ Outstanding <= dns_unresolved
      /\ dns_unresolved <= Outstanding + Lost
      /\ mpc \notin {"cleanup", "closed"}
  BY DEF Safe, CleanUpAlone, Live, Accounted, WorkerNext, WorkerProgress, LoopTest, PopNothing,
         PopDNode, DbGet, Resolve, DbPut, Finish, Throw, Exit, WorkerStep
<1>3. mpc' = mpc /\ dns_thread_stop' = dns_thread_stop
  BY DEF WorkerNext, WorkerProgress, LoopTest, PopNothing, PopDNode, DbGet, Resolve, DbPut,
         Finish, Throw, Exit, mainVars
<1>4. CleanUpAlone'
  BY <1>2, <1>3 DEF CleanUpAlone
<1> DEFINE Counts == LiveCounted' /\ Accounted' /\ EventMeansDone' /\ OnlyHostNodesReturned'
(* Steps that neither take nor return a node.                              *)
<1>5. ASSUME NEW from \in WorkerPc, NEW to \in WorkerPc, WorkerStep(w, from, to),
             from # "dead", One(from, BusyPc) = One(to, BusyPc),
             One(from, {"exit", "dead"}) <= One(to, {"exit", "dead"}),
             UNCHANGED queueVars, dns_live_workers' = dns_live_workers - One(to, {"dead"})
      PROVE  Counts
  <2> DEFINE n == One(to, {"exit", "dead"}) - One(from, {"exit", "dead"})
  <2>1. /\ n \in Nat
        /\ Cardinality(Busy)' = Cardinality(Busy)
        /\ Cardinality(Gone)' = Cardinality(Gone) + n
        /\ Cardinality(Live)' = Cardinality(Live) - One(to, {"dead"})
        /\ Cardinality(Busy) \in Nat /\ Cardinality(Gone) \in Nat
    BY <1>1, <1>5, WorkerMoves DEF One
  <2>2. LiveCounted'
    BY <1>5, <2>1 DEF Safe, LiveCounted
  <2>3. PICK m \in Nat : Lost' = Lost + m
    <3> HIDE DEF n
    <3>1. CASE WorkersThrow
      <4>1. Lost' = Lost + n
        BY <2>1, <3>1 DEF Lost
      <4>. QED
        BY <2>1, <4>1
    <3>2. CASE ~WorkersThrow
      <4>1. Lost' = Lost + 0
        BY <3>2 DEF Lost
      <4>. QED
        BY <4>1
    <3>. QED
      BY <3>1, <3>2
  <2>4. Outstanding' = Outstanding /\ Outstanding \in Int /\ dns_unresolved' = dns_unresolved
    BY <1>1, <1>5, <2>1 DEF Outstanding, queueVars
  <2>5. Accounted'
    <3>1. Lost \in Int
      BY <2>1 DEF Lost
    <3>2. dns_unresolved <= Outstanding + (Lost + m)
      BY <1>1, <1>2, <2>3, <2>4, <3>1
    <3>. QED
      BY <1>2, <2>3, <2>4, <3>2 DEF Accounted
  <2>6. EventMeansDone' /\ OnlyHostNodesReturned'
    BY <1>3, <1>5 DEF Safe, EventMeansDone, OnlyHostNodesReturned, queueVars
  <2>. QED
    BY <2>2, <2>5, <2>6
<1>6. CASE LoopTest(w) /\ dns_thread_stop
  <2>1. WorkerStep(w, "top", "exit") /\ UNCHANGED queueVars /\ dns_live_workers' = dns_live_workers
    BY <1>6 DEF LoopTest
  <2>. QED
    BY <1>1, <1>4, <1>5, <2>1 DEF One, WorkerPc, BusyPc
<1>7. CASE LoopTest(w) /\ ~dns_thread_stop
  <2>1. WorkerStep(w, "top", "pop") /\ UNCHANGED queueVars /\ dns_live_workers' = dns_live_workers
    BY <1>7 DEF LoopTest
  <2>. QED
    BY <1>1, <1>4, <1>5, <2>1 DEF One, WorkerPc, BusyPc
<1>8. CASE PopNothing(w)
  <2>1. WorkerStep(w, "pop", "top") /\ UNCHANGED queueVars /\ dns_live_workers' = dns_live_workers
    BY <1>8 DEF PopNothing
  <2>. QED
    BY <1>1, <1>4, <1>5, <2>1 DEF One, WorkerPc, BusyPc
<1>9. CASE DbGet(w)
  <2>1. WorkerStep(w, "get", "resolve") /\ UNCHANGED queueVars /\ dns_live_workers' = dns_live_workers
    BY <1>9 DEF DbGet
  <2>. QED
    BY <1>1, <1>4, <1>5, <2>1 DEF One, WorkerPc, BusyPc
<1>10. CASE Resolve(w)
  <2>1. PICK to \in {"put", "finish"} : WorkerStep(w, "resolve", to)
    BY <1>10 DEF Resolve
  <2>2. UNCHANGED queueVars /\ dns_live_workers' = dns_live_workers
    BY <1>10 DEF Resolve
  <2>. QED
    BY <1>1, <1>4, <1>5, <2>1, <2>2 DEF One, WorkerPc, BusyPc
<1>11. CASE DbPut(w)
  <2>1. WorkerStep(w, "put", "finish") /\ UNCHANGED queueVars /\ dns_live_workers' = dns_live_workers
    BY <1>11 DEF DbPut
  <2>. QED
    BY <1>1, <1>4, <1>5, <2>1 DEF One, WorkerPc, BusyPc
<1>12. CASE Exit(w)
  <2>1. WorkerStep(w, "exit", "dead") /\ UNCHANGED queueVars
        /\ dns_live_workers' = dns_live_workers - 1
    BY <1>12 DEF Exit
  <2>. QED
    BY <1>1, <1>4, <1>5, <2>1 DEF One, WorkerPc, BusyPc
(* A worker takes a node, returns it, or loses it in an exception.         *)
<1>13. CASE PopDNode(w)
  <2>1. PICK to \in {"get", "put"} : WorkerStep(w, "pop", to)
    BY <1>13 DEF PopDNode
  <2>2. /\ Cardinality(Busy)' = Cardinality(Busy) + 1 /\ Cardinality(Busy) \in Nat
        /\ Cardinality(Gone)' = Cardinality(Gone)
        /\ Cardinality(Live)' = Cardinality(Live)
    BY <1>1, <2>1, WorkerMoves DEF One, WorkerPc, BusyPc
  <2>3. Len(dnode_list') = Len(dnode_list) - 1
    BY <1>1, <1>13, HeadTailProperties DEF PopDNode, TypeOK
  <2>4. UNCHANGED <<hqueue, dns_unresolved, signalled, dns_live_workers>>
    BY <1>13 DEF PopDNode
  <2>5. Outstanding' = Outstanding /\ Lost' = Lost
    BY <1>1, <2>2, <2>3 DEF Outstanding, Lost
  <2>6. LiveCounted' /\ Accounted'
    BY <1>2, <2>2, <2>4, <2>5 DEF Safe, LiveCounted, Accounted
  <2>7. EventMeansDone' /\ OnlyHostNodesReturned'
    BY <1>3, <2>4 DEF Safe, EventMeansDone, OnlyHostNodesReturned
  <2>. QED
    BY <1>4, <2>6, <2>7
<1>14. CASE Finish(w)
  <2>1. /\ Cardinality(Busy)' = Cardinality(Busy) - 1 /\ Cardinality(Busy) \in Nat
        /\ Cardinality(Busy)' \in Nat
        /\ Cardinality(Gone)' = Cardinality(Gone)
        /\ Cardinality(Live)' = Cardinality(Live)
    <3>1. WorkerStep(w, "finish", "top")
      BY <1>14 DEF Finish
    <3>2. IsFiniteSet(Busy') /\ Cardinality(Busy') \in Nat
      BY WorkersFinite DEF Busy
    <3>. QED
      BY <1>1, <3>1, <3>2, WorkerMoves DEF One, WorkerPc, BusyPc
  <2>2. /\ dns_unresolved' = dns_unresolved - 1
        /\ UNCHANGED <<dnode_list, dns_live_workers>>
    BY <1>14 DEF Finish, StillUnresolved
  <2>3. Outstanding' = Outstanding - 1 /\ Outstanding \in Nat /\ Outstanding' \in Nat
        /\ Lost' = Lost
    BY <1>1, <2>1, <2>2 DEF Outstanding, Lost
  <2>4. Lost \in Int
    BY WorkersFinite DEF Lost, Gone
  <2>5. LiveCounted' /\ Accounted'
    BY <1>1, <1>2, <2>1, <2>2, <2>3, <2>4 DEF Safe, LiveCounted, Accounted
  <2>6. dns_unresolved >= 1
    BY <1>1, <1>2, <2>3
  <2>7. EventMeansDone'
    <3>1. signalled' <=> (dns_unresolved' = 0 \/ signalled)
      BY <1>14 DEF Finish, LastDone
    <3>2. ~dns_thread_stop => ~signalled
      BY <2>6 DEF Safe, EventMeansDone
    <3>. QED
      BY <1>3, <3>1, <3>2 DEF EventMeansDone
  <2>8. OnlyHostNodesReturned'
    <3>1. CASE wnode[w].lookup
      <4>1. wnode[w] \in DNode /\ hqueue \in Seq(DNode) /\ hqueue' = Append(hqueue, wnode[w])
        BY <1>1, <1>14, <3>1 DEF Finish, Returned, WorkerStep, TypeOK, BusyPc
      <4>2. /\ DOMAIN hqueue' = 1 .. Len(hqueue) + 1 /\ DOMAIN hqueue = 1 .. Len(hqueue)
            /\ Len(hqueue) \in Nat
            /\ \A i \in 1 .. Len(hqueue) : hqueue'[i] = hqueue[i]
            /\ hqueue'[Len(hqueue) + 1] = wnode[w]
        BY <4>1, AppendProperties, LenProperties
      <4>. QED
        BY <3>1, <4>2 DEF Safe, OnlyHostNodesReturned
    <3>2. CASE ~wnode[w].lookup
      BY <1>14, <3>2 DEF Finish, Returned, Safe, OnlyHostNodesReturned
    <3>. QED
      BY <3>1, <3>2
  <2>. QED
    BY <1>4, <2>5, <2>7, <2>8
<1>15. CASE Throw(w)
  <2>1. PICK from \in {"get", "resolve", "put"} : WorkerStep(w, from, "exit")
    BY <1>15 DEF Throw
  <2>2. /\ Cardinality(Busy)' = Cardinality(Busy) - 1 /\ Cardinality(Busy) \in Nat
        /\ Cardinality(Gone)' = Cardinality(Gone) + 1 /\ Cardinality(Gone) \in Nat
        /\ Cardinality(Live)' = Cardinality(Live)
    BY <1>1, <2>1, WorkerMoves DEF One, WorkerPc, BusyPc
  <2>3. UNCHANGED <<dnode_list, hqueue, dns_unresolved, signalled, dns_live_workers>>
    BY <1>15 DEF Throw, queueVars
  <2>4. Outstanding' = Outstanding - 1 /\ Outstanding \in Int
    BY <1>1, <2>2, <2>3 DEF Outstanding
  <2>5. Lost' = Lost + 1 /\ Lost \in Int
    BY <1>15, <2>2 DEF Throw, Lost
  <2>6. LiveCounted' /\ Accounted'
    BY <1>1, <1>2, <2>2, <2>3, <2>4, <2>5 DEF Safe, LiveCounted, Accounted
  <2>7. EventMeansDone' /\ OnlyHostNodesReturned'
    BY <1>3, <2>3 DEF Safe, EventMeansDone, OnlyHostNodesReturned
  <2>. QED
    BY <1>4, <2>6, <2>7
<1>. QED
  BY <1>6, <1>7, <1>8, <1>9, <1>10, <1>11, <1>12, <1>13, <1>14, <1>15 DEF WorkerNext, WorkerProgress

(* The invariant holds when dns_init has returned.                         *)
LEMMA InitSafe == Init => Safe
<1> SUFFICES ASSUME Init PROVE Safe
  OBVIOUS
<1>1. TypeOK
  BY InitTypeOK
<1>2. Busy = {} /\ Gone = {} /\ Live = Worker
  BY DEF Init, Busy, BusyPc, Gone, Live
<1>3. Outstanding = 0 /\ Lost = 0
  BY <1>2, FS_EmptySet, EmptySeq DEF Init, Outstanding, Lost
<1>4. LiveCounted /\ Accounted
  BY <1>2, <1>3 DEF Init, LiveCounted, Accounted
<1>5. StopRequested /\ CleanUpAlone /\ EventMeansDone
  BY DEF Init, StopRequested, CleanUpAlone, EventMeansDone
<1>6. OnlyHostNodesReturned
  BY EmptySeq, LenProperties DEF Init, OnlyHostNodesReturned
<1>. QED
  BY <1>1, <1>4, <1>5, <1>6 DEF Safe

(* Queueing a node adds one that is not done, and resets the event.        *)
LEMMA QueueSafe ==
  ASSUME Safe, mpc # "closed", NEW d \in DNode, QueueDNode(d),
         UNCHANGED <<mpc, dns_live_workers, dns_thread_stop, wpc>>
  PROVE  LiveCounted' /\ Accounted' /\ EventMeansDone'
<1>1. Busy' = Busy /\ Gone' = Gone /\ Live' = Live
  BY DEF Busy, Gone, Live
<1>2. /\ dnode_list \in Seq(DNode) /\ Len(dnode_list) \in Nat
      /\ dns_unresolved \in Int /\ dns_unresolved' = dns_unresolved + 1
      /\ Len(dnode_list') = Len(dnode_list) + 1
  BY AppendProperties, LenProperties DEF Safe, TypeOK, QueueDNode
<1>3. Cardinality(Busy) \in Nat /\ Cardinality(Gone) \in Nat
  BY WorkersFinite DEF Busy, Gone
<1>4. Outstanding' = Outstanding + 1 /\ Outstanding \in Nat /\ Lost' = Lost /\ Lost \in Int
  BY <1>1, <1>2, <1>3 DEF Outstanding, Lost
<1>5. Outstanding <= dns_unresolved /\ dns_unresolved <= Outstanding + Lost
  BY DEF Safe, Accounted
<1>6. Accounted'
  BY <1>2, <1>4, <1>5 DEF Accounted
<1>7. dns_unresolved' # 0 /\ ~signalled'
  BY <1>2, <1>4, <1>5 DEF QueueDNode
<1>. QED
  BY <1>1, <1>6, <1>7 DEF Safe, LiveCounted, EventMeansDone

(* Nothing that the counters depend on changes.                            *)
LEMMA IdleSafe ==
  ASSUME Safe, UNCHANGED <<dnode_list, dns_unresolved, dns_live_workers, wpc>>,
         mpc = "closed" => mpc' = "closed"
  PROVE  LiveCounted' /\ Accounted'
<1>1. Busy' = Busy /\ Gone' = Gone /\ Live' = Live
  BY DEF Busy, Gone, Live
<1>2. Outstanding' = Outstanding /\ Lost' = Lost
  BY <1>1 DEF Outstanding, Lost
<1>. QED
  BY <1>1, <1>2 DEF Safe, LiveCounted, Accounted

(* With the counter of live workers at zero, all of them are dead.         *)
LEMMA NoneLive ==
  ASSUME Safe, dns_live_workers = 0
  PROVE  Live = {}
  BY WorkersFinite, FS_EmptySet DEF Safe, LiveCounted, Live

(* The steps of the application thread.                                    *)
LEMMA MainSafe == ASSUME Safe, MainNext PROVE Safe'
<1>1. TypeOK'
  BY MainTypeOK DEF Safe
<1>2. ASSUME NEW h \in Host, NEW spam \in BOOLEAN, PutHNode(h, spam) PROVE Safe'
  <2> DEFINE hn == [hnode[h] EXCEPT !.spammer = @ \/ spam]
  <2>1. hn \in HNode
    BY DEF Safe, TypeOK, HNode
  <2>2. NewDNode(h, hn) \in DNode
    BY <2>1 DEF NewDNode, HNode, DNode
  <2>3. QueueDNode(NewDNode(h, hn)) /\ mpc = "idle" /\ mpc' = mpc
        /\ UNCHANGED <<hqueue, dns_live_workers, dns_thread_stop, wpc>>
    BY <1>2 DEF PutHNode, workerVars
  <2> HIDE DEF hn
  <2>4. LiveCounted' /\ Accounted' /\ EventMeansDone'
    BY <2>2, <2>3, QueueSafe
  <2>5. StopRequested' /\ CleanUpAlone' /\ OnlyHostNodesReturned'
    BY <2>3 DEF Safe, StopRequested, CleanUpAlone, OnlyHostNodesReturned
  <2>. QED
    BY <1>1, <2>4, <2>5 DEF Safe
<1>3. CASE GetHNode
  <2> DEFINE d == Head(hqueue)
  <2>1. d \in DNode /\ hqueue \in Seq(DNode) /\ hqueue # <<>>
    BY <1>3, HeadTailProperties DEF GetHNode, Safe, TypeOK
  <2>2. [d EXCEPT !.lookup = FALSE] \in DNode
    BY <2>1 DEF DNode
  <2>3. mpc = "idle" /\ mpc' = mpc /\ UNCHANGED <<dns_live_workers, dns_thread_stop, wpc>>
    BY <1>3 DEF GetHNode, workerVars
  <2>4. LiveCounted' /\ Accounted' /\ EventMeansDone'
    <3>1. CASE QueueDNode([d EXCEPT !.lookup = FALSE])
      BY <2>2, <2>3, <3>1, QueueSafe
    <3>2. CASE UNCHANGED <<dnode_list, signalled, dns_unresolved>>
      <4>1. LiveCounted' /\ Accounted'
        BY <2>3, <3>2, IdleSafe
      <4>. QED
        BY <2>3, <3>2, <4>1 DEF Safe, EventMeansDone
    <3>. QED
      BY <1>3, <3>1, <3>2 DEF GetHNode
  <2>5. OnlyHostNodesReturned'
    <3>1. /\ hqueue' = Tail(hqueue) /\ Tail(hqueue) \in Seq(DNode)
          /\ Len(Tail(hqueue)) = Len(hqueue) - 1 /\ Len(hqueue) \in Nat
          /\ \A i \in 1 .. Len(Tail(hqueue)) : Tail(hqueue)[i] = hqueue[i + 1]
      BY <1>3, <2>1, HeadTailProperties, LenProperties DEF GetHNode
    <3>2. DOMAIN hqueue = 1 .. Len(hqueue) /\ DOMAIN Tail(hqueue) = 1 .. Len(hqueue) - 1
      BY <2>1, <3>1, LenProperties
    <3>. QED
      BY <3>1, <3>2 DEF Safe, OnlyHostNodesReturned
  <2>6. StopRequested' /\ CleanUpAlone'
    BY <2>3 DEF Safe, StopRequested, CleanUpAlone
  <2>. QED
    BY <1>1, <2>4, <2>5, <2>6 DEF Safe
<1>4. CASE \/ \E S \in SUBSET Host : ForgetHNodes(S)
           \/ DnsWait \/ WaitReturn \/ WaitSpurious \/ PollReturn
  <2>1. /\ UNCHANGED <<dnode_list, hqueue, dns_unresolved, signalled, dns_live_workers,
                       dns_thread_stop, wpc>>
        /\ mpc \in {"idle", "waiting", "polling"} /\ mpc' \in {"idle", "waiting", "polling"}
    BY <1>4 DEF ForgetHNodes, DnsWait, WaitReturn, WaitSpurious, PollReturn, MainStep, queueVars,
                workerVars
  <2>2. LiveCounted' /\ Accounted'
    BY <2>1, IdleSafe
  <2>3. StopRequested' /\ CleanUpAlone' /\ EventMeansDone' /\ OnlyHostNodesReturned'
    BY <2>1 DEF Safe, StopRequested, CleanUpAlone, EventMeansDone, OnlyHostNodesReturned
  <2>. QED
    BY <1>1, <2>2, <2>3 DEF Safe
<1>5. CASE DnsAbort \/ AbortTimeout
  <2>1. /\ UNCHANGED <<dnode_list, hqueue, dns_unresolved, dns_live_workers, wpc>>
        /\ dns_thread_stop' /\ mpc # "closed" /\ mpc' \notin {"cleanup", "closed"}
    BY <1>5 DEF DnsAbort, AbortTimeout, MainStep, queueVars, workerVars, Safe, StopRequested
  <2>2. LiveCounted' /\ Accounted'
    BY <2>1, IdleSafe
  <2>3. StopRequested' /\ CleanUpAlone' /\ EventMeansDone' /\ OnlyHostNodesReturned'
    BY <2>1 DEF Safe, StopRequested, CleanUpAlone, EventMeansDone, OnlyHostNodesReturned
  <2>. QED
    BY <1>1, <2>2, <2>3 DEF Safe
<1>6. CASE AbortDone
  <2>1. /\ UNCHANGED <<dnode_list, hqueue, dns_unresolved, dns_live_workers, dns_thread_stop, wpc>>
        /\ mpc \in {"aborting", "cleanup_abort"} /\ mpc' \in {"idle", "cleanup"}
        /\ dns_live_workers = 0 /\ dns_thread_stop
    BY <1>6 DEF AbortDone, MainStep, workerVars, Safe, StopRequested
  <2>2. LiveCounted' /\ Accounted'
    BY <2>1, IdleSafe
  <2>3. CleanUpAlone'
    BY <2>1, NoneLive DEF CleanUpAlone, Live
  <2>4. StopRequested' /\ EventMeansDone' /\ OnlyHostNodesReturned'
    BY <2>1 DEF Safe, StopRequested, EventMeansDone, OnlyHostNodesReturned
  <2>. QED
    BY <1>1, <2>2, <2>3, <2>4 DEF Safe
<1>7. CASE DnsCleanUp
  <2>1. /\ UNCHANGED <<dnode_list, hqueue, dns_unresolved, signalled, dns_live_workers, wpc>>
        /\ mpc \in {"idle", "threw"} /\ mpc' \in {"cleanup", "cleanup_abort"}
        /\ mpc' = "cleanup" => dns_live_workers = 0 /\ dns_thread_stop' = dns_thread_stop
        /\ mpc' = "cleanup_abort" => dns_thread_stop'
    BY <1>7 DEF DnsCleanUp, queueVars, workerVars
  <2>2. LiveCounted' /\ Accounted'
    BY <2>1, IdleSafe
  <2>3. CleanUpAlone'
    BY <2>1, NoneLive DEF CleanUpAlone, Live
  <2>4. StopRequested' /\ OnlyHostNodesReturned'
    BY <2>1 DEF Safe, StopRequested, OnlyHostNodesReturned
  <2>5. EventMeansDone'
    <3>1. CASE mpc' = "cleanup"
      BY <2>1, <3>1 DEF Safe, EventMeansDone
    <3>2. CASE mpc' = "cleanup_abort"
      BY <2>1, <3>2 DEF EventMeansDone
    <3>. QED
      BY <2>1, <3>1, <3>2
  <2>. QED
    BY <1>1, <2>2, <2>3, <2>4, <2>5 DEF Safe
<1>8. CASE CleanUpQueues
  <2>1. /\ UNCHANGED <<dns_unresolved, signalled, dns_live_workers, dns_thread_stop, wpc>>
        /\ mpc = "cleanup" /\ mpc' = "closed" /\ hqueue' = <<>>
    BY <1>8 DEF CleanUpQueues, MainStep, workerVars
  <2>2. LiveCounted' /\ CleanUpAlone'
    BY <2>1 DEF Safe, LiveCounted, CleanUpAlone, Live
  <2>3. Accounted' /\ StopRequested' /\ EventMeansDone'
    BY <2>1 DEF Safe, Accounted, StopRequested, EventMeansDone
  <2>4. OnlyHostNodesReturned'
    BY <2>1, EmptySeq, LenProperties DEF OnlyHostNodesReturned
  <2>. QED
    BY <1>1, <2>2, <2>3, <2>4 DEF Safe
<1>. QED
  BY <1>2, <1>3, <1>4, <1>5, <1>6, <1>7, <1>8 DEF MainNext

(* Every step keeps the invariant.                                         *)
LEMMA NextSafe == ASSUME Safe, [Next]_vars PROVE Safe'
<1>1. CASE MainNext
  BY <1>1, MainSafe
<1>2. ASSUME NEW w \in Worker, WorkerNext(w) PROVE Safe'
  <2>1. TypeOK'
    BY <1>2, WorkerTypeOK DEF Safe
  <2>2. mpc' = mpc /\ dns_thread_stop' = dns_thread_stop
    BY <1>2 DEF WorkerNext, WorkerProgress, LoopTest, PopNothing, PopDNode, DbGet, Resolve, DbPut,
                Finish, Throw, Exit, mainVars
  <2>3. StopRequested'
    BY <2>2 DEF Safe, StopRequested
  <2>. QED
    BY <1>2, <2>1, <2>3, WorkerSafe DEF Safe
<1>3. CASE Terminated \/ UNCHANGED vars
  <2>1. UNCHANGED vars
    BY <1>3 DEF Terminated
  <2>2. TypeOK'
    BY <2>1, StutterTypeOK DEF Safe
  <2>3. UNCHANGED <<mpc, dnode_list, hqueue, dns_unresolved, signalled, dns_live_workers,
                    dns_thread_stop, wpc>>
    BY <2>1 DEF vars
  <2>4. LiveCounted' /\ Accounted'
    BY <2>3, IdleSafe
  <2>5. StopRequested' /\ CleanUpAlone' /\ EventMeansDone' /\ OnlyHostNodesReturned'
    BY <2>3 DEF Safe, StopRequested, CleanUpAlone, EventMeansDone, OnlyHostNodesReturned, Live
  <2>. QED
    BY <2>2, <2>4, <2>5 DEF Safe
<1>. QED
  BY <1>1, <1>2, <1>3 DEF Next

(***************************************************************************)
(* The resolver is safe for any caller: dns_unresolved counts what was     *)
(* queued and is not done, the event is signalled exactly when there is    *)
(* nothing to wait for, get_hnode only returns nodes that have a host      *)
(* node, and the queues and databases are closed when no worker is left to *)
(* use them.                                                               *)
(***************************************************************************)
THEOREM ResolverSafe ==
  Spec => [](Accounted /\ EventMeansDone /\ OnlyHostNodesReturned /\ CleanUpAlone)
<1>1. Safe => Accounted /\ EventMeansDone /\ OnlyHostNodesReturned /\ CleanUpAlone
  BY DEF Safe
<1>. QED
  BY InitSafe, NextSafe, <1>1, PTL DEF Spec

(***************************************************************************)
(* Every node that get_hnode takes from its queue has a host node: it      *)
(* copies the answer into that node without asking.                        *)
(***************************************************************************)
THEOREM ReturnedNodesExist == Spec => []OnlyHostNodesReturned
BY ResolverSafe, PTL

(* Both ways in which dns_wait returns.                                    *)
LEMMA ReturnsWhenDone ==
  ASSUME Safe, WaitReturn \/ PollReturn, ~dns_thread_stop
  PROVE  dnode_list = <<>> /\ Busy = {}
<1>1. dns_unresolved = 0 /\ mpc # "closed"
  BY DEF WaitReturn, PollReturn, MainStep, Safe, EventMeansDone
<1>2. /\ dnode_list \in Seq(DNode) /\ Len(dnode_list) \in Nat
      /\ IsFiniteSet(Busy) /\ Cardinality(Busy) \in Nat
  BY WorkersFinite, LenProperties DEF Safe, TypeOK, Busy
<1>3. Outstanding <= 0
  BY <1>1 DEF Safe, Accounted
<1>4. Len(dnode_list) = 0 /\ Cardinality(Busy) = 0
  BY <1>2, <1>3 DEF Outstanding
<1>. QED
  BY <1>2, <1>4, FS_EmptySet, EmptySeq

(***************************************************************************)
(* dns_wait does not return early: unless the workers were stopped, it     *)
(* finds the list empty and no worker with a node.                         *)
(***************************************************************************)
THEOREM WaitComplete == Spec => WaitDelivers
<1> DEFINE Returns == mpc \in {"waiting", "polling"} /\ mpc' = "idle" /\ ~dns_thread_stop
           Delivered == dnode_list = <<>> /\ Busy = {}
<1>1. ASSUME Safe, [Next]_vars, Returns PROVE Delivered
  <2>1. WaitReturn \/ PollReturn
    BY <1>1 DEF Next, MainNext, PutHNode, GetHNode, ForgetHNodes, DnsWait, WaitSpurious, DnsAbort,
                AbortDone, AbortTimeout, DnsCleanUp, CleanUpQueues, MainStep, Terminated, vars,
                WorkerNext, WorkerProgress, LoopTest, PopNothing, PopDNode, DbGet, Resolve, DbPut,
                Finish, Throw, Exit, mainVars
  <2>. QED
    BY <1>1, <2>1, ReturnsWhenDone
<1>2. Safe /\ [Next]_vars => [Returns => Delivered]_vars
  BY <1>1
<1>. QED
  BY InitSafe, NextSafe, <1>2, PTL DEF Spec, WaitDelivers

-----------------------------------------------------------------------------
(* Counting the nodes of a queue that are of one kind.                     *)
Positions(s, K) == {i \in DOMAIN s : s[i] \in K}

(* The places of a queue where a node of K stands can be counted.          *)
LEMMA PositionsFinite ==
  ASSUME NEW s \in Seq(DNode), NEW K
  PROVE  IsFiniteSet(Positions(s, K)) /\ Cardinality(Positions(s, K)) \in Nat
<1>1. DOMAIN s = 1 .. Len(s) /\ Len(s) \in Nat
  BY LenProperties
<1>2. IsFiniteSet(1 .. Len(s))
  BY <1>1, FS_Interval
<1>. QED
  BY <1>1, <1>2, FS_Subset, FS_CardinalityType DEF Positions

(* A node at the end is counted once more if it is in K.                   *)
LEMMA CountAppended ==
  ASSUME NEW s \in Seq(DNode), NEW d \in DNode, NEW K
  PROVE  Cardinality(Positions(Append(s, d), K)) = Cardinality(Positions(s, K)) + One(d, K)
<1> DEFINE n == Len(s) + 1
           P == Positions(s, K)
           Q == Positions(Append(s, d), K)
<1>1. /\ DOMAIN s = 1 .. Len(s) /\ Len(s) \in Nat
      /\ DOMAIN Append(s, d) = 1 .. n /\ Append(s, d)[n] = d
      /\ \A i \in 1 .. Len(s) : Append(s, d)[i] = s[i]
  BY LenProperties, AppendProperties
<1>2. n \notin P /\ Q = IF d \in K THEN P \cup {n} ELSE P
  BY <1>1 DEF Positions
<1>3. IsFiniteSet(P) /\ Cardinality(P) \in Nat
  BY PositionsFinite
<1> HIDE DEF P, Q, n
<1>4. Cardinality(P \cup {n}) = Cardinality(P) + 1
  BY <1>2, <1>3, FS_AddElement
<1>. QED
  BY <1>2, <1>3, <1>4 DEF One, P, Q

(* Without the first node, the queue has one less if that is in K.         *)
LEMMA CountTail ==
  ASSUME NEW s \in Seq(DNode), s # <<>>, NEW K
  PROVE  Cardinality(Positions(Tail(s), K)) = Cardinality(Positions(s, K)) - One(Head(s), K)
<1> DEFINE P == Positions(s, K)
           Q == Positions(Tail(s), K)
           f == [i \in Q |-> i + 1]
<1>1. /\ DOMAIN s = 1 .. Len(s) /\ Len(s) \in Nat /\ Len(s) >= 1
      /\ Tail(s) \in Seq(DNode) /\ DOMAIN Tail(s) = 1 .. Len(s) - 1
      /\ Head(s) = s[1]
      /\ \A i \in 1 .. Len(s) - 1 : Tail(s)[i] = s[i + 1]
  BY LenProperties, HeadTailProperties, EmptySeq
<1>2. IsFiniteSet(P) /\ Cardinality(P) \in Nat /\ IsFiniteSet(Q) /\ Cardinality(Q) \in Nat
  BY <1>1, PositionsFinite
<1>3. f \in Bijection(Q, P \ {1})
  <2>1. \A i \in Q : i \in Int /\ f[i] = i + 1 /\ f[i] \in P \ {1}
    BY <1>1 DEF Positions
  <2>2. \A j \in P \ {1} : j - 1 \in Q /\ j = f[j - 1]
    BY <1>1 DEF Positions
  <2>3. f \in [Q -> P \ {1}]
    BY <2>1
  <2>4. \A i, j \in Q : f[i] = f[j] => i = j
    BY <2>1
  <2>. QED
    BY <2>2, <2>3, <2>4 DEF Bijection, Injection, Surjection, IsInjective
<1> HIDE DEF P, Q, f
<1>4. Cardinality(Q) = Cardinality(P \ {1})
  <2>1. ExistsBijection(Q, P \ {1})
    BY <1>3 DEF ExistsBijection
  <2>. QED
    BY <1>2, <2>1, FS_Bijection
<1>5. 1 \in P <=> Head(s) \in K
  BY <1>1 DEF P, Positions
<1>6. Cardinality(P \ {1}) = IF 1 \in P THEN Cardinality(P) - 1 ELSE Cardinality(P)
  BY <1>2, FS_RemoveElement
<1>. QED
  BY <1>2, <1>4, <1>5, <1>6 DEF One, P, Q

(* An empty queue has none.                                                *)
LEMMA CountEmpty == ASSUME NEW K PROVE Cardinality(Positions(<<>>, K)) = 0
<1>1. Positions(<<>>, K) = {}
  BY EmptySeq, LenProperties DEF Positions
<1>. QED
  BY <1>1, FS_EmptySet

(* A set that gains or loses at most one worker.                           *)
LEMMA OneWorkerCount ==
  ASSUME NEW S \in SUBSET Worker, NEW T \in SUBSET Worker, NEW w \in Worker,
         \A v \in Worker \ {w} : v \in S <=> v \in T
  PROVE  Cardinality(T) = Cardinality(S) + One(w, T) - One(w, S)
<1>1. IsFiniteSet(S) /\ Cardinality(S) \in Nat
  BY WorkersFinite
<1>2. CASE w \in T
  <2>1. T = S \cup {w}
    BY <1>2
  <2>2. Cardinality(T) = IF w \in S THEN Cardinality(S) ELSE Cardinality(S) + 1
    BY <1>1, <2>1, FS_AddElement
  <2>. QED
    BY <1>1, <1>2, <2>2 DEF One
<1>3. CASE w \notin T
  <2>1. T = S \ {w}
    BY <1>3
  <2>2. Cardinality(T) = IF w \in S THEN Cardinality(S) - 1 ELSE Cardinality(S)
    BY <1>1, <2>1, FS_RemoveElement
  <2>. QED
    BY <1>1, <1>3, <2>2 DEF One
<1>. QED
  BY <1>2, <1>3

-----------------------------------------------------------------------------
(* What the caller sees, as counts over queues and workers.                *)
Lookups(h) == {d \in DNode : d.lookup /\ d.host = h}
Nodes(h) == {d \in DNode : d.host = h}
Holders(h) == {w \in Busy : wnode[w].lookup /\ wnode[w].host = h}

Seen(h) ==
  /\ Looking(h) = Cardinality(Positions(dnode_list, Lookups(h))) + Cardinality(Holders(h))
  /\ Ready(h) = Cardinality(Positions(hqueue, Nodes(h)))
  /\ Holders(h) \in SUBSET Worker
  /\ Cardinality(Positions(dnode_list, Lookups(h))) \in Nat
  /\ Cardinality(Holders(h)) \in Nat
  /\ Looking(h) \in Nat
  /\ Ready(h) \in Nat

(* What the service sees of a host is a sum of counts: two queues and the  *)
(* workers.                                                                *)
LEMMA SeenAsCounts == TypeOK => \A h \in Host : Seen(h)
<1> SUFFICES ASSUME TypeOK, NEW h \in Host PROVE Seen(h)
  OBVIOUS
<1>1. /\ dnode_list \in Seq(DNode) /\ \A i \in DOMAIN dnode_list : dnode_list[i] \in DNode
      /\ hqueue \in Seq(DNode) /\ \A i \in DOMAIN hqueue : hqueue[i] \in DNode
  BY ElementOfSeq, LenProperties DEF TypeOK
<1>2. {i \in DOMAIN dnode_list : dnode_list[i].lookup /\ dnode_list[i].host = h}
        = Positions(dnode_list, Lookups(h))
  BY <1>1 DEF Positions, Lookups
<1>3. {i \in DOMAIN hqueue : hqueue[i].host = h} = Positions(hqueue, Nodes(h))
  BY <1>1 DEF Positions, Nodes
<1>4. Holders(h) \in SUBSET Worker
  BY DEF Holders, Busy
<1>5. /\ Cardinality(Positions(dnode_list, Lookups(h))) \in Nat
      /\ Cardinality(Positions(hqueue, Nodes(h))) \in Nat
      /\ Cardinality(Holders(h)) \in Nat
  BY <1>1, <1>4, PositionsFinite, WorkersFinite
<1>6. /\ Looking(h) = Cardinality(Positions(dnode_list, Lookups(h))) + Cardinality(Holders(h))
      /\ Ready(h) = Cardinality(Positions(hqueue, Nodes(h)))
  BY <1>2, <1>3 DEF Looking, Ready, Holders
<1>. QED
  BY <1>4, <1>5, <1>6 DEF Seen

(* The same in the next state.                                             *)
LEMMA SeenNext == TypeOK' => \A h \in Host : Seen(h)'
<1>1. TypeOK' => (\A h \in Host : Seen(h))'
  BY SeenAsCounts, PTL
<1>. QED
  BY <1>1

(* A node that is queued is seen if it is a lookup.                        *)
LEMMA QueueSeen ==
  ASSUME TypeOK, TypeOK', NEW d \in DNode, QueueDNode(d), UNCHANGED <<wpc, wnode>>
  PROVE  \A h \in Host : Looking(h)' = Looking(h) + One(d, Lookups(h))
<1> SUFFICES ASSUME NEW h \in Host PROVE Looking(h)' = Looking(h) + One(d, Lookups(h))
  OBVIOUS
<1>1. Holders(h)' = Holders(h)
  BY DEF Holders, Busy
<1>2. dnode_list \in Seq(DNode) /\ dnode_list' = Append(dnode_list, d)
  BY DEF TypeOK, QueueDNode
<1>3. Cardinality(Positions(dnode_list', Lookups(h)))
        = Cardinality(Positions(dnode_list, Lookups(h))) + One(d, Lookups(h))
  BY <1>2, CountAppended
<1>4. Seen(h) /\ Seen(h)'
  BY SeenAsCounts, SeenNext
<1>5. One(d, Lookups(h)) \in Int
  BY DEF One
<1>. QED
  BY <1>1, <1>3, <1>4, <1>5 DEF Seen

(* A worker that changes what it holds.                                    *)
LEMMA HoldSeen ==
  ASSUME TypeOK, NEW w \in Worker, NEW h \in Host,
         \A v \in Worker \ {w} : wpc'[v] = wpc[v] /\ wnode'[v] = wnode[v]
  PROVE  Cardinality(Holders(h)') = Cardinality(Holders(h)) + One(w, Holders(h)')
                                      - One(w, Holders(h))
<1>1. Holders(h) \in SUBSET Worker /\ Holders(h)' \in SUBSET Worker
  BY DEF Holders, Busy
<1>2. \A v \in Worker \ {w} : v \in Holders(h) <=> v \in Holders(h)'
  BY DEF Holders, Busy
<1>. QED
  BY <1>1, <1>2, OneWorkerCount

-----------------------------------------------------------------------------
(* What a step changes of the lookups that are seen: nothing, or one host. *)
SameSeen == \A x \in Host : Looking(x)' = Looking(x) /\ Ready(x)' = Ready(x)

Added(h) ==
  \A x \in Host : Looking(x)' = Looking(x) + One(x, {h}) /\ Ready(x)' = Ready(x)

Completed(h) ==
  /\ Looking(h) > 0
  /\ \A x \in Host : /\ Looking(x)' = Looking(x) - One(x, {h})
                     /\ Ready(x)' = Ready(x) + One(x, {h})

Dropped(h) ==
  /\ Looking(h) > 0
  /\ \A x \in Host : Looking(x)' = Looking(x) - One(x, {h}) /\ Ready(x)' = Ready(x)

Removed(h) ==
  /\ Ready(h) > 0
  /\ \A x \in Host : Looking(x)' = Looking(x) /\ Ready(x)' = Ready(x) - One(x, {h})

(* Steps that the service does not see.                                    *)
Unseen == SameSeen /\ UNCHANGED <<CallerPc, dns_thread_stop>>

(* A step that changes none of this is no step of the service.             *)
LEMMA UnseenStutters == Unseen => UNCHANGED Service!vars
  BY DEF Unseen, SameSeen, Service!vars

(* That is so when queues, workers and their nodes stay.                   *)
LEMMA KeepSeen ==
  ASSUME UNCHANGED <<dnode_list, hqueue, wpc, wnode>>
  PROVE  SameSeen
  BY DEF SameSeen, Looking, Ready, Busy

(* Steps that it sees: one more or one less of a host.                     *)
LEMMA OneMore ==
  ASSUME NEW f \in [Host -> Int], NEW g \in [Host -> Int], NEW h \in Host,
         \A x \in Host : g[x] = f[x] + One(x, {h})
  PROVE  g = [f EXCEPT ![h] = @ + 1]
<1>1. \A x \in Host : g[x] = [f EXCEPT ![h] = @ + 1][x]
  BY DEF One
<1>. QED
  BY <1>1

(* One less of a host.                                                     *)
LEMMA OneLess ==
  ASSUME NEW f \in [Host -> Int], NEW g \in [Host -> Int], NEW h \in Host,
         \A x \in Host : g[x] = f[x] - One(x, {h})
  PROVE  g = [f EXCEPT ![h] = @ - 1]
<1>1. \A x \in Host : g[x] = [f EXCEPT ![h] = @ - 1][x]
  BY DEF One
<1>. QED
  BY <1>1

LookingMap == [h \in Host |-> Looking(h)]
ReadyMap == [h \in Host |-> Ready(h)]

(* The maps of the service follow the counts of each host.                 *)
LEMMA MapsSeen ==
  ASSUME \A h \in Host : Seen(h) /\ Seen(h)'
  PROVE  /\ LookingMap \in [Host -> Int] /\ LookingMap' \in [Host -> Int]
         /\ ReadyMap \in [Host -> Int] /\ ReadyMap' \in [Host -> Int]
         /\ \A h \in Host : /\ LookingMap[h] = Looking(h) /\ LookingMap'[h] = Looking(h)'
                            /\ ReadyMap[h] = Ready(h) /\ ReadyMap'[h] = Ready(h)'
         /\ (\A h \in Host : Looking(h)' = Looking(h)) => LookingMap' = LookingMap
         /\ (\A h \in Host : Ready(h)' = Ready(h)) => ReadyMap' = ReadyMap
<1>1. \A h \in Host : /\ Looking(h) \in Int /\ Looking(h)' \in Int
                      /\ Ready(h) \in Int /\ Ready(h)' \in Int
  BY DEF Seen
<1>. QED
  BY <1>1 DEF LookingMap, ReadyMap

(* One more lookup is Put.                                                 *)
LEMMA PutSeen ==
  ASSUME NEW h \in Host, UNCHANGED <<CallerPc, dns_thread_stop>>, CallerPc = "idle",
         \A x \in Host : Seen(x) /\ Seen(x)', Added(h)
  PROVE  Service!Put(h)
<1>1. LookingMap' = [LookingMap EXCEPT ![h] = @ + 1]
  <2>1. /\ LookingMap \in [Host -> Int] /\ LookingMap' \in [Host -> Int]
        /\ \A x \in Host : LookingMap'[x] = LookingMap[x] + One(x, {h})
    BY MapsSeen DEF Added
  <2>. QED
    BY <2>1, OneMore
<1>2. ReadyMap' = ReadyMap
  BY MapsSeen DEF Added
<1>. QED
  BY <1>1, <1>2, MapsSeen DEF Service!Put, LookingMap, ReadyMap

(* A lookup that goes from the workers to the answers is Complete.         *)
LEMMA CompleteSeen ==
  ASSUME NEW h \in Host, UNCHANGED <<CallerPc, dns_thread_stop>>,
         \A x \in Host : Seen(x) /\ Seen(x)', Completed(h)
  PROVE  Service!Complete(h)
<1>1. LookingMap' = [LookingMap EXCEPT ![h] = @ - 1]
  <2>1. /\ LookingMap \in [Host -> Int] /\ LookingMap' \in [Host -> Int]
        /\ \A x \in Host : LookingMap'[x] = LookingMap[x] - One(x, {h})
    BY MapsSeen DEF Completed
  <2>. QED
    BY <2>1, OneLess
<1>2. ReadyMap' = [ReadyMap EXCEPT ![h] = @ + 1]
  <2>1. /\ ReadyMap \in [Host -> Int] /\ ReadyMap' \in [Host -> Int]
        /\ \A x \in Host : ReadyMap'[x] = ReadyMap[x] + One(x, {h})
    BY MapsSeen DEF Completed
  <2>. QED
    BY <2>1, OneMore
<1>. QED
  BY <1>1, <1>2, MapsSeen DEF Service!Complete, LookingMap, ReadyMap, Completed

(* A lookup that disappears is Lose.                                       *)
LEMMA LoseSeen ==
  ASSUME NEW h \in Host, UNCHANGED <<CallerPc, dns_thread_stop>>, WorkersThrow,
         \A x \in Host : Seen(x) /\ Seen(x)', Dropped(h)
  PROVE  Service!Lose(h)
<1>1. LookingMap' = [LookingMap EXCEPT ![h] = @ - 1]
  <2>1. /\ LookingMap \in [Host -> Int] /\ LookingMap' \in [Host -> Int]
        /\ \A x \in Host : LookingMap'[x] = LookingMap[x] - One(x, {h})
    BY MapsSeen DEF Dropped
  <2>. QED
    BY <2>1, OneLess
<1>2. ReadyMap' = ReadyMap
  BY MapsSeen DEF Dropped
<1>. QED
  BY <1>1, <1>2, MapsSeen DEF Service!Lose, LookingMap, ReadyMap, Dropped

(* One answer less is Get.                                                 *)
LEMMA GetSeen ==
  ASSUME NEW h \in Host, UNCHANGED <<CallerPc, dns_thread_stop>>, CallerPc = "idle",
         \A x \in Host : Seen(x) /\ Seen(x)', Removed(h)
  PROVE  Service!Get(h)
<1>1. LookingMap' = LookingMap
  BY MapsSeen DEF Removed
<1>2. ReadyMap' = [ReadyMap EXCEPT ![h] = @ - 1]
  <2>1. /\ ReadyMap \in [Host -> Int] /\ ReadyMap' \in [Host -> Int]
        /\ \A x \in Host : ReadyMap'[x] = ReadyMap[x] - One(x, {h})
    BY MapsSeen DEF Removed
  <2>. QED
    BY <2>1, OneLess
<1>. QED
  BY <1>1, <1>2, MapsSeen DEF Service!Get, LookingMap, ReadyMap, Removed

(* Each of its actions is a step of the service.                           *)
LEMMA ServiceNextIsStep ==
  ASSUME \/ \E h \in Host : Service!Put(h) \/ Service!Complete(h) \/ Service!Lose(h) \/ Service!Get(h)
         \/ Service!Wait
         \/ Service!WaitReturns
         \/ Service!Stop
         \/ Service!StopReturns
         \/ Service!Close
         \/ Service!Closed
  PROVE  Service!Next
  BY Zenon DEF Service!Next

(***************************************************************************)
(* A worker completes a lookup, loses it, or does nothing that is seen.    *)
(***************************************************************************)
LEMMA WorkerEffect ==
  ASSUME Safe, NEW w \in Worker, WorkerNext(w)
  PROVE  \/ SameSeen
         \/ \E h \in Host : Completed(h)
         \/ Throw(w) /\ \E h \in Host : Dropped(h)
<1>1. TypeOK /\ TypeOK' /\ wpc \in [Worker -> WorkerPc] /\ wnode \in [Worker -> DNode \cup {NoNode}]
  BY WorkerTypeOK DEF Safe, TypeOK
<1>2. \A h \in Host : Seen(h) /\ Seen(h)'
  BY <1>1, SeenAsCounts, SeenNext
<1>3. \A v \in Worker \ {w} : wpc'[v] = wpc[v] /\ wnode'[v] = wnode[v]
  BY <1>1 DEF WorkerNext, WorkerProgress, LoopTest, PopNothing, PopDNode, Taken, DbGet, Resolve, DbPut,
              Finish, Throw, Exit, WorkerStep
<1>4. ASSUME NEW h \in Host
      PROVE  Cardinality(Holders(h)') = Cardinality(Holders(h)) + One(w, Holders(h)')
                                          - One(w, Holders(h))
  BY <1>1, <1>3, HoldSeen
<1>5. CASE LoopTest(w) \/ PopNothing(w) \/ DbGet(w) \/ Resolve(w) \/ DbPut(w) \/ Exit(w)
  <2>1. UNCHANGED <<dnode_list, hqueue>>
    BY <1>5 DEF LoopTest, PopNothing, DbGet, Resolve, DbPut, Exit, queueVars
  <2>2. wpc[w] \in BusyPc <=> wpc'[w] \in BusyPc
    BY <1>1, <1>5 DEF LoopTest, PopNothing, DbGet, Resolve, DbPut, Exit, WorkerStep, BusyPc
  <2>3. wpc[w] \in BusyPc => wnode'[w].lookup = wnode[w].lookup /\ wnode'[w].host = wnode[w].host
    <3>1. CASE UNCHANGED wnode
      BY <3>1
    <3>2. CASE DbGet(w)
      <4>1. wnode[w] \in DNode
        BY <1>1, <3>2 DEF TypeOK, DbGet, WorkerStep, BusyPc
      <4>. QED
        BY <1>1, <3>2, <4>1 DEF DbGet, DNode
    <3>. QED
      BY <1>5, <3>1, <3>2 DEF LoopTest, PopNothing, Resolve, DbPut, Exit
  <2>4. \A h \in Host : w \in Holders(h)' <=> w \in Holders(h)
    BY <2>2, <2>3 DEF Holders, Busy
  <2>5. \A h \in Host : Cardinality(Holders(h)') = Cardinality(Holders(h))
    BY <1>2, <1>4, <2>4 DEF One, Seen
  <2>6. SameSeen
    BY <1>2, <2>1, <2>5 DEF SameSeen, Seen
  <2>. QED
    BY <2>6
<1>6. CASE PopDNode(w)
  <2> DEFINE d == Head(dnode_list)
  <2>1. /\ dnode_list \in Seq(DNode) /\ dnode_list # <<>> /\ dnode_list' = Tail(dnode_list)
        /\ d \in DNode /\ hqueue' = hqueue
        /\ wpc[w] = "pop" /\ wpc'[w] \in BusyPc /\ wnode'[w] = d
    BY <1>1, <1>6, HeadTailProperties DEF PopDNode, Taken, WorkerStep, BusyPc, TypeOK
  <2>2. ASSUME NEW h \in Host
        PROVE  /\ One(w, Holders(h)) = 0
               /\ One(w, Holders(h)') = One(d, Lookups(h))
    BY <2>1 DEF Holders, Busy, One, Lookups, BusyPc
  <2>3. ASSUME NEW h \in Host
        PROVE  Looking(h)' = Looking(h) /\ Ready(h)' = Ready(h)
    <3>1. Cardinality(Positions(dnode_list', Lookups(h)))
            = Cardinality(Positions(dnode_list, Lookups(h))) - One(d, Lookups(h))
      BY <2>1, CountTail
    <3>2. One(d, Lookups(h)) \in Int
      BY DEF One
    <3>3. Cardinality(Holders(h)') = Cardinality(Holders(h)) + One(d, Lookups(h))
      BY <1>2, <1>4, <2>2, <3>2 DEF Seen
    <3>. QED
      BY <1>2, <2>1, <3>1, <3>2, <3>3 DEF Seen
  <2>4. SameSeen
    BY <2>3 DEF SameSeen
  <2>. QED
    BY <2>4
<1>7. CASE Finish(w) \/ Throw(w)
  <2> DEFINE d == wnode[w]
  <2>1. /\ wpc[w] \in BusyPc /\ wpc'[w] \notin BusyPc /\ d \in DNode /\ dnode_list' = dnode_list
    BY <1>1, <1>7 DEF Finish, Throw, WorkerStep, BusyPc, TypeOK, queueVars
  <2>2. ASSUME NEW h \in Host
        PROVE  Looking(h)' = Looking(h) - One(d, Lookups(h))
    <3>1. One(w, Holders(h)) = One(d, Lookups(h)) /\ One(w, Holders(h)') = 0
      BY <2>1 DEF Holders, Busy, One, Lookups
    <3>2. One(d, Lookups(h)) \in Int
      BY DEF One
    <3>. QED
      BY <1>2, <1>4, <2>1, <3>1, <3>2 DEF Seen
  <2>3. Finish(w) => \A h \in Host : Ready(h)' = Ready(h) + One(d, Lookups(h))
    <3> SUFFICES ASSUME Finish(w), NEW h \in Host PROVE Ready(h)' = Ready(h) + One(d, Lookups(h))
      OBVIOUS
    <3>1. CASE d.lookup
      <4>1. hqueue \in Seq(DNode) /\ hqueue' = Append(hqueue, d)
        BY <1>1, <3>1 DEF Finish, Returned, TypeOK
      <4>2. One(d, Nodes(h)) = One(d, Lookups(h))
        BY <2>1, <3>1 DEF Nodes, Lookups, One
      <4>. QED
        BY <1>2, <2>1, <4>1, <4>2, CountAppended DEF Seen
    <3>2. CASE ~d.lookup
      <4>1. One(d, Lookups(h)) = 0 /\ hqueue' = hqueue
        BY <3>2 DEF Finish, Returned, Lookups, One
      <4>. QED
        BY <1>2, <4>1 DEF Seen
    <3>. QED
      BY <3>1, <3>2
  <2>4. Throw(w) => WorkersThrow /\ \A h \in Host : Ready(h)' = Ready(h)
    BY <1>2 DEF Throw, queueVars, Seen
  <2>5. CASE d.lookup
    <3>1. d.host \in Host /\ \A x \in Host : One(d, Lookups(x)) = One(x, {d.host})
      BY <2>1, <2>5 DEF DNode, One, Lookups
    <3>2. Looking(d.host) > 0
      BY <1>2, <2>2, <3>1 DEF Seen, One
    <3>3. CASE Finish(w)
      <4>1. Completed(d.host)
        BY <2>2, <2>3, <3>1, <3>2, <3>3 DEF Completed
      <4>. QED
        BY <3>1, <4>1
    <3>4. CASE Throw(w)
      <4>1. Dropped(d.host)
        BY <2>2, <2>4, <3>1, <3>2, <3>4 DEF Dropped
      <4>. QED
        BY <3>1, <3>4, <4>1
    <3>. QED
      BY <1>7, <3>3, <3>4
  <2>6. CASE ~d.lookup
    <3>1. \A h \in Host : One(d, Lookups(h)) = 0
      BY <2>6 DEF Lookups, One
    <3>2. \A h \in Host : Looking(h)' = Looking(h) /\ Ready(h)' = Ready(h)
      BY <1>2, <1>7, <2>2, <2>3, <2>4, <3>1 DEF Seen
    <3>3. SameSeen
      BY <3>2 DEF SameSeen
    <3>. QED
      BY <3>3
  <2>. QED
    BY <2>5, <2>6
<1>. QED
  BY <1>5, <1>6, <1>7 DEF WorkerNext, WorkerProgress

(* Each of its steps is a step of the service, or nothing to it.           *)
LEMMA WorkerSteps ==
  ASSUME Safe, NEW w \in Worker, WorkerNext(w)
  PROVE  Unseen \/ Service!Next
<1>1. \A h \in Host : Seen(h) /\ Seen(h)'
  BY WorkerTypeOK, SeenAsCounts, SeenNext DEF Safe
<1>2. mpc' = mpc /\ dns_thread_stop' = dns_thread_stop
  BY DEF WorkerNext, WorkerProgress, LoopTest, PopNothing, PopDNode, DbGet, Resolve, DbPut,
         Finish, Throw, Exit, mainVars
<1>3. CallerPc' = CallerPc
  BY <1>2 DEF CallerPc
<1>4. CASE SameSeen
  BY <1>2, <1>3, <1>4 DEF Unseen
<1>5. ASSUME NEW h \in Host, Completed(h) PROVE Service!Next
  BY <1>1, <1>2, <1>3, <1>5, CompleteSeen, ServiceNextIsStep
<1>6. ASSUME NEW h \in Host, Throw(w), Dropped(h) PROVE Service!Next
  <2>1. WorkersThrow
    BY <1>6 DEF Throw
  <2>. QED
    BY <1>1, <1>2, <1>3, <1>6, <2>1, LoseSeen, ServiceNextIsStep
<1>. QED
  BY <1>4, <1>5, <1>6, WorkerEffect

(* put_hnode adds a lookup or an update of the cache, which is not seen.   *)
LEMMA PutEffect ==
  ASSUME Safe, NEW h \in Host, NEW spam \in BOOLEAN, PutHNode(h, spam)
  PROVE  IF hnode[h].resolved THEN SameSeen ELSE Added(h)
<1> DEFINE hn == [hnode[h] EXCEPT !.spammer = @ \/ spam]
           d == NewDNode(h, hn)
<1>1. TypeOK /\ TypeOK'
  BY MainTypeOK DEF Safe, MainNext
<1>2. hn \in HNode /\ hn.resolved = hnode[h].resolved
  <2>1. hnode[h] \in HNode
    BY <1>1 DEF TypeOK
  <2>2. hn \in HNode
    BY <2>1 DEF HNode
  <2>3. hn.resolved = hnode[h].resolved
    BY <2>1 DEF HNode
  <2>. QED
    BY <2>2, <2>3
<1>3. d \in DNode /\ d.host = h /\ d.lookup = ~hnode[h].resolved
  BY <1>2 DEF NewDNode, HNode, DNode
<1>4. QueueDNode(d) /\ UNCHANGED <<hqueue, wpc, wnode>>
  BY DEF PutHNode, workerVars
<1> HIDE DEF hn, d
<1>5. \A x \in Host : Seen(x) /\ Seen(x)'
  BY <1>1, SeenAsCounts, SeenNext
<1>6. \A x \in Host : Looking(x)' = Looking(x) + One(d, Lookups(x)) /\ Ready(x)' = Ready(x)
  BY <1>1, <1>3, <1>4, <1>5, QueueSeen DEF Seen
<1>7. CASE hnode[h].resolved
  <2>1. \A x \in Host : One(d, Lookups(x)) = 0
    BY <1>3, <1>7 DEF One, Lookups
  <2>. QED
    BY <1>5, <1>6, <1>7, <2>1 DEF SameSeen, Seen
<1>8. CASE ~hnode[h].resolved
  <2>1. \A x \in Host : One(d, Lookups(x)) = One(x, {h})
    BY <1>3, <1>8 DEF One, Lookups
  <2>. QED
    BY <1>6, <1>8, <2>1 DEF Added
<1>. QED
  BY <1>7, <1>8

(* get_hnode takes a node that is ready, and may queue an update.          *)
LEMMA GetEffect ==
  ASSUME Safe, GetHNode
  PROVE  Head(hqueue) \in DNode /\ Head(hqueue).host \in Host /\ Removed(Head(hqueue).host)
<1> DEFINE d == Head(hqueue)
           upd == [d EXCEPT !.lookup = FALSE]
<1>1. TypeOK /\ TypeOK'
  BY MainTypeOK DEF Safe, MainNext
<1>2. d \in DNode /\ hqueue \in Seq(DNode) /\ hqueue # <<>> /\ hqueue' = Tail(hqueue)
  BY <1>1, HeadTailProperties DEF GetHNode, TypeOK
<1>3. upd \in DNode /\ ~upd.lookup /\ d.host \in Host
  BY <1>2 DEF DNode
<1>4. UNCHANGED <<wpc, wnode>>
  BY DEF GetHNode, workerVars
<1>5. \A x \in Host : Seen(x) /\ Seen(x)'
  BY <1>1, SeenAsCounts, SeenNext
<1>6. ASSUME NEW x \in Host PROVE Looking(x)' = Looking(x)
  <2>1. CASE QueueDNode(upd)
    <3>1. One(upd, Lookups(x)) = 0
      BY <1>3 DEF One, Lookups
    <3>2. Looking(x)' = Looking(x) + One(upd, Lookups(x))
      BY <1>1, <1>3, <1>4, <2>1, QueueSeen
    <3>. QED
      BY <1>5, <3>1, <3>2 DEF Seen
  <2>2. CASE UNCHANGED dnode_list
    BY <1>4, <2>2 DEF Looking, Busy
  <2>. QED
    BY <2>1, <2>2 DEF GetHNode
<1>7. ASSUME NEW x \in Host PROVE Ready(x)' = Ready(x) - One(x, {d.host})
  <2>1. Cardinality(Positions(hqueue', Nodes(x)))
          = Cardinality(Positions(hqueue, Nodes(x))) - One(d, Nodes(x))
    BY <1>2, CountTail
  <2>2. One(d, Nodes(x)) = One(x, {d.host})
    BY <1>2 DEF One, Nodes
  <2>. QED
    BY <1>5, <2>1, <2>2 DEF Seen
<1>8. Ready(d.host) > 0
  BY <1>3, <1>5, <1>7 DEF One, Seen
<1>. QED
  BY <1>2, <1>3, <1>6, <1>7, <1>8 DEF Removed

(* dns_clean_up drops everything.                                          *)
LEMMA CleanUpEffect ==
  ASSUME Safe, CleanUpQueues
  PROVE  \A h \in Host : Looking(h)' = 0 /\ Ready(h)' = 0
<1>1. TypeOK'
  BY MainTypeOK DEF Safe, MainNext
<1>2. /\ dnode_list' = <<>> /\ hqueue' = <<>> /\ Live = {} /\ wpc' = wpc
  BY DEF CleanUpQueues, MainStep, workerVars, Safe, CleanUpAlone
<1>3. Busy' = {}
  BY <1>2 DEF Busy, Live, BusyPc
<1>4. ASSUME NEW h \in Host PROVE Looking(h)' = 0 /\ Ready(h)' = 0
  <2>1. Cardinality(Holders(h)') = 0
    BY <1>3, FS_EmptySet DEF Holders
  <2>2. /\ Cardinality(Positions(dnode_list', Lookups(h))) = 0
        /\ Cardinality(Positions(hqueue', Nodes(h))) = 0
    BY <1>2, CountEmpty
  <2>. QED
    BY <1>1, <2>1, <2>2, SeenNext DEF Seen
<1>. QED
  BY <1>4
(***************************************************************************)
(* A step of the application thread is the step of the same name of the    *)
(* service, or one inside a call that the caller does not see.             *)
(***************************************************************************)
LEMMA NoneSeen ==
  ASSUME TypeOK, dnode_list = <<>>, Busy = {}
  PROVE  LookingMap = Service!NoLookups
<1>1. ASSUME NEW h \in Host PROVE Looking(h) = 0
  <2>1. Cardinality(Positions(dnode_list, Lookups(h))) = 0
    BY CountEmpty
  <2>2. Cardinality(Holders(h)) = 0
    BY FS_EmptySet DEF Holders
  <2>. QED
    BY <2>1, <2>2, SeenAsCounts DEF Seen
<1>. QED
  BY <1>1 DEF LookingMap, Service!NoLookups

(* The maps stay when queues, workers and their nodes stay.                *)
LEMMA MapsKept ==
  ASSUME UNCHANGED <<dnode_list, hqueue, wpc, wnode>>
  PROVE  LookingMap' = LookingMap /\ ReadyMap' = ReadyMap
  BY KeepSeen DEF SameSeen, LookingMap, ReadyMap

(* dns_wait, dns_abort and dns_clean_up start and return as in the         *)
(* service.                                                                *)
LEMMA CallSteps ==
  ASSUME Safe, \/ DnsWait \/ WaitReturn \/ WaitSpurious \/ PollReturn \/ DnsAbort
               \/ AbortDone \/ AbortTimeout \/ DnsCleanUp
  PROVE  Unseen \/ Service!Next
<1>1. UNCHANGED <<dnode_list, hqueue, wpc, wnode>>
  BY DEF DnsWait, WaitReturn, WaitSpurious, PollReturn, DnsAbort, AbortDone, AbortTimeout, DnsCleanUp,
         queueVars, workerVars
<1>2. LookingMap' = LookingMap /\ ReadyMap' = ReadyMap
  BY <1>1, MapsKept
<1>3. CASE DnsWait
  <2>1. CallerPc = "idle" /\ CallerPc' = "waiting" /\ dns_thread_stop' = dns_thread_stop
    BY <1>3 DEF DnsWait, MainStep, CallerPc
  <2>2. Service!Wait
    BY <1>2, <2>1 DEF Service!Wait, LookingMap, ReadyMap
  <2>. QED
    BY <2>2, ServiceNextIsStep
<1>4. CASE WaitReturn \/ PollReturn
  <2>1. CallerPc = "waiting" /\ CallerPc' = "idle" /\ dns_thread_stop' = dns_thread_stop
    BY <1>4 DEF WaitReturn, PollReturn, MainStep, CallerPc
  <2>2. dns_thread_stop \/ LookingMap = Service!NoLookups
    BY <1>4, ReturnsWhenDone, NoneSeen DEF Safe
  <2>3. Service!WaitReturns
    BY <1>2, <2>1, <2>2 DEF Service!WaitReturns, LookingMap, ReadyMap
  <2>. QED
    BY <2>3, ServiceNextIsStep
<1>5. CASE WaitSpurious
  <2>1. CallerPc' = CallerPc /\ dns_thread_stop' = dns_thread_stop
    BY <1>5 DEF WaitSpurious, MainStep, CallerPc
  <2>. QED
    BY <1>1, <2>1, KeepSeen DEF Unseen
<1>6. CASE DnsAbort
  <2>1. CallerPc = "idle" /\ CallerPc' = "stopping" /\ dns_thread_stop' = TRUE
    BY <1>6 DEF DnsAbort, MainStep, CallerPc
  <2>2. Service!Stop
    BY <1>2, <2>1 DEF Service!Stop, LookingMap, ReadyMap
  <2>. QED
    BY <2>2, ServiceNextIsStep
<1>7. CASE (AbortDone \/ AbortTimeout) /\ mpc = "aborting"
  <2>1. CallerPc = "stopping" /\ CallerPc' \in {"idle", "threw"} /\ dns_thread_stop' = dns_thread_stop
    BY <1>7 DEF AbortDone, AbortTimeout, MainStep, CallerPc
  <2>2. Service!StopReturns
    BY <1>2, <2>1 DEF Service!StopReturns, LookingMap, ReadyMap
  <2>. QED
    BY <2>2, ServiceNextIsStep
<1>8. CASE AbortDone /\ mpc = "cleanup_abort"
  <2>1. CallerPc' = CallerPc /\ dns_thread_stop' = dns_thread_stop
    BY <1>8 DEF AbortDone, MainStep, CallerPc
  <2>. QED
    BY <1>1, <2>1, KeepSeen DEF Unseen
<1>9. CASE AbortTimeout /\ mpc = "cleanup_abort"
  <2>1. CallerPc = "closing" /\ CallerPc' = "threw" /\ dns_thread_stop' = dns_thread_stop
    BY <1>9 DEF AbortTimeout, MainStep, CallerPc
  <2>2. Service!Closed
    BY <1>2, <2>1 DEF Service!Closed, LookingMap, ReadyMap
  <2>. QED
    BY <2>2, ServiceNextIsStep
<1>10. CASE DnsCleanUp
  <2>1. CallerPc \in {"idle", "threw"} /\ CallerPc' = "closing" /\ dns_thread_stop' \in {dns_thread_stop, TRUE}
    BY <1>10 DEF DnsCleanUp, CallerPc
  <2>2. Service!Close
    BY <1>2, <2>1 DEF Service!Close, LookingMap, ReadyMap
  <2>. QED
    BY <2>2, ServiceNextIsStep
<1>. QED
  BY <1>3, <1>4, <1>5, <1>6, <1>7, <1>8, <1>9, <1>10 DEF AbortDone, AbortTimeout, MainStep

(* The application thread puts, gets, waits and stops as in the service,   *)
(* or does nothing that is seen.                                           *)
LEMMA MainSteps ==
  ASSUME Safe, MainNext
  PROVE  Unseen \/ Service!Next
<1>1. \A h \in Host : Seen(h) /\ Seen(h)'
  BY MainTypeOK, SeenAsCounts, SeenNext DEF Safe
<1>2. ASSUME NEW h \in Host, NEW spam \in BOOLEAN, PutHNode(h, spam)
      PROVE  Unseen \/ Service!Next
  <2>1. mpc = "idle" /\ UNCHANGED <<mpc, dns_thread_stop>>
    BY <1>2 DEF PutHNode
  <2>2. CallerPc = "idle" /\ CallerPc' = CallerPc
    BY <2>1 DEF CallerPc
  <2>3. CASE SameSeen
    BY <2>1, <2>2, <2>3 DEF Unseen
  <2>4. CASE Added(h)
    BY <1>1, <2>1, <2>2, <2>4, PutSeen, ServiceNextIsStep
  <2>. QED
    BY <1>2, <2>3, <2>4, PutEffect
<1>3. CASE GetHNode
  <2>1. mpc = "idle" /\ UNCHANGED <<mpc, dns_thread_stop>>
    BY <1>3 DEF GetHNode
  <2>2. CallerPc = "idle" /\ CallerPc' = CallerPc
    BY <2>1 DEF CallerPc
  <2>3. PICK h \in Host : Removed(h)
    BY <1>3, GetEffect
  <2>4. Service!Get(h)
    BY <1>1, <2>1, <2>2, <2>3, GetSeen
  <2>. QED
    BY <2>4, ServiceNextIsStep
<1>4. ASSUME NEW S \in SUBSET Host, ForgetHNodes(S) PROVE Unseen
  <2>1. UNCHANGED <<mpc, dns_thread_stop, dnode_list, hqueue, wpc, wnode>>
    BY <1>4 DEF ForgetHNodes, queueVars, workerVars
  <2>2. CallerPc' = CallerPc
    BY <2>1 DEF CallerPc
  <2>. QED
    BY <2>1, <2>2, KeepSeen DEF Unseen
<1>5. CASE CleanUpQueues
  <2>1. LookingMap' = Service!NoLookups /\ ReadyMap' = Service!NoLookups
    BY <1>5, CleanUpEffect DEF LookingMap, ReadyMap, Service!NoLookups
  <2>2. CallerPc = "closing" /\ CallerPc' = "closed" /\ dns_thread_stop' = dns_thread_stop
    BY <1>5 DEF CleanUpQueues, MainStep, CallerPc
  <2>3. Service!Closed
    BY <2>1, <2>2 DEF Service!Closed, LookingMap, ReadyMap
  <2>. QED
    BY <2>3, ServiceNextIsStep
<1>. QED
  BY <1>2, <1>3, <1>4, <1>5, CallSteps DEF MainNext

(***************************************************************************)
(* The resolver implements its service: no lookup is lost unless a worker  *)
(* threw, none is returned twice or before it is done, dns_wait returns    *)
(* only when none is left or the resolver was stopped, and no lookup       *)
(* survives dns_clean_up.                                                  *)
(***************************************************************************)
THEOREM ResolverImplementsService == Spec => ImplementsService
<1>1. Init => Service!Init
  <2> SUFFICES ASSUME Init PROVE Service!Init
    OBVIOUS
  <2>1. TypeOK /\ dnode_list = <<>> /\ hqueue = <<>> /\ Busy = {}
    BY InitTypeOK DEF Init, Busy, BusyPc
  <2>2. LookingMap = Service!NoLookups
    BY <2>1, NoneSeen
  <2>3. ReadyMap = Service!NoLookups
    <3>1. \A h \in Host : Ready(h) = 0
      BY <2>1, CountEmpty, SeenAsCounts DEF Seen
    <3>. QED
      BY <3>1 DEF ReadyMap, Service!NoLookups
  <2>4. CallerPc = "idle" /\ dns_thread_stop = FALSE
    BY DEF Init, CallerPc
  <2>. QED
    BY <2>2, <2>3, <2>4 DEF Service!Init, LookingMap, ReadyMap
<1>2. Safe /\ [Next]_vars => [Service!Next]_(Service!vars)
  <2> SUFFICES ASSUME Safe, [Next]_vars PROVE Service!Next \/ UNCHANGED Service!vars
    OBVIOUS
  <2>1. CASE MainNext
    BY <2>1, MainSteps, UnseenStutters
  <2>2. ASSUME NEW w \in Worker, WorkerNext(w) PROVE Service!Next \/ UNCHANGED Service!vars
    BY <2>2, WorkerSteps, UnseenStutters
  <2>3. CASE UNCHANGED vars
    <3>1. Unseen
      BY <2>3, KeepSeen DEF vars, Unseen, CallerPc
    <3>. QED
      BY <3>1, UnseenStutters
  <2>. QED
    BY <2>1, <2>2, <2>3 DEF Next, Terminated
<1>. QED
  BY <1>1, <1>2, InitSafe, NextSafe, PTL DEF Spec, ImplementsService, Service!Spec

-----------------------------------------------------------------------------
(* The calls of webalizer_t                                                *)

Ended == {"clean", "cleaning", "last_cleaning", "done"}
Phase == {"read", "retrieve", "month_wait", "month_retrieve", "abort", "end_wait",
          "end_retrieve"} \cup Ended

PipeTypeOK ==
  /\ phase \in Phase
  /\ records \in Nat
  /\ in_memory \subseteq AnyHost
  /\ stored \subseteq AnyHost
  /\ visit \subseteq AnyHost
  /\ grp_visit \in [AnyHost -> Nat]

(* Where the resolver is when proc_logfile is in each of its phases.       *)
PhaseCalls ==
  /\ phase \in {"read", "retrieve", "month_retrieve", "end_retrieve", "clean"} => mpc = "idle"
  /\ phase \in {"month_wait", "end_wait"} => mpc \in {"idle", "waiting", "polling"}
  /\ phase = "abort" => mpc \in {"aborting", "idle", "threw"}
  /\ phase \in {"cleaning", "last_cleaning"} =>
       mpc \in {"cleanup_abort", "cleanup", "closed", "threw"}
  /\ phase = "done" => mpc \in {"closed", "threw"}

(* The workers are stopped for the end of the run only, and a resolver that*)
(* was stopped takes calls again when they have all left.                  *)
StopsAtEnd ==
  /\ phase \in {"read", "retrieve", "month_wait", "month_retrieve"} => ~dns_thread_stop
  /\ dns_thread_stop /\ mpc \in {"idle", "waiting", "polling"} => Live = {}

WorkersStay == Gone # {} => dns_thread_stop \/ WorkersThrow

(* After dns_wait no lookup is left, only nodes to retrieve and updates.   *)
Waited ==
  \/ phase \in {"month_wait", "end_wait"} /\ mpc = "idle"
  \/ phase \in {"month_retrieve", "end_retrieve"}
NothingLooked == Waited /\ ~dns_thread_stop => \A h \in Host : Looking(h) = 0

(* The host nodes of the running state: those that were stored went through*)
(* the resolver, those that did not are in it or were lost with a worker,  *)
(* in which case dns_unresolved never becomes 0 again.                     *)
InPipe(h) == Looking(h) + Ready(h) > 0
VisitInMemory ==
  /\ phase \notin Ended => visit \subseteq in_memory
  /\ phase = "month_retrieve" => visit = {}
StoredResolved == phase \notin Ended => \A h \in stored \cap Host : hnode[h].resolved
UnresolvedQueued ==
  phase \notin Ended /\ ~dns_thread_stop =>
    \A h \in in_memory \cap Host :
      \/ hnode[h].resolved
      \/ InPipe(h)
      \/ ~Waited /\ dns_unresolved > Outstanding

(* A visit is kept by a host that is not resolved.                         *)
KeptUnresolved ==
  \A h \in Host :
    grp_visit[h] > 0 => ~hnode[h].resolved /\ (phase \notin Ended => h \in in_memory)
NoneKeptAtEnd ==
  phase \in Ended /\ ~dns_thread_stop /\ ~WorkersThrow => \A h \in Host : grp_visit[h] = 0
NoRecordNoHost == records = 0 => in_memory = {}

(* A host that sends no spam is queued once, when it is new.               *)
QueuedOnce ==
  phase \notin Ended =>
    \A h \in Host \ Spammer :
      /\ Looking(h) + Ready(h) <= 1
      /\ InPipe(h) => ~hnode[h].resolved /\ h \in in_memory \cup stored

(* Referenced, in terms of what the caller sees. Only a host that is queued*)
(* again for spam may be swapped out while it is referenced.               *)
Reachable(h) == Ready(h) > 0 \/ (Looking(h) > 0 /\ Live # {})
SwappedSpammer == Spammer \cap CanSwapOut
ReachableInMemory == \A h \in Host \ SwappedSpammer : Reachable(h) => h \in in_memory

PipeSafe ==
  /\ Safe
  /\ PipeTypeOK
  /\ PhaseCalls
  /\ StopsAtEnd
  /\ WorkersStay
  /\ NothingLooked
  /\ VisitInMemory
  /\ StoredResolved
  /\ UnresolvedQueued
  /\ KeptUnresolved
  /\ NoneKeptAtEnd
  /\ NoRecordNoHost
  /\ QueuedOnce
  /\ ReachableInMemory

-----------------------------------------------------------------------------
(* What a step of the resolver does to the counts.                         *)
LEMMA SeenNat ==
  ASSUME TypeOK
  PROVE  \A h \in Host : Looking(h) \in Nat /\ Ready(h) \in Nat
  BY SeenAsCounts DEF Seen

(* Lookups of a host are counted by natural numbers, after a step, too.    *)
LEMMA SeenNatNext == TypeOK' => \A h \in Host : Looking(h)' \in Nat /\ Ready(h)' \in Nat
  BY SeenNext DEF Seen

(* No answer waits in an empty queue.                                      *)
LEMMA NoneReady ==
  ASSUME TypeOK, hqueue = <<>>
  PROVE  \A h \in Host : Ready(h) = 0
  BY SeenAsCounts, CountEmpty DEF Seen

(* The counter and what it counts are numbers.                             *)
LEMMA OutstandingType ==
  ASSUME TypeOK
  PROVE  /\ dns_unresolved \in Int /\ Outstanding \in Nat
         /\ Len(dnode_list) \in Nat /\ Cardinality(Busy) \in Nat
  BY WorkersFinite, LenProperties DEF TypeOK, Outstanding, Busy

(* A step that touches no queue and no worker.                             *)
Quiet ==
  /\ SameSeen
  /\ Live' = Live /\ Gone' = Gone
  /\ Outstanding' = Outstanding /\ dns_unresolved' = dns_unresolved

(* It is such a step that leaves queues, workers and the counter alone.    *)
LEMMA QuietStep ==
  ASSUME UNCHANGED <<dnode_list, hqueue, wpc, wnode, dns_unresolved>>
  PROVE  Quiet
  BY KeepSeen DEF Quiet, Live, Gone, Outstanding, Busy

(* Queueing a node counts it.                                              *)
LEMMA QueueCounts ==
  ASSUME TypeOK, NEW d \in DNode, QueueDNode(d), wpc' = wpc
  PROVE  /\ dns_unresolved' = dns_unresolved + 1
         /\ Outstanding' = Outstanding + 1
         /\ Live' = Live
<1>1. Len(dnode_list') = Len(dnode_list) + 1
  BY AppendProperties DEF TypeOK, QueueDNode
<1>2. Busy' = Busy /\ Live' = Live
  BY DEF Busy, Live
<1>. QED
  BY <1>1, <1>2, OutstandingType DEF Outstanding, QueueDNode

(* A worker never makes up for a node that was lost, and loses the one it  *)
(* holds when it throws.                                                   *)
LEMMA WorkerCounts ==
  ASSUME Safe, NEW w \in Worker, WorkerNext(w)
  PROVE  /\ dns_unresolved > Outstanding => dns_unresolved' > Outstanding'
         /\ Throw(w) => dns_unresolved' > Outstanding'
         /\ Live # {}
<1>1. TypeOK /\ wpc \in [Worker -> WorkerPc]
  BY DEF Safe, TypeOK
<1>2. w \in Live
  BY DEF WorkerNext, WorkerProgress, LoopTest, PopNothing, PopDNode, DbGet, Resolve, DbPut,
         Finish, Throw, Exit, WorkerStep, Live
<1>3. Outstanding <= dns_unresolved
  BY <1>2 DEF Safe, Accounted, CleanUpAlone
<1>4. ASSUME NEW from \in WorkerPc, NEW to \in WorkerPc, WorkerStep(w, from, to)
      PROVE  Cardinality(Busy)' = Cardinality(Busy) + One(to, BusyPc) - One(from, BusyPc)
  BY <1>1, <1>4, WorkerMoves
<1>5. /\ dns_unresolved \in Int /\ Outstanding \in Nat
      /\ Len(dnode_list) \in Nat /\ Cardinality(Busy) \in Nat
  BY <1>1, OutstandingType
<1>6. CASE LoopTest(w) \/ PopNothing(w) \/ DbGet(w) \/ Resolve(w) \/ DbPut(w) \/ Exit(w)
  <2>1. PICK from \in WorkerPc, to \in WorkerPc :
          WorkerStep(w, from, to) /\ (from \in BusyPc <=> to \in BusyPc)
    BY <1>6 DEF LoopTest, PopNothing, DbGet, Resolve, DbPut, Exit, WorkerPc, BusyPc
  <2>2. Cardinality(Busy)' = Cardinality(Busy)
    BY <1>4, <1>5, <2>1 DEF One
  <2>3. UNCHANGED <<dnode_list, dns_unresolved>> /\ ~Throw(w)
    BY <1>1, <1>6 DEF LoopTest, PopNothing, DbGet, Resolve, DbPut, Exit, Throw, queueVars, WorkerStep
  <2>. QED
    BY <1>2, <2>2, <2>3 DEF Outstanding
<1>7. CASE PopDNode(w)
  <2>1. PICK to \in {"get", "put"} : WorkerStep(w, "pop", to)
    BY <1>7 DEF PopDNode
  <2>2. Cardinality(Busy)' = Cardinality(Busy) + 1
    BY <1>4, <1>5, <2>1 DEF One, WorkerPc, BusyPc
  <2>3. Len(dnode_list') = Len(dnode_list) - 1
    BY <1>1, <1>7, HeadTailProperties DEF PopDNode, TypeOK
  <2>4. dns_unresolved' = dns_unresolved /\ ~Throw(w)
    BY <1>7, <2>1 DEF PopDNode, Throw, WorkerStep
  <2>. QED
    BY <1>2, <1>5, <2>2, <2>3, <2>4 DEF Outstanding
<1>8. CASE Finish(w)
  <2>1. WorkerStep(w, "finish", "top")
    BY <1>8 DEF Finish
  <2>2. Cardinality(Busy)' = Cardinality(Busy) - 1
    BY <1>4, <1>5, <2>1 DEF One, WorkerPc, BusyPc
  <2>3. dns_unresolved' = dns_unresolved - 1 /\ dnode_list' = dnode_list /\ ~Throw(w)
    BY <1>8, <2>1 DEF Finish, StillUnresolved, Throw, WorkerStep
  <2>. QED
    BY <1>2, <1>5, <2>2, <2>3 DEF Outstanding
<1>9. CASE Throw(w)
  <2>1. PICK from \in {"get", "resolve", "put"} : WorkerStep(w, from, "exit")
    BY <1>9 DEF Throw
  <2>2. Cardinality(Busy)' = Cardinality(Busy) - 1
    BY <1>4, <1>5, <2>1 DEF One, WorkerPc, BusyPc
  <2>3. dns_unresolved' = dns_unresolved /\ dnode_list' = dnode_list
    BY <1>9 DEF Throw, queueVars
  <2>. QED
    BY <1>2, <1>3, <1>5, <2>2, <2>3 DEF Outstanding
<1>. QED
  BY <1>6, <1>7, <1>8, <1>9 DEF WorkerNext, WorkerProgress

(* A host that the resolver refers to is seen.                             *)
LEMMA ReferencedReachable ==
  ASSUME TypeOK, NEW h \in Host, Referenced(h)
  PROVE  Reachable(h)
<1>1. /\ Looking(h) = Cardinality(Positions(dnode_list, Lookups(h))) + Cardinality(Holders(h))
      /\ Ready(h) = Cardinality(Positions(hqueue, Nodes(h)))
      /\ IsFiniteSet(Positions(dnode_list, Lookups(h)))
      /\ IsFiniteSet(Positions(hqueue, Nodes(h)))
      /\ IsFiniteSet(Holders(h))
      /\ Cardinality(Positions(dnode_list, Lookups(h))) \in Nat
      /\ Cardinality(Holders(h)) \in Nat
      /\ Ready(h) \in Nat
  BY SeenAsCounts, PositionsFinite, WorkersFinite DEF Seen, TypeOK
<1>2. CASE \E w \in Busy : wnode[w].lookup /\ wnode[w].host = h
  <2>1. Holders(h) # {} /\ Live # {}
    BY <1>2 DEF Holders, Busy, BusyPc, Live
  <2>2. Cardinality(Holders(h)) # 0
    BY <1>1, <2>1, FS_EmptySet
  <2>. QED
    BY <1>1, <2>1, <2>2 DEF Reachable
<1>3. CASE \E i \in DOMAIN hqueue : hqueue[i].host = h
  <2>1. Positions(hqueue, Nodes(h)) # {}
    <3>1. PICK i \in DOMAIN hqueue : hqueue[i].host = h
      BY <1>3
    <3>2. hqueue[i] \in DNode
      BY <3>1, ElementOfSeq, LenProperties DEF TypeOK
    <3>. QED
      BY <3>1, <3>2 DEF Positions, Nodes
  <2>2. Cardinality(Positions(hqueue, Nodes(h))) # 0
    BY <1>1, <2>1, FS_EmptySet
  <2>. QED
    BY <1>1, <2>2 DEF Reachable
<1>4. CASE /\ Live # {}
           /\ \E i \in DOMAIN dnode_list : dnode_list[i].lookup /\ dnode_list[i].host = h
  <2>1. Positions(dnode_list, Lookups(h)) # {}
    <3>1. PICK i \in DOMAIN dnode_list : dnode_list[i].lookup /\ dnode_list[i].host = h
      BY <1>4
    <3>2. dnode_list[i] \in DNode
      BY <3>1, ElementOfSeq, LenProperties DEF TypeOK
    <3>. QED
      BY <3>1, <3>2 DEF Positions, Lookups
  <2>2. Cardinality(Positions(dnode_list, Lookups(h))) # 0
    BY <1>1, <2>1, FS_EmptySet
  <2>. QED
    BY <1>1, <1>4, <2>2 DEF Reachable
<1>. QED
  BY <1>2, <1>3, <1>4 DEF Referenced

(* And one that is seen is referred to while there are workers.            *)
LEMMA SeenReferenced ==
  ASSUME TypeOK, NEW h \in Host, InPipe(h), Live # {}
  PROVE  Referenced(h)
<1>1. /\ Looking(h) = Cardinality(Positions(dnode_list, Lookups(h))) + Cardinality(Holders(h))
      /\ Ready(h) = Cardinality(Positions(hqueue, Nodes(h)))
  BY SeenAsCounts DEF Seen
<1>2. CASE Holders(h) # {}
  BY <1>2 DEF Holders, Referenced
<1>3. CASE Positions(hqueue, Nodes(h)) # {}
  BY <1>3 DEF Positions, Nodes, Referenced
<1>4. CASE Positions(dnode_list, Lookups(h)) # {}
  BY <1>4 DEF Positions, Lookups, Referenced
<1>5. CASE Holders(h) = {} /\ Positions(hqueue, Nodes(h)) = {} /\ Positions(dnode_list, Lookups(h)) = {}
  BY <1>1, <1>5, FS_EmptySet DEF InPipe
<1>. QED
  BY <1>2, <1>3, <1>4, <1>5

-----------------------------------------------------------------------------
(* end_visit keeps the visits of hosts that are not resolved.              *)
LEMMA KeptVisits ==
  ASSUME PipeTypeOK, NEW S
  PROVE  /\ Kept(S) \in [AnyHost -> Nat]
         /\ \A h \in Host : Kept(S)[h] > 0 =>
              grp_visit[h] > 0 \/ (h \in S \cap visit /\ ~hnode[h].resolved)
<1>1. \A h \in Host : h \in AnyHost /\ (Resolved(h) <=> hnode[h].resolved)
  BY DEF AnyHost, Resolved
<1>2. \A h \in AnyHost : grp_visit[h] \in Nat /\ grp_visit[h] + 1 \in Nat
  BY DEF PipeTypeOK
<1>. QED
  BY <1>1, <1>2 DEF Kept

(* The invariant holds at the start.                                       *)
LEMMA InitPipeSafe == PipeInit => PipeSafe
<1> SUFFICES ASSUME PipeInit PROVE PipeSafe
  OBVIOUS
<1>1. Safe
  BY InitSafe DEF PipeInit
<1>2. PipeTypeOK
  BY DEF PipeInit, PipeTypeOK, Phase
<1>3. PhaseCalls /\ StopsAtEnd /\ WorkersStay /\ NothingLooked /\ VisitInMemory /\ StoredResolved
      /\ UnresolvedQueued /\ NoneKeptAtEnd /\ NoRecordNoHost
  BY DEF PipeInit, Init, PhaseCalls, StopsAtEnd, WorkersStay, Gone, NothingLooked, Waited, VisitInMemory,
         StoredResolved, UnresolvedQueued, NoneKeptAtEnd, Ended, NoRecordNoHost
<1>4. KeptUnresolved
  BY DEF PipeInit, KeptUnresolved, AnyHost
<1>5. \A h \in Host : Looking(h) = 0 /\ Ready(h) = 0
  <2>1. TypeOK /\ dnode_list = <<>> /\ hqueue = <<>> /\ Busy = {}
    BY <1>1 DEF PipeInit, Init, Safe, Busy, BusyPc
  <2>2. LookingMap = Service!NoLookups
    BY <2>1, NoneSeen
  <2>. QED
    BY <2>1, <2>2, NoneReady DEF LookingMap, Service!NoLookups
<1>6. QueuedOnce /\ ReachableInMemory
  BY <1>5 DEF QueuedOnce, ReachableInMemory, Reachable, InPipe
<1>. QED
  BY <1>1, <1>2, <1>3, <1>4, <1>6 DEF PipeSafe

(***************************************************************************)
(* Steps of the workers.                                                   *)
(***************************************************************************)
LEMMA WorkersPipe ==
  ASSUME PipeSafe, NEW w \in Worker, WorkerNext(w), UNCHANGED <<phase, pipeVars>>
  PROVE  PipeSafe'
<1>1. Safe' /\ TypeOK /\ TypeOK'
  BY NextSafe DEF PipeSafe, Safe, Next
<1>2. UNCHANGED <<mpc, hnode, dns_thread_stop, phase, records, in_memory, stored, visit, grp_visit>>
  BY DEF WorkerNext, WorkerProgress, LoopTest, PopNothing, PopDNode, DbGet, Resolve, DbPut,
         Finish, Throw, Exit, mainVars, pipeVars
<1>3. /\ dns_unresolved > Outstanding => dns_unresolved' > Outstanding'
      /\ Throw(w) => dns_unresolved' > Outstanding'
      /\ Live # {}
  BY WorkerCounts DEF PipeSafe
<1>4. \A h \in Host : /\ Looking(h) \in Nat /\ Ready(h) \in Nat
                      /\ Looking(h)' \in Nat /\ Ready(h)' \in Nat
  BY <1>1, SeenNat, SeenNatNext
<1>5. /\ \A h \in Host : /\ Looking(h)' <= Looking(h)
                         /\ Looking(h)' + Ready(h)' <= Looking(h) + Ready(h)
      /\ \/ \A h \in Host : Looking(h)' + Ready(h)' = Looking(h) + Ready(h)
         \/ /\ dns_unresolved' > Outstanding'
            /\ \E h \in Host : Looking(h) > 0
  <2>1. CASE SameSeen
    BY <1>4, <2>1 DEF SameSeen
  <2>2. ASSUME NEW x \in Host, Completed(x)
        PROVE  \A h \in Host : /\ Looking(h)' <= Looking(h)
                               /\ Looking(h)' + Ready(h)' = Looking(h) + Ready(h)
    BY <1>4, <2>2 DEF Completed, One
  <2>3. ASSUME NEW x \in Host, Throw(w), Dropped(x)
        PROVE  /\ \A h \in Host : /\ Looking(h)' <= Looking(h)
                                  /\ Looking(h)' + Ready(h)' <= Looking(h) + Ready(h)
               /\ dns_unresolved' > Outstanding'
               /\ Looking(x) > 0
    BY <1>3, <1>4, <2>3 DEF Dropped, One
  <2>4. SameSeen \/ (\E x \in Host : Completed(x)) \/ (Throw(w) /\ \E x \in Host : Dropped(x))
    BY WorkerEffect DEF PipeSafe
  <2>5. CASE \E x \in Host : Completed(x)
    <3>1. \A h \in Host : /\ Looking(h)' <= Looking(h)
                          /\ Looking(h)' + Ready(h)' = Looking(h) + Ready(h)
      BY <2>2, <2>5
    <3>. QED
      BY <1>4, <3>1
  <2>6. CASE Throw(w) /\ \E x \in Host : Dropped(x)
    <3>1. PICK x \in Host : Dropped(x)
      BY <2>6
    <3>. QED
      BY <2>3, <2>6, <3>1
  <2>. QED
    BY <2>1, <2>4, <2>5, <2>6
<1>6. PipeTypeOK' /\ PhaseCalls' /\ StopsAtEnd'
  BY <1>2, <1>3 DEF PipeSafe, PipeTypeOK, PhaseCalls, StopsAtEnd
<1>7. /\ VisitInMemory' /\ StoredResolved' /\ KeptUnresolved'
      /\ NoneKeptAtEnd' /\ NoRecordNoHost'
  BY <1>2 DEF PipeSafe, VisitInMemory, StoredResolved, KeptUnresolved, NoneKeptAtEnd, NoRecordNoHost
<1>8. NothingLooked' /\ QueuedOnce'
  BY <1>2, <1>4, <1>5 DEF PipeSafe, NothingLooked, Waited, QueuedOnce, InPipe
<1>9. UnresolvedQueued'
  <2>1. CASE \A h \in Host : Looking(h)' + Ready(h)' = Looking(h) + Ready(h)
    BY <1>2, <1>3, <2>1 DEF PipeSafe, UnresolvedQueued, Waited, InPipe
  <2>2. CASE dns_unresolved' > Outstanding' /\ \E h \in Host : Looking(h) > 0
    BY <1>2, <2>2 DEF PipeSafe, UnresolvedQueued, NothingLooked, Waited
  <2>. QED
    BY <1>5, <2>1, <2>2
<1>10. ReachableInMemory'
  BY <1>2, <1>3, <1>4, <1>5 DEF PipeSafe, ReachableInMemory, Reachable
<1>11. WorkersStay'
  <2>1. CASE dns_thread_stop \/ WorkersThrow
    BY <1>2, <2>1 DEF WorkersStay
  <2>2. CASE ~dns_thread_stop /\ ~WorkersThrow
    <3>1. \A v \in Worker : wpc'[v] \in {"exit", "dead"} => wpc[v] \in {"exit", "dead"}
      BY <1>1, <2>2 DEF WorkerNext, WorkerProgress, LoopTest, PopNothing, PopDNode, DbGet, Resolve,
         DbPut, Finish, Throw, Exit, WorkerStep, TypeOK
    <3>2. Gone = {}
      BY <2>2 DEF PipeSafe, WorkersStay
    <3>. QED
      BY <3>1, <3>2 DEF WorkersStay, Gone
  <2>. QED
    BY <2>1, <2>2
<1>. QED
  BY <1>1, <1>6, <1>7, <1>8, <1>9, <1>10, <1>11 DEF PipeSafe

(***************************************************************************)
(* Calls in progress: dns_wait returns, dns_abort and dns_clean_up go on.  *)
(***************************************************************************)
LEMMA WaitedNone ==
  ASSUME Safe, WaitReturn \/ PollReturn, ~dns_thread_stop
  PROVE  dns_unresolved = Outstanding /\ \A h \in Host : Looking(h) = 0
<1>1. dnode_list = <<>> /\ Busy = {} /\ dns_unresolved = 0
  BY ReturnsWhenDone DEF WaitReturn, PollReturn, Safe, EventMeansDone
<1>2. Outstanding = 0
  BY <1>1, EmptySeq, FS_EmptySet DEF Outstanding
<1>3. LookingMap = Service!NoLookups
  BY <1>1, NoneSeen DEF Safe
<1>. QED
  BY <1>1, <1>2, <1>3 DEF LookingMap, Service!NoLookups

(* Calls of the resolver that return keep it.                              *)
LEMMA ReturnsPipe ==
  ASSUME PipeSafe, ResolverReturns
  PROVE  PipeSafe'
<1>1. MainNext /\ Safe' /\ TypeOK /\ TypeOK'
  <2>1. MainNext
    BY DEF ResolverReturns, MainNext
  <2>. QED
    BY <2>1, MainSafe DEF PipeSafe, Safe
<1>2. /\ UNCHANGED <<hnode, dns_thread_stop, phase, records, in_memory, stored, visit, grp_visit,
                     wpc, wnode, dns_unresolved>>
      /\ phase \in {"month_wait", "end_wait", "abort", "cleaning", "last_cleaning"}
  BY DEF ResolverReturns, WaitReturn, WaitSpurious, PollReturn, AbortDone, AbortTimeout, CleanUpQueues,
         MainStep, pipeVars, queueVars, workerVars, PipeSafe, PhaseCalls, PipeTypeOK, Phase, Ended
<1>3. PipeTypeOK' /\ PhaseCalls' /\ VisitInMemory' /\ StoredResolved' /\ KeptUnresolved'
      /\ NoneKeptAtEnd' /\ NoRecordNoHost' /\ WorkersStay'
  BY <1>2 DEF ResolverReturns, WaitReturn, WaitSpurious, PollReturn, AbortDone, AbortTimeout,
     CleanUpQueues, MainStep, PipeSafe, PipeTypeOK, PhaseCalls, VisitInMemory, StoredResolved,
     KeptUnresolved, NoneKeptAtEnd, NoRecordNoHost, WorkersStay, Gone, Ended
<1>4. CASE WaitReturn \/ WaitSpurious \/ PollReturn \/ AbortDone \/ AbortTimeout
  <2>1. Quiet
    BY <1>2, <1>4, QuietStep DEF WaitReturn, WaitSpurious, PollReturn, AbortDone, AbortTimeout, queueVars
  <2>2. StopsAtEnd'
    <3>1. AbortDone => Live = {}
      BY NoneLive DEF AbortDone, PipeSafe
    <3>. QED
      BY <1>2, <1>4, <2>1, <3>1 DEF WaitReturn, WaitSpurious, PollReturn, AbortDone, AbortTimeout,
         MainStep, PipeSafe, StopsAtEnd, Quiet
  <2>3. NothingLooked' /\ UnresolvedQueued'
    <3>1. CASE (WaitReturn \/ PollReturn) /\ ~dns_thread_stop
      <4>1. dns_unresolved = Outstanding /\ \A h \in Host : Looking(h) = 0
        BY <3>1, WaitedNone DEF PipeSafe
      <4>2. dns_unresolved \in Int /\ ~(dns_unresolved > Outstanding)
        BY <1>1, <4>1, OutstandingType
      <4>3. NothingLooked'
        BY <2>1, <4>1 DEF NothingLooked, Quiet, SameSeen
      <4>4. UnresolvedQueued'
        BY <1>2, <2>1, <4>2 DEF PipeSafe, UnresolvedQueued, Quiet, SameSeen, InPipe
      <4>. QED
        BY <4>3, <4>4
    <3>2. CASE dns_thread_stop
      BY <1>2, <3>2 DEF NothingLooked, UnresolvedQueued
    <3>3. CASE AbortDone \/ AbortTimeout \/ WaitSpurious
      BY <1>2, <2>1, <3>3 DEF AbortDone, AbortTimeout, WaitSpurious, MainStep, PipeSafe, PhaseCalls, NothingLooked,
         UnresolvedQueued, Waited, Quiet, SameSeen, InPipe, Ended
    <3>. QED
      BY <1>4, <3>1, <3>2, <3>3
  <2>4. QueuedOnce' /\ ReachableInMemory'
    BY <1>2, <2>1 DEF PipeSafe, QueuedOnce, ReachableInMemory, Reachable, InPipe, Quiet, SameSeen
  <2>. QED
    BY <1>1, <1>3, <2>2, <2>3, <2>4 DEF PipeSafe
<1>5. CASE CleanUpQueues
  <2>1. phase \in {"cleaning", "last_cleaning"} /\ mpc' = "closed"
    BY <1>2, <1>5 DEF CleanUpQueues, MainStep, PipeSafe, PhaseCalls
  <2>2. \A h \in Host : Looking(h)' = 0 /\ Ready(h)' = 0
    BY <1>5, CleanUpEffect DEF PipeSafe
  <2>3. StopsAtEnd' /\ NothingLooked' /\ UnresolvedQueued' /\ QueuedOnce' /\ ReachableInMemory'
    BY <1>2, <2>1, <2>2 DEF StopsAtEnd, NothingLooked, Waited, UnresolvedQueued, QueuedOnce,
       ReachableInMemory, Reachable, Ended
  <2>. QED
    BY <1>1, <1>3, <2>3 DEF PipeSafe
<1>. QED
  BY <1>4, <1>5 DEF ResolverReturns

(***************************************************************************)
(* Calls that begin: dns_wait, dns_abort and dns_clean_up.                 *)
(***************************************************************************)
Calls == NewMonth \/ EndOfLogs \/ CtrlC \/ Aborted \/ Clean \/ CleanUpAfterError

(* Starting a call of the resolver keeps its invariant, and is quiet.      *)
LEMMA CallStepsKeep ==
  ASSUME Safe, UNCHANGED vars \/ DnsWait \/ DnsAbort \/ DnsCleanUp
  PROVE  Safe' /\ [Next]_vars /\ Quiet /\ hnode' = hnode
<1>1. [Next]_vars
  BY DEF Next, MainNext
<1>2. UNCHANGED <<dnode_list, hqueue, wpc, wnode, dns_unresolved, hnode>>
  BY DEF vars, DnsWait, DnsAbort, DnsCleanUp, queueVars, workerVars
<1>. QED
  BY <1>1, <1>2, NextSafe, QuietStep

(* dns_wait, dns_abort and dns_clean_up, where the log processor calls     *)
(* them.                                                                   *)
LEMMA CallsPipe ==
  ASSUME PipeSafe, Calls
  PROVE  PipeSafe' /\ [Next]_vars
<1>1. Safe' /\ [Next]_vars /\ Quiet /\ hnode' = hnode
  BY CallStepsKeep DEF Calls, NewMonth, EndOfLogs, CtrlC, Aborted, Clean, CleanUpAfterError, PipeSafe
<1>2. UNCHANGED <<records, in_memory, stored, visit, grp_visit>>
  BY DEF Calls, NewMonth, EndOfLogs, CtrlC, Aborted, Clean, CleanUpAfterError, pipeVars
<1>3. PipeTypeOK' /\ PhaseCalls'
  BY <1>2 DEF Calls, NewMonth, EndOfLogs, CtrlC, Aborted, Clean, CleanUpAfterError, Goto, DnsWait,
     DnsAbort, DnsCleanUp, MainStep, vars, PipeSafe, PipeTypeOK, PhaseCalls, Phase, Ended
<1>4. StopsAtEnd'
  BY <1>1 DEF Calls, NewMonth, EndOfLogs, CtrlC, Aborted, Clean, CleanUpAfterError, Goto, DnsWait,
     DnsAbort, DnsCleanUp, MainStep, vars, PipeSafe, StopsAtEnd, PhaseCalls, Quiet
<1>5. ~Waited' /\ (phase \in Ended => phase' \in Ended) /\ phase' # "month_retrieve"
  BY DEF Calls, NewMonth, EndOfLogs, CtrlC, Aborted, Clean, CleanUpAfterError, Goto, DnsWait,
     MainStep, Waited, Ended
<1>6. VisitInMemory' /\ StoredResolved' /\ KeptUnresolved' /\ NoRecordNoHost'
  BY <1>1, <1>2, <1>5 DEF PipeSafe, VisitInMemory, StoredResolved, KeptUnresolved, NoRecordNoHost
<1>7. dns_thread_stop => dns_thread_stop'
  BY DEF Calls, NewMonth, EndOfLogs, CtrlC, Aborted, Clean, CleanUpAfterError, DnsWait, DnsAbort,
     DnsCleanUp, vars
<1>8. NothingLooked' /\ QueuedOnce' /\ ReachableInMemory' /\ WorkersStay'
  BY <1>1, <1>2, <1>5, <1>7 DEF PipeSafe, WorkersStay, NothingLooked, QueuedOnce, ReachableInMemory, Reachable, InPipe,
     Quiet, SameSeen
<1>9. UnresolvedQueued'
  BY <1>1, <1>2, <1>5, <1>7 DEF PipeSafe, UnresolvedQueued, InPipe, Quiet, SameSeen
<1>10. NoneKeptAtEnd'
  <2>1. CASE phase \in Ended
    BY <1>2, <1>7, <2>1 DEF PipeSafe, NoneKeptAtEnd
  <2>2. CASE phase' \notin Ended
    BY <2>2 DEF NoneKeptAtEnd
  <2>3. CASE phase \notin Ended /\ phase' = "clean"
    <3>1. in_memory = {}
      BY <2>3 DEF Calls, NewMonth, EndOfLogs, CtrlC, Aborted, Clean, CleanUpAfterError, Goto,
         PipeSafe, NoRecordNoHost
    <3>2. \A h \in Host : ~(grp_visit[h] > 0) /\ grp_visit[h] \in Nat
      BY <2>3, <3>1 DEF PipeSafe, KeptUnresolved, PipeTypeOK, AnyHost
    <3>. QED
      BY <1>2, <3>2 DEF NoneKeptAtEnd
  <2>4. CASE phase \notin Ended /\ phase' # "clean" /\ phase' \in Ended
    <3>1. CleanUpAfterError
      BY <2>4 DEF Calls, NewMonth, EndOfLogs, CtrlC, Aborted, Clean, Goto, Ended
    <3>2. CASE dns_thread_stop'
      BY <3>2 DEF NoneKeptAtEnd
    <3>3. CASE WorkersThrow
      BY <3>3 DEF NoneKeptAtEnd
    <3>4. CASE ~WorkersThrow /\ ~dns_thread_stop'
      <4>1. dns_live_workers = 0 /\ ~dns_thread_stop
        BY <1>7, <3>1, <3>4 DEF CleanUpAfterError, DnsCleanUp
      <4>2. Live = {}
        BY <4>1, NoneLive DEF PipeSafe
      <4>3. Gone = Worker /\ Worker # {}
        BY <4>2, ResolverAssumption DEF Live, Gone, ResolverAssumption
      <4>. QED
        BY <3>4, <4>1, <4>3 DEF PipeSafe, WorkersStay
    <3>. QED
      BY <3>2, <3>3, <3>4
  <2>. QED
    BY <2>1, <2>2, <2>3, <2>4
<1>. QED
  BY <1>1, <1>3, <1>4, <1>6, <1>8, <1>9, <1>10 DEF PipeSafe

(***************************************************************************)
(* A log record: its host becomes part of the state, and a new host or one *)
(* that turned out to be a spammer is queued.                              *)
(***************************************************************************)
LEMMA PutKeeps ==
  ASSUME Safe, NEW h \in Host, NEW spam \in BOOLEAN, PutHNode(h, spam)
  PROVE  /\ \A x \in Host : hnode'[x].resolved = hnode[x].resolved
         /\ dns_unresolved > Outstanding => dns_unresolved' > Outstanding'
         /\ Live' = Live /\ Gone' = Gone
<1> DEFINE hn == [hnode[h] EXCEPT !.spammer = @ \/ spam]
<1>1. TypeOK /\ hnode[h] \in HNode
  BY DEF Safe, TypeOK
<1>2. hn \in HNode
  BY <1>1 DEF HNode
<1>3. hn.resolved = hnode[h].resolved
  BY <1>1 DEF HNode
<1>4. NewDNode(h, hn) \in DNode
  BY <1>2 DEF NewDNode, HNode, DNode
<1>5. hnode' = [hnode EXCEPT ![h] = hn] /\ QueueDNode(NewDNode(h, hn)) /\ wpc' = wpc
  BY DEF PutHNode, workerVars
<1> HIDE DEF hn
<1>6. \A x \in Host : hnode'[x].resolved = hnode[x].resolved
  BY <1>1, <1>3, <1>5 DEF TypeOK
<1>7. dns_unresolved > Outstanding => dns_unresolved' > Outstanding'
  BY <1>1, <1>4, <1>5, QueueCounts, OutstandingType
<1>. QED
  BY <1>5, <1>6, <1>7 DEF Live, Gone

(* A record: its host is queued when it is new, and its last visit may     *)
(* end.                                                                    *)
LEMMA ReadRecordPipe ==
  ASSUME PipeSafe, NEW h \in AnyHost, NEW spam \in BOOLEAN, NEW timedout \in BOOLEAN,
         ReadRecord(h, spam, timedout)
  PROVE  PipeSafe' /\ [Next]_vars
<1> DEFINE newhost == h \notin in_memory \cup stored
           called == h \in Host /\ PutHNode(h, spam) /\ (newhost \/ h \in Spammer)
           quiet == UNCHANGED vars /\ ~(h \in Host /\ newhost)
<1>1. called \/ quiet
  BY DEF ReadRecord
<1>2. [Next]_vars
  BY <1>1 DEF Next, MainNext
<1>3. Safe' /\ Safe /\ TypeOK /\ TypeOK' /\ PipeTypeOK
  BY <1>2, NextSafe DEF PipeSafe, Safe
<1>4. /\ phase = "read" /\ phase' = "retrieve"
      /\ mpc = "idle" /\ mpc' = mpc /\ dns_thread_stop' = dns_thread_stop
      /\ ~dns_thread_stop /\ ~Waited /\ ~Waited'
      /\ phase \notin Ended /\ phase' \notin Ended
  BY <1>1 DEF ReadRecord, Goto, PutHNode, vars, Waited, Ended, PipeSafe, StopsAtEnd
<1>5. /\ records' = records + 1 /\ records \in Nat
      /\ in_memory' = in_memory \cup {h} /\ stored' = stored /\ visit' = visit \cup {h}
      /\ grp_visit' = Kept({h}) \/ grp_visit' = grp_visit
  BY <1>3 DEF ReadRecord, PipeTypeOK
<1>6. /\ \A x \in Host : hnode'[x].resolved = hnode[x].resolved
      /\ dns_unresolved > Outstanding => dns_unresolved' > Outstanding'
      /\ Live' = Live /\ Gone' = Gone
  <2>1. CASE called
    BY <1>3, <2>1, PutKeeps
  <2>2. CASE quiet
    BY <2>2, QuietStep DEF vars, Quiet
  <2>. QED
    BY <1>1, <2>1, <2>2
<1>7. \A x \in Host : /\ Looking(x) \in Nat /\ Ready(x) \in Nat
                      /\ Looking(x)' \in Nat /\ Ready(x)' \in Nat
  BY <1>3, SeenNat, SeenNatNext
<1>8. /\ \A x \in Host \ {h} : Looking(x)' = Looking(x) /\ Ready(x)' = Ready(x)
      /\ h \in Host => \/ /\ Looking(h)' = Looking(h) /\ Ready(h)' = Ready(h)
                          /\ newhost => hnode[h].resolved
                       \/ /\ Looking(h)' = Looking(h) + 1 /\ Ready(h)' = Ready(h)
                          /\ ~hnode[h].resolved /\ (newhost \/ h \in Spammer)
  <2>1. CASE quiet
    <3>1. SameSeen
      BY <2>1, QuietStep DEF vars, Quiet
    <3>. QED
      BY <2>1, <3>1 DEF SameSeen
  <2>2. CASE called
    <3>1. CASE hnode[h].resolved
      BY <1>3, <2>2, <3>1, PutEffect DEF SameSeen
    <3>2. CASE ~hnode[h].resolved
      <4>1. Added(h)
        BY <1>3, <2>2, <3>2, PutEffect
      <4>. QED
        BY <1>7, <2>2, <3>2, <4>1 DEF Added, One
    <3>. QED
      BY <3>1, <3>2
  <2>. QED
    BY <1>1, <2>1, <2>2
<1> HIDE DEF called, quiet
<1>9. PipeTypeOK' /\ PhaseCalls' /\ StopsAtEnd' /\ WorkersStay'
  <2>1. grp_visit' \in [AnyHost -> Nat]
    BY <1>3, <1>5, KeptVisits DEF PipeTypeOK
  <2>. QED
    BY <1>3, <1>4, <1>5, <1>6, <2>1 DEF PipeSafe, PipeTypeOK, PhaseCalls, StopsAtEnd, WorkersStay, Phase
<1>10. NothingLooked' /\ VisitInMemory' /\ StoredResolved' /\ NoneKeptAtEnd' /\ NoRecordNoHost'
  BY <1>4, <1>5, <1>6 DEF PipeSafe, NothingLooked, VisitInMemory, StoredResolved, NoneKeptAtEnd,
     NoRecordNoHost
<1>11. KeptUnresolved'
  <2>1. ASSUME NEW x \in Host, grp_visit'[x] > 0
        PROVE  ~hnode[x].resolved /\ x \in in_memory'
    <3>1. grp_visit[x] > 0 \/ (x = h /\ ~hnode[x].resolved)
      BY <1>3, <1>5, <2>1, KeptVisits
    <3>. QED
      BY <1>4, <1>5, <3>1 DEF PipeSafe, KeptUnresolved
  <2>. QED
    BY <1>6, <2>1 DEF KeptUnresolved
<1>12. UnresolvedQueued'
  <2>1. ASSUME NEW x \in in_memory' \cap Host, ~hnode[x].resolved
        PROVE  InPipe(x)' \/ dns_unresolved' > Outstanding'
    <3>1. CASE x \in in_memory
      BY <1>4, <1>6, <1>7, <1>8, <2>1, <3>1 DEF PipeSafe, UnresolvedQueued, InPipe
    <3>2. CASE x \notin in_memory
      <4>1. x = h /\ newhost
        BY <1>4, <1>5, <2>1, <3>2 DEF PipeSafe, StoredResolved
      <4>. QED
        BY <1>7, <1>8, <2>1, <4>1 DEF InPipe
    <3>. QED
      BY <3>1, <3>2
  <2>. QED
    BY <1>4, <1>6, <2>1 DEF UnresolvedQueued
<1>13. QueuedOnce'
  <2>1. ASSUME NEW x \in Host \ Spammer
        PROVE  /\ Looking(x)' + Ready(x)' <= 1
               /\ InPipe(x)' => ~hnode[x].resolved /\ x \in in_memory' \cup stored'
    <3>1. /\ Looking(x) + Ready(x) <= 1
          /\ InPipe(x) => ~hnode[x].resolved /\ x \in in_memory \cup stored
      BY <1>4 DEF PipeSafe, QueuedOnce
    <3>2. CASE Looking(x)' = Looking(x) /\ Ready(x)' = Ready(x)
      BY <1>5, <3>1, <3>2 DEF InPipe
    <3>3. CASE x = h /\ newhost /\ Looking(h)' = Looking(h) + 1 /\ Ready(h)' = Ready(h)
               /\ ~hnode[h].resolved
      BY <1>5, <1>7, <3>1, <3>3 DEF InPipe
    <3>. QED
      BY <1>8, <3>2, <3>3
  <2>. QED
    BY <1>6, <2>1 DEF QueuedOnce
<1>14. ReachableInMemory'
  BY <1>5, <1>6, <1>8 DEF PipeSafe, ReachableInMemory, Reachable
<1>. QED
  BY <1>2, <1>3, <1>9, <1>10, <1>11, <1>12, <1>13, <1>14 DEF PipeSafe

(***************************************************************************)
(* A host that was resolved: its visits are grouped.                       *)
(***************************************************************************)
LEMMA GetKeeps ==
  ASSUME Safe, GetHNode
  PROVE  /\ Head(hqueue).host \in Host
         /\ hnode'[Head(hqueue).host].resolved
         /\ \A x \in Host \ {Head(hqueue).host} : hnode'[x] = hnode[x]
         /\ dns_unresolved > Outstanding => dns_unresolved' > Outstanding'
         /\ Live' = Live /\ Gone' = Gone
<1> DEFINE d == Head(hqueue)
           upd == [d EXCEPT !.lookup = FALSE]
<1>1. TypeOK /\ d \in DNode /\ d.host \in Host
  BY GetEffect DEF Safe
<1>2. upd \in DNode
  BY <1>1 DEF DNode
<1>3. wpc' = wpc
  BY DEF GetHNode, workerVars
<1> HIDE DEF upd
<1>4. hnode'[d.host].resolved /\ \A x \in Host \ {d.host} : hnode'[x] = hnode[x]
  BY <1>1 DEF GetHNode, TypeOK
<1>5. dns_unresolved > Outstanding => dns_unresolved' > Outstanding'
  <2>1. CASE QueueDNode(upd)
    BY <1>1, <1>2, <1>3, <2>1, QueueCounts, OutstandingType
  <2>2. CASE UNCHANGED <<dnode_list, dns_unresolved>>
    BY <1>3, <2>2 DEF Outstanding, Busy
  <2>. QED
    BY <2>1, <2>2 DEF GetHNode, upd
<1>. QED
  BY <1>1, <1>3, <1>4, <1>5 DEF Live, Gone

(* Answers come back: visits that were kept are grouped.                   *)
LEMMA RetrievePipe ==
  ASSUME PipeSafe, Retrieve
  PROVE  PipeSafe' /\ [Next]_vars
<1> DEFINE h == Head(hqueue).host
<1>1. GetHNode /\ [Next]_vars
  BY DEF Retrieve, Next, MainNext
<1>2. Safe' /\ Safe /\ TypeOK /\ TypeOK' /\ PipeTypeOK
  BY <1>1, NextSafe DEF PipeSafe, Safe
<1>3. /\ h \in Host /\ h \in AnyHost
      /\ hnode'[h].resolved
      /\ \A x \in Host \ {h} : hnode'[x] = hnode[x]
      /\ dns_unresolved > Outstanding => dns_unresolved' > Outstanding'
      /\ Live' = Live /\ Gone' = Gone
  BY <1>1, <1>2, GetKeeps DEF AnyHost
<1>4. Removed(h)
  BY <1>1, <1>2, GetEffect
<1>5. /\ UNCHANGED <<mpc, dns_thread_stop, phase, records, in_memory, stored, visit>>
      /\ grp_visit' = [grp_visit EXCEPT ![h] = 0]
      /\ phase \in {"retrieve", "month_retrieve", "end_retrieve"} /\ phase \notin Ended
      /\ Waited' = Waited
  BY DEF Retrieve, GetHNode, Ended, Waited
<1> HIDE DEF h
<1>6. \A x \in Host : /\ Looking(x) \in Nat /\ Ready(x) \in Nat
                      /\ Looking(x)' = Looking(x) /\ Ready(x)' \in Nat
                      /\ IF x = h THEN Ready(x)' = Ready(x) - 1 /\ Ready(x) > 0
                                  ELSE Ready(x)' = Ready(x)
  BY <1>2, <1>3, <1>4, SeenNat, SeenNatNext DEF Removed, One
<1>7. PipeTypeOK' /\ PhaseCalls' /\ StopsAtEnd' /\ WorkersStay'
  BY <1>2, <1>3, <1>5 DEF PipeSafe, PipeTypeOK, PhaseCalls, StopsAtEnd, WorkersStay
<1>8. /\ NothingLooked' /\ VisitInMemory' /\ StoredResolved' /\ KeptUnresolved' /\ NoneKeptAtEnd'
      /\ NoRecordNoHost'
  <2>1. NothingLooked' /\ VisitInMemory' /\ NoneKeptAtEnd' /\ NoRecordNoHost'
    BY <1>5, <1>6 DEF PipeSafe, NothingLooked, VisitInMemory, NoneKeptAtEnd, NoRecordNoHost
  <2>2. StoredResolved'
    BY <1>3, <1>5 DEF PipeSafe, StoredResolved
  <2>3. KeptUnresolved'
    BY <1>2, <1>3, <1>5 DEF PipeSafe, KeptUnresolved, PipeTypeOK, AnyHost
  <2>. QED
    BY <2>1, <2>2, <2>3
<1>9. UnresolvedQueued'
  <2>1. ASSUME NEW x \in in_memory' \cap Host, ~hnode'[x].resolved, ~dns_thread_stop
        PROVE  InPipe(x)' \/ (~Waited /\ dns_unresolved' > Outstanding')
    BY <1>3, <1>5, <1>6, <2>1 DEF PipeSafe, UnresolvedQueued, InPipe
  <2>. QED
    BY <1>5, <2>1 DEF UnresolvedQueued
<1>10. QueuedOnce' /\ ReachableInMemory'
  <2>1. ASSUME NEW x \in Host \ Spammer
        PROVE  /\ Looking(x)' + Ready(x)' <= 1
               /\ InPipe(x)' => ~hnode'[x].resolved /\ x \in in_memory' \cup stored'
    BY <1>3, <1>5, <1>6 DEF PipeSafe, QueuedOnce, InPipe
  <2>2. ReachableInMemory'
    BY <1>3, <1>5, <1>6 DEF PipeSafe, ReachableInMemory, Reachable
  <2>. QED
    BY <2>1, <2>2 DEF QueuedOnce
<1>. QED
  BY <1>1, <1>2, <1>7, <1>8, <1>9, <1>10 DEF PipeSafe

(***************************************************************************)
(* Steps that make no call: visits end, hosts are swapped out, the state is*)
(* saved.                                                                  *)
(***************************************************************************)
LEMMA NoCallKeeps ==
  ASSUME PipeSafe, UNCHANGED vars
  PROVE  /\ Safe' /\ [Next]_vars /\ Quiet
         /\ UNCHANGED <<hnode, mpc, dns_thread_stop, hqueue>>
  BY NextSafe, QuietStep DEF vars, PipeSafe

(* A quiet step moves no host in or out of the pipeline.                   *)
LEMMA QuietCounts ==
  ASSUME Quiet
  PROVE  \A h \in Host : /\ InPipe(h)' <=> InPipe(h)
                         /\ Reachable(h)' <=> Reachable(h)
  BY DEF Quiet, SameSeen, InPipe, Reachable

(* A host is swapped out, and deleted unless its lookup is pending.        *)
LEMMA SwapOutPipe ==
  ASSUME PipeSafe, NEW h \in AnyHost, SwapOut(h)
  PROVE  PipeSafe' /\ [Next]_vars
<1>1. /\ Safe' /\ [Next]_vars /\ Quiet
      /\ UNCHANGED <<hnode, mpc, dns_thread_stop, phase, records>>
  BY NoCallKeeps DEF SwapOut
<1>2. /\ phase = "read" /\ phase \notin Ended /\ Waited' = Waited
      /\ h \in CanSwapOut /\ h \in Host /\ hnode[h].resolved /\ grp_visit[h] = 0
      /\ in_memory' = in_memory \ {h} /\ stored' = stored \cup {h} /\ visit' = visit \ {h}
      /\ grp_visit' = Kept({h})
  BY <1>1 DEF SwapOut, EvalHNode, Resolved, Ended, Waited
<1>3. PipeTypeOK' /\ PhaseCalls' /\ StopsAtEnd' /\ WorkersStay'
  <2>1. grp_visit' \in [AnyHost -> Nat]
    BY <1>2, KeptVisits DEF PipeSafe
  <2>. QED
    BY <1>1, <1>2, <2>1 DEF PipeSafe, PipeTypeOK, PhaseCalls, StopsAtEnd, WorkersStay, Quiet
<1>4. VisitInMemory' /\ StoredResolved' /\ NoneKeptAtEnd' /\ NoRecordNoHost' /\ NothingLooked'
  BY <1>1, <1>2 DEF PipeSafe, VisitInMemory, StoredResolved, NoneKeptAtEnd, NoRecordNoHost,
     NothingLooked, Quiet, SameSeen
<1>5. KeptUnresolved'
  <2>1. ASSUME NEW x \in Host, Kept({h})[x] > 0 PROVE grp_visit[x] > 0
    BY <1>2, <2>1, KeptVisits DEF PipeSafe
  <2>. QED
    BY <1>1, <1>2, <2>1 DEF PipeSafe, KeptUnresolved
<1>6. UnresolvedQueued'
  BY <1>1, <1>2, QuietCounts DEF PipeSafe, UnresolvedQueued, Quiet
<1>7. QueuedOnce'
  BY <1>1, <1>2, QuietCounts DEF PipeSafe, QueuedOnce, Quiet, SameSeen
<1>8. ReachableInMemory'
  <2>1. ASSUME NEW x \in Host \ SwappedSpammer, Reachable(x) PROVE x # h
    <3>1. TypeOK
      BY DEF PipeSafe, Safe
    <3>2. x \in Host \ Spammer \/ x \notin CanSwapOut
      BY DEF SwappedSpammer
    <3>3. InPipe(x)
      BY <2>1, <3>1, SeenNat DEF Reachable, InPipe
    <3>. QED
      BY <1>2, <3>2, <3>3 DEF PipeSafe, QueuedOnce
  <2>. QED
    BY <1>1, <1>2, <2>1, QuietCounts DEF PipeSafe, ReachableInMemory
<1>. QED
  BY <1>1, <1>3, <1>4, <1>5, <1>6, <1>7, <1>8 DEF PipeSafe

(* Visits end with the month or the run, and answers are retrieved for     *)
(* the last time.                                                          *)
LEMMA EndVisitsPipe ==
  ASSUME PipeSafe, MonthEndVisits \/ EndVisits \/ RetrieveEnd \/ Done
  PROVE  PipeSafe' /\ [Next]_vars
<1>1. /\ Safe' /\ [Next]_vars /\ Quiet
      /\ UNCHANGED <<hnode, mpc, dns_thread_stop, records, in_memory, stored>>
  BY NoCallKeeps DEF MonthEndVisits, EndVisits, RetrieveEnd, Done, pipeVars
<1>2. /\ Waited' = Waited
      /\ phase \in Ended <=> phase' \in Ended
      /\ phase' \in {"read", "month_retrieve", "end_retrieve", "done"}
      /\ visit' \subseteq visit
      /\ phase' = "month_retrieve" => visit' = {}
      /\ grp_visit' = grp_visit \/ (phase \notin Ended /\ \E S \in SUBSET visit : grp_visit' = Kept(S))
  BY <1>1 DEF MonthEndVisits, EndVisits, RetrieveEnd, Done, Goto, Waited, Ended, pipeVars
<1>3. PipeTypeOK' /\ PhaseCalls' /\ StopsAtEnd' /\ WorkersStay'
  <2>1. grp_visit' \in [AnyHost -> Nat]
    BY <1>2, KeptVisits DEF PipeSafe, PipeTypeOK
  <2>2. PipeTypeOK'
    BY <1>1, <1>2, <2>1 DEF PipeSafe, PipeTypeOK, Phase, Ended
  <2>3. PhaseCalls' /\ StopsAtEnd' /\ WorkersStay'
    BY <1>1 DEF MonthEndVisits, EndVisits, RetrieveEnd, Done, Goto, PipeSafe, PhaseCalls, StopsAtEnd,
       WorkersStay, Quiet
  <2>. QED
    BY <2>2, <2>3
<1>4. VisitInMemory' /\ StoredResolved' /\ NoneKeptAtEnd' /\ NoRecordNoHost' /\ NothingLooked'
  BY <1>1, <1>2 DEF PipeSafe, VisitInMemory, StoredResolved, NoneKeptAtEnd, NoRecordNoHost,
     NothingLooked, Quiet, SameSeen
<1>5. KeptUnresolved'
  <2>1. CASE grp_visit' = grp_visit
    BY <1>1, <1>2, <2>1 DEF PipeSafe, KeptUnresolved
  <2>2. ASSUME NEW S \in SUBSET visit, grp_visit' = Kept(S), phase \notin Ended PROVE KeptUnresolved'
    <3>1. ASSUME NEW x \in Host, Kept(S)[x] > 0 PROVE ~hnode[x].resolved /\ x \in in_memory
      <4>1. grp_visit[x] > 0 \/ (x \in visit /\ ~hnode[x].resolved)
        BY <3>1, KeptVisits DEF PipeSafe
      <4>. QED
        BY <2>2, <4>1 DEF PipeSafe, KeptUnresolved, VisitInMemory
    <3>. QED
      BY <1>1, <2>2, <3>1 DEF KeptUnresolved
  <2>. QED
    BY <1>2, <2>1, <2>2
<1>6. UnresolvedQueued'
  BY <1>1, <1>2, QuietCounts DEF PipeSafe, UnresolvedQueued, Quiet
<1>7. QueuedOnce' /\ ReachableInMemory'
  BY <1>1, <1>2, QuietCounts DEF PipeSafe, QueuedOnce, ReachableInMemory, Quiet, SameSeen
<1>. QED
  BY <1>1, <1>3, <1>4, <1>5, <1>6, <1>7 DEF PipeSafe

(* When dns_wait has returned and the resolved hosts were retrieved, no    *)
(* host is left in the resolver, so every host is resolved and has no visit*)
(* to group.                                                               *)
LEMMA AllReturned ==
  ASSUME PipeSafe, Waited, phase \notin Ended, ~dns_thread_stop, hqueue = <<>>
  PROVE  \A h \in Host : Looking(h) = 0 /\ Ready(h) = 0 /\ grp_visit[h] = 0
<1>1. TypeOK
  BY DEF PipeSafe, Safe
<1>2. \A h \in Host : Looking(h) = 0 /\ Ready(h) = 0 /\ ~InPipe(h)
  BY <1>1, NoneReady DEF PipeSafe, NothingLooked, InPipe
<1>3. \A h \in Host : ~(grp_visit[h] > 0)
  BY <1>2 DEF PipeSafe, KeptUnresolved, UnresolvedQueued
<1>4. \A h \in Host : grp_visit[h] \in Nat
  BY DEF PipeSafe, PipeTypeOK, AnyHost
<1>. QED
  BY <1>2, <1>3, <1>4

(* Hosts are saved.                                                        *)
LEMMA SaveStatePipe ==
  ASSUME PipeSafe, SaveState
  PROVE  PipeSafe' /\ [Next]_vars
<1>1. /\ Safe' /\ [Next]_vars /\ Quiet
      /\ UNCHANGED <<hnode, mpc, dns_thread_stop, records, visit, grp_visit>>
  BY NoCallKeeps DEF SaveState
<1>2. /\ phase = "end_retrieve" /\ phase' = "clean" /\ phase \notin Ended /\ phase' \in Ended
      /\ Waited /\ ~Waited' /\ hqueue = <<>> /\ mpc = "idle" /\ TypeOK
      /\ in_memory' = {} /\ stored' = stored \cup in_memory
  BY DEF SaveState, Goto, Ended, Waited, PipeSafe, PhaseCalls, Safe
<1>3. PipeTypeOK' /\ PhaseCalls' /\ StopsAtEnd' /\ WorkersStay'
  BY <1>1, <1>2 DEF PipeSafe, PipeTypeOK, Phase, Ended, PhaseCalls, StopsAtEnd, WorkersStay, Quiet
<1>4. /\ VisitInMemory' /\ StoredResolved' /\ NoRecordNoHost' /\ NothingLooked' /\ UnresolvedQueued'
      /\ QueuedOnce' /\ KeptUnresolved'
  BY <1>1, <1>2 DEF PipeSafe, VisitInMemory, StoredResolved, NoRecordNoHost, NothingLooked,
     UnresolvedQueued, QueuedOnce, KeptUnresolved
<1>5. NoneKeptAtEnd'
  BY <1>1, <1>2, AllReturned DEF NoneKeptAtEnd
<1>6. ReachableInMemory'
  <2>1. \A h \in Host : Ready(h) = 0
    BY <1>2, NoneReady
  <2>2. Live = {} \/ \A h \in Host : Looking(h) = 0
    BY <1>2 DEF PipeSafe, StopsAtEnd, NothingLooked
  <2>. QED
    BY <1>1, <2>1, <2>2 DEF ReachableInMemory, Reachable, Quiet, SameSeen
<1>. QED
  BY <1>1, <1>3, <1>4, <1>5, <1>6 DEF PipeSafe

(* The tables are cleared between months.                                  *)
LEMMA MonthClearPipe ==
  ASSUME PipeSafe, MonthClear
  PROVE  PipeSafe' /\ [Next]_vars
<1>1. /\ phase = "month_retrieve" /\ phase' = "read" /\ phase \notin Ended
      /\ Waited /\ ~Waited' /\ hqueue = <<>> /\ mpc = "idle" /\ TypeOK /\ ~dns_thread_stop
  BY DEF MonthClear, Goto, Ended, Waited, PipeSafe, PhaseCalls, StopsAtEnd, Safe
<1>2. \A h \in Host : Looking(h) = 0 /\ Ready(h) = 0
  BY <1>1, AllReturned
<1>3. ForgetHNodes(Host)
  <2>1. \A h \in Host : ~Referenced(h)
    BY <1>1, <1>2, ReferencedReachable DEF Reachable
  <2>. QED
    BY <1>1, <2>1 DEF MonthClear, ClearState, ForgetHNodes
<1>4. [Next]_vars /\ Safe'
  <2>1. MainNext
    BY <1>3 DEF MainNext
  <2>. QED
    BY <2>1, NextSafe DEF Next, PipeSafe
<1>5. /\ UNCHANGED <<mpc, dns_thread_stop, records, visit, wpc, wnode>>
      /\ in_memory' = {} /\ stored' = {} /\ grp_visit' = [h \in AnyHost |-> 0]
      /\ Quiet
  BY QuietStep DEF MonthClear, ClearState, queueVars, workerVars
<1>6. PipeTypeOK' /\ PhaseCalls' /\ StopsAtEnd' /\ WorkersStay'
  BY <1>1, <1>5 DEF PipeSafe, PipeTypeOK, Phase, PhaseCalls, StopsAtEnd, WorkersStay, Quiet
<1>7. /\ VisitInMemory' /\ StoredResolved' /\ NoRecordNoHost' /\ NothingLooked' /\ UnresolvedQueued'
      /\ NoneKeptAtEnd'
  BY <1>1, <1>5 DEF PipeSafe, VisitInMemory, StoredResolved, NoRecordNoHost, NothingLooked,
     UnresolvedQueued, NoneKeptAtEnd, Ended
<1>8. KeptUnresolved'
  BY <1>5 DEF KeptUnresolved, AnyHost
<1>9. QueuedOnce' /\ ReachableInMemory'
  BY <1>2, <1>5 DEF QueuedOnce, ReachableInMemory, Reachable, InPipe, Quiet, SameSeen
<1>. QED
  BY <1>4, <1>6, <1>7, <1>8, <1>9 DEF PipeSafe

(* Nothing changes.                                                        *)
LEMMA IdlePipe ==
  ASSUME PipeSafe, UNCHANGED allVars
  PROVE  PipeSafe' /\ [Next]_vars
<1>1. /\ Safe' /\ [Next]_vars /\ Quiet
      /\ UNCHANGED <<hnode, mpc, dns_thread_stop, phase, records, in_memory, stored, visit, grp_visit>>
  BY NoCallKeeps DEF allVars, pipeVars
<1>2. PipeTypeOK' /\ PhaseCalls' /\ StopsAtEnd' /\ WorkersStay'
  BY <1>1 DEF PipeSafe, PipeTypeOK, PhaseCalls, StopsAtEnd, WorkersStay, Quiet
<1>3. /\ VisitInMemory' /\ StoredResolved' /\ NoRecordNoHost' /\ NothingLooked' /\ NoneKeptAtEnd'
      /\ KeptUnresolved'
  BY <1>1 DEF PipeSafe, VisitInMemory, StoredResolved, NoRecordNoHost, NothingLooked,
     NoneKeptAtEnd, KeptUnresolved, Waited, Quiet, SameSeen
<1>4. UnresolvedQueued' /\ QueuedOnce' /\ ReachableInMemory'
  BY <1>1 DEF PipeSafe, UnresolvedQueued, QueuedOnce, ReachableInMemory, Reachable, InPipe, Waited,
     Quiet, SameSeen
<1>. QED
  BY <1>1, <1>2, <1>3, <1>4 DEF PipeSafe

(***************************************************************************)
(* Every step keeps the invariant, and is a step of the resolver or none.  *)
(***************************************************************************)
LEMMA NextPipeSafe == PipeSafe /\ [PipeNext]_allVars => PipeSafe' /\ [Next]_vars
<1> SUFFICES ASSUME PipeSafe, [PipeNext]_allVars PROVE PipeSafe' /\ [Next]_vars
  OBVIOUS
<1>1. CASE Workers
  BY <1>1, WorkersPipe DEF Workers, Next
<1>2. CASE ResolverReturns
  BY <1>2, ReturnsPipe DEF ResolverReturns, Next, MainNext
<1>3. CASE Calls
  BY <1>3, CallsPipe
<1>4. ASSUME NEW h \in AnyHost, NEW spam \in BOOLEAN, NEW timedout \in BOOLEAN,
             ReadRecord(h, spam, timedout)
      PROVE  PipeSafe' /\ [Next]_vars
  BY <1>4, ReadRecordPipe
<1>5. CASE Retrieve
  BY <1>5, RetrievePipe
<1>6. ASSUME NEW h \in AnyHost, SwapOut(h) PROVE PipeSafe' /\ [Next]_vars
  BY <1>6, SwapOutPipe
<1>7. CASE MonthEndVisits \/ EndVisits \/ RetrieveEnd \/ Done
  BY <1>7, EndVisitsPipe
<1>8. CASE SaveState
  BY <1>8, SaveStatePipe
<1>9. CASE MonthClear
  BY <1>9, MonthClearPipe
<1>10. CASE Finished \/ UNCHANGED allVars
  BY <1>10, IdlePipe DEF Finished
<1>. QED
  BY <1>1, <1>2, <1>3, <1>4, <1>5, <1>6, <1>7, <1>8, <1>9, <1>10 DEF PipeNext, MainStepNext, Calls

(* The resolver is safe when it is driven by the log processor, and a host *)
(* that the resolver, a worker, a visit or the spammer list still points   *)
(* to is in memory, unless it may be swapped out and queued again for spam.*)
THEOREM PipelineSafe == PipeSpec => []PipeSafe
  BY InitPipeSafe, NextPipeSafe, PTL DEF PipeSpec

-----------------------------------------------------------------------------
(***************************************************************************)
(* The calls that proc_logfile makes are calls that the resolver allows:   *)
(* what was proved of the resolver for any caller holds for this one. In   *)
(* particular no host node is deleted at the end of a month that a worker  *)
(* or get_hnode will use.                                                  *)
(***************************************************************************)
THEOREM PipelineUsesResolver == PipeSpec => Spec
<1>1. PipeInit => Init
  BY DEF PipeInit
<1>. QED
  BY <1>1, NextPipeSafe, PipelineSafe, PTL DEF PipeSpec, Spec

(***************************************************************************)
(* No host node leaves memory while the resolver refers to it, unless the  *)
(* host is one that was queued again because it sent spam and that the hash*)
(* table pushes out: that one really is deleted too early.                 *)
(***************************************************************************)
THEOREM OnlySpammersDangle ==
  PipeSpec => [](\A h \in Host \ SwappedSpammer : Referenced(h) => h \in in_memory)
<1>1. PipeSafe => \A h \in Host \ SwappedSpammer : Referenced(h) => h \in in_memory
  BY ReferencedReachable DEF PipeSafe, Safe, ReachableInMemory
<1>. QED
  BY <1>1, PipelineSafe, PTL

(* So without such hosts, as in the instance that TLC checks, none does    *)
(* (state_t::swap_out while the workers hold pointers to host nodes).      *)
THEOREM HostsStayInMemory ==
  ASSUME SwappedSpammer = {}
  PROVE  PipeSpec => []NoDanglingHost
<1>1. PipeSafe => NoDanglingHost
  BY ReferencedReachable DEF PipeSafe, Safe, ReachableInMemory, NoDanglingHost
<1>. QED
  BY <1>1, PipelineSafe, PTL

(***************************************************************************)
(* A host node that leaves memory has no visit left to group, whatever the *)
(* workers throw: a lookup that is lost keeps dns_wait from returning.     *)
(***************************************************************************)
THEOREM VisitsGrouped == PipeSpec => EveryVisitGrouped
<1> DEFINE Grouped == \A h \in Host : h \in in_memory /\ h \notin in_memory' /\ ~dns_thread_stop
                                         => grp_visit[h] = 0
<1>1. ASSUME PipeSafe, PipeNext PROVE Grouped
  <2> SUFFICES ASSUME NEW h \in Host, h \in in_memory, h \notin in_memory', ~dns_thread_stop
               PROVE  grp_visit[h] = 0
    OBVIOUS
  <2>1. SwapOut(h) \/ SaveState \/ MonthClear
    BY <1>1 DEF PipeNext, MainStepNext, ReadRecord, Retrieve, RetrieveEnd, SwapOut, NewMonth,
       MonthEndVisits, EndOfLogs, CtrlC, Aborted, EndVisits, Clean, CleanUpAfterError, Done,
       ResolverReturns, Workers, Finished, pipeVars, allVars
  <2>2. CASE SwapOut(h)
    BY <2>2 DEF SwapOut, EvalHNode
  <2>3. CASE SaveState \/ MonthClear
    <3>1. Waited /\ phase \notin Ended /\ hqueue = <<>>
      BY <2>3 DEF SaveState, MonthClear, Goto, Waited, Ended
    <3>. QED
      BY <1>1, <3>1, AllReturned
  <2>. QED
    BY <2>1, <2>2, <2>3
<1>2. PipeSafe /\ [PipeNext]_allVars => [Grouped]_allVars
  BY <1>1
<1>. QED
  BY <1>2, PipelineSafe, PTL DEF PipeSpec, EveryVisitGrouped

(***************************************************************************)
(* Unless a worker throws, a visit that waits for its host waits for one   *)
(* that the resolver will return.                                          *)
(***************************************************************************)
THEOREM KeptVisitsAreGrouped ==
  ASSUME ~WorkersThrow
  PROVE  PipeSpec => []KeptVisitWillBeGrouped
<1>1. PipeSafe => KeptVisitWillBeGrouped
  <2> SUFFICES ASSUME PipeSafe, NEW h \in Host, grp_visit[h] > 0, ~dns_thread_stop
               PROVE  Referenced(h)
    BY DEF KeptVisitWillBeGrouped
  <2>1. TypeOK /\ Safe /\ ~hnode[h].resolved /\ phase \notin Ended /\ h \in in_memory
    BY DEF PipeSafe, Safe, NoneKeptAtEnd, KeptUnresolved
  <2>2. Gone = {} /\ Live # {}
    BY ResolverAssumption DEF PipeSafe, WorkersStay, Gone, Live, ResolverAssumption
  <2>3. ~(dns_unresolved > Outstanding)
    <3>1. mpc # "closed"
      BY <2>1, <2>2 DEF Safe, CleanUpAlone
    <3>2. dns_unresolved <= Outstanding + 0
      BY <2>1, <3>1 DEF Safe, Accounted, Lost
    <3>. QED
      BY <2>1, <3>2, OutstandingType
  <2>4. InPipe(h)
    BY <2>1, <2>3 DEF PipeSafe, UnresolvedQueued
  <2>. QED
    BY <2>1, <2>2, <2>4, SeenReferenced
<1>. QED
  BY <1>1, PipelineSafe, PTL
=============================================================================
