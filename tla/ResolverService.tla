--------------------------- MODULE ResolverService ---------------------------
(***************************************************************************)
(* What dns_resolver_t promises to its caller (the comments of put_hnode,  *)
(* get_hnode, dns_wait, dns_abort and dns_clean_up in dns_resolv.cpp):     *)
(* every host node that was put in comes out once, resolved, in any order, *)
(* and a caller that waits finds all of them ready. DnsResolver implements *)
(* it with two queues, a counter, an event and a pool of threads.          *)
(***************************************************************************)
EXTENDS Naturals

CONSTANTS
  Host,      (* host nodes                                                 *)
  CanLose    (* a lookup may get lost in an exception                      *)

VARIABLES
  caller,    (* "idle", in a call, or done with the resolver               *)
  looking,   (* how many lookups of a host were put in and are not done    *)
  ready,     (* how many are done and were not returned                    *)
  stopped    (* the caller asked the resolver to stop                      *)

vars == <<caller, looking, ready, stopped>>

NoLookups == [h \in Host |-> 0]

Init ==
  /\ caller = "idle"
  /\ looking = NoLookups
  /\ ready = NoLookups
  /\ stopped = FALSE

Put(h) ==
  /\ caller = "idle"
  /\ looking' = [looking EXCEPT ![h] = @ + 1]
  /\ UNCHANGED <<caller, ready, stopped>>

Complete(h) ==
  /\ looking[h] > 0
  /\ looking' = [looking EXCEPT ![h] = @ - 1]
  /\ ready' = [ready EXCEPT ![h] = @ + 1]
  /\ UNCHANGED <<caller, stopped>>

Lose(h) ==
  /\ CanLose
  /\ looking[h] > 0
  /\ looking' = [looking EXCEPT ![h] = @ - 1]
  /\ UNCHANGED <<caller, ready, stopped>>

Get(h) ==
  /\ caller = "idle"
  /\ ready[h] > 0
  /\ ready' = [ready EXCEPT ![h] = @ - 1]
  /\ UNCHANGED <<caller, looking, stopped>>

Wait ==
  /\ caller = "idle"
  /\ caller' = "waiting"
  /\ UNCHANGED <<looking, ready, stopped>>

WaitReturns ==
  /\ caller = "waiting"
  /\ stopped \/ looking = NoLookups
  /\ caller' = "idle"
  /\ UNCHANGED <<looking, ready, stopped>>

(* The resolver is stopped before the lookups are done, and what is ready  *)
(* can still be retrieved.                                                 *)
Stop ==
  /\ caller = "idle"
  /\ caller' = "stopping"
  /\ stopped' = TRUE
  /\ UNCHANGED <<looking, ready>>

StopReturns ==
  /\ caller = "stopping"
  /\ caller' \in {"idle", "threw"}
  /\ UNCHANGED <<looking, ready, stopped>>

Close ==
  /\ caller \in {"idle", "threw"}
  /\ caller' = "closing"
  /\ stopped' \in {stopped, TRUE}
  /\ UNCHANGED <<looking, ready>>

(* Whatever is left is dropped, or the resolver cannot be closed.          *)
Closed ==
  /\ caller = "closing"
  /\ \/ /\ caller' = "closed"
        /\ looking' = NoLookups
        /\ ready' = NoLookups
     \/ /\ caller' = "threw"
        /\ UNCHANGED <<looking, ready>>
  /\ UNCHANGED stopped

Next ==
  \/ \E h \in Host : Put(h) \/ Complete(h) \/ Lose(h) \/ Get(h)
  \/ Wait
  \/ WaitReturns
  \/ Stop
  \/ StopReturns
  \/ Close
  \/ Closed

Spec == Init /\ [][Next]_vars
=============================================================================
