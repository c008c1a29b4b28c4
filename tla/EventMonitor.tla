---------------------------- MODULE EventMonitor ----------------------------
(***************************************************************************)
(* The Event Monitor (infrastructure/event-monitor/src) keeps what it      *)
(* knows of a node twice: HeartbeatMonitor in memory, under a lock, from   *)
(* the heartbeats that arrive, and NodeRegistry in a Redis hash, which is  *)
(* what GET /nodes and the panel show.  The thread of heartbeat_monitor.py *)
(* judges every node it knows in each cycle, holding the lock, and writes  *)
(* a change of status to the registry through a callback; the server       *)
(* registers and removes nodes in the registry without that lock.  The     *)
(* memory is lost with the process, the registry is not.                   *)
(*                                                                         *)
(* A step is one block under the lock or one call on Redis.  Requests are  *)
(* served one after the other: the server is eventlet's, and nothing it    *)
(* calls is patched to yield.                                              *)
(***************************************************************************)
EXTENDS Integers, FiniteSets

CONSTANTS
  Nodes,         (* the node ids                                           *)
  Nobody,        (* no node                                                *)
  Timeout,       (* timeout_seconds, in ticks                              *)
  MaxMissed,     (* max_missed                                             *)
  MaxLag,        (* bound: ticks that pass during one cycle                *)
  MaxAdmin,      (* bound: registrations and removals requested            *)
  FaultKinds,    (* which faults happen: a call on Redis may fail, the     *)
                 (* process may restart                                    *)
  MaxFaults      (* bound: how many of them happen                         *)

ASSUME NobodyAssumption == Nobody \notin Nodes
ASSUME ConfigAssumption ==
  /\ Timeout \in Nat
  /\ MaxMissed \in Nat \ {0}
  /\ MaxLag \in Nat
  /\ MaxAdmin \in Nat
  /\ FaultKinds \subseteq {"redis", "restart"}
  /\ MaxFaults \in Nat

VARIABLES
  up,         (* the nodes that run, and send heartbeats                   *)
  health,     (* status of _nodes[n]; unknown: it is not in _nodes         *)
  missed,     (* _nodes[n].missed_heartbeats                               *)
  age,        (* ticks since _nodes[n].last_heartbeat, up to MaxAge        *)
  registry,   (* the status Redis holds for each node; none: it holds none *)
  checkPc,    (* where the monitor thread stands in its cycle              *)
  lag,        (* ticks since it read the clock in this cycle               *)
  todo,       (* the nodes it has yet to judge in this cycle               *)
  told,       (* the node whose change it is writing to the registry       *)
  read,       (* the status its get_node returned                          *)
  request,    (* the request being served, between two of its steps        *)
  unsaved,    (* history: nodes whose last change of status Redis lost     *)
  admin,      (* how many registrations and removals were requested        *)
  faults      (* how many faults happened                                  *)

monitor == <<health, missed, age>>
check == <<checkPc, lag, todo, told, read>>
budget == <<admin, faults>>
vars == <<up, monitor, registry, check, request, unsaved, budget>>

MaxAge == Timeout + MaxLag + 1
Known == {n \in Nodes : health[n] # "unknown"}
Idle == [kind |-> "idle"]
Requests == {Idle} \union [kind : {"track", "remove"}, node : Nodes]

(* The thread holds the lock from its first node to its last.              *)
Locked == checkPc \in {"judge", "read", "save"}

TypeOK ==
  /\ up \subseteq Nodes
  /\ health \in [Nodes -> {"unknown", "active", "inactive"}]
  /\ missed \in [Nodes -> 0..MaxMissed]
  /\ \A n \in Nodes : health[n] = "active" => missed[n] < MaxMissed
  /\ age \in [Nodes -> 0..MaxAge]
  /\ registry \in [Nodes -> {"none", "active", "inactive", "removed"}]
  /\ checkPc \in {"sleep", "wait", "judge", "read", "save"}
  /\ lag \in 0..MaxLag
  /\ todo \subseteq Nodes
  /\ told \in Nodes \union {Nobody}
  /\ (checkPc \in {"read", "save"}) = (told # Nobody)
  /\ read \in {"none", "active", "inactive", "removed"}
  /\ request \in Requests
  /\ unsaved \subseteq Nodes
  /\ admin \in 0..MaxAdmin
  /\ faults \in 0..MaxFaults

Init ==
  /\ up \in SUBSET Nodes
  /\ health = [n \in Nodes |-> "unknown"]
  /\ missed = [n \in Nodes |-> 0]
  /\ age = [n \in Nodes |-> 0]
  /\ registry = [n \in Nodes |-> "none"]
  /\ checkPc = "sleep" /\ lag = 0 /\ todo = {}
  /\ told = Nobody /\ read = "none"
  /\ request = Idle
  /\ unsaved = {} /\ admin = 0 /\ faults = 0

-----------------------------------------------------------------------------
(* The nodes, the clock and Redis.                                         *)

Fault(kind) ==
  /\ kind \in FaultKinds
  /\ faults < MaxFaults
  /\ faults' = faults + 1

NodeStarts(n) ==
  /\ up' = up \union {n}
  /\ UNCHANGED <<monitor, registry, check, request, unsaved, budget>>

NodeStops(n) ==
  /\ up' = up \ {n}
  /\ UNCHANGED <<monitor, registry, check, request, unsaved, budget>>

Older(a) == IF a = MaxAge THEN MaxAge ELSE a + 1

Tick ==
  /\ checkPc # "sleep" => lag < MaxLag
  /\ age' = [n \in Nodes |-> IF n \in Known THEN Older(age[n]) ELSE age[n]]
  /\ lag' = IF checkPc = "sleep" THEN 0 ELSE lag + 1
  /\ UNCHANGED <<up, health, missed, registry, checkPc, todo, told, read,
                 request, unsaved, budget>>

(* hset_json, when Redis does not take it: it returns False.               *)
Lost(n) ==
  /\ Fault("redis")
  /\ unsaved' = unsaved \union {n}
  /\ UNCHANGED registry

(* _save_node and the other writes of a status: a write that fails is      *)
(* not repeated, nor its result looked at.                                 *)
Save(n, s) ==
  \/ /\ registry' = [registry EXCEPT ![n] = s]
     /\ unsaved' = unsaved \ {n}
     /\ UNCHANGED faults
  \/ Lost(n)

(* get_node finds nothing when the call on Redis fails.                    *)
Found(n, s) ==
  \/ s = registry[n] /\ UNCHANGED faults
  \/ s = "none" /\ Fault("redis")

-----------------------------------------------------------------------------
(* HeartbeatMonitor: what a heartbeat does, and what a cycle does.         *)

(* Mutant: only a new node becomes active by a heartbeat.                  *)
SeenKeepsStatus(n, a) ==
  /\ health' = [health EXCEPT ![n] = IF @ = "unknown" THEN "active" ELSE @]
  /\ missed' = [missed EXCEPT ![n] = 0]
  /\ age' = [age EXCEPT ![n] = a]

(* register_node, with a heartbeat that is a ticks old.                    *)
Seen(n, a) ==
  /\ health' = [health EXCEPT ![n] = "active"]
  /\ missed' = [missed EXCEPT ![n] = 0]
  /\ age' = [age EXCEPT ![n] = a]

(* POST /nodes/<id>/heartbeat, stamped with the clock of the server.       *)
Heartbeat(n) ==
  /\ n \in up
  /\ request = Idle /\ ~Locked
  /\ Seen(n, 0)
  /\ UNCHANGED <<up, registry, check, request, unsaved, budget>>

(* The listener of the heartbeats channel: stamped by the sender.          *)
ChannelHeartbeat(n, a) ==
  /\ n \in up
  /\ ~Locked
  /\ Seen(n, a)
  /\ UNCHANGED <<up, registry, check, request, unsaved, budget>>

(* The listener hands whatever was published on the channel to its         *)
(* handler, a message at a time.                                           *)
Listen == \E n \in Nodes, a \in 0..MaxAge : ChannelHeartbeat(n, a)

(* _check_nodes reads the clock before it waits for the lock.              *)
ReadClock ==
  /\ checkPc = "sleep"
  /\ checkPc' = "wait"
  /\ lag' = 0
  /\ UNCHANGED <<up, monitor, registry, todo, told, read, request, unsaved,
                 budget>>

TakeLock ==
  /\ checkPc = "wait"
  /\ checkPc' = "judge"
  /\ todo' = Known
  /\ UNCHANGED <<up, monitor, registry, lag, told, read, request, unsaved,
                 budget>>

(* Mutant: a heartbeat that is just as old as the timeout is too old.      *)
OverdueAtOnce(n) == age[n] - lag >= Timeout

Overdue(n) == age[n] - lag > Timeout

(* Mutant: one cycle too many.                                             *)
StruckOneMore(n) ==
  [status |-> IF missed[n] + 1 > MaxMissed THEN "inactive" ELSE "active",
   missed |-> missed[n] + 1]

(* Mutant: every cycle counts from the beginning.                          *)
StruckAnew(n) ==
  [status |-> IF missed[n] + 1 >= MaxMissed THEN "inactive" ELSE "active",
   missed |-> 0]

(* An active node that is overdue once more.                               *)
Struck(n) ==
  [status |-> IF missed[n] + 1 >= MaxMissed THEN "inactive" ELSE "active",
   missed |-> missed[n] + 1]

(* What the cycle makes of a node.                                         *)
Judged(n) ==
  CASE health[n] = "active" /\ Overdue(n) -> Struck(n)
    [] health[n] = "inactive" /\ ~Overdue(n) -> [status |-> "active", missed |-> 0]
    [] OTHER -> [status |-> health[n], missed |-> missed[n]]

(* The callback for a change of status, which goes on to write it to the   *)
(* registry.                                                               *)
OnNodeStatusChange(n) == checkPc' = "read" /\ told' = n

Judge(n) ==
  /\ checkPc = "judge" /\ n \in todo
  /\ todo' = todo \ {n}
  /\ health' = [health EXCEPT ![n] = Judged(n).status]
  /\ missed' = [missed EXCEPT ![n] = Judged(n).missed]
  /\ IF Judged(n).status # health[n]
       THEN OnNodeStatusChange(n)
       ELSE UNCHANGED <<checkPc, told>>
  /\ UNCHANGED <<up, age, registry, lag, read, request, unsaved, budget>>

ReleaseLock ==
  /\ checkPc = "judge" /\ todo = {}
  /\ checkPc' = "sleep"
  /\ lag' = 0
  /\ UNCHANGED <<up, monitor, registry, todo, told, read, request, unsaved,
                 budget>>

-----------------------------------------------------------------------------
(* update_node_status, which the monitor thread calls.                     *)

TellRead ==
  /\ checkPc = "read"
  /\ \E s \in {"none", registry[told]} :
       /\ Found(told, s)
       /\ read' = s
       /\ IF s = "none"
            THEN /\ checkPc' = "judge" /\ told' = Nobody
                 /\ unsaved' = IF registry[told] = "none" THEN unsaved
                                                    ELSE unsaved \union {told}
            ELSE checkPc' = "save" /\ UNCHANGED <<told, unsaved>>
  /\ UNCHANGED <<up, monitor, registry, lag, todo, request, admin>>

(* Mutant: the node is saved with the status it was read with.             *)
TellSaveUnchanged ==
  /\ checkPc = "save"
  /\ Save(told, read)
  /\ checkPc' = "judge" /\ told' = Nobody /\ read' = "none"
  /\ UNCHANGED <<up, monitor, lag, todo, request, admin>>

(* A status that was another one is announced, and the callback writes it  *)
(* again.                                                                  *)
TellSave ==
  /\ checkPc = "save"
  /\ Save(told, health[told])
  /\ IF read # health[told]
       THEN OnNodeStatusChange(told)
       ELSE checkPc' = "judge" /\ told' = Nobody
  /\ read' = "none"
  /\ UNCHANGED <<up, monitor, lag, todo, request, admin>>

-----------------------------------------------------------------------------
(* The requests about the registry.                                        *)

(* POST /nodes: the registry first, HeartbeatMonitor after it.             *)
Register(n) ==
  /\ n \in up
  /\ request = Idle /\ admin < MaxAdmin
  /\ admin' = admin + 1
  /\ Save(n, "active")
  /\ request' = [kind |-> "track", node |-> n]
  /\ UNCHANGED <<up, monitor, check>>

Track ==
  /\ request.kind = "track" /\ ~Locked
  /\ Seen(request.node, 0)
  /\ request' = Idle
  /\ UNCHANGED <<up, registry, check, unsaved, budget>>

(* DELETE /nodes/<id>: HeartbeatMonitor goes on tracking the node.         *)
Unregister(n) ==
  /\ request = Idle /\ admin < MaxAdmin
  /\ admin' = admin + 1
  /\ \E s \in {"none", registry[n]} :
       /\ Found(n, s)
       /\ request' = IF s = "none" THEN Idle
                                   ELSE [kind |-> "remove", node |-> n]
  /\ UNCHANGED <<up, monitor, registry, check, unsaved>>

Remove ==
  /\ request.kind = "remove"
  /\ Save(request.node, "removed")
  /\ request' = Idle
  /\ UNCHANGED <<up, monitor, check, admin>>

(* The process stops and starts again: a new, empty HeartbeatMonitor.      *)
Restart ==
  /\ Fault("restart")
  /\ health' = [n \in Nodes |-> "unknown"]
  /\ missed' = [n \in Nodes |-> 0]
  /\ age' = [n \in Nodes |-> 0]
  /\ checkPc' = "sleep" /\ lag' = 0 /\ todo' = {}
  /\ told' = Nobody /\ read' = "none"
  /\ request' = Idle
  /\ UNCHANGED <<up, registry, unsaved, admin>>

-----------------------------------------------------------------------------
CheckStep ==
  ReadClock \/ TakeLock \/ (\E n \in Nodes : Judge(n)) \/ ReleaseLock
    \/ TellRead \/ TellSave

Next ==
  \/ \E n \in Nodes : NodeStarts(n) \/ NodeStops(n)
  \/ Tick
  \/ \E n \in Nodes : Heartbeat(n)
  \/ Listen
  \/ CheckStep
  \/ \E n \in Nodes : Register(n) \/ Unregister(n)
  \/ Track \/ Remove
  \/ Restart

Spec == Init /\ [][Next]_vars

(* The clock and the monitor thread go on.                                 *)
FairSpec == Spec /\ WF_vars(Tick) /\ WF_vars(CheckStep)

(* The lock is free for two of every few seconds, so whoever waits for it  *)
(* gets it in the end, and a node that runs is heard again and again.      *)
HeardSpec ==
  /\ FairSpec
  /\ SF_vars(Track) /\ WF_vars(Remove)
  /\ \A n \in Nodes : SF_vars(Heartbeat(n))

-----------------------------------------------------------------------------
(* Safety.                                                                 *)

(* A node is held to be down only while its last heartbeat is older than   *)
(* the timeout, although the clock a cycle judges by was read before it    *)
(* waited for the lock.  (So the branch of _check_nodes that restores an   *)
(* inactive node whose heartbeat is fresh is never taken.)                 *)
NoFalseAlarm == \A n \in Nodes : health[n] = "inactive" => age[n] > Timeout

(* A node the monitor holds to be down is not shown as active: unless the  *)
(* change is just being written, the node is just being registered again,  *)
(* or Redis lost the write.                                                *)
DownIsShown ==
  \A n \in Nodes : health[n] = "inactive" /\ registry[n] = "active" =>
    \/ told = n
    \/ request = [kind |-> "track", node |-> n]
    \/ n \in unsaved

(* The registry comes to show a node as active when that node registers,   *)
(* or, if it was shown as inactive, when the monitor holds it to be active *)
(* (README: "Restaurar Heartbeat | Nodo vuelve a online").  A cycle that   *)
(* overlaps a removal never brings the removed node back by writing what   *)
(* it read before, nor one that is still held to be down.                  *)
BroughtBackRightly ==
  [][\A n \in Nodes : registry[n] # "active" /\ registry'[n] = "active" =>
       \/ request = Idle /\ request' = [kind |-> "track", node |-> n]
       \/ registry[n] = "inactive" /\ health[n] = "active"]_vars

(* What the monitor promises of a node, as if each judgement and each      *)
(* change of the list were one step: see DetectorContract.                 *)
Detector == INSTANCE DetectorContract WITH
  MaxStrikes <- MaxMissed,
  strikes <- missed,
  silent <- [n \in Nodes |-> age[n] > Timeout],
  listed <- registry
DetectorSpec == Detector!Spec

-----------------------------------------------------------------------------
(* Liveness.                                                               *)

(* A node that falls silent for good is not held to be active for ever,    *)
(* whatever the requests, lost writes and restarts in between.             *)
SilenceIsDetected ==
  \A n \in Nodes : <>[](n \notin up) => <>[](health[n] # "active")

(* README: "Restaurar Heartbeat | Nodo vuelve a online".  A node that runs *)
(* again, and is heard, is not shown as inactive for ever.                 *)
RestoredIsShown ==
  \A n \in Nodes : <>[](n \in up) => <>[](registry[n] # "inactive")
=============================================================================
