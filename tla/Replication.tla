---------------------------- MODULE Replication ----------------------------
(***************************************************************************)
(* The Replication Manager of one service (infrastructure/replication/src):*)
(* the POST handler that queues an entry, the thread of wal_manager.py     *)
(* that stores queued entries in the replication_log table of the primary  *)
(* database and sends the pending ones to every replica (replica_sync.py), *)
(* the thread of recovery_manager.py that checks the replicas and replays  *)
(* entries to one that came back, and the status endpoint that checks them *)
(* too.  The log and the tables of the replicas survive a crash of the     *)
(* process; nothing else does.                                             *)
(*                                                                         *)
(* A step is one call on a database or one block under the queue lock.     *)
(***************************************************************************)
EXTENDS Naturals, Sequences, FiniteSetsExt

CONSTANTS
  Workload,        (* the entries services post: [op, record], in the      *)
                   (* order of created_at                                  *)
  Replicas,        (* the ids of the replicas, visited in this order       *)
  QuorumMin,       (* quorum_min                                           *)
  RetryAttempts,   (* retry_attempts                                       *)
  MaxBatch,        (* max_batch_size                                       *)
  CatchUpBatch,    (* catch_up_batch_size                                  *)
  InOrder,         (* TRUE: services post in the order of created_at       *)
  Outages,         (* TRUE: a replica may become unreachable               *)
  FaultKinds,      (* which faults happen: the process may crash, a call   *)
                   (* on the primary may fail, the reply of a replica that *)
                   (* committed may be lost, a POST may be sent twice      *)
  MaxFaults        (* bound: how many of them happen                       *)

Entries == DOMAIN Workload

ASSUME WorkloadAssumption ==
  Workload \in Seq([op : {"INSERT", "UPDATE", "DELETE"}, record : STRING])
ASSUME ReplicasAssumption ==
  /\ IsFiniteSet(Replicas)
  /\ Replicas # {}
  /\ Replicas \subseteq Nat
ASSUME ConfigAssumption ==
  /\ QuorumMin \in Nat
  /\ RetryAttempts \in Nat
  /\ MaxBatch \in Nat \ {0}
  /\ CatchUpBatch \in Nat \ {0}
  /\ InOrder \in BOOLEAN
  /\ Outages \in BOOLEAN
  /\ FaultKinds \subseteq {"crash", "primary", "reply", "repeat"}
  /\ MaxFaults \in Nat

VARIABLES
  posted,      (* the entries a service has posted                         *)
  queue,       (* _incoming_queue                                          *)
  flushing,    (* entries taken from the queue and not yet stored          *)
  log,         (* replication_log: the status of each entry, or "absent"   *)
  walPc,       (* the phase of the WAL thread's cycle                      *)
  batch,       (* the pending entries this cycle read                      *)
  todo,        (* those of them the current phase has yet to do            *)
  targets,     (* the replicas the least entry of todo has yet to visit    *)
  tries,       (* failed attempts on the least of targets                  *)
  acked,       (* the replicas that acknowledged each entry of the batch   *)
  announced,   (* the final statuses published as events                   *)
  up,          (* whether each replica can be reached                      *)
  table,       (* each replica's rows: the entry whose data it holds, or 0 *)
  executed,    (* history: the entries each replica has committed          *)
  status,      (* ReplicaNodeState.status                                  *)
  recPc,       (* where the recovery thread stands                         *)
  toCheck,     (* the replicas it has yet to check in this cycle           *)
  oldStatus,   (* the status it noted before the check                     *)
  replay,      (* the entries it has yet to replay                         *)
  faults       (* how many faults happened                                 *)

entries == <<posted, queue, flushing>>
wal == <<walPc, batch, todo, targets, tries, acked>>
replicas == <<up, table, executed>>
recovery == <<recPc, toCheck, oldStatus, replay>>
vars == <<entries, log, wal, announced, replicas, status, recovery, faults>>

Pending == {"PENDING", "PROPAGATING"}
Settled == {"REPLICATED", "PARTIAL", "FAILED"}
Statuses == {"absent"} \union Pending \union Settled
Health == {"unknown", "healthy", "unhealthy"}
Records == {Workload[e].record : e \in Entries}

TypeOK ==
  /\ posted \subseteq Entries
  /\ queue \in Seq(Entries)
  /\ flushing \in Seq(Entries)
  /\ log \in [Entries -> Statuses]
  /\ walPc \in {"flush", "insert", "poll", "mark", "sync", "settle"}
  /\ batch \subseteq Entries
  /\ todo \subseteq batch
  /\ targets \subseteq Replicas
  /\ tries \in 0..RetryAttempts
  /\ acked \in [Entries -> SUBSET Replicas]
  /\ announced \in [Entries -> SUBSET Settled]
  /\ up \in [Replicas -> BOOLEAN]
  /\ table \in [Replicas -> [Records -> Entries \union {0}]]
  /\ executed \in [Replicas -> SUBSET Entries]
  /\ status \in [Replicas -> Health]
  /\ recPc \in {"note", "check", "read", "replay"}
  /\ toCheck \subseteq Replicas
  /\ oldStatus \in Health
  /\ replay \subseteq Entries
  /\ faults \in 0..MaxFaults

Init ==
  /\ posted = {} /\ queue = <<>> /\ flushing = <<>>
  /\ log = [e \in Entries |-> "absent"]
  /\ walPc = "flush"
  /\ batch = {} /\ todo = {} /\ targets = {} /\ tries = 0
  /\ acked = [e \in Entries |-> {}]
  /\ announced = [e \in Entries |-> {}]
  /\ up = [r \in Replicas |-> TRUE]
  /\ table = [r \in Replicas |-> [k \in Records |-> 0]]
  /\ executed = [r \in Replicas |-> {}]
  /\ status = [r \in Replicas |-> "unknown"]
  /\ recPc = "note" /\ toCheck = Replicas /\ oldStatus = "unknown" /\ replay = {}
  /\ faults = 0

-----------------------------------------------------------------------------
(* The primary database and the replicas.                                  *)

Fault(kind) ==
  /\ kind \in FaultKinds
  /\ faults < MaxFaults
  /\ faults' = faults + 1

(* ORDER BY created_at LIMIT n                                             *)
First(n, S) == {e \in S : Cardinality({d \in S : d < e}) < n}

(* Mutant: entries that failed are taken up again.                         *)
PendingOrFailedEntries == {e \in Entries : log[e] \in Pending \union {"FAILED"}}

(* get_pending_entries: the statuses it selects.                           *)
PendingEntries == {e \in Entries : log[e] \in Pending}

(* get_pending_entries returns no rows when the query fails.               *)
ReadPending(n, found) ==
  \/ found = First(n, PendingEntries) /\ UNCHANGED faults
  \/ found = {} /\ Fault("primary")

(* update_entry_status; nobody looks at whether it worked.                 *)
UpdateStatus(e, s) ==
  \/ log' = [log EXCEPT ![e] = s] /\ UNCHANGED faults
  \/ log' = log /\ Fault("primary")

(* What an entry makes of its row: INSERT IGNORE, and an UPDATE or DELETE  *)
(* by id, which succeeds on a missing row and changes nothing.             *)
RowAfter(e, row) ==
  CASE Workload[e].op = "INSERT" -> IF row = 0 THEN e ELSE row
    [] Workload[e].op = "UPDATE" -> IF row = 0 THEN 0 ELSE e
    [] Workload[e].op = "DELETE" -> 0

(* execute_on_replica commits entry e on replica r.                        *)
Execute(e, r) ==
  /\ table' = [table EXCEPT ![r][Workload[e].record] = RowAfter(e, @)]
  /\ executed' = [executed EXCEPT ![r] = @ \union {e}]
  /\ UNCHANGED up

-----------------------------------------------------------------------------
(* enqueue_entry, under the lock of the queue.                             *)
Enqueue(e) == queue' = Append(queue, e)

(* POST /api/replication/log: the entry is queued and 202 returned.  The   *)
(* requests of two services' threads may arrive in either order.           *)
Post(e) ==
  /\ \/ /\ e \notin posted
        /\ InOrder => \A d \in Entries : d < e => d \in posted
        /\ UNCHANGED faults
     \/ /\ e \in posted
        /\ Fault("repeat")
  /\ posted' = posted \union {e}
  /\ Enqueue(e)
  /\ UNCHANGED <<flushing, log, wal, announced, replicas, status, recovery>>

-----------------------------------------------------------------------------
(* The WAL thread.                                                         *)

(* Mutant: an entry is propagated before it is stored.                     *)
TakeQueueUnlogged ==
  /\ walPc = "flush" /\ queue # <<>>
  /\ batch' = {Head(queue)} /\ todo' = batch' /\ targets' = Replicas
  /\ queue' = Tail(queue)
  /\ walPc' = "sync"
  /\ UNCHANGED <<posted, flushing, log, tries, acked, announced,
                 replicas, status, recovery, faults>>

(* Mutant: what does not fit the batch is dropped with the old list.       *)
TakeQueueForgetsRest ==
  /\ walPc = "flush"
  /\ flushing' = SubSeq(queue, 1, Min({MaxBatch, Len(queue)}))
  /\ queue' = <<>>
  /\ walPc' = IF queue = <<>> THEN "poll" ELSE "insert"
  /\ UNCHANGED <<posted, log, batch, todo, targets, tries, acked, announced,
                 replicas, status, recovery, faults>>

(* _flush_incoming_queue takes at most a batch under the lock ...          *)
TakeQueue ==
  /\ walPc = "flush"
  /\ LET n == Min({MaxBatch, Len(queue)})
     IN /\ flushing' = SubSeq(queue, 1, n)
        /\ queue' = SubSeq(queue, n + 1, Len(queue))
  /\ walPc' = IF queue = <<>> THEN "poll" ELSE "insert"
  /\ UNCHANGED <<posted, log, batch, todo, targets, tries, acked, announced,
                 replicas, status, recovery, faults>>

(* Mutant: the row of an entry that is already there is replaced.          *)
InsertEntryReplaces ==
  /\ walPc = "insert"
  /\ UpdateStatus(Head(flushing), "PENDING")
  /\ flushing' = Tail(flushing)
  /\ walPc' = IF Tail(flushing) = <<>> THEN "poll" ELSE "insert"
  /\ UNCHANGED <<posted, queue, batch, todo, targets, tries, acked, announced,
                 replicas, status, recovery>>

(* ... and stores each entry.  id is the primary key, and an entry whose   *)
(* INSERT fails is dropped.                                                *)
InsertEntry ==
  /\ walPc = "insert"
  /\ LET e == Head(flushing)
     IN UpdateStatus(e, IF log[e] = "absent" THEN "PENDING" ELSE log[e])
  /\ flushing' = Tail(flushing)
  /\ walPc' = IF Tail(flushing) = <<>> THEN "poll" ELSE "insert"
  /\ UNCHANGED <<posted, queue, batch, todo, targets, tries, acked, announced,
                 replicas, status, recovery>>

(* _poll_primary_db reads the pending entries ...                          *)
Poll ==
  /\ walPc = "poll"
  /\ ReadPending(MaxBatch, batch')
  /\ todo' = batch'
  /\ walPc' = IF batch' = {} THEN "flush" ELSE "mark"
  /\ UNCHANGED <<entries, log, targets, tries, acked, announced,
                 replicas, status, recovery>>

(* ... marks each of them ...                                              *)
MarkPropagating ==
  /\ walPc = "mark"
  /\ LET e == Min(todo)
     IN /\ UpdateStatus(e, "PROPAGATING")
        /\ todo' = IF todo = {e} THEN batch ELSE todo \ {e}
        /\ walPc' = IF todo = {e} THEN "sync" ELSE "mark"
        /\ targets' = IF todo = {e} THEN Replicas ELSE targets
  /\ UNCHANGED <<entries, batch, tries, acked, announced,
                 replicas, status, recovery>>

(* ... sends them to the replicas, one entry and one replica after the     *)
(* other (sync_batch, sync_entry) ...                                      *)
NextReplica(e, r) ==
  /\ tries' = 0
  /\ targets' = IF targets # {r} THEN targets \ {r}
               ELSE IF todo = {e} THEN {} ELSE Replicas
  /\ todo' = IF targets # {r} THEN todo ELSE IF todo = {e} THEN batch ELSE todo \ {e}
  /\ walPc' = IF targets = {r} /\ todo = {e} THEN "settle" ELSE "sync"

(* Mutant: one attempt too many.                                           *)
RetryOnceMore(e, r) ==
  /\ \/ /\ tries <= RetryAttempts
        /\ tries' = tries + 1
        /\ UNCHANGED <<targets, todo, walPc>>
     \/ /\ tries > RetryAttempts
        /\ NextReplica(e, r)
  /\ UNCHANGED acked

(* Mutant: a replica that does not answer ends the turn of the entry.      *)
AbandonEntry(e, r) ==
  /\ tries' = 0
  /\ todo' = IF todo = {e} THEN batch ELSE todo \ {e}
  /\ targets' = IF todo = {e} THEN {} ELSE Replicas
  /\ walPc' = IF todo = {e} THEN "settle" ELSE "sync"
  /\ UNCHANGED acked

(* An attempt that failed is repeated until none is left (_sync_to_replica).*)
RetryReplica(e, r) ==
  /\ \/ /\ tries < RetryAttempts
        /\ tries' = tries + 1
        /\ UNCHANGED <<targets, todo, walPc>>
     \/ /\ tries >= RetryAttempts
        /\ NextReplica(e, r)
  /\ UNCHANGED acked

SyncToReplica ==
  /\ walPc = "sync"
  /\ LET e == Min(todo)
         r == Min(targets)
     IN \/ /\ up[r]
           /\ Execute(e, r)
           /\ acked' = [acked EXCEPT ![e] = @ \union {r}]
           /\ NextReplica(e, r)
           /\ UNCHANGED faults
        \/ /\ up[r] /\ Fault("reply")
           /\ Execute(e, r)
           /\ RetryReplica(e, r)
        \/ /\ ~up[r]
           /\ RetryReplica(e, r)
           /\ UNCHANGED <<replicas, faults>>
  /\ UNCHANGED <<entries, log, batch, announced, status, recovery>>

(* ... and records what came of each (_update_entry_result).               *)
Quorum == Min({QuorumMin, Cardinality(Replicas) \div 2 + 1})

(* Mutant: the primary counts towards the quorum.                          *)
VerdictCountsPrimary(acks) ==
  CASE Cardinality(acks) = Cardinality(Replicas) -> "REPLICATED"
    [] Cardinality(acks) # Cardinality(Replicas) /\ Cardinality(acks) + 1 >= Quorum -> "PARTIAL"
    [] OTHER -> "FAILED"

Verdict(acks) ==
  CASE Cardinality(acks) = Cardinality(Replicas) -> "REPLICATED"
    [] Cardinality(acks) # Cardinality(Replicas) /\ Cardinality(acks) >= Quorum -> "PARTIAL"
    [] OTHER -> "FAILED"

Settle ==
  /\ walPc = "settle"
  /\ LET e == Min(todo)
         verdict == Verdict(acked[e])
     IN /\ UpdateStatus(e, verdict)
        /\ announced' = [announced EXCEPT ![e] = @ \union {verdict}]
        /\ todo' = todo \ {e}
        /\ IF todo = {e}
             THEN walPc' = "flush" /\ batch' = {} /\ acked' = [d \in Entries |-> {}]
             ELSE UNCHANGED <<walPc, batch, acked>>
  /\ UNCHANGED <<entries, targets, tries, replicas, status, recovery>>

WalStep == TakeQueue \/ InsertEntry \/ Poll \/ MarkPropagating \/ SyncToReplica \/ Settle

-----------------------------------------------------------------------------
(* The recovery thread, and the status endpoint.                           *)

CheckNext(r) ==
  /\ recPc' = "note"
  /\ oldStatus' = "unknown"
  /\ toCheck' = IF toCheck = {r} THEN Replicas ELSE toCheck \ {r}

HealthOf(r) == IF up[r] THEN "healthy" ELSE "unhealthy"

NoteStatus ==
  /\ recPc = "note"
  /\ recPc' = "check"
  /\ oldStatus' = status[Min(toCheck)]
  /\ UNCHANGED <<entries, log, wal, announced, replicas, status, toCheck, replay, faults>>

(* A replica that answers and was not healthy when noted gets a catch-up.  *)
CheckHealth ==
  /\ recPc = "check"
  /\ LET r == Min(toCheck)
     IN /\ status' = [status EXCEPT ![r] = HealthOf(r)]
        /\ \/ /\ up[r] /\ oldStatus # "healthy"
              /\ recPc' = "read"
              /\ UNCHANGED <<toCheck, oldStatus>>
           \/ /\ ~up[r] \/ oldStatus = "healthy"
              /\ CheckNext(r)
  /\ UNCHANGED <<entries, log, wal, announced, replicas, replay, faults>>

(* _catch_up reads what is pending now ...                                 *)
ReadMissing ==
  /\ recPc = "read"
  /\ ReadPending(CatchUpBatch, replay')
  /\ IF replay' = {} THEN CheckNext(Min(toCheck))
                     ELSE recPc' = "replay" /\ UNCHANGED <<toCheck, oldStatus>>
  /\ UNCHANGED <<entries, log, wal, announced, replicas, status>>

(* ... and sends it, once each, without recording the outcome.             *)
ReplayEntry ==
  /\ recPc = "replay"
  /\ LET e == Min(replay)
         r == Min(toCheck)
     IN /\ \/ up[r] /\ Execute(e, r)
           \/ ~up[r] /\ UNCHANGED replicas
        /\ replay' = replay \ {e}
        /\ IF replay = {e} THEN CheckNext(r) ELSE UNCHANGED <<recPc, toCheck, oldStatus>>
  /\ UNCHANGED <<entries, log, wal, announced, status, faults>>

RecoveryStep == NoteStatus \/ CheckHealth \/ ReadMissing \/ ReplayEntry

(* GET /api/replication/status checks every replica as it answers.         *)
StatusCheck(r) ==
  /\ status' = [status EXCEPT ![r] = HealthOf(r)]
  /\ UNCHANGED <<entries, log, wal, announced, replicas, recovery, faults>>

-----------------------------------------------------------------------------
(* Failures.                                                               *)

ReplicaFails(r) ==
  /\ Outages /\ up[r]
  /\ up' = [up EXCEPT ![r] = FALSE]
  /\ UNCHANGED <<entries, log, wal, announced, table, executed, status, recovery, faults>>

ReplicaReturns(r) ==
  /\ ~up[r]
  /\ up' = [up EXCEPT ![r] = TRUE]
  /\ UNCHANGED <<entries, log, wal, announced, table, executed, status, recovery, faults>>

(* The process crashes, and its container starts it again.                 *)
Restart ==
  /\ Fault("crash")
  /\ queue' = <<>> /\ flushing' = <<>>
  /\ walPc' = "flush"
  /\ batch' = {} /\ todo' = {} /\ targets' = {} /\ tries' = 0
  /\ acked' = [e \in Entries |-> {}]
  /\ status' = [r \in Replicas |-> "unknown"]
  /\ recPc' = "note" /\ toCheck' = Replicas /\ oldStatus' = "unknown" /\ replay' = {}
  /\ UNCHANGED <<posted, log, announced, replicas>>

Next ==
  \/ \E e \in Entries : Post(e)
  \/ WalStep
  \/ RecoveryStep
  \/ \E r \in Replicas : StatusCheck(r) \/ ReplicaFails(r) \/ ReplicaReturns(r)
  \/ Restart

Spec == Init /\ [][Next]_vars

(* The two threads keep looping.                                           *)
FairSpec == Spec /\ WF_vars(WalStep) /\ WF_vars(RecoveryStep)

-----------------------------------------------------------------------------
(* Properties.                                                             *)

(* A replica executes only what the log of the primary holds: an entry is  *)
(* written ahead of its propagation, whatever is lost or replayed.         *)
WriteAhead == \A r \in Replicas : \A e \in executed[r] : log[e] # "absent"

(* A verdict that confirms an entry, in the log or announced to the event  *)
(* monitor, is earned: REPLICATED and PARTIAL, which _update_entry_result  *)
(* counts as success, mean a quorum of commits, on which every reader of   *)
(* the two statuses agrees.  (The code keeps REPLICATED for all of the     *)
(* replicas, the text of the repository for a quorum: see README.)         *)
Holders(e) == {r \in Replicas : e \in executed[r]}
VerdictsHold ==
  \A e \in Entries :
    (announced[e] \union {log[e]}) \cap {"REPLICATED", "PARTIAL"} # {}
      => Cardinality(Holders(e)) >= Quorum

(* Once settled, an entry keeps its status, and it is never forgotten.     *)
SettledIsFinal ==
  [][\A e \in Entries : log[e] \in Settled => log'[e] = log[e]]_vars

(* What the manager promises of its entries: see ReplicationContract.      *)
Promise == INSTANCE ReplicationContract WITH
  Quorums <- {Q \in SUBSET Replicas : Cardinality(Q) >= Quorum}
ContractSpec == Promise!Spec

(* An entry that was accepted is settled, and the replicas, which can all  *)
(* be reached, hold its row, however many replies are lost (receive_log).  *)
AcceptedArrives ==
  \A e \in Entries :
    e \in posted ~> /\ log[e] \in Settled
                    /\ \A r \in Replicas : table[r][Workload[e].record] = e

(* What the log says of a record: its entries in the order of created_at.  *)
Expected(k) ==
  LET row[n \in Entries \union {0}] ==
        IF n = 0 THEN 0
        ELSE IF Workload[n].record = k /\ log[n] # "absent"
               THEN RowAfter(n, row[n - 1]) ELSE row[n - 1]
  IN row[Len(Workload)]

(* Replicas that were never out of reach agree with the log when nothing   *)
(* is left to do (replica_sync.py: entries are processed in order).        *)
AtRest == /\ walPc \in {"flush", "poll"} /\ flushing = <<>> /\ queue = <<>>
          /\ PendingEntries = {}
          /\ recPc # "replay"
ReplicasConverge ==
  AtRest => \A r \in Replicas : \A k \in Records : table[r][k] = Expected(k)

(* Nothing that was accepted is lost on its way: when nothing is left to   *)
(* do, every entry that was answered with 202 is settled, and on every     *)
(* replica, if these stay in reach and the manager and its primary work,   *)
(* whatever was posted while it worked (_flush_incoming_queue).            *)
AllArrived ==
  AtRest => \A e \in posted : log[e] \in Settled /\ Holders(e) = Replicas

(* A replica that comes back to stay gets the operations it missed         *)
(* (recovery_manager.py).                                                  *)
MissedAreReplayed ==
  \A r \in Replicas : \A e \in Entries :
    (<>[]up[r]) => (log[e] # "absent" ~> e \in executed[r])
=============================================================================
