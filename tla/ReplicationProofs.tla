------------------------- MODULE ReplicationProofs -------------------------
(***************************************************************************)
(* What is proved of Replication for every workload, every set of replicas *)
(* and every configuration: types, the write-ahead rule, that a settled    *)
(* entry keeps its status, and that no verdict is better than the truth.   *)
(***************************************************************************)
EXTENDS Replication, FiniteSetTheorems, SequenceTheorems, WellFoundedInduction, TLAPS

-----------------------------------------------------------------------------
(* Least elements.                                                         *)

(* A set of numbers that is not empty has the least element Min chooses.   *)
LEMMA MinIn ==
  ASSUME NEW S \in SUBSET Nat, S # {}
  PROVE  Min(S) \in S /\ \A x \in S : Min(S) <= x
<1>0. OpToRel(<, Nat) = {ss \in Nat \X Nat : ss[1] < ss[2]}
  BY Zenon DEF OpToRel
<1> DEFINE R == {ss \in Nat \X Nat : ss[1] < ss[2]}
<1>1. IsWellFoundedOn(R, Nat)
  BY <1>0, NatLessThanWellFounded, Zenon
<1>2. \E x \in S : \A y \in S : ~(<<y, x>> \in R)
  <2> HIDE DEF R
  <2> QED  BY <1>1, WFMin, Zenon
<1>3. PICK x \in S : \A y \in S : ~(<<y, x>> \in R)
  BY <1>2, Zenon
<1>4. \A y \in S : x <= y
  <2> SUFFICES ASSUME NEW y \in S PROVE x <= y  OBVIOUS
  <2>1. x \in Nat /\ y \in Nat  OBVIOUS
  <2>2. ~(<<y, x>> \in R)  BY <1>3
  <2>3. ~(y < x)  BY <2>1, <2>2
  <2> HIDE DEF R
  <2> QED  BY <2>1, <2>3
<1>5. QED  BY <1>4 DEF Min

(* Entries are positions of the workload.                                  *)
LEMMA EntriesAreNat == Entries \subseteq Nat /\ 0 \notin Entries
<1>1. Workload \in Seq([op : {"INSERT", "UPDATE", "DELETE"}, record : STRING])
  BY WorkloadAssumption
<1>2. DOMAIN Workload = 1..Len(Workload) /\ Len(Workload) \in Nat
  BY <1>1
<1>3. QED  BY <1>2 DEF Entries

(* The entry, and the replica, that a phase takes next is one it has left. *)
LEMMA NextIn ==
  ASSUME NEW S, S # {}, S \subseteq Entries \/ S \subseteq Replicas
  PROVE  Min(S) \in S
BY MinIn, EntriesAreNat, ReplicasAssumption

-----------------------------------------------------------------------------
(* Types.                                                                  *)

(* A phase that works on a list or a set is left when nothing remains.     *)
PhaseInv ==
  /\ walPc = "insert" => flushing # <<>>
  /\ walPc \in {"mark", "sync", "settle"} => todo # {}
  /\ walPc = "sync" => targets # {}
  /\ toCheck # {}
  /\ recPc = "replay" => replay # {}

(* A row holds an entry or nothing, whatever is executed on it.            *)
LEMMA ExecuteType ==
  ASSUME TypeOK, NEW e \in Entries, NEW r \in Replicas, Execute(e, r)
  PROVE  /\ table' \in [Replicas -> [Records -> Entries \union {0}]]
         /\ executed' \in [Replicas -> SUBSET Entries]
         /\ up' = up
<1>1. Workload[e].record \in Records
  BY DEF Records
<1>2. table[r][Workload[e].record] \in Entries \union {0}
  BY <1>1 DEF TypeOK
<1>3. Workload[e].op \in {"INSERT", "UPDATE", "DELETE"}
  <2> DEFINE Ops == [op : {"INSERT", "UPDATE", "DELETE"}, record : STRING]
  <2>1. Workload[e] \in Ops
    <3>1. Workload \in Seq(Ops)  BY WorkloadAssumption
    <3> HIDE DEF Ops
    <3>2. e \in 1..Len(Workload)  BY <3>1 DEF Entries
    <3>3. QED  BY <3>1, <3>2, ElementOfSeq
  <2>2. QED  BY <2>1
<1>4. RowAfter(e, table[r][Workload[e].record]) \in Entries \union {0}
  BY <1>2, <1>3 DEF RowAfter
<1>5. QED  BY <1>1, <1>4 DEF Execute, TypeOK

(* Taking a batch splits the queue, and takes something from one that is   *)
(* not empty.                                                              *)
LEMMA TakeQueueType ==
  ASSUME TypeOK, TakeQueue
  PROVE  /\ queue' \in Seq(Entries) /\ flushing' \in Seq(Entries)
         /\ queue # <<>> => flushing' # <<>>
<1> DEFINE n == Min({MaxBatch, Len(queue)})
<1>1. queue \in Seq(Entries) /\ Len(queue) \in Nat /\ MaxBatch \in Nat \ {0}
  BY ConfigAssumption DEF TypeOK
<1>2. n \in {MaxBatch, Len(queue)} /\ n <= Len(queue)
  BY <1>1, MinIn
<1>3. queue # <<>> => n >= 1
  BY <1>1, <1>2
<1>4. flushing' = SubSeq(queue, 1, n) /\ queue' = SubSeq(queue, n + 1, Len(queue))
  BY DEF TakeQueue
<1> HIDE DEF n
<1>5. n \in 0..Len(queue)
  BY <1>1, <1>2
<1>6. /\ SubSeq(queue, 1, n) \in Seq(Entries) /\ Len(SubSeq(queue, 1, n)) = n
      /\ SubSeq(queue, n + 1, Len(queue)) \in Seq(Entries)
  BY <1>1, <1>5, SubSeqProperties
<1>7. QED  BY <1>3, <1>4, <1>6

(* What each phase takes next is there to be taken.                        *)
LEMMA Chosen ==
  ASSUME TypeOK, PhaseInv
  PROVE  /\ walPc \in {"mark", "sync", "settle"} => Min(todo) \in todo /\ Min(todo) \in Entries
         /\ walPc = "sync" => Min(targets) \in targets /\ Min(targets) \in Replicas
         /\ recPc = "replay" => Min(replay) \in replay /\ Min(replay) \in Entries
         /\ Min(toCheck) \in toCheck /\ Min(toCheck) \in Replicas
<1>1. /\ todo \subseteq Entries /\ targets \subseteq Replicas
      /\ replay \subseteq Entries /\ toCheck \subseteq Replicas
  BY DEF TypeOK
<1>2. walPc \in {"mark", "sync", "settle"} => Min(todo) \in todo
  BY <1>1, NextIn DEF PhaseInv
<1>3. walPc = "sync" => Min(targets) \in targets
  BY <1>1, NextIn DEF PhaseInv
<1>4. recPc = "replay" => Min(replay) \in replay
  BY <1>1, NextIn DEF PhaseInv
<1>5. Min(toCheck) \in toCheck
  BY <1>1, NextIn DEF PhaseInv
<1>6. QED  BY <1>1, <1>2, <1>3, <1>4, <1>5

(* The rows read as pending are pending entries.                           *)
LEMMA FirstPending ==
  ASSUME NEW n
  PROVE  First(n, PendingEntries) \subseteq PendingEntries /\ PendingEntries \subseteq Entries
BY DEF First, PendingEntries

(* A status written to the log is one of the statuses.                     *)
LEMMA UpdateStatusType ==
  ASSUME TypeOK, NEW e \in Entries, NEW s \in Statuses, UpdateStatus(e, s)
  PROVE  log' \in [Entries -> Statuses] /\ faults' \in 0..MaxFaults
BY ConfigAssumption DEF TypeOK, UpdateStatus, Fault

LEMMA VerdictType == ASSUME NEW acks PROVE Verdict(acks) \in Settled
BY DEF Verdict, Settled

(* Every step keeps the types and leaves a phase only when it is done.     *)
LEMMA TypeStep ==
  ASSUME TypeOK, PhaseInv, [Next]_vars
  PROVE  TypeOK' /\ PhaseInv'
<1> USE ConfigAssumption, ReplicasAssumption
<1> USE DEF TypeOK, PhaseInv, entries, wal, replicas, recovery
<1>1. ASSUME NEW e \in Entries, Post(e)  PROVE TypeOK' /\ PhaseInv'
  BY <1>1 DEF Post, Fault, Enqueue
<1>2. CASE TakeQueue
  BY <1>2, TakeQueueType DEF TakeQueue
<1>3. CASE InsertEntry
  <2>1. /\ Head(flushing) \in Entries /\ Tail(flushing) \in Seq(Entries)
        /\ flushing # <<>>
    BY <1>3 DEF InsertEntry
  <2>2. log' \in [Entries -> Statuses] /\ faults' \in 0..MaxFaults
    BY <1>3, <2>1, UpdateStatusType DEF InsertEntry, Statuses, Pending
  <2>3. QED  BY <1>3, <2>1, <2>2 DEF InsertEntry
<1>4. CASE Poll
  <2>1. (batch' = First(MaxBatch, PendingEntries) \/ batch' = {}) /\ faults' \in 0..MaxFaults
    BY <1>4 DEF Poll, ReadPending, Fault
  <2>2. batch' \subseteq Entries
    BY <2>1, FirstPending
  <2>3. QED  BY <1>4, <2>1, <2>2 DEF Poll
<1>5. CASE MarkPropagating
  <2>1. Min(todo) \in todo /\ Min(todo) \in Entries
    BY <1>5, Chosen DEF MarkPropagating
  <2>2. log' \in [Entries -> Statuses] /\ faults' \in 0..MaxFaults
    BY <1>5, <2>1, UpdateStatusType DEF MarkPropagating, Statuses, Pending
  <2>3. QED  BY <1>5, <2>1, <2>2 DEF MarkPropagating
<1>6. CASE SyncToReplica
  <2> DEFINE e == Min(todo)
             r == Min(targets)
  <2>1. e \in todo /\ e \in Entries /\ r \in targets /\ r \in Replicas
    BY <1>6, Chosen DEF SyncToReplica
  <2>2. Execute(e, r) \/ UNCHANGED replicas
    BY <1>6 DEF SyncToReplica
  <2> HIDE DEF e, r
  <2>3. /\ table' \in [Replicas -> [Records -> Entries \union {0}]]
        /\ executed' \in [Replicas -> SUBSET Entries]
        /\ up' \in [Replicas -> BOOLEAN]
    BY <2>1, <2>2, ExecuteType
  <2>4. /\ \/ tries < RetryAttempts /\ tries' = tries + 1 /\ UNCHANGED <<targets, todo, walPc>>
           \/ NextReplica(e, r)
        /\ acked' = acked \/ acked' = [acked EXCEPT ![e] = @ \union {r}]
        /\ faults' \in 0..MaxFaults
        /\ walPc = "sync"
        /\ UNCHANGED <<entries, log, batch, announced, status, recovery>>
    BY <1>6 DEF SyncToReplica, RetryReplica, Fault, e, r
  <2>5. /\ tries' \in 0..RetryAttempts /\ targets' \subseteq Replicas /\ todo' \subseteq batch'
        /\ walPc' \in {"sync", "settle"} /\ todo' # {}
        /\ walPc' = "sync" => targets' # {}
    <3>1. CASE tries < RetryAttempts /\ tries' = tries + 1 /\ UNCHANGED <<targets, todo, walPc>>
      <4>1. tries' \in 0..RetryAttempts  BY <3>1
      <4>2. QED  BY <2>4, <3>1, <4>1
    <3>2. CASE NextReplica(e, r) /\ targets # {r}
      BY <2>1, <2>4, <3>2 DEF NextReplica
    <3>3. CASE NextReplica(e, r) /\ targets = {r} /\ todo # {e}
      BY <2>1, <2>4, <3>3 DEF NextReplica
    <3>4. CASE NextReplica(e, r) /\ targets = {r} /\ todo = {e}
      BY <2>1, <2>4, <3>4 DEF NextReplica
    <3>5. QED  BY <2>4, <3>1, <3>2, <3>3, <3>4
  <2>6. acked' \in [Entries -> SUBSET Replicas]
    BY <2>1, <2>4
  <2>7. QED  BY <2>3, <2>4, <2>5, <2>6
<1>7. CASE Settle
  <2>1. Min(todo) \in todo /\ Min(todo) \in Entries
    BY <1>7, Chosen DEF Settle
  <2>2. Verdict(acked[Min(todo)]) \in Settled
    BY VerdictType
  <2>3. log' \in [Entries -> Statuses] /\ faults' \in 0..MaxFaults
    BY <1>7, <2>1, <2>2, UpdateStatusType DEF Settle, Statuses
  <2>4. announced' \in [Entries -> SUBSET Settled]
    BY <1>7, <2>1, <2>2 DEF Settle
  <2>5. QED  BY <1>7, <2>1, <2>3, <2>4 DEF Settle
<1>8. CASE NoteStatus
  BY <1>8, Chosen DEF NoteStatus
<1>9. CASE CheckHealth
  BY <1>9, Chosen DEF CheckHealth, CheckNext, HealthOf, Health
<1>10. CASE ReadMissing
  <2>1. (replay' = First(CatchUpBatch, PendingEntries) \/ replay' = {}) /\ faults' \in 0..MaxFaults
    BY <1>10 DEF ReadMissing, ReadPending, Fault
  <2>2. replay' \subseteq Entries
    BY <2>1, FirstPending
  <2>3. QED  BY <1>10, <2>1, <2>2, Chosen DEF ReadMissing, CheckNext, Health
<1>11. CASE ReplayEntry
  <2> DEFINE e == Min(replay)
             r == Min(toCheck)
  <2>1. e \in replay /\ e \in Entries /\ r \in toCheck /\ r \in Replicas
    BY <1>11, Chosen DEF ReplayEntry
  <2>2. Execute(e, r) \/ UNCHANGED replicas
    BY <1>11 DEF ReplayEntry
  <2>3. /\ replay' = replay \ {e}
        /\ IF replay = {e} THEN CheckNext(r) ELSE UNCHANGED <<recPc, toCheck, oldStatus>>
        /\ UNCHANGED <<entries, log, wal, announced, status, faults>>
    BY <1>11 DEF ReplayEntry
  <2> HIDE DEF e, r
  <2>4. /\ table' \in [Replicas -> [Records -> Entries \union {0}]]
        /\ executed' \in [Replicas -> SUBSET Entries]
        /\ up' \in [Replicas -> BOOLEAN]
    BY <2>1, <2>2, ExecuteType
  <2>5. recPc = "replay"
    BY <1>11 DEF ReplayEntry
  <2>6. /\ recPc' \in {"note", "replay"}
        /\ toCheck' \subseteq Replicas /\ toCheck' # {}
        /\ oldStatus' \in Health
        /\ recPc' = "replay" => replay' # {}
    <3>1. CASE replay = {e}
      BY <2>1, <2>3, <3>1 DEF CheckNext, Health
    <3>2. CASE replay # {e}
      BY <2>1, <2>3, <2>5, <3>2
    <3>3. QED  BY <3>1, <3>2
  <2>7. QED  BY <2>3, <2>4, <2>6
<1>12. ASSUME NEW r \in Replicas, StatusCheck(r) \/ ReplicaFails(r) \/ ReplicaReturns(r)
       PROVE  TypeOK' /\ PhaseInv'
  <2>1. CASE StatusCheck(r)
    <3>1. status' \in [Replicas -> Health]
      BY <2>1 DEF StatusCheck, HealthOf, Health
    <3>2. QED  BY <2>1, <3>1 DEF StatusCheck
  <2>2. CASE ReplicaFails(r)
    BY <2>2 DEF ReplicaFails
  <2>3. CASE ReplicaReturns(r)
    BY <2>3 DEF ReplicaReturns
  <2>4. QED  BY <1>12, <2>1, <2>2, <2>3
<1>13. CASE Restart
  BY <1>13 DEF Restart, Fault, Health
<1>14. CASE UNCHANGED vars
  BY <1>14 DEF vars
<1>15. QED
  BY <1>1, <1>2, <1>3, <1>4, <1>5, <1>6, <1>7, <1>8, <1>9, <1>10, <1>11, <1>12,
     <1>13, <1>14 DEF Next, WalStep, RecoveryStep

(* Types are kept for every workload, set of replicas and configuration.   *)
THEOREM TypeCorrect == Spec => []TypeOK
<1>1. Init => TypeOK /\ PhaseInv
  BY EntriesAreNat, ReplicasAssumption, ConfigAssumption
     DEF Init, TypeOK, PhaseInv, Statuses, Pending, Settled, Health
<1>2. TypeOK /\ PhaseInv /\ [Next]_vars => TypeOK' /\ PhaseInv'
  BY TypeStep
<1>3. QED  BY <1>1, <1>2, PTL DEF Spec

-----------------------------------------------------------------------------
(* The log.                                                                *)

(* The entries a cycle still has to propagate or to settle are pending in  *)
(* the log, and what the recovery thread holds is logged, though it may    *)
(* have been settled since.                                                *)
LogInv ==
  /\ walPc \in {"mark", "sync"} => batch \subseteq PendingEntries
  /\ walPc = "settle" => todo \subseteq PendingEntries
  /\ \A e \in replay : log[e] # "absent"
  /\ WriteAhead

(* One write to the log: what it does to the entry it names, and to no     *)
(* other.                                                                  *)
LEMMA UpdateOne ==
  ASSUME TypeOK, NEW e \in Entries, NEW s \in Statuses, UpdateStatus(e, s)
  PROVE  /\ log'[e] \in {s, log[e]}
         /\ \A d \in Entries \ {e} : log'[d] = log[d]
BY DEF TypeOK, UpdateStatus, Fault

(* No step writes to a settled entry, or forgets one.                      *)
LEMMA LogStep ==
  ASSUME TypeOK, PhaseInv, LogInv, [Next]_vars
  PROVE  \A e \in Entries : /\ log[e] \in Settled => log'[e] = log[e]
                            /\ log[e] # "absent" => log'[e] # "absent"
                            /\ log[e] \in Pending => log'[e] \in Pending \/ walPc = "settle"
<1> DEFINE Kept == \A e \in Entries : /\ log[e] \in Settled => log'[e] = log[e]
                                      /\ log[e] # "absent" => log'[e] # "absent"
                                      /\ log[e] \in Pending => log'[e] \in Pending \/ walPc = "settle"
<1>1. CASE log' = log
  BY <1>1
<1>2. CASE InsertEntry
  <2> DEFINE e == Head(flushing)
             s == IF log[e] = "absent" THEN "PENDING" ELSE log[e]
  <2>1. e \in Entries
    BY <1>2 DEF InsertEntry, TypeOK, PhaseInv
  <2>2. s \in Statuses
    BY <2>1 DEF TypeOK, Statuses, Pending
  <2>3. UpdateStatus(e, s)
    BY <1>2 DEF InsertEntry
  <2>4. log'[e] \in {s, log[e]} /\ \A d \in Entries \ {e} : log'[d] = log[d]
    BY <2>1, <2>2, <2>3, UpdateOne
  <2>5. log[e] # "absent" => log'[e] = log[e]
    BY <2>4
  <2> HIDE DEF e, s
  <2>6. QED  BY <2>4, <2>5 DEF Settled, Pending
<1>3. CASE MarkPropagating
  <2> DEFINE e == Min(todo)
  <2>1. e \in Entries /\ e \in todo /\ UpdateStatus(e, "PROPAGATING")
    BY <1>3, Chosen DEF MarkPropagating
  <2>2. log[e] \in Pending
    BY <1>3, <2>1 DEF MarkPropagating, LogInv, PendingEntries, TypeOK
  <2>3. "PROPAGATING" \in Statuses
    BY DEF Statuses, Pending
  <2> HIDE DEF e
  <2>4. log'[e] \in {"PROPAGATING", log[e]} /\ \A d \in Entries \ {e} : log'[d] = log[d]
    BY <2>1, <2>3, UpdateOne
  <2>5. QED  BY <2>2, <2>4 DEF Settled, Pending
<1>4. CASE Settle
  <2> DEFINE e == Min(todo)
             s == Verdict(acked[e])
  <2>1. e \in Entries /\ e \in todo /\ UpdateStatus(e, s)
    BY <1>4, Chosen DEF Settle
  <2>2. log[e] \in Pending /\ walPc = "settle"
    BY <1>4, <2>1 DEF Settle, LogInv, PendingEntries
  <2>3. s \in Settled /\ s \in Statuses
    BY VerdictType DEF Statuses
  <2> HIDE DEF e, s
  <2>4. log'[e] \in {s, log[e]} /\ \A d \in Entries \ {e} : log'[d] = log[d]
    BY <2>1, <2>3, UpdateOne
  <2>5. QED  BY <2>2, <2>3, <2>4 DEF Settled, Pending
<1>5. InsertEntry \/ MarkPropagating \/ Settle \/ log' = log
  BY DEF Next, WalStep, RecoveryStep, Post, TakeQueue, Poll, SyncToReplica, NoteStatus,
         CheckHealth, ReadMissing, ReplayEntry, StatusCheck, ReplicaFails, ReplicaReturns,
         Restart, vars, Enqueue
<1>6. QED  BY <1>1, <1>2, <1>3, <1>4, <1>5

(* A step that executes an entry on a replica executes one the log holds,  *)
(* and nothing is ever undone.                                             *)
LEMMA ExecutedStep ==
  ASSUME TypeOK, PhaseInv, LogInv, [Next]_vars
  PROVE  \/ executed' = executed
         \/ \E e \in Entries, r \in Replicas :
              /\ log[e] # "absent"
              /\ executed' = [executed EXCEPT ![r] = @ \union {e}]
<1>1. CASE SyncToReplica
  <2> DEFINE e == Min(todo)
             r == Min(targets)
  <2>1. e \in todo /\ e \in Entries /\ r \in Replicas /\ walPc = "sync"
    BY <1>1, Chosen DEF SyncToReplica
  <2>2. log[e] \in Pending
    BY <2>1 DEF LogInv, PendingEntries, TypeOK
  <2>3. Execute(e, r) \/ UNCHANGED replicas
    BY <1>1 DEF SyncToReplica
  <2> HIDE DEF e, r
  <2>4. QED  BY <2>1, <2>2, <2>3 DEF Execute, replicas, Pending
<1>2. CASE ReplayEntry
  <2> DEFINE e == Min(replay)
             r == Min(toCheck)
  <2>1. e \in replay /\ e \in Entries /\ r \in Replicas
    BY <1>2, Chosen DEF ReplayEntry
  <2>2. log[e] # "absent"
    BY <2>1 DEF LogInv
  <2>3. Execute(e, r) \/ UNCHANGED replicas
    BY <1>2 DEF ReplayEntry
  <2> HIDE DEF e, r
  <2>4. QED  BY <2>1, <2>2, <2>3 DEF Execute, replicas
<1>3. CASE executed' = executed
  BY <1>3
<1>4. SyncToReplica \/ ReplayEntry \/ executed' = executed
  BY DEF Next, WalStep, RecoveryStep, Post, TakeQueue, InsertEntry, Poll, MarkPropagating,
         Settle, NoteStatus, CheckHealth, ReadMissing, StatusCheck, ReplicaFails,
         ReplicaReturns, Restart, vars, replicas, Enqueue
<1>5. QED  BY <1>1, <1>2, <1>3, <1>4

LEMMA LogInvStep ==
  ASSUME TypeOK, PhaseInv, LogInv, [Next]_vars
  PROVE  LogInv'
<1>1. TypeOK' /\ PhaseInv'
  BY TypeStep
<1>2. \A e \in Entries : /\ log[e] \in Settled => log'[e] = log[e]
                         /\ log[e] # "absent" => log'[e] # "absent"
                         /\ log[e] \in Pending => log'[e] \in Pending \/ walPc = "settle"
  BY LogStep
<1>3. ASSUME walPc' \in {"mark", "sync"}  PROVE batch' \subseteq PendingEntries'
  <2>1. CASE Poll
    <3>1. batch' = First(MaxBatch, PendingEntries) \/ batch' = {}
      BY <2>1 DEF Poll, ReadPending
    <3>2. log' = log
      BY <2>1 DEF Poll
    <3>3. QED  BY <3>1, <3>2, FirstPending DEF PendingEntries
  <2>2. CASE batch' = batch /\ walPc \in {"mark", "sync"}
    <3>1. batch \subseteq PendingEntries
      BY <2>2 DEF LogInv
    <3>2. QED  BY <2>2, <3>1, <1>2 DEF PendingEntries
  <2>3. Poll \/ (batch' = batch /\ walPc \in {"mark", "sync"})
    BY <1>3 DEF Next, WalStep, RecoveryStep, Post, TakeQueue, InsertEntry, MarkPropagating,
         SyncToReplica, Settle, NoteStatus, CheckHealth, ReadMissing, ReplayEntry,
         StatusCheck, ReplicaFails, ReplicaReturns, Restart, vars, wal, Enqueue
  <2>4. QED  BY <2>1, <2>2, <2>3
<1>4. ASSUME walPc' = "settle"  PROVE todo' \subseteq PendingEntries'
  <2>1. CASE SyncToReplica
    <3>1. batch \subseteq PendingEntries /\ batch' = batch /\ log' = log
      BY <2>1 DEF SyncToReplica, LogInv
    <3>2. QED  BY <1>1, <3>1 DEF TypeOK, PendingEntries
  <2>2. CASE Settle
    <3> DEFINE e == Min(todo)
    <3>1. e \in Entries /\ UpdateStatus(e, Verdict(acked[e])) /\ todo' = todo \ {e}
      BY <2>2, Chosen DEF Settle
    <3>2. Verdict(acked[e]) \in Statuses
      BY VerdictType DEF Statuses
    <3>3. todo \subseteq PendingEntries
      BY <2>2 DEF Settle, LogInv
    <3> HIDE DEF e
    <3>4. \A d \in Entries \ {e} : log'[d] = log[d]
      BY <3>1, <3>2, UpdateOne
    <3>5. QED  BY <3>1, <3>3, <3>4 DEF PendingEntries
  <2>3. CASE todo' = todo /\ log' = log /\ walPc = "settle"
    BY <2>3 DEF LogInv, PendingEntries
  <2>4. SyncToReplica \/ Settle \/ (todo' = todo /\ log' = log /\ walPc = "settle")
    BY <1>4 DEF Next, WalStep, RecoveryStep, Post, TakeQueue, InsertEntry, Poll, MarkPropagating,
         NoteStatus, CheckHealth, ReadMissing, ReplayEntry,
         StatusCheck, ReplicaFails, ReplicaReturns, Restart, vars, wal, Enqueue
  <2>5. QED  BY <2>1, <2>2, <2>3, <2>4
<1>5. \A e \in replay' : log'[e] # "absent"
  <2>1. CASE replay' \subseteq replay
    BY <1>2, <2>1 DEF LogInv, TypeOK
  <2>2. CASE ReadMissing
    <3>1. replay' = First(CatchUpBatch, PendingEntries) \/ replay' = {}
      BY <2>2 DEF ReadMissing, ReadPending
    <3>2. log' = log
      BY <2>2 DEF ReadMissing
    <3>3. QED  BY <3>1, <3>2, FirstPending DEF PendingEntries, Pending
  <2>3. replay' \subseteq replay \/ ReadMissing
    BY DEF Next, WalStep, RecoveryStep, Post, TakeQueue, InsertEntry, Poll, MarkPropagating,
         SyncToReplica, Settle, NoteStatus, CheckHealth, ReplayEntry,
         StatusCheck, ReplicaFails, ReplicaReturns, Restart, vars, recovery, Enqueue
  <2>4. QED  BY <2>1, <2>2, <2>3
<1>6. WriteAhead'
  <2>1. WriteAhead /\ executed \in [Replicas -> SUBSET Entries]
    BY DEF LogInv, TypeOK
  <2>2. CASE executed' = executed
    BY <1>2, <2>1, <2>2 DEF WriteAhead
  <2>3. ASSUME NEW e \in Entries, NEW r \in Replicas, log[e] # "absent",
               executed' = [executed EXCEPT ![r] = @ \union {e}]
        PROVE  WriteAhead'
    BY <1>2, <2>1, <2>3 DEF WriteAhead
  <2>4. QED  BY <2>2, <2>3, ExecutedStep
<1>7. QED  BY <1>3, <1>4, <1>5, <1>6 DEF LogInv

-----------------------------------------------------------------------------
(* The verdicts.                                                           *)

(* A verdict is true of the replicas H, in the sense of the code.          *)
Deserved(s, H) ==
  /\ s = "REPLICATED" => H = Replicas
  /\ s = "PARTIAL" => Cardinality(H) >= Quorum

(* An acknowledgement counted towards a verdict stands for a commit, and   *)
(* every verdict drawn is true.                                            *)
VerdictInv ==
  /\ \A e \in Entries : acked[e] \subseteq Holders(e)
  /\ \A e \in Entries : \A s \in announced[e] \union {log[e]} : Deserved(s, Holders(e))

(* A replica that has committed an entry has committed it for good.        *)
LEMMA HoldersGrow ==
  ASSUME TypeOK, PhaseInv, LogInv, [Next]_vars, NEW e \in Entries
  PROVE  Holders(e) \subseteq Holders(e)'
<1>1. executed \in [Replicas -> SUBSET Entries]
  BY DEF TypeOK
<1>2. \A r \in Replicas : executed[r] \subseteq executed'[r]
  BY <1>1, ExecutedStep
<1>3. QED  BY <1>2 DEF Holders

LEMMA HoldersFinite ==
  ASSUME NEW S, S \subseteq Replicas
  PROVE  IsFiniteSet(S) /\ Cardinality(S) \in Nat /\ Cardinality(S) <= Cardinality(Replicas)
BY FS_Subset, FS_CardinalityType, ReplicasAssumption

(* The quorum is a number of replicas there are.                           *)
LEMMA QuorumType == Quorum \in Nat /\ Quorum <= Cardinality(Replicas)
<1>1. Cardinality(Replicas) \in Nat /\ Cardinality(Replicas) # 0
  BY FS_CardinalityType, FS_EmptySet, ReplicasAssumption
<1> DEFINE half == Cardinality(Replicas) \div 2 + 1
<1>2. half \in Nat /\ half <= Cardinality(Replicas)
  BY <1>1
<1>3. Quorum \in {QuorumMin, half} /\ Quorum <= half
  <2> HIDE DEF half
  <2>1. Min({QuorumMin, half}) \in {QuorumMin, half}
    BY <1>2, ConfigAssumption, MinIn
  <2>2. Min({QuorumMin, half}) <= half
    BY <1>2, ConfigAssumption, MinIn
  <2>3. Quorum = Min({QuorumMin, half})
    BY DEF Quorum, half
  <2>4. QED  BY <2>1, <2>2, <2>3
<1> HIDE DEF half
<1>4. QED  BY <1>1, <1>2, <1>3, ConfigAssumption

(* A verdict that holds is not undone when more replicas commit.           *)
LEMMA DeservedGrows ==
  ASSUME NEW s, NEW H, NEW J, H \subseteq J, J \subseteq Replicas, Deserved(s, H)
  PROVE  Deserved(s, J)
<1>1. Cardinality(H) <= Cardinality(J) /\ Cardinality(H) \in Nat /\ Cardinality(J) \in Nat
  BY HoldersFinite, FS_Subset
<1>2. QED  BY <1>1, QuorumType DEF Deserved

(* What _update_entry_result concludes from the acknowledgements is true   *)
(* of any set of replicas that includes them.                              *)
LEMMA VerdictDeserved ==
  ASSUME NEW acks, NEW H, acks \subseteq H, H \subseteq Replicas
  PROVE  Deserved(Verdict(acks), H)
<1>1. /\ Cardinality(acks) \in Nat /\ Cardinality(H) \in Nat
      /\ Cardinality(acks) <= Cardinality(H)
  BY HoldersFinite, FS_Subset
<1>2. Verdict(acks) = "REPLICATED" => H = Replicas
  <2>1. SUFFICES ASSUME Cardinality(acks) = Cardinality(Replicas)  PROVE H = Replicas
    BY DEF Verdict
  <2>2. acks = Replicas
    BY <2>1, FS_Subset, ReplicasAssumption
  <2>3. QED  BY <2>2
<1>3. Verdict(acks) = "PARTIAL" => Cardinality(H) >= Quorum
  BY <1>1, QuorumType DEF Verdict
<1>4. QED  BY <1>2, <1>3 DEF Deserved

LEMMA VerdictInvStep ==
  ASSUME TypeOK, PhaseInv, LogInv, VerdictInv, [Next]_vars
  PROVE  VerdictInv'
<1>1. \A e \in Entries : Holders(e) \subseteq Holders(e)' /\ Holders(e)' \subseteq Replicas
  BY HoldersGrow DEF Holders
<1>2. ASSUME NEW e \in Entries  PROVE acked'[e] \subseteq Holders(e)'
  <2>1. CASE acked' = acked \/ acked' = [d \in Entries |-> {}]
    BY <1>1, <2>1 DEF VerdictInv
  <2>2. CASE SyncToReplica
    <3>1. PICK d \in Entries, r \in Replicas : d = Min(todo) /\ r = Min(targets)
      BY <2>2, Chosen DEF SyncToReplica
    <3>2. acked' = acked \/ (acked' = [acked EXCEPT ![d] = @ \union {r}] /\ Execute(d, r))
      BY <2>2, <3>1 DEF SyncToReplica, RetryReplica
    <3>3. Execute(d, r) => r \in Holders(d)'
      BY <3>1 DEF Execute, Holders, TypeOK
    <3>4. QED  BY <1>1, <3>1, <3>2, <3>3 DEF VerdictInv, TypeOK
  <2>3. SyncToReplica \/ acked' = acked \/ acked' = [d \in Entries |-> {}]
    BY DEF Next, WalStep, RecoveryStep, Post, TakeQueue, InsertEntry, Poll, MarkPropagating,
         Settle, NoteStatus, CheckHealth, ReadMissing, ReplayEntry,
         StatusCheck, ReplicaFails, ReplicaReturns, Restart, vars, wal, Enqueue
  <2>4. QED  BY <2>1, <2>2, <2>3
<1>3. ASSUME NEW e \in Entries, NEW s \in announced[e] \union {log[e]}
      PROVE  Deserved(s, Holders(e)')
  <2>1. Deserved(s, Holders(e))
    BY DEF VerdictInv
  <2>2. QED  BY <1>1, <2>1, DeservedGrows
<1>4. ASSUME NEW e \in Entries, NEW s \in announced'[e] \union {log'[e]}
      PROVE  Deserved(s, Holders(e)')
  <2>1. CASE s \in announced[e] \union {log[e]}
    BY <1>3, <2>1
  <2>2. CASE s \in Pending
    BY <2>2 DEF Pending, Deserved
  <2>3. CASE Settle
    <3>1. PICK d \in Entries, v \in Settled : d = Min(todo) /\ v = Verdict(acked[d])
      BY <2>3, Chosen, VerdictType DEF Settle
    <3>2. UpdateStatus(d, v) /\ announced' = [announced EXCEPT ![d] = @ \union {v}]
      BY <2>3, <3>1 DEF Settle
    <3>3. acked[d] \subseteq Holders(d)'
      BY <1>1 DEF VerdictInv
    <3>4. Deserved(v, Holders(d)')
      BY <1>1, <3>1, <3>3, VerdictDeserved
    <3>5. v \in Statuses
      BY DEF Statuses
    <3>6. log'[d] \in {v, log[d]} /\ \A c \in Entries \ {d} : log'[c] = log[c]
      BY <3>2, <3>5, UpdateOne
    <3>7. s \in announced[e] \union {log[e]} \/ (e = d /\ s = v)
      BY <3>2, <3>6 DEF TypeOK
    <3>8. QED  BY <1>3, <3>4, <3>7
  <2>4. CASE InsertEntry
    <3> DEFINE d == Head(flushing)
               v == IF log[d] = "absent" THEN "PENDING" ELSE log[d]
    <3>1. d \in Entries /\ UpdateStatus(d, v) /\ announced' = announced
      BY <2>4 DEF InsertEntry, TypeOK, PhaseInv
    <3>2. v \in Statuses /\ v \in {"PENDING", log[d]}
      BY <3>1 DEF Statuses, Pending, TypeOK
    <3> HIDE DEF d, v
    <3>3. log'[d] \in {v, log[d]} /\ \A c \in Entries \ {d} : log'[c] = log[c]
      BY <3>1, <3>2, UpdateOne
    <3>4. s \in announced[e] \union {log[e]} \/ s \in Pending
      BY <3>1, <3>2, <3>3 DEF Pending
    <3>5. QED  BY <3>4, <2>1, <2>2
  <2>5. CASE MarkPropagating
    <3> DEFINE d == Min(todo)
    <3>1. d \in Entries /\ UpdateStatus(d, "PROPAGATING") /\ announced' = announced
      BY <2>5, Chosen DEF MarkPropagating
    <3>2. "PROPAGATING" \in Statuses
      BY DEF Statuses, Pending
    <3> HIDE DEF d
    <3>3. log'[d] \in {"PROPAGATING", log[d]} /\ \A c \in Entries \ {d} : log'[c] = log[c]
      BY <3>1, <3>2, UpdateOne
    <3>4. s \in announced[e] \union {log[e]} \/ s \in Pending
      BY <3>1, <3>3 DEF Pending
    <3>5. QED  BY <3>4, <2>1, <2>2
  <2>6. CASE announced' = announced /\ log' = log
    BY <2>1, <2>6
  <2>7. Settle \/ InsertEntry \/ MarkPropagating \/ (announced' = announced /\ log' = log)
    BY DEF Next, WalStep, RecoveryStep, Post, TakeQueue, Poll, SyncToReplica,
         NoteStatus, CheckHealth, ReadMissing, ReplayEntry,
         StatusCheck, ReplicaFails, ReplicaReturns, Restart, vars, Enqueue
  <2>8. QED  BY <2>3, <2>4, <2>5, <2>6, <2>7
<1>5. \A e \in Entries : \A s \in announced'[e] \union {log'[e]} : Deserved(s, Holders(e)')
  BY <1>4
<1>6. QED  BY <1>2, <1>5 DEF VerdictInv, Deserved

-----------------------------------------------------------------------------
(* The inductive invariant.                                                *)

IInv == TypeOK /\ PhaseInv /\ LogInv /\ VerdictInv

LEMMA InitInv == Init => IInv
<1> SUFFICES ASSUME Init PROVE IInv  OBVIOUS
<1>1. TypeOK /\ PhaseInv
  BY EntriesAreNat, ReplicasAssumption, ConfigAssumption
     DEF Init, TypeOK, PhaseInv, Statuses, Pending, Settled, Health
<1>2. LogInv
  BY DEF Init, LogInv, WriteAhead
<1>3. VerdictInv
  BY DEF Init, VerdictInv, Deserved
<1>4. QED  BY <1>1, <1>2, <1>3 DEF IInv

LEMMA InvStep == IInv /\ [Next]_vars => IInv'
BY TypeStep, LogInvStep, VerdictInvStep DEF IInv

LEMMA Invariance == Spec => []IInv
BY InitInv, InvStep, PTL DEF Spec

(* A replica never executes an entry that the log of the primary does not  *)
(* hold, through crashes, failed calls and repeated posts.                 *)
THEOREM LoggedFirst == Spec => []WriteAhead
<1>1. IInv => WriteAhead
  BY DEF IInv, LogInv
<1>2. QED  BY Invariance, <1>1, PTL

(* A status that confirms an entry, in the log or in an event, stands for  *)
(* a quorum of commits.                                                    *)
THEOREM VerdictsTrue == Spec => []VerdictsHold
<1>1. ASSUME IInv  PROVE VerdictsHold
  <2>1. SUFFICES ASSUME NEW e \in Entries,
                        NEW s \in announced[e] \union {log[e]},
                        s \in {"REPLICATED", "PARTIAL"}
                 PROVE  Cardinality(Holders(e)) >= Quorum
    BY DEF VerdictsHold
  <2>2. Deserved(s, Holders(e))
    BY <1>1 DEF IInv, VerdictInv
  <2>3. QED  BY <2>1, <2>2, QuorumType DEF Deserved
<1>2. QED  BY Invariance, <1>1, PTL

(* The status of a settled entry never changes.                            *)
THEOREM SettledForGood == Spec => SettledIsFinal
<1>1. IInv /\ [Next]_vars => [\A e \in Entries : log[e] \in Settled => log'[e] = log[e]]_vars
  BY LogStep DEF IInv
<1>2. QED  BY Invariance, <1>1, PTL DEF Spec, SettledIsFinal

-----------------------------------------------------------------------------
(* The contract.                                                           *)

(* What waits to be stored has been posted.                                *)
AcceptedInv == queue \in Seq(posted) /\ flushing \in Seq(posted)

LEMMA AcceptedStep ==
  ASSUME TypeOK, PhaseInv, AcceptedInv, [Next]_vars
  PROVE  AcceptedInv'
<1>1. CASE TakeQueue
  <2> DEFINE n == Min({MaxBatch, Len(queue)})
  <2>1. queue \in Seq(posted) /\ Len(queue) \in Nat /\ MaxBatch \in Nat
    BY ConfigAssumption DEF AcceptedInv
  <2>2. n \in {MaxBatch, Len(queue)} /\ n <= Len(queue)
    BY <2>1, MinIn
  <2>3. /\ flushing' = SubSeq(queue, 1, n) /\ queue' = SubSeq(queue, n + 1, Len(queue))
        /\ posted' = posted
    BY <1>1 DEF TakeQueue
  <2> HIDE DEF n
  <2>4. n \in 0..Len(queue)
    BY <2>1, <2>2
  <2>5. SubSeq(queue, 1, n) \in Seq(posted) /\ SubSeq(queue, n + 1, Len(queue)) \in Seq(posted)
    BY <2>1, <2>4, SubSeqProperties
  <2>6. QED  BY <2>3, <2>5 DEF AcceptedInv
<1>2. CASE InsertEntry
  BY <1>2 DEF InsertEntry, AcceptedInv, PhaseInv
<1>3. ASSUME NEW e \in Entries, Post(e)
      PROVE  AcceptedInv'
  <2>1. posted \subseteq posted' /\ e \in posted' /\ queue' = Append(queue, e) /\ flushing' = flushing
    BY <1>3 DEF Post, Enqueue
  <2>2. queue \in Seq(posted') /\ flushing \in Seq(posted')
    BY <2>1 DEF AcceptedInv
  <2>3. QED  BY <2>1, <2>2 DEF AcceptedInv
<1>4. CASE posted' = posted /\ queue' = queue /\ flushing' = flushing
  BY <1>4 DEF AcceptedInv
<1>5. CASE queue' = <<>> /\ flushing' = <<>>
  BY <1>5 DEF AcceptedInv
<1>6. QED  BY <1>1, <1>2, <1>3, <1>4, <1>5
           DEF Next, WalStep, RecoveryStep, Poll, MarkPropagating, SyncToReplica, Settle,
               NoteStatus, CheckHealth, ReadMissing, ReplayEntry, StatusCheck, ReplicaFails,
               ReplicaReturns, Restart, vars, entries

(* Every step is one of the contract's, or none to it.                     *)
LEMMA ContractStep ==
  ASSUME IInv, IInv', AcceptedInv, [Next]_vars
  PROVE  [Promise!Next]_(Promise!vars)
<1>0. TypeOK /\ PhaseInv /\ LogInv /\ VerdictInv
  BY DEF IInv
<1>1. ASSUME NEW e \in Entries, Post(e)
      PROVE  Promise!Post(e)
  BY <1>1 DEF Post, Promise!Post, replicas, Enqueue
<1>2. CASE InsertEntry
  <2>1. PICK e \in Entries : e = Head(flushing) /\ e \in posted
    BY <1>0, <1>2 DEF InsertEntry, AcceptedInv, PhaseInv, TypeOK
  <2>2. UNCHANGED <<posted, executed, announced>>
    BY <1>2 DEF InsertEntry, replicas
  <2>3. log' = log \/ (log[e] = "absent" /\ log' = [log EXCEPT ![e] = "PENDING"])
    BY <1>0, <1>2, <2>1 DEF InsertEntry, UpdateStatus, TypeOK
  <2>4. Promise!Store(e) \/ UNCHANGED Promise!vars
    BY <2>1, <2>2, <2>3 DEF Promise!Store, Promise!vars
  <2>5. QED  BY <2>4 DEF Promise!Next
<1>3. CASE MarkPropagating
  <2>1. PICK e \in Entries : e = Min(todo) /\ log[e] \in Pending
    BY <1>0, <1>3, Chosen DEF MarkPropagating, LogInv, PendingEntries, TypeOK
  <2>2. UNCHANGED <<posted, executed, announced>>
    BY <1>3 DEF MarkPropagating, entries, replicas
  <2>3. log' = log \/ log' = [log EXCEPT ![e] = "PROPAGATING"]
    BY <1>3, <2>1 DEF MarkPropagating, UpdateStatus
  <2>4. Promise!Propagate(e) \/ UNCHANGED Promise!vars
    BY <2>1, <2>2, <2>3 DEF Promise!Propagate, Promise!Unsettled, Promise!vars, Pending
  <2>5. QED  BY <2>4 DEF Promise!Next
<1>4. CASE Settle
  <2>1. PICK e \in Entries, s \in Settled : e = Min(todo) /\ s = Verdict(acked[e])
    BY <1>0, <1>4, Chosen, VerdictType DEF Settle
  <2>2. log[e] \in Pending
    BY <1>0, <1>4, <2>1, Chosen DEF Settle, LogInv, PendingEntries
  <2>3. UNCHANGED <<posted, executed>>
    BY <1>4 DEF Settle, entries, replicas
  <2>4. /\ announced' = [announced EXCEPT ![e] = @ \union {s}]
        /\ log' \in {log, [log EXCEPT ![e] = s]}
    BY <1>4, <2>1 DEF Settle, UpdateStatus
  <2>5. Deserved(s, Holders(e))
    BY <1>0, <2>1, VerdictDeserved DEF VerdictInv, Holders
  <2>6. Promise!TrueOf(e, s)
    BY <2>5 DEF Deserved, Holders, Promise!TrueOf
  <2>7. Promise!Conclude(e, s)
    BY <2>2, <2>3, <2>4, <2>6 DEF Promise!Conclude, Promise!Unsettled, Pending
  <2>8. QED  BY <2>7 DEF Promise!Next, Settled
<1>5. CASE UNCHANGED <<posted, log, announced>>
  <2>1. CASE executed' = executed
    BY <1>5, <2>1 DEF Promise!vars
  <2>2. ASSUME NEW e \in Entries, NEW r \in Replicas, log[e] # "absent",
               executed' = [executed EXCEPT ![r] = @ \union {e}]
        PROVE  Promise!Next
    <3>1. Promise!Execute(e, r)
      BY <1>5, <2>2 DEF Promise!Execute
    <3>2. QED  BY <3>1 DEF Promise!Next
  <2>3. QED  BY <1>0, <2>1, <2>2, ExecutedStep
<1>6. (\E e \in Entries : Post(e)) \/ InsertEntry \/ MarkPropagating \/ Settle
      \/ UNCHANGED <<posted, log, announced>>
  BY DEF Next, WalStep, RecoveryStep, TakeQueue, Poll, SyncToReplica, NoteStatus, CheckHealth,
         ReadMissing, ReplayEntry, StatusCheck, ReplicaFails, ReplicaReturns, Restart, vars,
         entries
<1>7. QED  BY <1>1, <1>2, <1>3, <1>4, <1>5, <1>6 DEF Promise!Next

(* The manager implements ReplicationContract: whatever its threads, its   *)
(* crashes and its retries do, every change of the log, of the replicas    *)
(* and of the announcements is one that the contract allows.               *)
THEOREM KeepsContract == Spec => ContractSpec
<1>1. Init => AcceptedInv /\ Promise!Init
  BY DEF Init, AcceptedInv, Promise!Init
<1>2. IInv /\ AcceptedInv /\ [Next]_vars => AcceptedInv'
  BY AcceptedStep DEF IInv
<1>3. IInv /\ IInv' /\ AcceptedInv /\ [Next]_vars => [Promise!Next]_(Promise!vars)
  BY ContractStep
<1>4. QED  BY Invariance, <1>1, <1>2, <1>3, PTL DEF Spec, ContractSpec, Promise!Spec

=============================================================================
