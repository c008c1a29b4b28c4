------------------------- MODULE ConvergenceProofs -------------------------
(***************************************************************************)
(* The replicas agree with the log about every record that one entry       *)
(* concerns, while they stay in reach, through any crashes, failed calls   *)
(* on the primary, lost replies and repeated posts, in any number; and     *)
(* where neither the process nor its primary fails, the log holds all that *)
(* was accepted.  The hypotheses are needed: with two entries on a record  *)
(* a catch-up overwrites the newer with the older, a replica that was away *)
(* never gets what was settled without it, and a crash empties the queue.  *)
(***************************************************************************)
EXTENDS ReplicationProofs

Alone(e) == \A d \in Entries : Workload[d].record = Workload[e].record => d = e

OnePerRecord == \A e \in Entries : Alone(e)

Everywhere(e) == \A r \in Replicas : e \in executed[r]

(* A settled entry is on every replica, whatever its verdict says: so are  *)
(* the entries the WAL thread has gone through in this cycle, and the one  *)
(* it is at is where it has already been sent.                             *)
Delivered ==
  /\ \A r \in Replicas : up[r]
  /\ \A e \in Entries : log[e] \in Settled => Everywhere(e)
  /\ walPc = "sync" =>
       /\ \A e \in batch \ todo : Everywhere(e)
       /\ \A r \in Replicas \ targets : Min(todo) \in executed[r]
  /\ walPc = "settle" => \A e \in todo : Everywhere(e)

(* What an entry makes of the row that only it concerns, and whether a     *)
(* replica has executed it, is all there is to that row.                   *)
RowsHold ==
  \A r \in Replicas, e \in Entries : Alone(e) =>
    table[r][Workload[e].record] =
      IF e \in executed[r] /\ Workload[e].op = "INSERT" THEN e ELSE 0

(* What was accepted waits in the queue or in the hands of the WAL thread, *)
(* or is logged.                                                           *)
In(e, s) == \E i \in 1..Len(s) : s[i] = e
AcceptedKept ==
  \A e \in posted : In(e, queue) \/ In(e, flushing) \/ log[e] # "absent"

-----------------------------------------------------------------------------
(* Delivery.                                                               *)

(* No replica forgets an entry, and a step that does not settle an entry   *)
(* leaves every settled one as it was.                                     *)
LEMMA EverywhereStays ==
  ASSUME IInv, [Next]_vars, NEW e \in Entries
  PROVE  /\ \A r \in Replicas : e \in executed[r] => e \in executed'[r]
         /\ Everywhere(e) => Everywhere(e)'
<1>1. TypeOK /\ PhaseInv /\ LogInv
  BY DEF IInv
<1>2. executed \in [Replicas -> SUBSET Entries]
  BY <1>1 DEF TypeOK
<1>3. \A r \in Replicas : executed[r] \subseteq executed'[r]
  BY <1>1, <1>2, ExecutedStep
<1>4. QED  BY <1>3 DEF Everywhere

LEMMA SyncDelivers ==
  ASSUME IInv, Delivered, SyncToReplica
  PROVE  Delivered'
<1>0. TypeOK /\ PhaseInv /\ [Next]_vars
  BY DEF IInv, Next, WalStep
<1>1. /\ walPc = "sync" /\ batch \subseteq Entries /\ todo \subseteq batch
      /\ executed \in [Replicas -> SUBSET Entries]
  BY <1>0 DEF SyncToReplica, TypeOK
<1>2. PICK e \in Entries, r \in Replicas :
        e = Min(todo) /\ r = Min(targets) /\ e \in todo /\ r \in targets
  BY <1>0, <1>1, Chosen
<1>3. Execute(e, r)
  BY <1>1, <1>2 DEF SyncToReplica, Delivered
<1>4. /\ \/ UNCHANGED <<targets, todo, walPc>>
         \/ NextReplica(e, r)
      /\ UNCHANGED <<log, batch>>
  BY <1>2 DEF SyncToReplica, RetryReplica
<1>5. /\ \A x \in batch \ todo : Everywhere(x)
      /\ \A s \in Replicas \ targets : e \in executed[s]
  BY <1>1, <1>2 DEF Delivered
<1>6. e \in executed'[r] /\ up' = up
  BY <1>1, <1>3 DEF Execute
<1>7. \A s \in Replicas : (s \notin targets \/ s = r) => e \in executed'[s]
  BY <1>0, <1>1, <1>5, <1>6, EverywhereStays
<1>8. \A x \in Entries : Everywhere(x) => Everywhere(x)'
  BY <1>0, EverywhereStays
<1>9. \A x \in batch \ todo : Everywhere(x)'
  BY <1>1, <1>5, <1>8
<1>10. targets = {r} => Everywhere(e)'
  BY <1>7 DEF Everywhere
<1>11. /\ walPc' = "sync" =>
            /\ \A x \in batch' \ todo' : Everywhere(x)'
            /\ \A s \in Replicas \ targets' : Min(todo') \in executed'[s]
       /\ walPc' = "settle" => \A x \in todo' : Everywhere(x)'
  <2>1. CASE UNCHANGED <<targets, todo, walPc>>
    BY <1>1, <1>4, <1>7, <1>9, <1>2, <2>1
  <2>2. CASE NextReplica(e, r) /\ targets # {r}
    <3>1. targets' = targets \ {r} /\ todo' = todo /\ walPc' = "sync"
      BY <2>2 DEF NextReplica
    <3>2. QED  BY <1>4, <1>7, <1>9, <1>2, <3>1
  <2>3. CASE NextReplica(e, r) /\ targets = {r} /\ todo # {e}
    <3>1. targets' = Replicas /\ todo' = todo \ {e} /\ walPc' = "sync"
      BY <2>3 DEF NextReplica
    <3>2. QED  BY <1>4, <1>9, <1>10, <2>3, <3>1
  <2>4. CASE NextReplica(e, r) /\ targets = {r} /\ todo = {e}
    <3>1. todo' = batch /\ walPc' = "settle"
      BY <2>4 DEF NextReplica
    <3>2. QED  BY <1>9, <1>10, <2>4, <3>1
  <2>5. QED  BY <1>4, <2>1, <2>2, <2>3, <2>4
<1>12. QED  BY <1>4, <1>6, <1>8, <1>11 DEF Delivered

(* A step that leaves the WAL thread where it is, and settles nothing.     *)
LEMMA ElsewhereDelivered ==
  ASSUME IInv, Delivered, [Next]_vars,
         up' = up,
         \A e \in Entries : log'[e] \in Settled => log[e] \in Settled,
         \/ UNCHANGED <<walPc, batch, todo, targets>>
         \/ walPc' \notin {"sync", "settle"}
  PROVE  Delivered'
<1>1. /\ \A e \in Entries : Everywhere(e) => Everywhere(e)'
      /\ \A e \in Entries, r \in Replicas : e \in executed[r] => e \in executed'[r]
  BY EverywhereStays
<1>2. batch \subseteq Entries /\ todo \subseteq Entries
  BY DEF IInv, TypeOK
<1>3. walPc = "sync" => Min(todo) \in Entries
  BY Chosen DEF IInv
<1>4. \A e \in Entries : log'[e] \in Settled => Everywhere(e)'
  BY <1>1 DEF Delivered
<1>5. CASE walPc' \notin {"sync", "settle"}
  BY <1>4, <1>5 DEF Delivered
<1>6. CASE UNCHANGED <<walPc, batch, todo, targets>>
  BY <1>1, <1>2, <1>3, <1>4, <1>6 DEF Delivered
<1>7. QED  BY <1>5, <1>6

LEMMA DeliveredStep ==
  ASSUME ~Outages, IInv, Delivered, [Next]_vars
  PROVE  Delivered'
<1>0. TypeOK /\ PhaseInv /\ LogInv
  BY DEF IInv
<1>1. CASE SyncToReplica
  BY <1>1, SyncDelivers
<1>2. CASE InsertEntry \/ MarkPropagating
  <2>1. PICK e \in Entries, s \in Statuses :
          UpdateStatus(e, s) /\ (s \in Pending \/ s = log[e])
    <3>1. CASE InsertEntry
      <4> DEFINE d == Head(flushing)
                 v == IF log[d] = "absent" THEN "PENDING" ELSE log[d]
      <4>1. d \in Entries /\ UpdateStatus(d, v)
        BY <1>0, <3>1 DEF InsertEntry, TypeOK, PhaseInv
      <4>2. v \in Statuses /\ (v \in Pending \/ v = log[d])
        BY <1>0, <4>1 DEF Pending, Statuses, TypeOK
      <4> HIDE DEF d, v
      <4>3. QED  BY <4>1, <4>2
    <3>2. CASE MarkPropagating
      BY <1>0, <3>2, Chosen DEF MarkPropagating, Pending, Statuses
    <3>3. QED  BY <1>2, <3>1, <3>2
  <2>2. log'[e] \in {s, log[e]} /\ \A d \in Entries \ {e} : log'[d] = log[d]
    BY <1>0, <2>1, UpdateOne
  <2>3. \A d \in Entries : log'[d] \in Settled => log[d] \in Settled
    BY <2>1, <2>2 DEF Pending, Settled
  <2>4. up' = up
    BY <1>2 DEF InsertEntry, MarkPropagating, replicas
  <2>5. CASE walPc' \notin {"sync", "settle"}
    BY <2>3, <2>4, <2>5, ElsewhereDelivered
  <2>6. CASE MarkPropagating /\ walPc' = "sync"
    <3>1. batch' = batch /\ todo' = batch /\ targets' = Replicas
      BY <2>6 DEF MarkPropagating
    <3>2. \A d \in Entries : log'[d] \in Settled => Everywhere(d)'
      BY <2>3, EverywhereStays DEF Delivered
    <3>3. QED  BY <2>4, <2>6, <3>1, <3>2 DEF Delivered
  <2>7. QED  BY <1>2, <2>5, <2>6 DEF InsertEntry, MarkPropagating
<1>3. CASE Settle
  <2> DEFINE e == Min(todo)
             v == Verdict(acked[e])
  <2>1. /\ e \in todo /\ e \in Entries /\ UpdateStatus(e, v) /\ v \in Statuses
        /\ walPc = "settle" /\ todo' = todo \ {e} /\ up' = up
        /\ walPc' \in {"flush", "settle"} /\ todo \subseteq Entries
    BY <1>0, <1>3, Chosen, VerdictType DEF Settle, Statuses, replicas, TypeOK
  <2> HIDE DEF e, v
  <2>2. \A d \in todo : Everywhere(d)'
    BY <2>1, EverywhereStays DEF Delivered
  <2>3. \A d \in Entries \ {e} : log'[d] = log[d]
    BY <1>0, <2>1, UpdateOne
  <2>4. \A d \in Entries : log'[d] \in Settled => Everywhere(d)'
    BY <2>1, <2>2, <2>3, EverywhereStays DEF Delivered
  <2>5. QED  BY <2>1, <2>2, <2>4 DEF Delivered
<1>4. CASE /\ log' = log /\ up' = up
           /\ \/ UNCHANGED <<walPc, batch, todo, targets>>
              \/ walPc' \notin {"sync", "settle"}
  BY <1>4, ElsewhereDelivered
<1>5. ASSUME NEW r \in Replicas, ReplicaFails(r) \/ ReplicaReturns(r)
      PROVE  FALSE
  BY <1>5 DEF ReplicaFails, ReplicaReturns, Delivered
<1>6. TakeQueue => walPc' \notin {"sync", "settle"}
  BY DEF TakeQueue
<1>7. Poll => walPc' \notin {"sync", "settle"}
  BY DEF Poll
<1>8. QED
  BY <1>1, <1>2, <1>3, <1>4, <1>5, <1>6, <1>7
     DEF Next, WalStep, RecoveryStep, Post, TakeQueue, Poll, NoteStatus, CheckHealth,
         ReadMissing, ReplayEntry, Execute, StatusCheck, Restart, vars, wal, replicas, Enqueue

-----------------------------------------------------------------------------
(* Rows.                                                                   *)

LEMMA OpOf ==
  ASSUME NEW e \in Entries
  PROVE  Workload[e].op \in {"INSERT", "UPDATE", "DELETE"} /\ Workload[e].record \in Records
<1> DEFINE Ops == [op : {"INSERT", "UPDATE", "DELETE"}, record : STRING]
<1>1. Workload[e] \in Ops
  <2>1. Workload \in Seq(Ops)  BY WorkloadAssumption
  <2> HIDE DEF Ops
  <2>2. e \in 1..Len(Workload)  BY <2>1 DEF Entries
  <2>3. QED  BY <2>1, <2>2, ElementOfSeq
<1>2. QED  BY <1>1 DEF Records

LEMMA ExecuteKeepsRows ==
  ASSUME TypeOK, RowsHold,
         NEW d \in Entries, NEW s \in Replicas, Execute(d, s)
  PROVE  RowsHold'
<1> SUFFICES ASSUME NEW r \in Replicas, NEW e \in Entries, Alone(e)
             PROVE  table'[r][Workload[e].record] =
                      IF e \in executed'[r] /\ Workload[e].op = "INSERT" THEN e ELSE 0
  BY DEF RowsHold, Alone
<1>1. /\ table[r][Workload[e].record] =
           IF e \in executed[r] /\ Workload[e].op = "INSERT" THEN e ELSE 0
      /\ table \in [Replicas -> [Records -> Entries \union {0}]]
      /\ executed \in [Replicas -> SUBSET Entries]
  BY DEF RowsHold, TypeOK
<1>2. /\ Workload[e].record \in Records /\ Workload[d].record \in Records
      /\ Workload[e].op \in {"INSERT", "UPDATE", "DELETE"}
      /\ 0 \notin Entries
  BY OpOf, EntriesAreNat
<1>3. /\ table' = [table EXCEPT ![s][Workload[d].record] = RowAfter(d, @)]
      /\ executed' = [executed EXCEPT ![s] = @ \union {d}]
  BY DEF Execute
<1>4. CASE r = s /\ e = d
  <2>1. table'[r][Workload[e].record] = RowAfter(e, table[r][Workload[e].record])
    BY <1>1, <1>2, <1>3, <1>4
  <2>2. e \in executed'[r]
    BY <1>1, <1>3, <1>4
  <2>3. RowAfter(e, table[r][Workload[e].record]) =
          IF Workload[e].op = "INSERT" THEN e ELSE 0
    BY <1>1, <1>2 DEF RowAfter
  <2>4. QED  BY <2>1, <2>2, <2>3
<1>5. CASE r # s \/ e # d
  <2>1. table'[r][Workload[e].record] = table[r][Workload[e].record]
    BY <1>1, <1>2, <1>3, <1>5 DEF Alone
  <2>2. e \in executed'[r] <=> e \in executed[r]
    BY <1>1, <1>3, <1>5
  <2>3. QED  BY <1>1, <2>1, <2>2
<1>6. QED  BY <1>4, <1>5

LEMMA RowsStep ==
  ASSUME IInv, RowsHold, [Next]_vars
  PROVE  RowsHold'
<1>0. TypeOK /\ PhaseInv
  BY DEF IInv
<1>1. CASE UNCHANGED <<table, executed>>
  BY <1>1 DEF RowsHold, Alone
<1>2. CASE SyncToReplica
  <2>1. PICK e \in Entries, r \in Replicas : Execute(e, r) \/ UNCHANGED replicas
    BY <1>0, <1>2, Chosen DEF SyncToReplica
  <2>2. QED  BY <1>0, <1>1, <2>1, ExecuteKeepsRows DEF replicas
<1>3. CASE ReplayEntry
  <2>1. PICK e \in Entries, r \in Replicas : Execute(e, r) \/ UNCHANGED replicas
    BY <1>0, <1>3, Chosen DEF ReplayEntry
  <2>2. QED  BY <1>0, <1>1, <2>1, ExecuteKeepsRows DEF replicas
<1>4. QED
  BY <1>1, <1>2, <1>3
     DEF Next, WalStep, RecoveryStep, Post, TakeQueue, InsertEntry, Poll, MarkPropagating,
         Settle, NoteStatus, CheckHealth, ReadMissing, StatusCheck, ReplicaFails,
         ReplicaReturns, Restart, vars, replicas, Enqueue

-----------------------------------------------------------------------------
(* What the log says of a record.                                          *)

(* The table that the log describes, computed entry by entry, in the place *)
(* of one record: f is the function Expected builds.                       *)
Built(k, f) ==
  [n \in Entries \union {0} |->
     IF n = 0 THEN 0
     ELSE IF Workload[n].record = k /\ log[n] # "absent"
            THEN RowAfter(n, f[n - 1]) ELSE f[n - 1]]

(* The row before and after the one entry that concerns it.                *)
RowAt(e, n) ==
  IF n >= e /\ log[e] # "absent" /\ Workload[e].op = "INSERT" THEN e ELSE 0

LEMMA BuiltOnce ==
  ASSUME NEW e \in Entries, Alone(e), NEW n \in Entries \union {0},
         NEW f, n # 0 => f[n - 1] = RowAt(e, n - 1)
  PROVE  Built(Workload[e].record, f)[n] = RowAt(e, n)
<1>1. /\ e \in Nat /\ n \in Nat /\ e # 0
      /\ Workload[e].op \in {"INSERT", "UPDATE", "DELETE"}
  BY EntriesAreNat, OpOf
<1>2. CASE n = 0
  BY <1>1, <1>2 DEF Built, RowAt
<1>3. CASE n = e
  <2>1. f[n - 1] = 0
    BY <1>1, <1>3 DEF RowAt
  <2>2. RowAfter(e, 0) = IF Workload[e].op = "INSERT" THEN e ELSE 0
    BY <1>1 DEF RowAfter
  <2>3. Built(Workload[e].record, f)[n] = IF log[e] # "absent" THEN RowAfter(e, 0) ELSE 0
    BY <1>1, <1>3, <2>1 DEF Built
  <2>4. RowAt(e, n) = IF log[e] # "absent" /\ Workload[e].op = "INSERT" THEN e ELSE 0
    BY <1>1, <1>3 DEF RowAt
  <2>5. QED  BY <2>2, <2>3, <2>4
<1>4. CASE n # 0 /\ n # e
  <2>1. n \in Entries /\ Workload[n].record # Workload[e].record
    BY <1>4 DEF Alone
  <2>2. Built(Workload[e].record, f)[n] = f[n - 1]
    BY <1>4, <2>1 DEF Built
  <2>3. RowAt(e, n - 1) = RowAt(e, n)
    BY <1>1, <1>4 DEF RowAt
  <2>4. QED  BY <1>4, <2>2, <2>3
<1>5. QED  BY <1>2, <1>3, <1>4

(* The recursion has a solution, and only one: a number at which another   *)
(* differed from RowAt would have a least one before it.                   *)
LEMMA ExpectedRow ==
  ASSUME NEW e \in Entries, Alone(e)
  PROVE  Expected(Workload[e].record) = RowAt(e, Len(Workload))
<1> DEFINE k == Workload[e].record
           D == Entries \union {0}
           g == [n \in D |-> RowAt(e, n)]
           row == CHOOSE f : f = Built(k, f)
<1>0. Expected(k) = row[Len(Workload)]
  BY DEF Expected, Built
<1>1. /\ Entries = 1..Len(Workload) /\ Len(Workload) \in Nat
      /\ \A n \in D : n \in Nat /\ (n # 0 => n - 1 \in D)
  <2>1. Workload \in Seq([op : {"INSERT", "UPDATE", "DELETE"}, record : STRING])
    BY WorkloadAssumption
  <2>2. DOMAIN Workload = 1..Len(Workload) /\ Len(Workload) \in Nat
    BY <2>1
  <2>3. QED  BY <2>2 DEF Entries
<1>2. \A n \in D : Built(k, g)[n] = RowAt(e, n)
  <2>1. ASSUME NEW n \in D  PROVE Built(k, g)[n] = RowAt(e, n)
    <3>1. n # 0 => g[n - 1] = RowAt(e, n - 1)
      BY <1>1
    <3> HIDE DEF g
    <3>2. QED  BY <3>1, BuiltOnce
  <2>2. QED  BY <2>1
<1>3. g = Built(k, g)
  BY <1>2 DEF Built
<1>4. row = Built(k, row)
  <2> HIDE DEF g, k
  <2>1. QED  BY <1>3, Zenon
<1> HIDE DEF row, g, k
<1>5. \A n \in D : row[n] = RowAt(e, n)
  <2> DEFINE S == {n \in D : row[n] # RowAt(e, n)}
  <2>1. SUFFICES ASSUME S # {}  PROVE FALSE
    OBVIOUS
  <2>2. S \in SUBSET Nat
    BY <1>1
  <2>3. PICK m \in S : \A x \in S : m <= x
    BY <2>1, <2>2, MinIn
  <2>4. m # 0 => row[m - 1] = RowAt(e, m - 1)
    BY <1>1, <2>3
  <2>5. Built(k, row)[m] = RowAt(e, m)
    BY <2>3, <2>4, BuiltOnce DEF k
  <2>6. QED  BY <1>4, <2>3, <2>5
<1>6. QED  BY <1>0, <1>1, <1>5 DEF k

-----------------------------------------------------------------------------
(* Nothing accepted is lost.                                               *)

(* A batch and what remains of the queue hold what the queue held.         *)
LEMMA SplitKeeps ==
  ASSUME NEW s \in Seq(Entries), NEW n \in 0..Len(s), NEW e, In(e, s)
  PROVE  In(e, SubSeq(s, 1, n)) \/ In(e, SubSeq(s, n + 1, Len(s)))
<1>1. PICK i \in 1..Len(s) : s[i] = e
  BY DEF In
<1>2. Len(s) \in Nat
  OBVIOUS
<1>3. CASE i <= n
  <2>1. Len(SubSeq(s, 1, n)) = n /\ SubSeq(s, 1, n)[i] = s[i]
    BY <1>1, <1>2, <1>3
  <2>2. QED  BY <1>1, <1>2, <1>3, <2>1 DEF In
<1>4. CASE i > n
  <2>1. /\ Len(SubSeq(s, n + 1, Len(s))) = Len(s) - n
        /\ SubSeq(s, n + 1, Len(s))[i - n] = s[i]
        /\ i - n \in 1..Len(s) - n
    BY <1>1, <1>2, <1>4
  <2>2. QED  BY <1>1, <2>1 DEF In
<1>5. QED  BY <1>1, <1>2, <1>3, <1>4

LEMMA AppendKeeps ==
  ASSUME NEW s \in Seq(Entries), NEW d \in Entries, NEW e
  PROVE  In(e, s) => In(e, Append(s, d))
<1>1. SUFFICES ASSUME NEW i \in 1..Len(s), s[i] = e  PROVE In(e, Append(s, d))
  BY DEF In
<1>2. i \in 1..Len(Append(s, d)) /\ Append(s, d)[i] = e
  BY <1>1
<1>3. QED  BY <1>2 DEF In

LEMMA AppendHolds ==
  ASSUME NEW s \in Seq(Entries), NEW d \in Entries
  PROVE  In(d, Append(s, d))
<1>1. Len(s) + 1 \in 1..Len(Append(s, d)) /\ Append(s, d)[Len(s) + 1] = d
  OBVIOUS
<1>2. QED  BY <1>1 DEF In

LEMMA TailKeeps ==
  ASSUME NEW s \in Seq(Entries), s # <<>>, NEW e, In(e, s)
  PROVE  e = Head(s) \/ In(e, Tail(s))
<1>1. PICK i \in 1..Len(s) : s[i] = e
  BY DEF In
<1>2. CASE i = 1
  BY <1>1, <1>2
<1>3. CASE i # 1
  <2>1. i - 1 \in 1..Len(Tail(s)) /\ Tail(s)[i - 1] = e
    BY <1>1, <1>3
  <2>2. QED  BY <2>1 DEF In
<1>4. QED  BY <1>2, <1>3

(* The list taken from the queue is worked off before the next is taken.   *)
Emptied == walPc # "insert" => flushing = <<>>

LEMMA EmptiedStep ==
  ASSUME IInv, Emptied, [Next]_vars
  PROVE  Emptied'
<1>1. CASE TakeQueue
  <2>1. CASE queue = <<>>
    <3>1. Min({MaxBatch, Len(queue)}) = 0
      <4>1. 0 \in {MaxBatch, Len(queue)} /\ {MaxBatch, Len(queue)} \subseteq Nat
        BY <2>1, ConfigAssumption
      <4>2. Min({MaxBatch, Len(queue)}) <= 0 /\ Min({MaxBatch, Len(queue)}) \in Nat
        BY <4>1, MinIn
      <4>3. QED  BY <4>2
    <3>2. flushing' = <<>>
      BY <1>1, <2>1, <3>1 DEF TakeQueue
    <3>3. QED  BY <3>2 DEF Emptied
  <2>2. CASE queue # <<>>
    BY <1>1, <2>2 DEF TakeQueue, Emptied
  <2>3. QED  BY <2>1, <2>2
<1>2. CASE InsertEntry
  BY <1>2 DEF InsertEntry, Emptied
<1>3. CASE flushing' = flushing /\ (walPc' = walPc \/ walPc # "insert")
  BY <1>3 DEF Emptied
<1>4. CASE flushing' = <<>>
  BY <1>4 DEF Emptied
<1>5. QED
  BY <1>1, <1>2, <1>3, <1>4
     DEF Next, WalStep, RecoveryStep, Post, Poll, MarkPropagating, SyncToReplica, Settle,
         NoteStatus, CheckHealth, ReadMissing, ReplayEntry, StatusCheck, ReplicaFails,
         ReplicaReturns, Restart, vars, entries, wal, Enqueue

LEMMA KeptStep ==
  ASSUME IInv, Emptied, AcceptedKept, [Next]_vars,
         "crash" \notin FaultKinds, "primary" \notin FaultKinds
  PROVE  AcceptedKept'
<1>0. /\ TypeOK /\ PhaseInv /\ LogInv
      /\ queue \in Seq(Entries) /\ flushing \in Seq(Entries) /\ posted \subseteq Entries
  BY DEF IInv, TypeOK
<1>1. \A e \in Entries : log[e] # "absent" => log'[e] # "absent"
  BY <1>0, LogStep
<1>2. ASSUME NEW d \in Entries, Post(d)  PROVE AcceptedKept'
  <2>1. posted' = posted \union {d} /\ queue' = Append(queue, d) /\ flushing' = flushing
    BY <1>2 DEF Post, Enqueue
  <2>2. ASSUME NEW e \in posted'
        PROVE  In(e, queue') \/ In(e, flushing') \/ log'[e] # "absent"
    <3>1. CASE e = d
      BY <1>0, <2>1, <3>1, AppendHolds
    <3>2. CASE e \in posted
      BY <1>0, <1>1, <2>1, <3>2, AppendKeeps DEF AcceptedKept
    <3>3. QED  BY <2>1, <2>2, <3>1, <3>2
  <2>3. QED  BY <2>2 DEF AcceptedKept, In
<1>3. CASE TakeQueue
  <2> DEFINE n == Min({MaxBatch, Len(queue)})
  <2>1. /\ walPc = "flush" /\ posted' = posted /\ log' = log
        /\ flushing' = SubSeq(queue, 1, n) /\ queue' = SubSeq(queue, n + 1, Len(queue))
    BY <1>3 DEF TakeQueue
  <2>2. n \in 0..Len(queue)
    <3>1. Len(queue) \in Nat /\ MaxBatch \in Nat
      BY <1>0, ConfigAssumption
    <3>2. n \in {MaxBatch, Len(queue)} /\ n <= Len(queue)
      BY <3>1, MinIn
    <3>3. QED  BY <3>1, <3>2
  <2> HIDE DEF n
  <2>3. flushing = <<>>
    BY <2>1 DEF Emptied
  <2>4. \A e \in posted : ~In(e, flushing)
    BY <2>3 DEF In
  <2>5. \A e \in posted : In(e, queue) => In(e, queue') \/ In(e, flushing')
    BY <1>0, <2>1, <2>2, SplitKeeps
  <2>6. QED  BY <2>1, <2>4, <2>5 DEF AcceptedKept, In
<1>4. CASE InsertEntry
  <2> DEFINE d == Head(flushing)
             s == IF log[d] = "absent" THEN "PENDING" ELSE log[d]
  <2>1. /\ flushing # <<>> /\ d \in Entries /\ UpdateStatus(d, s)
        /\ posted' = posted /\ queue' = queue /\ flushing' = Tail(flushing)
    BY <1>0, <1>4 DEF InsertEntry, PhaseInv
  <2>2. log'[d] # "absent"
    BY <1>0, <2>1 DEF UpdateStatus, Fault, TypeOK
  <2>3. \A e \in posted : In(e, flushing) => e = d \/ In(e, flushing')
    BY <1>0, <2>1, TailKeeps
  <2> HIDE DEF d
  <2>4. QED  BY <1>0, <1>1, <2>1, <2>2, <2>3 DEF AcceptedKept, In
<1>5. CASE UNCHANGED entries
  BY <1>0, <1>1, <1>5 DEF AcceptedKept, In, entries
<1>6. QED
  BY <1>2, <1>3, <1>4, <1>5
     DEF Next, WalStep, RecoveryStep, Poll, MarkPropagating, SyncToReplica, Settle,
         NoteStatus, CheckHealth, ReadMissing, ReplayEntry, StatusCheck, ReplicaFails,
         ReplicaReturns, Restart, Fault, vars

-----------------------------------------------------------------------------
(* The theorems.                                                           *)

LEMMA DeliveredInit == Init => Delivered /\ RowsHold
BY OpOf DEF Init, Delivered, RowsHold, Settled

(* An entry that is in the log of a system at rest is on every replica.    *)
LEMMA RestIsSettled ==
  ASSUME IInv, Delivered, AtRest, NEW e \in Entries, log[e] # "absent"
  PROVE  log[e] \in Settled /\ Everywhere(e)
<1>1. log[e] \in Statuses /\ log[e] \notin Pending
  BY DEF IInv, TypeOK, AtRest, PendingEntries
<1>2. QED  BY <1>1 DEF Statuses, Delivered

(* When nothing is left to do, the row of a record that one entry concerns *)
(* is on each replica what the log says of it, however the threads         *)
(* interleave and whatever fails, and whatever becomes of other records.   *)
THEOREM SingleWritesAgree ==
  ASSUME ~Outages
  PROVE  Spec => [](AtRest => \A r \in Replicas, e \in Entries : Alone(e) =>
                     table[r][Workload[e].record] = Expected(Workload[e].record))
<1> DEFINE Agree == AtRest => \A r \in Replicas, e \in Entries : Alone(e) =>
                      table[r][Workload[e].record] = Expected(Workload[e].record)
<1>1. IInv /\ Delivered /\ [Next]_vars => Delivered'
  BY DeliveredStep
<1>2. IInv /\ RowsHold /\ [Next]_vars => RowsHold'
  BY RowsStep
<1>3. IInv /\ Delivered /\ RowsHold => Agree
  <2> SUFFICES ASSUME IInv, Delivered, RowsHold, AtRest,
                      NEW r \in Replicas, NEW e \in Entries, Alone(e)
               PROVE  table[r][Workload[e].record] = Expected(Workload[e].record)
    OBVIOUS
  <2>1. log[e] # "absent" <=> e \in executed[r]
    BY RestIsSettled DEF IInv, LogInv, WriteAhead, Everywhere
  <2>2. Expected(Workload[e].record) = RowAt(e, Len(Workload))
    BY ExpectedRow
  <2>3. Len(Workload) >= e
    <3>1. Workload \in Seq([op : {"INSERT", "UPDATE", "DELETE"}, record : STRING])
      BY WorkloadAssumption
    <3>2. DOMAIN Workload = 1..Len(Workload) /\ Len(Workload) \in Nat
      BY <3>1
    <3>3. QED  BY <3>2 DEF Entries
  <2>4. QED  BY <2>1, <2>2, <2>3 DEF RowsHold, RowAt
<1>4. QED  BY Invariance, DeliveredInit, <1>1, <1>2, <1>3, PTL DEF Spec

(* So the replicas agree with the log, and with one another, where records *)
(* are written once.                                                       *)
THEOREM ReplicasAgree ==
  ASSUME OnePerRecord, ~Outages
  PROVE  Spec => []ReplicasConverge
<1> DEFINE Agree == AtRest => \A r \in Replicas, e \in Entries : Alone(e) =>
                      table[r][Workload[e].record] = Expected(Workload[e].record)
<1>1. Spec => []Agree
  BY SingleWritesAgree
<1>2. Agree => ReplicasConverge
  <2> SUFFICES ASSUME Agree, AtRest, NEW r \in Replicas, NEW k \in Records
               PROVE  table[r][k] = Expected(k)
    BY DEF ReplicasConverge
  <2>1. PICK e \in Entries : k = Workload[e].record
    BY DEF Records
  <2>2. QED  BY <2>1 DEF OnePerRecord
<1>3. QED  BY <1>1, <1>2, PTL

(* When nothing is left to do, all that was accepted is settled and on     *)
(* every replica, if no replica goes out of reach, the process does not    *)
(* crash and its calls on the primary succeed: whatever is posted when,    *)
(* repeated, or answered in vain.                                          *)
THEOREM AcceptedIsEverywhere ==
  ASSUME ~Outages, "crash" \notin FaultKinds, "primary" \notin FaultKinds
  PROVE  Spec => []AllArrived
<1>1. Init => AcceptedKept /\ Emptied
  BY DEF Init, AcceptedKept, Emptied
<1>2. IInv /\ Emptied /\ [Next]_vars => Emptied'
  BY EmptiedStep
<1>3. IInv /\ Emptied /\ AcceptedKept /\ [Next]_vars => AcceptedKept'
  BY KeptStep
<1>4. IInv /\ Delivered /\ [Next]_vars => Delivered'
  BY DeliveredStep
<1>5. IInv /\ Delivered /\ AcceptedKept => AllArrived
  <2> SUFFICES ASSUME IInv, Delivered, AcceptedKept, AtRest, NEW e \in posted
               PROVE  log[e] \in Settled /\ Holders(e) = Replicas
    BY DEF AllArrived
  <2>1. e \in Entries /\ queue = <<>> /\ flushing = <<>>
    BY DEF IInv, TypeOK, AtRest
  <2>2. log[e] # "absent"
    BY <2>1 DEF AcceptedKept, In
  <2>3. QED  BY <2>1, <2>2, RestIsSettled DEF Holders, Everywhere
<1>6. QED  BY Invariance, DeliveredInit, <1>1, <1>2, <1>3, <1>4, <1>5, PTL DEF Spec
=============================================================================
