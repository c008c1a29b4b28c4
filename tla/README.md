# Verification of the streaming platform

TLA+ specifications of the distributed streaming platform, their TLC
configurations, and proofs checked by TLAPS. Paths are relative to the
repository (`src/...`).

| component | specification | instances | proofs |
|---|---|---|---|
| circuit breaker | `CircuitBreaker.tla`, abstract: `CircuitContract.tla` | `MCCircuitBreaker.tla`, `Circuit*.cfg` | `CircuitProofs.tla` |
| replication manager | `Replication.tla`, abstract: `ReplicationContract.tla` | `MCReplication.tla`, `Replication*.cfg` | `ReplicationProofs.tla`, `ConvergenceProofs.tla` |
| event monitor (nodes) | `EventMonitor.tla`, abstract: `DetectorContract.tla` | `MCEventMonitor.tla`, `Monitor*.cfg` | `MonitorProofs.tla` |
| load balancer | `LoadBalancer.tla`, abstract: `Forwarding.tla`, over `Traffic.tla` | `MCLoadBalancer.tla`, `Balancer*.cfg` | `BalancerProofs.tla` |
| services behind it | `Gateway.tla`, composing `Forwarding`, `Payments`, `Users` and `Recommendations`, over `ServiceRuns.tla` | `MCGateway.tla`, `Gateway*.cfg` | `GatewayProofs.tla` |

To check one: `tlc -config CircuitRecovery.cfg MCCircuitBreaker`, `tlapm CircuitProofs.tla`.

## 1. The system

Five machines (`src/README.md`): the React frontend; the central one, with the
load balancer, the event monitor and Redis; and one for each of the Spring
services *usuarios*, *recomendaciones* and *pagos*, each with a MariaDB primary,
three replicas and a replication manager beside it. A circuit breaker service
exists too; `docker-compose.yaml` does not start it.

How they interact:

- The frontend sends requests to the load balancer, which forwards them to a
  service over HTTP, with timeouts and retries.
- A service writes to its own primary and is to post the change, within the same
  transaction, to its replication manager (`ReplicationLogWriter.java`), which
  logs it in the primary and executes it on the replicas. As the code stands
  nothing is posted: see section 5.
- Every component posts heartbeats to the event monitor and publishes events on
  Redis channels, to which the event monitor subscribes; the monitor pushes what
  it knows to the frontend over a WebSocket.
- The circuit breaker is asked, and told outcomes, over HTTP, and publishes its
  transitions on Redis.

### Inventory

**Circuit breaker** (`infrastructure/circuit-breaker`). State: for each guarded
service its state, consecutive failures and successes, probe slots and the time
it opened, in memory, under one lock. Operations: check, report success, report
failure, and a monitor thread that polls OPEN circuits. Hard: decisions
are taken on unlocked reads, and acted on under the lock without a second look;
events are published after the lock is released; nothing survives a restart.
Correct when an open circuit lets nobody through before its timeout, a
recovering service is probed by few, the documented transitions are the only
ones, and the circuit closes again after an outage.

**Replication manager** (`infrastructure/replication`). State: the queue of
received entries and the verdicts of the current cycle in memory, the log in a
table of the primary, a copy of the data in each replica, the health it believes
each replica has. Operations: receive an entry, the WAL thread (flush, poll, mark,
propagate with retries, settle), the recovery thread (check, catch up), the
status endpoint. Hard: two threads and the request handlers act on the same log
and replicas without a common lock; calls fail at any point; replicas come and
go; requests are repeated. Correct when nothing is executed that is not logged,
verdicts are true and final, accepted entries arrive, and the replicas agree with
the log.

**Event monitor, nodes** (`infrastructure/event-monitor`). State: the heartbeat
table in memory, under a lock, and the registry in Redis. Operations: heartbeat
(HTTP or channel), register, remove, the cycle of the monitor thread, the callback
that writes a status. Hard: two copies of one fact, written under different
rules; a clock read before the lock is taken; writes that Redis loses; restarts
that empty one copy only. Correct when alarms are true, silence is noticed, and
the registry follows the table.

**Event monitor, events, circuits and WebSocket.** State: a list of events, cut at
`max_events`; the last known state of each circuit and service. Operations: publish, list,
filter, push. Hard: an event is stored when it is posted and again when it comes
back from Redis; a listing sorts the shared list in place, newest first, while
the truncation keeps the end of the list. Correct when recent events are kept,
once each, in order.

**Load balancer** (`infrastructure/load-balancer`). State: each instance's status and
consecutive failures; counters. Operations: forward with retries, health checks, three
strategies. Hard: requests and health checks write one failure count; an instance is
chosen in two reads without a common lock and kept for all attempts; a request
that timed out is sent again, whatever it does. Correct when an unusable instance gets
no new request, a request that saw only usable instances is not refused, every request is
answered, and an outage and a recovery are both noticed.

**Services** *usuarios*, *pagos*, *recomendaciones*. State: their tables.
Operations: register and rename a user, create and process a payment, list
recommendations, which makes them if there are none. Hard: the balancer may have
several runs of one request working at once, and answers with what one of them says; a name is
looked up and then inserted; a payment is read, decided and written back with no lock; a list
is made film by film in transactions of their own. Correct when what a client is told is in the
tables, a name has one owner, and repeated runs make no more than they must.

**Heartbeat senders**, in each component: a loop that posts a heartbeat and
ignores failures. **Frontend**: displays; its simulation page changes nothing
outside the browser. **Configuration, deployment, scripts**: start-up only.

The hazards of each component, at their lines, are listed in `PROJECT.json`
(`hazards`) with the properties that cover them.

## 2. What is modelled, and how it corresponds to the code

### CircuitBreaker

One circuit: circuits share the lock and nothing else. A *thread* is a caller of
the API (a `Client`) or the monitor thread; `pc[t]` is where it stands. A step is
one block under `self._lock`, or one unlocked read on which the code decides, so
that any other thread may run between a decision and its effect.

| variable | code |
|---|---|
| `state`, `consecutiveFailures`, `consecutiveSuccesses`, `halfOpenRequests` | the fields of `models.CircuitBreaker` |
| `timeoutExpired` | `time.time() - opened_at >= open_timeout_seconds`, made true by `TimeoutExpires` |
| `seen`, `notified` | the event being published, and the one last delivered |
| `overtaken` | history: the threads whose event a later transition has overtaken |
| `serviceUp` | the guarded service; reports are truthful about it |
| `probes`, `winners`, `shielded` | history, for the properties |

`Check` ... `TakeSlot` are `is_request_allowed`; `ReportFailure`/`CountFailure`/
`EvaluateOpen`/`ReadFailuresReached` are `record_failure`; `ReportSuccess` ...
`ReadFailedMeanwhile` are `record_success`; then the three transitions, the event
(`EmitStateChange`, `OnStateChange`), the monitor's `CheckOpenCircuits` and `Restart`.
Left out: the totals, the sliding window, the stored event history and the rejected
counts, which no decision reads.

`CircuitContract` is the state machine the head of `circuit.py` and `models.py`
describe, each transition one atomic step under its condition. `CircuitBreaker`
refines it when calls do not overlap (`Serial`); when they overlap it does not, and
what remains true then is what `OpenShields` and `ProbeBurstBound` say. Of the events,
which subscribers hear with every overlap, loss and restart there may be, `ViewKept` says
in which ways alone they come to hold a state that is not the circuit's.

### Replication

`ReplicationContract` says what becomes of an entry, with no thread, queue or batch: it is
posted, stored once, executed on replicas in any order, and concluded with a status that is true.
`Replication` implements it in every configuration, faults included.

One manager, its primary and its replicas. `Workload` is the sequence of entries
the services post, in the order of `created_at`; an entry is an operation on a
record. A row of a replica holds the entry that last wrote it, or 0 if absent:
two tables are equal when their rows come from the same entries.

| variable | code |
|---|---|
| `queue`, `flushing` | `_incoming_queue`, and the list `_flush_incoming_queue` took from it |
| `log` | the `status` column of `replication_log` |
| `walPc`, `batch`, `todo`, `targets`, `tries`, `acked` | where the WAL thread stands in `_poll_primary_db`, `sync_batch`, `_sync_to_replica`, and the results so far |
| `announced` | the events published with a verdict |
| `up`, `table`, `executed` | the replicas; `executed` is history |
| `status` | `ReplicaNodeState.status` |
| `recPc`, `toCheck`, `oldStatus`, `replay` | where the recovery thread stands in its loop and in `_catch_up` |

A step is one database call or one block under the queue lock. The order of
entries within a phase and of replicas within an entry is the code's. Faults, each
counted against `MaxFaults`: `crash` (the process starts again with an empty
queue), `primary` (a call on the primary fails; the callers ignore it), `reply` (a
replica commits and the answer is lost, so the attempt is repeated), `repeat` (an
HTTP client posts an entry twice).

Abstractions: the threads share one `pymysql` connection to the primary with no
lock, and what that can do is taken to be that a call fails. `is_pending_recovery` and the
counters are read by no decision and left out, and so are ties of `created_at`, and
the loss of the primary connection, which only `/health` reopens. There is at
least one replica.

### EventMonitor

The nodes the monitor knows of. A step is one block under the lock or one call on
Redis. Time is counted in ticks: `age` is the time since a node's last heartbeat,
and `lag` how long ago the running cycle read its clock, so `age - lag` is what
the cycle computes as elapsed (it may be negative: a heartbeat that arrived after
the clock was read).

| variable | code |
|---|---|
| `health`, `missed`, `age` | `_nodes[n]`: `status`, `missed_heartbeats`, `last_heartbeat` |
| `registry` | the Redis hash; it is what `GET /nodes`, the panel and `GET /status` read |
| `checkPc`, `todo`, `lag` | where `_check_nodes` stands, the nodes left, its clock |
| `told`, `read` | the node `update_node_status` is writing, and what it read |
| `request` | a registration or removal between its two steps |
| `up` | the nodes whose heartbeat sender runs |
| `unsaved`, `admin`, `faults` | history and environment |

`DetectorContract` is the monitor without lock, clock, cycle, request or Redis: a node is heard, falls
silent, gets a strike each time it is found silent, and the last strike makes it inactive; the list of nodes
comes to show one active by a registration, or for one it shows as inactive while it is held to be
active (`ShowUp`), inactive only while it is held to be so, and nothing of one that was never registered.
`ShowUp` is what `src/README.md:529` and the restoring branch of `_check_nodes` intend; the contract
permits it, and that the code as it stands never takes it is the finding of `monitor_restored`. `EventMonitor` implements it (`DetectorSpec`), with
`missed` for the strikes, `age[n] > Timeout` for the silence and `registry` for the list: a cycle that
judges by an old clock, an announcement that is written twice, a write that Redis loses and a
removal in the middle are steps of it or stutters.

Requests are served one at a time: the server is eventlet's, and nothing is monkey
patched to yield in the middle. The monitor thread is a thread of its own, and the
channel listener runs at any moment the lock is free. Nothing in the repository publishes
on the heartbeat channel; the listener is modelled as it is, its stamp being the sender's.
`remove_node` and `cleanup_stale_nodes` are never called and not modelled; nor is a
clock that steps back, nor a Redis that is away when the process starts.

### LoadBalancer and Forwarding

One service with one instance: the configuration gives each service one, services share
only the lock of the registry, and with one instance the three strategies choose alike. A request's
thread works in steps that are one read or write of the registry, or one HTTP exchange.

| variable | code |
|---|---|
| `status`, `failures` | `ServiceInstance.status`, `consecutive_failures` (no comparison tells counts above `Threshold + 1` apart, and it stops there) |
| `probe` | what the health check in hand saw, before it has the lock |
| `pc`, `tries`, `answer` | where `forward` stands, its `attempt`, and what the client got |
| `view` | history: the statuses while the request was choosing |
| `service` | `up`; `ill`, when it runs and its health check fails; or `down` |

`SelectInstance` and `SelectDegraded` are the two reads of a choice; `Send`, `Answered` and
`AttemptFails` the loop of `forward`; `Probe` and `UpdateHealth` the health check, before
and under the lock. An answer, and a time-out, may come at any time after a request was sent,
whether or not the service still runs; only a service that is down refuses a connection.
Left out: `active_connections` and the totals, which no choice between fewer than two
instances reads.

`Forwarding` is what a client may rely on: a request is refused at once, or sent one to
`MaxRetries + 1` times, one after the other, until an answer comes, else a 502. It knows no health.
`LoadBalancer` implements it (`ForwardingSpec`), its first read and its restarts included.

### Gateway and the services

`Gateway` puts one of the three services behind `Forwarding`, in place of the whole balancer. Each
time a request is sent and accepted is a *run*, `<<request, attempt>>`: a call of a controller,
which goes on when the balancer has stopped waiting for it. `Traffic` declares
requests and runs, `ServiceRuns` what the services have in common.

| variable | code |
|---|---|
| `kind`, `at`, `reply`, `commits` | what a request asks; where its run stands, what it answered, whether it changed the database |
| `payment`, `found` | one row of *payments*; the entity as a run loaded it |
| `owner`, `holder` | who has the one user name that is in demand, and which run has it written and not committed (the unique index makes others wait) |
| `saved`, `left`, `makers` | the rows of one user's recommendations; what a run has yet to save; history |
| `service`, `faults` | the process and its database, and the bound on faults |

A step is one statement of the database, or a commit. `CommitPayment` writes the whole row if it
differs from what was loaded, as Hibernate does with an entity that is dirty: a second FAILED
writes nothing, a second COMPLETED has a new `paid_at`. `InsertUser` is at the `save`, which needs
the generated id; the update of a rename is at the commit. A request may ask to process a payment
or to rename a user that does not exist (`process unknown`, `rename unknown`), and is answered with an
error; `Batch` may be 0, when there is no film to recommend. Faults: the database does not
answer (`FallsIll`, then any run may end in an error and its transaction is rolled back), and the
process goes (`GoesDown`, with its runs).

Abstractions: requests all concern one payment, one name or one user, since others
do not meet; a client sends its request once; the balancer's restart is in `LoadBalancer` only; a
commit either happens and is known to have happened, or does not happen. Log-in and the listings
change nothing and are not there.

## 3. The runs

| run | expects | shows |
|---|---|---|
| `circuit_recovery` | pass | a client and the monitor, every interleaving, a restart and lost events: nobody passes an open circuit in its timeout (`OpenShields`); the slot count stays in its limit (`SlotsWithinLimit`), yet the real probes of a recovery are bounded only by limit x (threads + 1) (`ProbeBurstBound`); followers of its events lose its state only by a restart, a lost publication or an event that a later transition has overtaken (`ViewKept`); an OPEN circuit is left (`OpenIsLeft`) and closes after any outage (`RecoversAfterOutage`), for clients that report even when denied |
| `circuit_serial` | pass | without overlap the code implements `CircuitContract` |
| `circuit_reopen` | violation | a failure in HALF_OPEN does not reopen the circuit |
| `circuit_consulted` | violation | a client that reports only what it was admitted to try leaves the circuit in HALF_OPEN for ever |
| `replication_faults` | pass | two replicas that come and go, and one fault of any kind anywhere: write-ahead, verdicts that a quorum of commits has earned (`VerdictsHold`) and that are final, and all of it within `ReplicationContract` |
| `replication_settles` | pass | insertions posted in any order, two lost replies, one retry: everything accepted is settled and reaches every replica (`AcceptedArrives`), and whenever nothing is left to do it is there (`AllArrived`) and the tables are what the log says (`ReplicasConverge`) |
| `replication_diverges` | violation | one replica, always up, no fault: catch-up and WAL thread race and an old update overwrites a newer one |
| `replication_missed` | violation | a replica that comes back never gets the entries settled while it was away |
| `monitor_faults` | pass | two nodes, two registrations or removals, one failed Redis call or restart: alarms are true, silence is noticed, the registry differs from the table only while a write is on its way or was lost, a node is shown active again only by a registration or while the monitor holds it active, never by an old status written over a removal (`BroughtBackRightly`), and all of it within `DetectorContract` |
| `monitor_restored` | violation | a node that is heard again stays INACTIVE in the registry for ever |
| `balancer_health` | pass | two request threads, the checker, a service that comes and goes, a restart: unusable instances get no request that chose in their time (`UnusableShields`), a request is refused only if it saw an unusable status, or one that changed between its two reads (`UsableServes`; the race itself is in the model and is allowed), every request is answered, lasting outages and recoveries are noticed (`OutageShown`, `RecoveryShown`), and `Forwarding` is kept |
| `gateway_faults` | pass | two requests of any kinds of one service, two attempts each, one fault: a 503 means nothing ran (`RefusedNeverRan`), what clients are told is in the tables (`ToldIsTrue`), a payment told completed or failed is undone only by another run that decided otherwise (`OutcomeAccounted`), and lists are made only by runs that found none (`MadeWhereNoneWas`) |

### What the violations say

- *A failure in HALF_OPEN* (`FailureReopens`). `circuit.py:260` calls
  `_evaluate_open`, which returns unless the circuit is CLOSED, and `record_success`
  zeroes the failures before `_evaluate_close` tests them. `models.py:51` says
  "HALF_OPEN → (fallo) → OPEN".
- *Slots never come back* (`RecoversAfterOutage` under `ConsultingSpec`).
  `circuit.py:223` only adds to `half_open_requests`; the monitor's transition takes the
  first. With as many successes required as there are slots, a well-behaved client
  cannot reach them. `src/README.md:426` promises "CB pasa a HALF_OPEN → CLOSED".
- *Replicas diverge* (`ReplicasConverge`). `recovery_manager.py:84` replays what it
  read as pending after the WAL thread has settled it and a later entry of its row.
  `replica_sync.py:121` says "Procesa entradas en orden".
- *Missed entries* (`MissedAreReplayed`). `recovery_manager.py:79` reads PENDING and
  PROPAGATING entries; those a replica missed are PARTIAL or FAILED by then. Line 77 says
  "Reproduce operaciones faltantes en una réplica recuperada".
- *Restored nodes* (`RestoredIsShown`). A heartbeat makes a node ACTIVE in the table
  without a callback (`heartbeat_monitor.py:60`), so the branch that would tell the registry
  never finds an INACTIVE node with a fresh heartbeat: that this branch is dead is
  what the theorem `AlarmsTrue` proves. `src/README.md:529` says "Nodo vuelve a online".

### A reading the verdicts take no side on

`src/README.md:347` says "Quorum ≥ 2/3 → REPLICATED", and `src/scripts/demo.sh:136` "Quorum 2/3 → operación
confirmada". `wal_manager.py:142-149` does otherwise: it keeps REPLICATED for entries that *all* replicas took, and
2 of 3 are PARTIAL, with severity `warning`, though `_update_entry_result` counts the two alike as successes. The
text and the code disagree, then, on the name of a quorum that is not everyone. `VerdictsHold` takes no side: it says
that either of the two statuses means at least a quorum of commits, which holds under both readings. The
models follow the code: `Verdict` of `Replication` and the clause `TrueOf` of `ReplicationContract` have REPLICATED mean all, so
that `ContractSpec` is a promise of the code and not of that line; to change the code as the line
says is to change those two definitions. `VerdictsHold` is about commits of an entry, not about tables: a table may
hold something older (`replication_diverges`), and the retries are bounded at 0 in its run and at 1 in
`replication_settles`; the theorem covers any number.

### Bounds, and why they are enough

- Circuit: one client and the monitor are two threads that may act on one stale
  read, and the bound on probes is reached by them: TLC refutes it with one less. For more threads
  `ProbeBurst` is proved. Thresholds of 1 make every
  transition reachable in few steps where interleavings matter; of 2 where counting matters
  (`circuit_serial`). `MaxConsecutive` stops reports once a count reaches it; it is at least
  each threshold, so that every comparison is met from below, at, and (in `circuit_serial`) above.
- Replication: two replicas distinguish REPLICATED, PARTIAL and FAILED; two entries on one
  record make order matter, and a third (`Payment`) makes an old version distinct from
  the first. `MaxBatch` 1 in `replication_settles` forces entries to wait a cycle;
  `CatchUpBatch` 1 splits a catch-up from the WAL thread's batch. `MaxFaults` bounds the faults
  in one behaviour.
- Monitor: two nodes, so that a cycle judges one while another changes; `MaxMissed` 2,
  so that a node may be struck and be heard before it is down; `MaxLag` 1, so that the clock
  of a cycle may be old; `MaxAdmin` 2, so that a removal may overlap a registration.
  Ages saturate at `Timeout + MaxLag + 1`, beyond which no comparison changes.

- Balancer: two requests, so that one reads while the other's outcome is counted; `Threshold` 3, so
  that checks and requests can each reach it alone or together; one retry, so that a status changes
  between attempts; one restart.
- Gateway: two requests of two attempts are four runs, enough for a run of the same request and
  one of the other to overlap with a third; `Batch` 2, so that a list may be half made; one
  fault. The proofs cover more of each.

### Fairness

- `CircuitBreaker!Fairness`: threads are scheduled, the monitor's loop polls for ever, time
  passes. `ReportingSpec` adds that clients keep reporting (strong fairness, because a
  report may be disabled now and then), and `ConsultingSpec` that they keep checking; both
  are about clients, and only the runs that say so use them.
- `Replication!FairSpec`: both threads are endless loops that catch every exception. Replicas
  are not assumed to come back; where a property needs it, it is in its hypothesis.
- `EventMonitor!FairSpec`: time passes and the monitor thread loops. `HeardSpec` adds that a node
  that runs is heard again and again and that a request waiting for the lock gets it (the
  thread sleeps between cycles with the lock free).

- `LoadBalancer!FairSpec`: a request's thread is scheduled, its wait ends with an answer or by
  the time-out of `requests`, and the checker loops, catching every exception. Neither clients nor
  the service are assumed to do anything: where it matters that the service stays down or up,
  the property says so.
- `Gateway` has safety properties only, and stops when its requests are answered (the run does
  not check for deadlock).

## 4. What is proved

The proofs hold for every value of the constants that satisfies their named
assumptions (`ThreadsAssumption`, `ThresholdsAssumption`, `EnvironmentAssumption`;
`WorkloadAssumption`, `ReplicasAssumption`; `NobodyAssumption`; `ConfigAssumption`;
`RequestsAssumption`, `RetriesAssumption`, `ThresholdAssumption`, `RepliesAssumption`,
`RestartsAssumption`, `FreeAssumption`, `BatchAssumption`, `FaultsAssumption`, `RunRepliesAssumption`).

**CircuitProofs**
- `TypeCorrect`.
- `ShieldsHold` (`OpenShields`), by `ShieldInv`: a shielded check sees OPEN, in its
  timeout, and its thread is at no place from which it is let through. `OpenShields` alone is not
  inductive: it says nothing of a thread halfway through its reads.
- `ProbeBurst` and `SlotsBounded` (`ProbeBurstBound`, `SlotsWithinLimit`), by `BurstInv`: each thread
  moves the circuit to HALF_OPEN at most once per episode, since none of the `winners` can be
  at a place that leads there again, and `probes <= limit * |winners| + slots`.
- `SerialImplements` (`ContractSpec`), assuming `Serial`, by `SerialInv`: at most one thread
  is within a call, and what it read is still true (`Knows`). Every step then maps
  to a step of the contract or a stutter.
- `ViewKeptHolds` (`ViewKept`), with nothing assumed of the environment, by `ViewInv`: an event that
  a thread is about to publish tells the state as it is, or the thread is in `overtaken`. TLC finds
  behaviours in which each of the three exceptions of `ViewKept` is the one taken.

**ReplicationProofs**, over `IInv == TypeOK /\ PhaseInv /\ LogInv /\ VerdictInv`
- `TypeCorrect`, with `PhaseInv`: a phase that works on a list or a set is left when nothing remains of it.
- `LoggedFirst` (`WriteAhead`): `LogInv` says that what the WAL thread has in hand is pending in
  the log, and that what the recovery thread has in hand is in it.
- `VerdictsTrue` (`VerdictsHold`): `VerdictInv` says that an acknowledgement in hand is true, and that
  what was announced or settled was deserved; the rest follows by counting.
- `SettledForGood` (`SettledIsFinal`): what is marked or settled is still pending (`LogInv`), and an
  entry that is posted again meets its own row.

- `KeepsContract` (`ContractSpec`): with the above and `AcceptedInv` (what waits to be stored was
  posted), every step is one of the contract's or leaves its variables alone.

**ConvergenceProofs**, over the same with `Delivered`, `RowsHold`, `AcceptedKept` and `Emptied`. All three
theorems assume that replicas stay in reach (`~Outages`): one that was away never gets
what was settled without it (`replication_missed`).
- `SingleWritesAgree`: each row that only one entry concerns (`Alone`) is, when nothing is left to do, on every
  replica what the log makes of it, with any number of crashes, failed calls, lost
  replies and repeated posts, and whatever happens to other rows. `Delivered` says that a settled entry,
  whatever its verdict, is on every replica, for which it has to know how far the WAL thread is in its
  batch; `RowsHold`, that such a row depends on nothing but whether its entry was executed. That two
  entries may not share the row is needed (`replication_diverges`).
- `ReplicasAgree` (`ReplicasConverge`), when every row is such a row (`OnePerRecord`). The property builds the table
  of the log by recursion on its entries; instead of an induction, `ExpectedRow` takes the least entry
  at which the row is not what it says and finds the one before it to be another.
- `AcceptedIsEverywhere` (`AllArrived`), for any workload, when the process does not crash and calls on the
  primary do not fail: `AcceptedKept` says that what was posted is in the queue, in the hands of the WAL thread or in
  the log. After a crash it may be in none of them.

**MonitorProofs**, over `IInv == TypeOK /\ NoFalseAlarm /\ StillDown /\ TellingDown /\ DownIsShown`
- `TypeCorrect`.
- `AlarmsTrue` (`NoFalseAlarm`): `StillDown` says that a node that is inactive and not yet
  judged in the running cycle is overdue by the clock of that cycle too, although that
  clock is older.
- `DownShown` (`DownIsShown`): `TellingDown` says that the status being written is
  INACTIVE, since the lock keeps heartbeats out until it is written.
- `BroughtBack` (`BroughtBackRightly`), from the same: no old status is written over a removal, and
  nothing shows a node as active that is held to be down.
- `KeepsDetector` (`DetectorSpec`), with `WritingListed`: the node whose change is being written is
  in the list and stays there, since nothing takes a row out of it, so that a write which
  overlaps a removal is one the contract allows. `StillDown` is what makes each judgement a
  strike or a stutter: without it a cycle might restore a node.

**BalancerProofs**, over `IInv == TypeOK /\ Untouched /\ ViewsHold /\ UnusableShields /\ UsableServes`
- `TypeCorrect`.
- `ShieldsHold` and `UsableIsServed`: `ViewsHold` says that what a request has seen while it chooses
  is still so, and that one which is at its second read, and has seen a usable instance, sees a
  degraded one; without it neither property says anything of a request halfway through.
- `KeepsPromise` (`ForwardingSpec`): every step maps to one of `Forwarding` or a stutter; `Untouched`
  makes the way back to the start of a request that was not sent a stutter.

**GatewayProofs**, over `IInv == TypeOK /\ Counted /\ Unsent /\ AnswersDelivered /\ TablesInv`
- `TypeCorrect`.
- `RefusedMeansUnsent` (`RefusedNeverRan`): `Unsent` says that no run begins before it is sent,
  `Counted` that a 503 goes to requests that were not.
- `ToldTrue` (`ToldIsTrue`): `RepliesTrue` says of every run what the property says of clients, and
  `AnswersDelivered` that a client has the reply of the last run. It needs `Holding`: a run that has the
  name written is alone in that and the name is still free, so that an owner, once there, stays.
- `OutcomeHolds` (`OutcomeAccounted`), by `PaymentAccounted`, which speaks of the copies of the row that
  runs hold in memory as well: since each run writes back the whole row as it read it, the property is
  kept only because no copy, however old, has a date or a failure that some run did not write and
  answer.
- `MadeBounded` (`MadeWhereNoneWas`), by `MadeCounted`: each saved row is a pair of a run that found
  none and what it had left to save, so that there are at most `Batch` of each run.

**Only model-checked.** The liveness properties (`OpenIsLeft`, `RecoversAfterOutage`,
`AcceptedArrives`, `SilenceIsDetected`, `EveryRequestAnswered`, `OutageShown`, `RecoveryShown`): they need fairness and ENABLED, which the prover does
not handle. Nothing is proved of replicas that go away and come back, or of the tables when entries share a
record, beyond the verdicts and the contract: there the properties are false (`replication_diverges`,
`replication_missed`).

## 5. What is not modelled, and why

- The list of events: it is shown and counted, and no component takes a decision by it. What the
  code does, as read: an event of the monitor itself is appended, published, and appended again when it
  comes back over Redis; the truncation (`app.py:231`) keeps the end of the list, and `GET /events` without a
  filter sorts that same list in place, newest first (`events.py:55`), so that once the list is full
  it is the newest that go; an event that another thread appends while the list is cut or sorted may be lost.
- The post of a change to the replication manager: `ReplicationLogWriter` serialises entities with
  `LocalDateTime` fields by an `ObjectMapper` without the Java time module, which throws; the error is
  logged and nothing is posted. `Replication` is about the entries that reach the manager.
- Several instances of one service, and with them the strategies and the count of active connections:
  the configuration has one of each. Log-in, listings and the other columns of the tables.
- The frontend, configuration and scripts hold no state that other parts depend on.
- Storage engines, HTTP, Redis and the operating system are taken to behave: a call
  happens once, fails, or (a replica's) happens and its answer is lost. Passwords, tokens and
  DTOs are data with no protocol.
- Behaviours noted while reading, which no document of the repository excludes: the registry lists as
  active a node that died while the monitor was restarting; a removed node, still in the table, is later
  written INACTIVE over REMOVED; a service whose health check fails but which answers requests stays
  DEGRADED and in use, since each answer zeroes the failures; a registration that is repeated by the
  balancer is answered as taken although it succeeded (`ToldIsTrue` says only that the name has an owner then).
  Two runs of one payment may each report an outcome, and the one that writes last stands
  (`OutcomeAccounted` says only that it takes another outcome, told by another run, to undo one); a payment that was
  completed and then failed keeps its `paid_at`. A POST that is sent again may create two payments. A usable
  instance may be refused to a request whose two reads of the registry fall on either side of a health
  check. Attempts after the first go to the instance chosen then, whatever has become of it. The load balancer never asks the
  event monitor, although `src/README.md` has it consult it.

## 6. Plan

1. `CircuitBreaker`, `CircuitContract` and proofs: done.
2. `Replication`, `ReplicationContract` and proofs: done.
3. `EventMonitor` and proofs: done.
4. `LoadBalancer`, `Forwarding` and proofs: done.
5. `Gateway` with `Payments`, `Users`, `Recommendations`, and proofs: done.
6. `ConvergenceProofs`, `ViewKeptHolds`, `DetectorContract` and `KeepsDetector`: done.
7. Further theorems: which row a record that several entries concern may end up with; an abstract
   specification of a service as its client sees it, and `Gateway` shown to implement it.
