--------------------------- MODULE CircuitBreaker ---------------------------
(***************************************************************************)
(* The circuit breaker of one service: CircuitBreakerStateMachine of       *)
(* infrastructure/circuit-breaker/src/circuit.py, driven by the request    *)
(* threads of its Flask API (api/circuits.py) and by the thread of         *)
(* monitor.py.                                                             *)
(*                                                                         *)
(* A step is one block under self._lock, or one read of the circuit made   *)
(* without it: the code decides on such reads and takes the lock again to  *)
(* act, and other threads run in between.  The circuits of two services    *)
(* share nothing but the lock, so one is modelled.  A service with no      *)
(* circuit behaves as a fresh CLOSED one, so creation is not a step.       *)
(***************************************************************************)
EXTENDS Naturals, FiniteSets

CONSTANTS
  Clients,           (* callers of the API; each has one call in progress  *)
  Monitor,           (* the thread of CircuitBreakerMonitor                *)
  FailureThreshold,  (* cb.failure_threshold                               *)
  SuccessThreshold,  (* cb.success_threshold                               *)
  HalfOpenMax,       (* cb.half_open_max_requests                          *)
  MaxConsecutive,    (* bound: no report starts once a count reaches it    *)
  Serial,            (* TRUE: the calls never overlap                      *)
  FreeReports,       (* TRUE: clients also report without asking first     *)
  CanRestart,        (* TRUE: the process may crash and start again        *)
  Lossy              (* TRUE: publishing to Redis may fail                 *)

ASSUME ThreadsAssumption ==
  /\ IsFiniteSet(Clients)
  /\ Monitor \notin Clients
ASSUME ThresholdsAssumption ==
  /\ FailureThreshold \in Nat \ {0}
  /\ SuccessThreshold \in Nat \ {0}
  /\ HalfOpenMax \in Nat \ {0}
  /\ MaxConsecutive \in Nat
ASSUME EnvironmentAssumption ==
  /\ Serial \in BOOLEAN
  /\ FreeReports \in BOOLEAN
  /\ CanRestart \in BOOLEAN
  /\ Lossy \in BOOLEAN

Threads == Clients \union {Monitor}
States == {"CLOSED", "OPEN", "HALF_OPEN"}

VARIABLES
  state,                 (* cb.state                                       *)
  consecutiveFailures,
  consecutiveSuccesses,
  halfOpenRequests,      (* cb.half_open_requests: probe slots handed out  *)
  timeoutExpired,        (* time.time() - cb.opened_at >= open timeout     *)
  pc,                    (* where each thread stands                       *)
  seen,                  (* the new_state of the event a thread publishes  *)
  notified,              (* the new_state last delivered to subscribers    *)
  overtaken,             (* history: threads whose event was built before  *)
                         (* the last transition and is not published yet   *)
  serviceUp,             (* whether the guarded service answers            *)
  probes,                (* history: slots handed out in this episode      *)
  winners,               (* history: threads that moved the circuit to     *)
                         (* HALF_OPEN since it last opened                 *)
  shielded               (* history: clients whose check has met nothing   *)
                         (* but an OPEN circuit still in its timeout       *)

circuit == <<state, consecutiveFailures, consecutiveSuccesses,
             halfOpenRequests, timeoutExpired>>
events == <<seen, notified, overtaken>>
history == <<probes, winners, shielded>>
vars == <<circuit, pc, events, serviceUp, history>>

(* A client is idle, or admitted: it was let through and has not reported. *)
Resting == {"idle", "admitted"}
CheckSteps == {"isClosed", "isOpen", "recheckOpen", "elapsed",
               "isHalfOpen", "takeSlot", "toHalfOpen"}
FailureSteps == {"countFailure", "evaluateOpen", "failuresReached", "toOpen"}
SuccessSteps == {"countSuccess", "evaluateClose", "stillHalfOpen",
                 "successesReached", "failedMeanwhile", "toClosed"}
EmitSteps == {"emit", "publish", "emitProbe", "publishProbe"}
Steps == Resting \union CheckSteps \union FailureSteps
           \union SuccessSteps \union EmitSteps

TypeOK ==
  /\ state \in States
  /\ consecutiveFailures \in Nat
  /\ consecutiveSuccesses \in Nat
  /\ halfOpenRequests \in Nat
  /\ timeoutExpired \in BOOLEAN
  /\ pc \in [Threads -> Steps]
  /\ seen \in [Threads -> States]
  /\ notified \in States
  /\ overtaken \subseteq Threads
  /\ serviceUp \in BOOLEAN
  /\ probes \in Nat
  /\ winners \subseteq Threads
  /\ shielded \subseteq Clients

Init ==
  /\ state = "CLOSED"
  /\ consecutiveFailures = 0
  /\ consecutiveSuccesses = 0
  /\ halfOpenRequests = 0
  /\ timeoutExpired = TRUE
  /\ pc = [t \in Threads |-> "idle"]
  /\ seen = [t \in Threads |-> "CLOSED"]
  /\ notified = "CLOSED"
  /\ overtaken = {}
  /\ serviceUp = TRUE
  /\ probes = 0
  /\ winners = {}
  /\ shielded = {}

Goto(t, from, to) ==
  /\ pc[t] = from
  /\ pc' = [pc EXCEPT ![t] = to]

(* The start of a call, which finds the circuit or makes one: closed, and  *)
(* so no different from one that was there.  Serial callers wait until no  *)
(* call is in progress.                                                    *)
Call(t, from, to) ==
  /\ Serial => \A u \in Threads : pc[u] \in Resting
  /\ Goto(t, from, to)
  /\ UNCHANGED <<circuit, events, serviceUp, probes, winners>>

(* An unlocked read of the circuit moves only the thread that makes it.    *)
Read(t, from, to) ==
  /\ Goto(t, from, to)
  /\ UNCHANGED <<circuit, events, serviceUp, history>>

(* What True and False mean to the caller: a client goes on to use the     *)
(* service, or not; the monitor ignores the answer.  The rejection totals  *)
(* and the event history, which False also updates, steer nothing and are  *)
(* left out.                                                               *)
Allowed(t) == IF t = Monitor THEN "idle" ELSE "admitted"
Denied == "idle"

-----------------------------------------------------------------------------
(* GET /circuits/<service>/check and is_request_allowed.                   *)

Check(c) ==
  /\ Call(c, "idle", "isClosed")
  /\ shielded' = IF state = "OPEN" /\ ~timeoutExpired
                   THEN shielded \union {c} ELSE shielded \ {c}

ReadIsClosed(t) ==
  Read(t, "isClosed", IF state = "CLOSED" THEN Allowed(t) ELSE "isOpen")

ReadIsOpen(t) ==
  Read(t, "isOpen", IF state = "OPEN" THEN "recheckOpen" ELSE "isHalfOpen")

(* _check_timeout_expired looks at the state again, then at the clock.     *)
ReadRecheckOpen(t) ==
  Read(t, "recheckOpen", IF state = "OPEN" THEN "elapsed" ELSE Denied)

(* Mutant: an OPEN circuit in its timeout falls through instead of         *)
(* returning False.                                                        *)
ElapsedFallsThrough(t) ==
  Read(t, "elapsed", IF timeoutExpired THEN "toHalfOpen" ELSE "isHalfOpen")

ReadElapsed(t) ==
  Read(t, "elapsed", IF timeoutExpired THEN "toHalfOpen" ELSE Denied)

(* None of the three reads matched: the code falls through and allows.     *)
ReadIsHalfOpen(t) ==
  Read(t, "isHalfOpen", IF state = "HALF_OPEN" THEN "takeSlot" ELSE Allowed(t))

(* Mutant: no limit on the probes.                                         *)
TakeSlotUnlimited(t) ==
  /\ halfOpenRequests' = halfOpenRequests + 1
  /\ probes' = probes + 1
  /\ Goto(t, "takeSlot", Allowed(t))
  /\ UNCHANGED <<state, consecutiveFailures, consecutiveSuccesses,
                 timeoutExpired, events, serviceUp, winners, shielded>>

TakeSlot(t) ==
  \/ /\ halfOpenRequests < HalfOpenMax
     /\ halfOpenRequests' = halfOpenRequests + 1
     /\ probes' = probes + 1
     /\ Goto(t, "takeSlot", Allowed(t))
     /\ UNCHANGED <<state, consecutiveFailures, consecutiveSuccesses,
                    timeoutExpired, events, serviceUp, winners, shielded>>
  \/ /\ halfOpenRequests >= HalfOpenMax
     /\ Read(t, "takeSlot", Denied)

-----------------------------------------------------------------------------
(* POST /circuits/<service>/failures and /success.                         *)

MayReport(c) == pc[c] = "admitted" \/ (FreeReports /\ pc[c] = "idle")

(* A report is truthful: what it says is how the service is doing.         *)
ReportFailure(c) ==
  /\ MayReport(c)
  /\ ~serviceUp
  /\ consecutiveFailures < MaxConsecutive
  /\ Call(c, pc[c], "countFailure")
  /\ UNCHANGED shielded

ReportSuccess(c) ==
  /\ MayReport(c)
  /\ serviceUp
  /\ consecutiveSuccesses < MaxConsecutive
  /\ Call(c, pc[c], "countSuccess")
  /\ UNCHANGED shielded

CountFailure(t) ==
  /\ consecutiveFailures' = consecutiveFailures + 1
  /\ consecutiveSuccesses' = 0
  /\ Goto(t, "countFailure", "evaluateOpen")
  /\ UNCHANGED <<state, halfOpenRequests, timeoutExpired, events, serviceUp, history>>

EvaluateOpen(t) ==
  Read(t, "evaluateOpen", IF state = "CLOSED" THEN "failuresReached" ELSE "idle")

(* Mutant: opens one failure early.                                        *)
FailuresReachedEarly(t) ==
  Read(t, "failuresReached",
       IF consecutiveFailures + 1 >= FailureThreshold THEN "toOpen" ELSE "idle")

ReadFailuresReached(t) ==
  Read(t, "failuresReached",
       IF consecutiveFailures >= FailureThreshold THEN "toOpen" ELSE "idle")

(* Mutant: a success gives back a probe slot nobody took.                  *)
CountSuccessFreesSlot(t) ==
  /\ consecutiveSuccesses' = consecutiveSuccesses + 1
  /\ consecutiveFailures' = 0
  /\ halfOpenRequests' = halfOpenRequests - 1
  /\ Goto(t, "countSuccess", "evaluateClose")
  /\ UNCHANGED <<state, timeoutExpired, events, serviceUp, history>>

CountSuccess(t) ==
  /\ consecutiveSuccesses' = consecutiveSuccesses + 1
  /\ consecutiveFailures' = 0
  /\ Goto(t, "countSuccess", "evaluateClose")
  /\ UNCHANGED <<state, halfOpenRequests, timeoutExpired, events, serviceUp, history>>

(* Mutant: tests the wrong flag before evaluating.                         *)
EvaluateCloseWhenOpen(t) ==
  Read(t, "evaluateClose", IF state = "OPEN" THEN "stillHalfOpen" ELSE "idle")

(* record_success and _evaluate_close each look for HALF_OPEN.             *)
EvaluateClose(t) ==
  Read(t, "evaluateClose", IF state = "HALF_OPEN" THEN "stillHalfOpen" ELSE "idle")

ReadStillHalfOpen(t) ==
  Read(t, "stillHalfOpen", IF state = "HALF_OPEN" THEN "successesReached" ELSE "idle")

ReadSuccessesReached(t) ==
  Read(t, "successesReached",
       IF consecutiveSuccesses >= SuccessThreshold THEN "toClosed" ELSE "failedMeanwhile")

ReadFailedMeanwhile(t) ==
  Read(t, "failedMeanwhile", IF consecutiveFailures > 0 THEN "toOpen" ELSE "idle")

-----------------------------------------------------------------------------
(* Transitions.  Each takes the lock and does not look at the state again. *)

(* Threads that have read the circuit into an event, as it was before.     *)
Publishing == {t \in Threads : pc[t] \in {"publish", "publishProbe"}}

TransitionToOpen(t) ==
  /\ state' = "OPEN"
  /\ timeoutExpired' = FALSE
  /\ halfOpenRequests' = 0
  /\ probes' = 0
  /\ winners' = {}
  /\ overtaken' = overtaken \union Publishing
  /\ Goto(t, "toOpen", "emit")
  /\ UNCHANGED <<consecutiveFailures, consecutiveSuccesses, seen, notified,
                 serviceUp, shielded>>

TransitionToHalfOpen(t) ==
  /\ state' = "HALF_OPEN"
  /\ consecutiveSuccesses' = 0
  /\ halfOpenRequests' = 1
  /\ probes' = probes + 1
  /\ winners' = winners \union {t}
  /\ shielded' = {}
  /\ overtaken' = overtaken \union Publishing
  /\ Goto(t, "toHalfOpen", "emitProbe")
  /\ UNCHANGED <<consecutiveFailures, timeoutExpired, seen, notified, serviceUp>>

(* Mutant: closes without a word to the subscribers.                       *)
TransitionToClosedSilently(t) ==
  /\ state' = "CLOSED"
  /\ consecutiveFailures' = 0
  /\ consecutiveSuccesses' = 0
  /\ halfOpenRequests' = 0
  /\ probes' = 0
  /\ shielded' = {}
  /\ overtaken' = overtaken \union Publishing
  /\ Goto(t, "toClosed", "idle")
  /\ UNCHANGED <<timeoutExpired, seen, notified, serviceUp, winners>>

TransitionToClosed(t) ==
  /\ state' = "CLOSED"
  /\ consecutiveFailures' = 0
  /\ consecutiveSuccesses' = 0
  /\ halfOpenRequests' = 0
  /\ probes' = 0
  /\ shielded' = {}
  /\ overtaken' = overtaken \union Publishing
  /\ Goto(t, "toClosed", "emit")
  /\ UNCHANGED <<timeoutExpired, seen, notified, serviceUp, winners>>

(* _emit_state_change reads the new state after the lock is released ...   *)
EmitStateChange(t) ==
  /\ seen' = [seen EXCEPT ![t] = state]
  /\ \/ Goto(t, "emit", "publish")
     \/ Goto(t, "emitProbe", "publishProbe")
  /\ UNCHANGED <<circuit, notified, overtaken, serviceUp, history>>

(* ... and the callback publishes it to Redis, or logs that it could not.  *)
OnStateChange(t) ==
  /\ \/ Goto(t, "publish", "idle")
     \/ Goto(t, "publishProbe", Allowed(t))
  /\ \/ notified' = seen[t]
     \/ Lossy /\ notified' = notified
  /\ seen' = [seen EXCEPT ![t] = "CLOSED"]   \* the event is gone
  /\ overtaken' = overtaken \ {t}
  /\ UNCHANGED <<circuit, serviceUp, history>>

-----------------------------------------------------------------------------
(* The monitor, the clock, the service and the process.                    *)

(* Mutant: the monitor looks after HALF_OPEN circuits only.                *)
CheckHalfOpenCircuits ==
  /\ state = "HALF_OPEN"
  /\ Call(Monitor, "idle", "isClosed")
  /\ UNCHANGED shielded

CheckOpenCircuits ==
  /\ state = "OPEN"
  /\ Call(Monitor, "idle", "isClosed")
  /\ UNCHANGED shielded

(* open_timeout_seconds go by since opened_at, which is 0 in a fresh       *)
(* circuit and is not touched when the circuit leaves OPEN.                *)
TimeoutExpires ==
  /\ ~timeoutExpired
  /\ timeoutExpired' = TRUE
  /\ shielded' = {}
  /\ UNCHANGED <<state, consecutiveFailures, consecutiveSuccesses,
                 halfOpenRequests, pc, events, serviceUp, probes, winners>>

ServiceChanges ==
  /\ serviceUp' = ~serviceUp
  /\ UNCHANGED <<circuit, pc, events, history>>

(* Circuits live in memory: a process that starts again has only CLOSED    *)
(* ones, calls in progress fail, and nothing is published.                 *)
Restart ==
  /\ CanRestart
  /\ state' = "CLOSED"
  /\ consecutiveFailures' = 0
  /\ consecutiveSuccesses' = 0
  /\ halfOpenRequests' = 0
  /\ timeoutExpired' = TRUE
  /\ pc' = [t \in Threads |-> IF pc[t] = "admitted" THEN "admitted" ELSE "idle"]
  /\ probes' = 0
  /\ winners' = {}
  /\ shielded' = {}
  /\ overtaken' = {}
  /\ UNCHANGED <<seen, notified, serviceUp>>

(* What a thread does by itself once its call has started.                 *)
ThreadStep(t) ==
  \/ ReadIsClosed(t) \/ ReadIsOpen(t) \/ ReadRecheckOpen(t) \/ ReadElapsed(t)
  \/ ReadIsHalfOpen(t) \/ TakeSlot(t)
  \/ CountFailure(t) \/ EvaluateOpen(t) \/ ReadFailuresReached(t)
  \/ CountSuccess(t) \/ EvaluateClose(t) \/ ReadStillHalfOpen(t)
  \/ ReadSuccessesReached(t) \/ ReadFailedMeanwhile(t)
  \/ TransitionToOpen(t) \/ TransitionToHalfOpen(t) \/ TransitionToClosed(t)
  \/ EmitStateChange(t) \/ OnStateChange(t)

ClientCall(c) == Check(c) \/ ReportFailure(c) \/ ReportSuccess(c)

Next ==
  \/ \E c \in Clients : ClientCall(c)
  \/ \E t \in Threads : ThreadStep(t)
  \/ CheckOpenCircuits
  \/ TimeoutExpires
  \/ ServiceChanges
  \/ Restart

Spec == Init /\ [][Next]_vars

(* Threads are scheduled, the monitor keeps looping and time passes.       *)
Fairness ==
  /\ \A t \in Threads : WF_vars(ThreadStep(t))
  /\ WF_vars(CheckOpenCircuits)
  /\ WF_vars(TimeoutExpires)

FairSpec == Spec /\ Fairness

(* Clients that keep reporting how the service does ...                    *)
ReportingSpec ==
  FairSpec /\ \A c \in Clients : SF_vars(ReportFailure(c)) /\ SF_vars(ReportSuccess(c))

(* ... and keep asking whether they may use it.                            *)
ConsultingSpec == ReportingSpec /\ \A c \in Clients : SF_vars(Check(c))

-----------------------------------------------------------------------------
(* Properties.                                                             *)

(* The promise of an open breaker: a check that meets nothing but an OPEN  *)
(* circuit still in its timeout is denied, whatever the other threads do   *)
(* between its unlocked reads (is_request_allowed).                        *)
OpenShields == \A c \in shielded : pc[c] # "admitted"

(* half_open_max_requests limits one transition to HALF_OPEN, not one      *)
(* recovery: each thread that read an expired circuit before it changed    *)
(* starts the count again.  From one opening or closing to the next, the   *)
(* recovering service gets no more than this many probes.                  *)
ProbeBurstBound == probes <= HalfOpenMax * (Cardinality(Threads) + 1)

(* Between two calls, no slot count above the limit is ever left behind.   *)
SlotsWithinLimit == halfOpenRequests <= HalfOpenMax

(* The monitor moves an OPEN circuit on once its timeout is over, with or  *)
(* without traffic (monitor.py).                                           *)
OpenIsLeft == (state = "OPEN") ~> (state # "OPEN")

(* After an outage of the service the circuit does close again.            *)
RecoversAfterOutage == (<>[]serviceUp) => []<>(state = "CLOSED")

(* Subscribers know the state, or a thread is about to tell them one.      *)
Followed == notified = state \/ \E t \in Threads : pc[t] \in EmitSteps

(* _emit_state_change and _on_state_change work without the lock and only  *)
(* log what fails.  Even so, followers of the events lose the state of the *)
(* circuit in three ways alone: the process restarts, a publication fails, *)
(* or a thread publishes an event that a later transition has overtaken.   *)
ViewKept ==
  [][Followed => \/ Followed'
                 \/ Restart
                 \/ \E t \in Publishing : t \in overtaken \/ notified' # seen[t]]_vars

(* A failure recorded while HALF_OPEN opens the circuit again.             *)
FailureReopens ==
  \A c \in Clients :
    (state = "HALF_OPEN" /\ pc[c] = "evaluateOpen") ~> (state = "OPEN")

(* The circuit moves as the documented state machine does: each transition *)
(* happens while its condition holds, and no sooner.                       *)
Contract == INSTANCE CircuitContract WITH
  failures <- consecutiveFailures, successes <- consecutiveSuccesses,
  slots <- halfOpenRequests, expired <- timeoutExpired
ContractSpec == Contract!Spec

=============================================================================
