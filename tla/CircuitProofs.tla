--------------------------- MODULE CircuitProofs ---------------------------
(***************************************************************************)
(* Safety of the circuit breaker for any number of clients, any thresholds *)
(* and any schedule, and its agreement with the documented state machine   *)
(* when calls do not overlap.                                              *)
(***************************************************************************)
EXTENDS CircuitBreaker, FiniteSetTheorems, TLAPS

LEMMA ThreadsFinite ==
  /\ IsFiniteSet(Threads)
  /\ Cardinality(Threads) \in Nat
<1>1. IsFiniteSet(Threads)
  BY ThreadsAssumption, FS_Singleton, FS_Union DEF Threads
<1> QED
  BY <1>1, FS_CardinalityType

(* Every variable keeps its type, whatever the interleaving.               *)
LEMMA TypeStep == TypeOK /\ [Next]_vars => TypeOK'
<1> SUFFICES ASSUME TypeOK, [Next]_vars
             PROVE  TypeOK'
  OBVIOUS
<1> USE DEF TypeOK, Steps, Resting, CheckSteps, FailureSteps, SuccessSteps,
            EmitSteps, States, circuit, events, history, Goto, Call, Read
<1>1. ASSUME NEW c \in Clients, Check(c)
      PROVE  TypeOK'
  BY <1>1 DEF Check, Threads
<1>2. ASSUME NEW c \in Clients, ReportFailure(c)
      PROVE  TypeOK'
  BY <1>2 DEF ReportFailure, Threads
<1>3. ASSUME NEW c \in Clients, ReportSuccess(c)
      PROVE  TypeOK'
  BY <1>3 DEF ReportSuccess, Threads
<1>4. ASSUME NEW t \in Threads, ThreadStep(t)
      PROVE  TypeOK'
  <2>1. CASE ReadIsClosed(t) \/ ReadIsOpen(t) \/ ReadRecheckOpen(t) \/ ReadElapsed(t)
    BY <2>1 DEF ReadIsClosed, ReadIsOpen, ReadRecheckOpen, ReadElapsed, Allowed, Denied
  <2>2. CASE ReadIsHalfOpen(t)
    BY <2>2 DEF ReadIsHalfOpen, Allowed
  <2>3. CASE TakeSlot(t)
    BY <2>3 DEF TakeSlot, Allowed, Denied
  <2>4. CASE CountFailure(t) \/ EvaluateOpen(t) \/ ReadFailuresReached(t)
    BY <2>4 DEF CountFailure, EvaluateOpen, ReadFailuresReached
  <2>5. CASE CountSuccess(t) \/ EvaluateClose(t) \/ ReadStillHalfOpen(t)
    BY <2>5 DEF CountSuccess, EvaluateClose, ReadStillHalfOpen
  <2>6. CASE ReadSuccessesReached(t) \/ ReadFailedMeanwhile(t)
    BY <2>6 DEF ReadSuccessesReached, ReadFailedMeanwhile
  <2>7. CASE TransitionToOpen(t)
    BY <2>7 DEF TransitionToOpen, Publishing
  <2>8. CASE TransitionToHalfOpen(t)
    BY <2>8 DEF TransitionToHalfOpen, Publishing
  <2>9. CASE TransitionToClosed(t)
    BY <2>9 DEF TransitionToClosed, Publishing
  <2>10. CASE EmitStateChange(t)
    BY <2>10 DEF EmitStateChange
  <2>11. CASE OnStateChange(t)
    BY <2>11 DEF OnStateChange, Allowed
  <2> QED
    BY <1>4, <2>1, <2>2, <2>3, <2>4, <2>5, <2>6, <2>7, <2>8, <2>9, <2>10, <2>11
       DEF ThreadStep
<1>5. CASE CheckOpenCircuits
  BY <1>5 DEF CheckOpenCircuits, Threads
<1>6. CASE TimeoutExpires
  BY <1>6 DEF TimeoutExpires
<1>7. CASE ServiceChanges
  BY <1>7 DEF ServiceChanges
<1>8. CASE Restart
  BY <1>8 DEF Restart
<1>9. CASE UNCHANGED vars
  BY <1>9 DEF vars
<1> QED
  BY <1>1, <1>2, <1>3, <1>4, <1>5, <1>6, <1>7, <1>8, <1>9 DEF Next, ClientCall

(* In every reachable state each variable has its type.                    *)
THEOREM TypeCorrect == Spec => []TypeOK
<1>1. Init => TypeOK
  BY DEF Init, TypeOK, Steps, Resting, States
<1> QED
  BY <1>1, TypeStep, PTL DEF Spec

-----------------------------------------------------------------------------
(* What a thread knows between its unlocked reads: while a client is       *)
(* shielded the circuit stays OPEN and in its timeout, so the reads that   *)
(* would let the client through are out of its reach.                      *)
LetThrough == {"admitted", "isHalfOpen", "takeSlot", "toHalfOpen",
               "emitProbe", "publishProbe"}

ShieldInv ==
  \A c \in shielded :
    /\ state = "OPEN"
    /\ ~timeoutExpired
    /\ pc[c] \notin LetThrough

(* A step of thread t keeps the invariant if t was already let through or  *)
(* is not let through now.                                                 *)
LEMMA ShieldFrame ==
  ASSUME TypeOK, ShieldInv,
         NEW t \in Threads, NEW to,
         pc' = [pc EXCEPT ![t] = to],
         pc[t] \in LetThrough \/ to \notin LetThrough,
         UNCHANGED <<state, timeoutExpired, shielded>>
  PROVE  ShieldInv'
<1> SUFFICES ASSUME NEW c \in shielded
             PROVE  state = "OPEN" /\ ~timeoutExpired /\ pc'[c] \notin LetThrough
  BY DEF ShieldInv, LetThrough
<1>1. state = "OPEN" /\ ~timeoutExpired /\ pc[c] \notin LetThrough
  BY DEF ShieldInv
<1>2. pc'[c] = IF c = t THEN to ELSE pc[c]
  BY DEF TypeOK, Threads
<1> QED
  BY <1>1, <1>2

LEMMA ShieldStep == TypeOK /\ ShieldInv /\ [Next]_vars => ShieldInv'
<1> SUFFICES ASSUME TypeOK, ShieldInv, [Next]_vars
             PROVE  ShieldInv'
  OBVIOUS
<1> USE DEF LetThrough, circuit, events, history, Goto, Call, Read
<1>1. ASSUME NEW c \in Clients, Check(c)
      PROVE  ShieldInv'
  <2>1. /\ pc' = [pc EXCEPT ![c] = "isClosed"]
        /\ UNCHANGED <<state, timeoutExpired>>
        /\ shielded' = IF state = "OPEN" /\ ~timeoutExpired
                         THEN shielded \union {c} ELSE shielded \ {c}
    BY <1>1 DEF Check
  <2>2. \A d \in Clients : pc'[d] = IF d = c THEN "isClosed" ELSE pc[d]
    BY <2>1 DEF TypeOK, Threads
  <2> QED
    BY <2>1, <2>2 DEF ShieldInv, TypeOK
<1>2. ASSUME NEW c \in Clients, ReportFailure(c) \/ ReportSuccess(c)
      PROVE  ShieldInv'
  <2>1. \E to \in {"countFailure", "countSuccess"} :
          /\ pc' = [pc EXCEPT ![c] = to]
          /\ UNCHANGED <<state, timeoutExpired, shielded>>
    BY <1>2 DEF ReportFailure, ReportSuccess
  <2> QED
    BY <2>1, ShieldFrame DEF Threads
<1>3. ASSUME NEW t \in Threads, ThreadStep(t)
      PROVE  ShieldInv'
  <2> DEFINE Frame == UNCHANGED <<state, timeoutExpired, shielded>>
             Step(to) == pc' = [pc EXCEPT ![t] = to]
  <2>1. CASE ReadIsClosed(t) \/ ReadIsOpen(t) \/ ReadRecheckOpen(t) \/ ReadElapsed(t)
    <3>1. t \notin shielded \/ (state = "OPEN" /\ ~timeoutExpired)
      BY DEF ShieldInv
    <3>2. CASE t \notin shielded
      <4>1. PICK to : Step(to) /\ Frame
        BY <2>1 DEF ReadIsClosed, ReadIsOpen, ReadRecheckOpen, ReadElapsed
      <4>2. \A c \in shielded : pc'[c] = pc[c]
        BY <3>2, <4>1 DEF TypeOK, Threads
      <4> QED
        BY <4>1, <4>2 DEF ShieldInv
    <3>3. CASE state = "OPEN" /\ ~timeoutExpired
      <4>1. \E to \in {"isOpen", "recheckOpen", "elapsed", "idle"} : Step(to) /\ Frame
        BY <2>1, <3>3 DEF ReadIsClosed, ReadIsOpen, ReadRecheckOpen, ReadElapsed, Denied
      <4> QED
        BY <4>1, ShieldFrame
    <3> QED
      BY <3>1, <3>2, <3>3
  <2>2. CASE ReadIsHalfOpen(t) \/ TakeSlot(t)
    <3>1. pc[t] \in LetThrough
      BY <2>2 DEF ReadIsHalfOpen, TakeSlot
    <3>2. \E to : Step(to) /\ Frame
      BY <2>2 DEF ReadIsHalfOpen, TakeSlot
    <3> QED
      BY <3>1, <3>2, ShieldFrame
  <2>3. CASE \/ CountFailure(t) \/ EvaluateOpen(t) \/ ReadFailuresReached(t)
             \/ CountSuccess(t) \/ EvaluateClose(t) \/ ReadStillHalfOpen(t)
             \/ ReadSuccessesReached(t) \/ ReadFailedMeanwhile(t)
    <3>1. \E to \in FailureSteps \union SuccessSteps \union {"idle"} : Step(to) /\ Frame
      BY <2>3 DEF CountFailure, EvaluateOpen, ReadFailuresReached, CountSuccess,
                  EvaluateClose, ReadStillHalfOpen, ReadSuccessesReached,
                  ReadFailedMeanwhile, FailureSteps, SuccessSteps
    <3> QED
      BY <3>1, ShieldFrame DEF FailureSteps, SuccessSteps
  <2>4. CASE TransitionToOpen(t)
    <3>1. Step("emit") /\ state' = "OPEN" /\ ~timeoutExpired' /\ shielded' = shielded
      BY <2>4 DEF TransitionToOpen
    <3>2. \A c \in shielded : pc'[c] = IF c = t THEN "emit" ELSE pc[c]
      BY <3>1 DEF TypeOK, Threads
    <3> QED
      BY <3>1, <3>2 DEF ShieldInv
  <2>5. CASE TransitionToHalfOpen(t) \/ TransitionToClosed(t)
    <3>1. shielded' = {}
      BY <2>5 DEF TransitionToHalfOpen, TransitionToClosed
    <3> QED
      BY <3>1 DEF ShieldInv
  <2>6. CASE EmitStateChange(t)
    <3>1. Frame /\ (Step("publish") \/ (Step("publishProbe") /\ pc[t] = "emitProbe"))
      BY <2>6 DEF EmitStateChange
    <3> QED
      BY <3>1, ShieldFrame
  <2>7. CASE OnStateChange(t)
    <3>1. Frame /\ (Step("idle") \/ (Step(Allowed(t)) /\ pc[t] = "publishProbe"))
      BY <2>7 DEF OnStateChange
    <3> QED
      BY <3>1, ShieldFrame
  <2> QED
    BY <1>3, <2>1, <2>2, <2>3, <2>4, <2>5, <2>6, <2>7 DEF ThreadStep
<1>4. CASE CheckOpenCircuits
  BY <1>4, ShieldFrame DEF CheckOpenCircuits, Threads
<1>5. CASE TimeoutExpires \/ Restart
  <2>1. shielded' = {}
    BY <1>5 DEF TimeoutExpires, Restart
  <2> QED
    BY <2>1 DEF ShieldInv
<1>6. CASE ServiceChanges \/ UNCHANGED vars
  <2>1. UNCHANGED <<state, timeoutExpired, pc, shielded>>
    BY <1>6 DEF ServiceChanges, vars
  <2> QED
    BY <2>1 DEF ShieldInv
<1> QED
  BY <1>1, <1>2, <1>3, <1>4, <1>5, <1>6 DEF Next, ClientCall

(* A check that meets nothing but an OPEN circuit in its timeout is denied,*)
(* for any number of clients and any interleaving.                         *)
THEOREM ShieldsHold == Spec => []OpenShields
<1>1. Init => TypeOK /\ ShieldInv
  BY DEF Init, TypeOK, ShieldInv, Steps, Resting, States
<1>2. ShieldInv => OpenShields
  BY DEF ShieldInv, OpenShields, LetThrough
<1> QED
  BY <1>1, <1>2, TypeStep, ShieldStep, PTL DEF Spec

-----------------------------------------------------------------------------
(* The slots handed out are those of the present count and, for each       *)
(* thread that set the count back to 1, at most HalfOpenMax earlier ones;  *)
(* a thread does so once per opening, because it must first have read an   *)
(* OPEN circuit, which has no winners yet.                                 *)
Claiming == {"recheckOpen", "elapsed", "toHalfOpen"}

BurstInv ==
  /\ halfOpenRequests <= HalfOpenMax
  /\ state = "OPEN" => winners = {}
  /\ \A t \in winners : pc[t] \notin Claiming
  /\ probes <= HalfOpenMax * Cardinality(winners) + halfOpenRequests

LEMMA WinnersFinite ==
  ASSUME TypeOK
  PROVE  /\ IsFiniteSet(winners)
         /\ Cardinality(winners) \in Nat
         /\ Cardinality(winners) <= Cardinality(Threads)
<1>1. winners \subseteq Threads
  BY DEF TypeOK
<1> QED
  BY <1>1, ThreadsFinite, FS_Subset, FS_CardinalityType

LEMMA BurstFrame ==
  ASSUME TypeOK, BurstInv,
         NEW t \in Threads, NEW to,
         pc' = [pc EXCEPT ![t] = to],
         to \in Claiming => t \notin winners,
         UNCHANGED <<state, halfOpenRequests, probes, winners>>
  PROVE  BurstInv'
<1>1. ASSUME NEW u \in winners
      PROVE  pc'[u] \notin Claiming
  <2>1. u \in Threads /\ pc'[u] = IF u = t THEN to ELSE pc[u]
    BY DEF TypeOK
  <2> QED
    BY <2>1 DEF BurstInv
<1> QED
  BY <1>1 DEF BurstInv, Claiming

LEMMA BurstStep == TypeOK /\ BurstInv /\ [Next]_vars => BurstInv'
<1> SUFFICES ASSUME TypeOK, BurstInv, [Next]_vars
             PROVE  BurstInv'
  OBVIOUS
<1> USE DEF circuit, events, history, Goto, Call, Read
<1> DEFINE Frame == UNCHANGED <<state, halfOpenRequests, probes, winners>>
           Step(t, to) == pc' = [pc EXCEPT ![t] = to]
<1>0. /\ halfOpenRequests \in Nat /\ probes \in Nat
      /\ HalfOpenMax \in Nat \ {0}
      /\ Cardinality(winners) \in Nat
      /\ HalfOpenMax * Cardinality(winners) \in Nat
  BY ThresholdsAssumption, WinnersFinite DEF TypeOK
<1>1. ASSUME NEW c \in Clients, ClientCall(c)
      PROVE  BurstInv'
  <2>1. Frame /\ \E to \in {"isClosed", "countFailure", "countSuccess"} : Step(c, to)
    BY <1>1 DEF ClientCall, Check, ReportFailure, ReportSuccess
  <2> QED
    BY <2>1, BurstFrame DEF Threads, Claiming
<1>2. ASSUME NEW t \in Threads, ThreadStep(t)
      PROVE  BurstInv'
  <2>1. CASE ReadIsOpen(t)
    <3>1. Frame /\ (Step(t, "isHalfOpen") \/ (Step(t, "recheckOpen") /\ state = "OPEN"))
      BY <2>1 DEF ReadIsOpen
    <3> QED
      BY <3>1, BurstFrame DEF BurstInv, Claiming
  <2>2. CASE ReadRecheckOpen(t) \/ ReadElapsed(t)
    <3>1. t \notin winners
      BY <2>2 DEF BurstInv, Claiming, ReadRecheckOpen, ReadElapsed
    <3>2. Frame /\ \E to : Step(t, to)
      BY <2>2 DEF ReadRecheckOpen, ReadElapsed
    <3> QED
      BY <3>1, <3>2, BurstFrame
  <2>3. CASE TakeSlot(t)
    <3>1. CASE halfOpenRequests < HalfOpenMax
      <4>1. /\ halfOpenRequests' = halfOpenRequests + 1
            /\ probes' = probes + 1
            /\ Step(t, Allowed(t))
            /\ UNCHANGED <<state, winners>>
        BY <2>3, <3>1, <1>0 DEF TakeSlot
      <4>2. \A u \in winners : pc'[u] = IF u = t THEN Allowed(t) ELSE pc[u]
        BY <4>1 DEF TypeOK
      <4>3. \A u \in winners : pc'[u] \notin Claiming
        BY <4>2 DEF BurstInv, Claiming, Allowed
      <4>4. probes + 1 <= HalfOpenMax * Cardinality(winners) + (halfOpenRequests + 1)
        BY <1>0 DEF BurstInv
      <4>5. halfOpenRequests + 1 <= HalfOpenMax
        BY <3>1, <1>0
      <4> QED
        BY <4>1, <4>3, <4>4, <4>5 DEF BurstInv
    <3>2. CASE ~(halfOpenRequests < HalfOpenMax)
      <4>1. Frame /\ Step(t, Denied)
        BY <2>3, <3>2 DEF TakeSlot
      <4> QED
        BY <4>1, BurstFrame DEF Denied, Claiming
    <3> QED
      BY <3>1, <3>2
  <2>4. CASE \/ ReadIsClosed(t) \/ ReadIsHalfOpen(t)
             \/ CountFailure(t) \/ EvaluateOpen(t) \/ ReadFailuresReached(t)
             \/ CountSuccess(t) \/ EvaluateClose(t) \/ ReadStillHalfOpen(t)
             \/ ReadSuccessesReached(t) \/ ReadFailedMeanwhile(t)
             \/ EmitStateChange(t) \/ OnStateChange(t)
    <3>1. Frame /\ \E to \in Steps \ Claiming : Step(t, to)
      BY <2>4 DEF ReadIsClosed, ReadIsHalfOpen, CountFailure, EvaluateOpen,
                  ReadFailuresReached, CountSuccess, EvaluateClose,
                  ReadStillHalfOpen, ReadSuccessesReached, ReadFailedMeanwhile,
                  EmitStateChange, OnStateChange, Allowed, Steps, Resting,
                  CheckSteps, FailureSteps, SuccessSteps, EmitSteps, Claiming
    <3> QED
      BY <3>1, BurstFrame
  <2>5. CASE TransitionToOpen(t)
    <3>1. winners' = {} /\ probes' = 0 /\ halfOpenRequests' = 0
      BY <2>5 DEF TransitionToOpen
    <3> QED
      BY <3>1, <1>0, FS_EmptySet DEF BurstInv
  <2>6. CASE TransitionToHalfOpen(t)
    <3>1. /\ state' = "HALF_OPEN" /\ halfOpenRequests' = 1
          /\ probes' = probes + 1 /\ winners' = winners \union {t}
          /\ pc[t] = "toHalfOpen" /\ Step(t, "emitProbe")
      BY <2>6 DEF TransitionToHalfOpen
    <3>2. t \notin winners
      BY <3>1 DEF BurstInv, Claiming
    <3>3. Cardinality(winners') = Cardinality(winners) + 1
      BY <3>1, <3>2, WinnersFinite, FS_AddElement
    <3>4. HalfOpenMax * Cardinality(winners') = HalfOpenMax * Cardinality(winners) + HalfOpenMax
      BY <3>3, <1>0
    <3>5. probes' <= HalfOpenMax * Cardinality(winners') + halfOpenRequests'
      BY <3>1, <3>4, <1>0 DEF BurstInv
    <3>6. \A u \in winners' : pc'[u] \notin Claiming
      <4>1. \A u \in winners' : pc'[u] = IF u = t THEN "emitProbe" ELSE pc[u]
        BY <3>1 DEF TypeOK
      <4> QED
        BY <4>1, <3>1 DEF BurstInv, Claiming
    <3> QED
      BY <3>1, <3>5, <3>6, <1>0 DEF BurstInv
  <2>7. CASE TransitionToClosed(t)
    <3>1. /\ state' = "CLOSED" /\ halfOpenRequests' = 0 /\ probes' = 0
          /\ UNCHANGED winners /\ Step(t, "emit")
      BY <2>7 DEF TransitionToClosed
    <3>2. \A u \in winners : pc'[u] = IF u = t THEN "emit" ELSE pc[u]
      BY <3>1 DEF TypeOK
    <3> QED
      BY <3>1, <3>2, <1>0 DEF BurstInv, Claiming
  <2> QED
    BY <1>2, <2>1, <2>2, <2>3, <2>4, <2>5, <2>6, <2>7 DEF ThreadStep
<1>3. CASE CheckOpenCircuits
  BY <1>3, BurstFrame DEF CheckOpenCircuits, Threads, Claiming
<1>4. CASE Restart
  <2>1. winners' = {} /\ probes' = 0 /\ halfOpenRequests' = 0
    BY <1>4 DEF Restart
  <2> QED
    BY <2>1, <1>0, FS_EmptySet DEF BurstInv
<1>5. CASE TimeoutExpires \/ ServiceChanges \/ UNCHANGED vars
  <2>1. UNCHANGED <<state, halfOpenRequests, probes, winners, pc>>
    BY <1>5 DEF TimeoutExpires, ServiceChanges, vars
  <2> QED
    BY <2>1 DEF BurstInv
<1> QED
  BY <1>1, <1>2, <1>3, <1>4, <1>5 DEF Next

(* The count of probe slots stays within half_open_max_requests, and the   *)
(* probes of one recovery within the larger bound that racing transitions  *)
(* to HALF_OPEN leave.                                                     *)
LEMMA ProbesCounted == Spec => []SlotsWithinLimit /\ []ProbeBurstBound
<1>1. Init => TypeOK /\ BurstInv
  <2>1. Init => TypeOK
    BY DEF Init, TypeOK, Steps, Resting, States
  <2>2. Init => BurstInv
    BY ThresholdsAssumption, FS_EmptySet DEF Init, BurstInv
  <2> QED
    BY <2>1, <2>2
<1>2. TypeOK /\ BurstInv => SlotsWithinLimit /\ ProbeBurstBound
  <2> SUFFICES ASSUME TypeOK, BurstInv
               PROVE  SlotsWithinLimit /\ ProbeBurstBound
    OBVIOUS
  <2> DEFINE w == Cardinality(winners)
             n == Cardinality(Threads)
  <2>1. w \in Nat /\ n \in Nat /\ w <= n /\ HalfOpenMax \in Nat
    BY WinnersFinite, ThreadsFinite, ThresholdsAssumption
  <2>2. /\ halfOpenRequests \in Nat /\ probes \in Nat
        /\ halfOpenRequests <= HalfOpenMax
        /\ probes <= HalfOpenMax * w + halfOpenRequests
    BY DEF TypeOK, BurstInv
  <2>3. HalfOpenMax * w <= HalfOpenMax * n
    <3> HIDE DEF w, n
    <3> QED
      BY <2>1
  <2>4. HalfOpenMax * (n + 1) = HalfOpenMax * n + HalfOpenMax
    <3> HIDE DEF w, n
    <3> QED
      BY <2>1
  <2>5. HalfOpenMax * w \in Nat /\ HalfOpenMax * n \in Nat
    <3> HIDE DEF w, n
    <3> QED
      BY <2>1
  <2> QED
    BY <2>1, <2>2, <2>3, <2>4, <2>5 DEF SlotsWithinLimit, ProbeBurstBound
<1> QED
  BY <1>1, <1>2, TypeStep, BurstStep, PTL DEF Spec

(* One recovery admits at most half_open_max_requests probes for each      *)
(* thread, and once more.                                                  *)
THEOREM ProbeBurst == Spec => []ProbeBurstBound
  BY ProbesCounted, PTL

(* half_open_requests never exceeds half_open_max_requests.                *)
THEOREM SlotsBounded == Spec => []SlotsWithinLimit
  BY ProbesCounted, PTL

-----------------------------------------------------------------------------
(* When calls do not overlap, what a thread has read is still so when it   *)
(* acts on it.                                                             *)
Knows(t) ==
  /\ pc[t] = "isOpen" => state # "CLOSED"
  /\ pc[t] \in {"recheckOpen", "elapsed"} => state = "OPEN"
  /\ pc[t] = "toHalfOpen" => state = "OPEN" /\ timeoutExpired
  /\ pc[t] \in {"isHalfOpen", "takeSlot", "stillHalfOpen", "successesReached",
                "failedMeanwhile"} => state = "HALF_OPEN"
  /\ pc[t] = "failuresReached" => state = "CLOSED"
  /\ pc[t] = "toOpen" =>
       \/ state = "CLOSED" /\ consecutiveFailures >= FailureThreshold
       \/ state = "HALF_OPEN" /\ consecutiveFailures > 0
  /\ pc[t] = "toClosed" =>
       state = "HALF_OPEN" /\ consecutiveSuccesses >= SuccessThreshold

SerialInv ==
  /\ \A t, u \in Threads : pc[t] \in Resting \/ pc[u] \in Resting \/ t = u
  /\ \A t \in Threads : Knows(t)

LEMMA SerialStep ==
  ASSUME Serial
  PROVE  TypeOK /\ SerialInv /\ [Next]_vars => SerialInv'
<1> SUFFICES ASSUME TypeOK, SerialInv, [Next]_vars
             PROVE  SerialInv'
  OBVIOUS
<1> USE DEF circuit, events, history, Goto, Call, Read
<1>1. ASSUME NEW t \in Threads, NEW to,
             pc' = [pc EXCEPT ![t] = to],
             \A u \in Threads \ {t} : pc[u] \in Resting,
             Knows(t)'
      PROVE  SerialInv'
  <2>1. pc'[t] = to /\ \A u \in Threads \ {t} : pc'[u] \in Resting
    BY <1>1 DEF TypeOK
  <2>2. \A u \in Threads \ {t} : Knows(u)'
    BY <2>1 DEF Knows, Resting
  <2> QED
    BY <1>1, <2>1, <2>2 DEF SerialInv
<1>2. ASSUME NEW t \in Threads, NEW to \in {"isClosed", "countFailure", "countSuccess"},
             Call(t, pc[t], to)
      PROVE  SerialInv'
  <2>1. pc' = [pc EXCEPT ![t] = to] /\ \A u \in Threads : pc[u] \in Resting
    BY <1>2
  <2>2. pc'[t] = to
    BY <2>1 DEF TypeOK
  <2>3. Knows(t)'
    BY <2>2 DEF Knows
  <2> QED
    BY <1>1, <2>1, <2>3
<1>3. ASSUME NEW c \in Clients, ClientCall(c)
      PROVE  SerialInv'
  <2>1. \E to \in {"isClosed", "countFailure", "countSuccess"} : Call(c, pc[c], to)
    BY <1>3 DEF ClientCall, Check, ReportFailure, ReportSuccess
  <2> QED
    BY <2>1, <1>2 DEF Threads
<1>4. ASSUME NEW t \in Threads, ThreadStep(t)
      PROVE  SerialInv'
  <2>1. pc[t] \notin Resting
    BY <1>4 DEF ThreadStep, Resting, ReadIsClosed, ReadIsOpen, ReadRecheckOpen,
         ReadElapsed, ReadIsHalfOpen, TakeSlot, CountFailure, EvaluateOpen,
         ReadFailuresReached, CountSuccess, EvaluateClose, ReadStillHalfOpen,
         ReadSuccessesReached, ReadFailedMeanwhile, TransitionToOpen,
         TransitionToHalfOpen, TransitionToClosed, EmitStateChange, OnStateChange
  <2>2. \A u \in Threads \ {t} : pc[u] \in Resting
    BY <2>1 DEF SerialInv
  <2>3. Knows(t) /\ state \in States
    BY DEF SerialInv, TypeOK
  <2>4. ASSUME NEW to, pc' = [pc EXCEPT ![t] = to]
        PROVE  pc'[t] = to
    BY <2>4 DEF TypeOK
  <2>5. (\E to : pc' = [pc EXCEPT ![t] = to]) /\ Knows(t)'
    <3>1. CASE ReadIsClosed(t)
      BY <3>1, <2>3, <2>4 DEF ReadIsClosed, Knows, Allowed
    <3>2. CASE ReadIsOpen(t)
      BY <3>2, <2>3, <2>4 DEF ReadIsOpen, Knows, States
    <3>3. CASE ReadRecheckOpen(t) \/ ReadElapsed(t)
      BY <3>3, <2>3, <2>4 DEF ReadRecheckOpen, ReadElapsed, Knows, Denied
    <3>4. CASE ReadIsHalfOpen(t)
      BY <3>4, <2>3, <2>4 DEF ReadIsHalfOpen, Knows, Allowed
    <3>5. CASE TakeSlot(t)
      BY <3>5, <2>3, <2>4 DEF TakeSlot, Knows, Allowed, Denied
    <3>6. CASE CountFailure(t) \/ EvaluateOpen(t)
      BY <3>6, <2>3, <2>4 DEF CountFailure, EvaluateOpen, Knows
    <3>7. CASE ReadFailuresReached(t)
      BY <3>7, <2>3, <2>4 DEF ReadFailuresReached, Knows
    <3>8. CASE CountSuccess(t) \/ EvaluateClose(t) \/ ReadStillHalfOpen(t)
      BY <3>8, <2>3, <2>4 DEF CountSuccess, EvaluateClose, ReadStillHalfOpen, Knows
    <3>9. CASE ReadSuccessesReached(t) \/ ReadFailedMeanwhile(t)
      BY <3>9, <2>3, <2>4 DEF ReadSuccessesReached, ReadFailedMeanwhile, Knows
    <3>10. CASE TransitionToOpen(t) \/ TransitionToHalfOpen(t) \/ TransitionToClosed(t)
      BY <3>10, <2>4 DEF TransitionToOpen, TransitionToHalfOpen, TransitionToClosed, Knows
    <3>11. CASE EmitStateChange(t) \/ OnStateChange(t)
      BY <3>11, <2>4 DEF EmitStateChange, OnStateChange, Knows, Allowed
    <3> QED
      BY <1>4, <3>1, <3>2, <3>3, <3>4, <3>5, <3>6, <3>7, <3>8, <3>9, <3>10, <3>11
         DEF ThreadStep
  <2> QED
    BY <1>1, <2>2, <2>5
<1>5. CASE CheckOpenCircuits
  <2>1. Call(Monitor, pc[Monitor], "isClosed")
    BY <1>5 DEF CheckOpenCircuits
  <2> QED
    BY <2>1, <1>2 DEF Threads
<1>6. CASE Restart
  <2>1. \A t \in Threads : pc'[t] \in Resting
    BY <1>6 DEF Restart, Resting
  <2> QED
    BY <2>1 DEF SerialInv, Knows, Resting
<1>7. CASE TimeoutExpires
  <2>1. /\ UNCHANGED <<state, consecutiveFailures, consecutiveSuccesses, pc>>
        /\ timeoutExpired'
    BY <1>7 DEF TimeoutExpires
  <2> QED
    BY <2>1 DEF SerialInv, Knows
<1>8. CASE ServiceChanges \/ UNCHANGED vars
  <2>1. UNCHANGED <<state, consecutiveFailures, consecutiveSuccesses, timeoutExpired, pc>>
    BY <1>8 DEF ServiceChanges, vars
  <2> QED
    BY <2>1 DEF SerialInv, Knows
<1> QED
  BY <1>3, <1>4, <1>5, <1>6, <1>7, <1>8 DEF Next

LEMMA ContractStep == TypeOK /\ SerialInv /\ [Next]_vars => [Contract!Next]_(Contract!vars)
<1> SUFFICES ASSUME TypeOK, SerialInv, [Next]_vars
             PROVE  Contract!Next \/ UNCHANGED circuit
  BY DEF Contract!vars, circuit
<1> USE DEF circuit, events, history, Goto, Call, Read
<1>1. ASSUME NEW t \in Threads, ThreadStep(t)
      PROVE  Contract!Next \/ UNCHANGED circuit
  <2>1. Knows(t)
    BY DEF SerialInv
  <2>2. CASE TakeSlot(t)
    <3>1. UNCHANGED circuit \/ Contract!Probe
      BY <2>1, <2>2 DEF TakeSlot, Knows, Contract!Probe
    <3> QED
      BY <3>1 DEF Contract!Next
  <2>3. CASE CountFailure(t)
    <3>1. Contract!Failure
      BY <2>3 DEF CountFailure, Contract!Failure
    <3> QED
      BY <3>1 DEF Contract!Next
  <2>4. CASE CountSuccess(t)
    <3>1. Contract!Success
      BY <2>4 DEF CountSuccess, Contract!Success
    <3> QED
      BY <3>1 DEF Contract!Next
  <2>5. CASE TransitionToOpen(t)
    <3>1. Contract!Open
      BY <2>1, <2>5 DEF TransitionToOpen, Knows, Contract!Open
    <3> QED
      BY <3>1 DEF Contract!Next
  <2>6. CASE TransitionToHalfOpen(t)
    <3>1. Contract!HalfOpen
      BY <2>1, <2>6 DEF TransitionToHalfOpen, Knows, Contract!HalfOpen
    <3> QED
      BY <3>1 DEF Contract!Next
  <2>7. CASE TransitionToClosed(t)
    <3>1. Contract!Close
      BY <2>1, <2>7 DEF TransitionToClosed, Knows, Contract!Close
    <3> QED
      BY <3>1 DEF Contract!Next
  <2>8. CASE \/ ReadIsClosed(t) \/ ReadIsOpen(t) \/ ReadRecheckOpen(t)
             \/ ReadElapsed(t) \/ ReadIsHalfOpen(t) \/ EvaluateOpen(t)
             \/ ReadFailuresReached(t) \/ EvaluateClose(t) \/ ReadStillHalfOpen(t)
             \/ ReadSuccessesReached(t) \/ ReadFailedMeanwhile(t)
             \/ EmitStateChange(t) \/ OnStateChange(t)
    BY <2>8 DEF ReadIsClosed, ReadIsOpen, ReadRecheckOpen, ReadElapsed,
         ReadIsHalfOpen, EvaluateOpen, ReadFailuresReached, EvaluateClose,
         ReadStillHalfOpen, ReadSuccessesReached, ReadFailedMeanwhile,
         EmitStateChange, OnStateChange
  <2> QED
    BY <1>1, <2>2, <2>3, <2>4, <2>5, <2>6, <2>7, <2>8 DEF ThreadStep
<1>2. CASE \/ \E c \in Clients : ClientCall(c)
           \/ CheckOpenCircuits \/ ServiceChanges \/ UNCHANGED vars
  BY <1>2 DEF ClientCall, Check, ReportFailure, ReportSuccess, CheckOpenCircuits,
              ServiceChanges, vars
<1>3. CASE TimeoutExpires
  <2>1. Contract!Expire
    BY <1>3 DEF TimeoutExpires, Contract!Expire
  <2> QED
    BY <2>1 DEF Contract!Next
<1>4. CASE Restart
  <2>1. Contract!Forget
    BY <1>4 DEF Restart, Contract!Forget
  <2> QED
    BY <2>1 DEF Contract!Next
<1> QED
  BY <1>1, <1>2, <1>3, <1>4 DEF Next

(* When its calls do not overlap the circuit breaker implements the        *)
(* documented state machine: every transition happens while its condition  *)
(* holds.                                                                  *)
THEOREM SerialImplements ==
  ASSUME Serial
  PROVE  Spec => ContractSpec
<1>1. Init => TypeOK /\ SerialInv /\ Contract!Init
  BY DEF Init, TypeOK, SerialInv, Knows, Steps, Resting, States, Contract!Init
<1>2. TypeOK /\ SerialInv /\ [Next]_vars => SerialInv'
  BY SerialStep
<1> QED
  BY <1>1, <1>2, TypeStep, ContractStep, PTL DEF Spec, ContractSpec, Contract!Spec

-----------------------------------------------------------------------------
(* What the subscribers know, with any overlaps, losses and restarts.      *)

(* An event not yet published tells the state, or is marked as overtaken.  *)
ViewInv == \A t \in Publishing : seen[t] = state \/ t \in overtaken

(* Between events, a step of thread t that leaves the state alone.         *)
LEMMA ViewFrame ==
  ASSUME TypeOK, ViewInv,
         NEW t \in Threads, NEW to,
         pc' = [pc EXCEPT ![t] = to],
         to \notin {"publish", "publishProbe"},
         pc[t] \in EmitSteps => to \in EmitSteps,
         UNCHANGED <<state, events>>
  PROVE  ViewInv' /\ (Followed => Followed')
<1>1. \A u \in Threads : pc'[u] = IF u = t THEN to ELSE pc[u]
  BY DEF TypeOK
<1> QED
  BY <1>1 DEF ViewInv, Publishing, Followed, events

(* A transition marks every event under way and starts one of its own.     *)
LEMMA ViewTransition ==
  ASSUME TypeOK, NEW t \in Threads,
         TransitionToOpen(t) \/ TransitionToHalfOpen(t) \/ TransitionToClosed(t)
  PROVE  ViewInv' /\ Followed'
<1>1. PICK to \in {"emit", "emitProbe"} :
        pc' = [pc EXCEPT ![t] = to] /\ overtaken' = overtaken \union Publishing
  BY DEF TransitionToOpen, TransitionToHalfOpen, TransitionToClosed, Goto
<1>2. \A u \in Threads : pc'[u] = IF u = t THEN to ELSE pc[u]
  BY <1>1 DEF TypeOK
<1> QED
  BY <1>1, <1>2 DEF ViewInv, Publishing, Followed, EmitSteps

LEMMA ViewStep ==
  TypeOK /\ ViewInv /\ [Next]_vars =>
    /\ ViewInv'
    /\ Followed => \/ Followed'
                   \/ Restart
                   \/ \E t \in Publishing : t \in overtaken \/ notified' # seen[t]
<1> DEFINE Kept == \/ Followed'
                   \/ Restart
                   \/ \E t \in Publishing : t \in overtaken \/ notified' # seen[t]
<1> SUFFICES ASSUME TypeOK, ViewInv, [Next]_vars
             PROVE  ViewInv' /\ (Followed => Kept)
  OBVIOUS
<1> USE DEF circuit, history, Goto, Call, Read
<1>1. ASSUME NEW c \in Clients, ClientCall(c)
      PROVE  ViewInv' /\ (Followed => Kept)
  <2>1. /\ \E to \in {"isClosed", "countFailure", "countSuccess"} : pc' = [pc EXCEPT ![c] = to]
        /\ pc[c] \notin EmitSteps
        /\ UNCHANGED <<state, events>>
    BY <1>1 DEF ClientCall, Check, ReportFailure, ReportSuccess, MayReport, EmitSteps
  <2> QED
    BY <2>1, ViewFrame DEF Threads
<1>2. ASSUME NEW t \in Threads, ThreadStep(t)
      PROVE  ViewInv' /\ (Followed => Kept)
  <2>1. CASE TransitionToOpen(t) \/ TransitionToHalfOpen(t) \/ TransitionToClosed(t)
    BY <2>1, ViewTransition
  <2>2. CASE EmitStateChange(t)
    <3>1. PICK to \in {"publish", "publishProbe"} : pc' = [pc EXCEPT ![t] = to]
      BY <2>2 DEF EmitStateChange
    <3>2. \A u \in Threads : /\ pc'[u] = IF u = t THEN to ELSE pc[u]
                             /\ seen'[u] = IF u = t THEN state ELSE seen[u]
      BY <2>2, <3>1 DEF EmitStateChange, TypeOK
    <3>3. UNCHANGED <<state, overtaken>>
      BY <2>2 DEF EmitStateChange
    <3> QED
      BY <3>1, <3>2, <3>3 DEF ViewInv, Publishing, Followed, EmitSteps
  <2>3. CASE OnStateChange(t)
    <3>1. /\ t \in Publishing
          /\ pc' = [pc EXCEPT ![t] = "idle"] \/ pc' = [pc EXCEPT ![t] = Allowed(t)]
          /\ seen' = [seen EXCEPT ![t] = "CLOSED"]
          /\ overtaken' = overtaken \ {t}
          /\ UNCHANGED state
      BY <2>3 DEF OnStateChange, Publishing
    <3>2. \A u \in Threads : u # t => pc'[u] = pc[u] /\ seen'[u] = seen[u]
      BY <3>1 DEF TypeOK
    <3>3. pc'[t] \in Resting
      BY <3>1 DEF TypeOK, Allowed, Resting
    <3>4. ViewInv'
      BY <3>1, <3>2, <3>3 DEF ViewInv, Publishing, Resting
    <3>5. Kept
      BY <3>1 DEF ViewInv, Followed
    <3> QED
      BY <3>4, <3>5
  <2>4. CASE \/ ReadIsClosed(t) \/ ReadIsOpen(t) \/ ReadRecheckOpen(t) \/ ReadElapsed(t)
             \/ ReadIsHalfOpen(t) \/ TakeSlot(t)
             \/ CountFailure(t) \/ EvaluateOpen(t) \/ ReadFailuresReached(t)
             \/ CountSuccess(t) \/ EvaluateClose(t) \/ ReadStillHalfOpen(t)
             \/ ReadSuccessesReached(t) \/ ReadFailedMeanwhile(t)
    <3>1. /\ UNCHANGED <<state, events>>
          /\ pc[t] \notin EmitSteps
          /\ \E to \in Steps \ EmitSteps : pc' = [pc EXCEPT ![t] = to]
      BY <2>4 DEF ReadIsClosed, ReadIsOpen, ReadRecheckOpen, ReadElapsed, ReadIsHalfOpen,
           TakeSlot, CountFailure, EvaluateOpen, ReadFailuresReached, CountSuccess,
           EvaluateClose, ReadStillHalfOpen, ReadSuccessesReached, ReadFailedMeanwhile,
           Allowed, Denied, Steps, Resting, CheckSteps, FailureSteps, SuccessSteps, EmitSteps
    <3> QED
      BY <3>1, ViewFrame DEF EmitSteps
  <2> QED
    BY <1>2, <2>1, <2>2, <2>3, <2>4 DEF ThreadStep
<1>3. CASE CheckOpenCircuits
  <2>1. /\ pc[Monitor] \notin EmitSteps
        /\ pc' = [pc EXCEPT ![Monitor] = "isClosed"]
        /\ UNCHANGED <<state, events>>
    BY <1>3 DEF CheckOpenCircuits, EmitSteps
  <2>2. Monitor \in Threads
    BY DEF Threads
  <2>3. ViewInv' /\ (Followed => Followed')
    BY <2>1, <2>2, ViewFrame
  <2> QED
    BY <2>3
<1>4. CASE TimeoutExpires \/ ServiceChanges \/ UNCHANGED vars
  <2>1. UNCHANGED <<state, pc, seen, notified, overtaken>>
    BY <1>4 DEF TimeoutExpires, ServiceChanges, vars, events
  <2> QED
    BY <2>1 DEF ViewInv, Followed, Publishing
<1>5. CASE Restart
  BY <1>5 DEF Restart, ViewInv, Publishing
<1> QED
  BY <1>1, <1>2, <1>3, <1>4, <1>5 DEF Next

(* Whoever follows the events loses the state of the circuit only by a     *)
(* restart, a failed publication or the publication of an event that a     *)
(* later transition has overtaken, for any number of threads.              *)
THEOREM ViewKeptHolds == Spec => ViewKept
<1>1. Init => TypeOK /\ ViewInv
  BY DEF Init, TypeOK, Steps, Resting, States, ViewInv, Publishing
<1> QED
  BY <1>1, TypeStep, ViewStep, PTL DEF Spec, ViewKept
=============================================================================
