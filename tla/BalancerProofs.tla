---------------------------- MODULE BalancerProofs ----------------------------
(***************************************************************************)
(* Proofs about LoadBalancer: its types, what a choice by two reads is     *)
(* worth, and that it keeps the promise of Forwarding.                     *)
(***************************************************************************)
EXTENDS LoadBalancer, TLAPS

-----------------------------------------------------------------------------
(* The inductive invariant.                                                *)

(* A request that has not been chosen for has not been sent or answered.   *)
Untouched ==
  \A r \in Requests : pc[r] \in Choosing \union {"idle"} =>
    tries[r] = 0 /\ answer[r] = "none"

(* What a request that is choosing has seen is still so.                   *)
ViewsHold ==
  \A r \in Requests :
    /\ view[r] = "unusable" /\ pc[r] \in Choosing => status \notin Usable
    /\ view[r] = "usable" /\ pc[r] = "choose" => status \in Usable
    /\ view[r] = "usable" /\ pc[r] = "fallback" => status = "degraded"

IInv == TypeOK /\ Untouched /\ ViewsHold /\ UnusableShields /\ UsableServes

LEMMA InitInv == Init => IInv
  BY RetriesAssumption, ThresholdAssumption, RestartsAssumption
  DEF Init, IInv, TypeOK, Untouched, ViewsHold, UnusableShields, UsableServes,
      Choosing, Usable

(* The counts that the steps raise stay in their ranges.                   *)
LEMMA RaisedType == TypeOK => Raised \in 0..(Threshold + 1)
  BY ThresholdAssumption DEF TypeOK, Raised

LEMMA JudgedType == Judged \in {"healthy", "degraded", "unhealthy"}
  BY DEF Judged

-----------------------------------------------------------------------------
LEMMA TypeStep == TypeOK /\ Untouched /\ [Next]_vars => TypeOK'
<1> SUFFICES ASSUME TypeOK, Untouched, [Next]_vars
             PROVE  TypeOK'
  OBVIOUS
<1> USE RetriesAssumption, ThresholdAssumption, RestartsAssumption
    DEF TypeOK, health, thread, environment
<1>1. ASSUME NEW r \in Requests, RequestStep(r)
      PROVE  TypeOK'
  <2>1. CASE SelectInstance(r)
    BY <2>1 DEF SelectInstance, Goto, Untouched, Choosing
  <2>2. CASE SelectDegraded(r)
    BY <2>2 DEF SelectDegraded, Goto, Respond, Untouched, Choosing
  <2>3. CASE Send(r)
    BY <2>3 DEF Send, Goto
  <2>4. CASE AttemptFails(r)
    BY <2>4, RaisedType DEF AttemptFails, Goto, Respond, Attempting, RecordRequest
  <2>5. ASSUME NEW a \in Replies, Answered(r, a)
        PROVE  TypeOK'
    BY <2>5 DEF Answered, Goto, Respond, RecordRequest
  <2> QED
    BY <1>1, <2>1, <2>2, <2>3, <2>4, <2>5 DEF RequestStep
<1>2. ASSUME NEW r \in Requests, Arrive(r) \/ Again(r)
      PROVE  TypeOK'
  BY <1>2 DEF Arrive, Again, Goto
<1>3. CASE Probe
  BY <1>3 DEF Probe
<1>4. CASE UpdateHealth
  <2>1. Raised \in 0..(Threshold + 1) /\ Judged \in {"healthy", "degraded", "unhealthy"}
    BY RaisedType, JudgedType
  <2> QED
    BY <1>4, <2>1 DEF UpdateHealth
<1>5. CASE ServiceChanges
  BY <1>5 DEF ServiceChanges
<1>6. CASE Restart
  BY <1>6 DEF Restart
<1>7. CASE UNCHANGED vars
  BY <1>7 DEF vars
<1> QED
  BY <1>1, <1>2, <1>3, <1>4, <1>5, <1>6, <1>7 DEF Next

LEMMA UntouchedStep == TypeOK /\ Untouched /\ [Next]_vars => Untouched'
<1> SUFFICES ASSUME TypeOK, Untouched, [Next]_vars
             PROVE  Untouched'
  OBVIOUS
<1> USE DEF TypeOK, Untouched, Choosing
<1>1. ASSUME NEW r \in Requests, RequestStep(r)
      PROVE  Untouched'
  BY <1>1 DEF RequestStep, SelectInstance, SelectDegraded, Send, AttemptFails,
              Answered, Goto, Respond, Attempting, RecordRequest
<1>2. ASSUME NEW r \in Requests, Arrive(r) \/ Again(r)
      PROVE  Untouched'
  BY <1>2 DEF Arrive, Again, Goto
<1>3. CASE Probe \/ UpdateHealth \/ ServiceChanges \/ UNCHANGED vars
  <2>1. UNCHANGED <<pc, tries, answer>>
    BY <1>3 DEF Probe, UpdateHealth, ServiceChanges, vars, thread
  <2> QED
    BY <2>1
<1>4. CASE Restart
  BY <1>4 DEF Restart
<1> QED
  BY <1>1, <1>2, <1>3, <1>4 DEF Next

-----------------------------------------------------------------------------
(* A change of status spoils the views it contradicts.                     *)
LEMMA ViewsAfterUpdate == IInv /\ UpdateHealth => ViewsHold'
<1> SUFFICES ASSUME IInv, UpdateHealth, NEW r \in Requests
             PROVE  /\ view'[r] = "unusable" /\ pc'[r] \in Choosing => status' \notin Usable
                    /\ view'[r] = "usable" /\ pc'[r] = "choose" => status' \in Usable
                    /\ view'[r] = "usable" /\ pc'[r] = "fallback" => status' = "degraded"
  BY DEF ViewsHold
<1>1. /\ view'[r] = IF Spoiled(r) THEN "mixed" ELSE view[r]
      /\ pc' = pc /\ status' = Judged
  BY DEF UpdateHealth
<1>2. Judged \in {"healthy", "degraded", "unhealthy"}
  BY JudgedType
<1> HIDE DEF Judged
<1> QED
  BY <1>1, <1>2 DEF IInv, ViewsHold, Spoiled, Choosing, Usable

LEMMA ViewsStep ==
  IInv /\ [Next]_vars => ViewsHold' /\ UnusableShields' /\ UsableServes'
<1> SUFFICES ASSUME IInv, [Next]_vars
             PROVE  ViewsHold' /\ UnusableShields' /\ UsableServes'
  OBVIOUS
<1> DEFINE Views == ViewsHold /\ UnusableShields /\ UsableServes
<1> USE DEF IInv, TypeOK, ViewsHold, UnusableShields, UsableServes
<1>1. ASSUME NEW r \in Requests, RequestStep(r)
      PROVE  Views'
  <2>1. CASE SelectInstance(r)
    BY <2>1 DEF SelectInstance, Goto, Choosing, Usable, health, environment
  <2>2. CASE SelectDegraded(r)
    BY <2>2 DEF SelectDegraded, Goto, Respond, Choosing, Usable, health, environment
  <2>3. CASE Send(r)
    BY <2>3 DEF Send, Goto, Choosing, Usable, health, environment
  <2>4. CASE AttemptFails(r)
    BY <2>4 DEF AttemptFails, Goto, Respond, Attempting, Choosing, Usable, RecordRequest
  <2>5. ASSUME NEW a \in Replies, Answered(r, a)
        PROVE  Views'
    BY <2>5, RepliesAssumption DEF Answered, Goto, Respond, Choosing, Usable, RecordRequest
  <2> QED
    BY <1>1, <2>1, <2>2, <2>3, <2>4, <2>5 DEF RequestStep
<1>2. ASSUME NEW r \in Requests, Arrive(r) \/ Again(r)
      PROVE  Views'
  BY <1>2 DEF Arrive, Again, Goto, Untouched, Choosing, Usable, health, environment
<1>3. CASE Probe \/ ServiceChanges \/ UNCHANGED vars
  <2>1. UNCHANGED <<pc, status, view, answer>>
    BY <1>3 DEF Probe, ServiceChanges, vars, health, thread
  <2> QED
    BY <2>1
<1>4. CASE UpdateHealth
  <2>1. /\ pc' = pc /\ answer' = answer
        /\ \A r \in Requests : view'[r] \in {"mixed", view[r]}
    BY <1>4 DEF UpdateHealth
  <2>2. UnusableShields' /\ UsableServes'
    BY <2>1
  <2> QED
    BY <1>4, <2>2, ViewsAfterUpdate
<1>5. CASE Restart
  BY <1>5 DEF Restart, Choosing
<1> QED
  BY <1>1, <1>2, <1>3, <1>4, <1>5 DEF Next

LEMMA Invariance == Spec => []IInv
<1>1. IInv /\ [Next]_vars => IInv'
  BY TypeStep, UntouchedStep, ViewsStep DEF IInv
<1> QED
  BY <1>1, InitInv, PTL DEF Spec

-----------------------------------------------------------------------------
(* Every reachable state of the balancer is well typed: no request is sent *)
(* more than max_retries + 1 times.                                        *)
THEOREM TypeCorrect == Spec => []TypeOK
<1>1. IInv => TypeOK
  BY DEF IInv
<1> QED
  BY <1>1, Invariance, PTL

(* No request that met only an unusable instance while choosing is sent.   *)
THEOREM ShieldsHold == Spec => []UnusableShields
<1>1. IInv => UnusableShields
  BY DEF IInv
<1> QED
  BY <1>1, Invariance, PTL

(* No request that met a usable instance at both of its reads, without a   *)
(* recovery between them, is refused.                                      *)
THEOREM UsableIsServed == Spec => []UsableServes
<1>1. IInv => UsableServes
  BY DEF IInv
<1> QED
  BY <1>1, Invariance, PTL

-----------------------------------------------------------------------------
(* The refinement.                                                         *)

(* The place of a request as Forwarding sees it.                           *)
Seen(place) ==
  IF place \in {"idle", "fallback"} THEN "choose"
  ELSE IF place = "refused" THEN "wait" ELSE place

SeenPc == [r \in Requests |-> Seen(pc[r])]

LEMMA SeenGoto ==
  ASSUME TypeOK, NEW r \in Requests, NEW place, Goto(r, place)
  PROVE  SeenPc' = [SeenPc EXCEPT ![r] = Seen(place)]
<1>1. pc' = [pc EXCEPT ![r] = place]
  BY DEF Goto
<1>2. DOMAIN pc = Requests
  BY DEF TypeOK
<1> QED
  BY <1>1, <1>2 DEF SeenPc

LEMMA PromiseInit == Init => Promise!ForwardingInit
<1> SUFFICES ASSUME Init
             PROVE  Promise!ForwardingInit
  OBVIOUS
<1>1. SeenPc = [r \in Requests |-> "choose"]
  BY DEF Init, SeenPc, Seen
<1> QED
  BY <1>1 DEF Init, SeenPc, Seen, Promise!ForwardingInit

(* A step that leaves a request where Forwarding sees it is a stutter.     *)
LEMMA PromiseStutter ==
  ASSUME SeenPc' = SeenPc, UNCHANGED <<tries, answer>>
  PROVE  UNCHANGED Promise!forwarding
BY DEF SeenPc, Seen, Promise!forwarding

LEMMA PromiseStep == IInv /\ [Next]_vars => [Promise!ForwardingNext]_(Promise!forwarding)
<1> SUFFICES ASSUME IInv, [Next]_vars
             PROVE  Promise!ForwardingNext \/ UNCHANGED Promise!forwarding
  OBVIOUS
<1>0. TypeOK /\ Untouched
  BY DEF IInv
<1>1. ASSUME NEW r \in Requests, RequestStep(r)
      PROVE  Promise!ForwardingNext \/ UNCHANGED Promise!forwarding
  <2>1. CASE SelectInstance(r)
    <3>1. CASE status = "healthy"
      <4>1. SeenPc[r] = "choose" /\ SeenPc' = [SeenPc EXCEPT ![r] = "send"]
        BY <2>1, <3>1, <1>0, SeenGoto DEF SelectInstance, SeenPc, Seen
      <4>2. Promise!Accept(r)
        BY <2>1, <4>1 DEF SelectInstance, SeenPc, Seen, Promise!Accept, Promise!Goto
      <4> QED
        BY <4>2 DEF Promise!ForwardingNext
    <3>2. CASE status # "healthy"
      <4>1. SeenPc[r] = "choose" /\ SeenPc' = [SeenPc EXCEPT ![r] = "choose"]
        BY <2>1, <3>2, <1>0, SeenGoto DEF SelectInstance, SeenPc, Seen
      <4>2. SeenPc' = SeenPc
        BY <4>1 DEF SeenPc
      <4> QED
        BY <2>1, <4>2, PromiseStutter DEF SelectInstance
    <3> QED
      BY <3>1, <3>2
  <2>2. CASE SelectDegraded(r)
    <3>1. CASE status = "degraded"
      <4>1. SeenPc[r] = "choose" /\ SeenPc' = [SeenPc EXCEPT ![r] = "send"]
        BY <2>2, <3>1, <1>0, SeenGoto DEF SelectDegraded, SeenPc, Seen
      <4>2. Promise!Accept(r)
        BY <2>2, <3>1, <4>1 DEF SelectDegraded, SeenPc, Seen, Promise!Accept, Promise!Goto
      <4> QED
        BY <4>2 DEF Promise!ForwardingNext
    <3>2. CASE status # "degraded"
      <4>1. SeenPc[r] = "choose" /\ SeenPc' = [SeenPc EXCEPT ![r] = "done"]
        BY <2>2, <3>2, <1>0, SeenGoto DEF SelectDegraded, Respond, SeenPc, Seen
      <4>2. Promise!Refuse(r)
        BY <2>2, <3>2, <4>1 DEF SelectDegraded, Respond, SeenPc, Seen,
           Promise!Refuse, Promise!Respond, Promise!Goto
      <4> QED
        BY <4>2 DEF Promise!ForwardingNext
    <3> QED
      BY <3>1, <3>2
  <2>3. CASE Send(r)
    <3>1. SeenPc[r] = "send" /\ SeenPc' = [SeenPc EXCEPT ![r] = "wait"]
      BY <2>3, <1>0, SeenGoto DEF Send, SeenPc, Seen
    <3>2. Promise!Send(r)
      BY <2>3, <3>1 DEF Send, SeenPc, Seen, Promise!Send, Promise!Goto
    <3> QED
      BY <3>2 DEF Promise!ForwardingNext
  <2>4. CASE AttemptFails(r)
    <3>1. SeenPc[r] = "wait"
      BY <2>4 DEF AttemptFails, Attempting, SeenPc, Seen, RecordRequest
    <3>2. CASE tries[r] <= MaxRetries /\ Goto(r, "send") /\ UNCHANGED <<failures, answer>>
      <4>1. SeenPc' = [SeenPc EXCEPT ![r] = "send"]
        BY <3>2, <1>0, SeenGoto DEF Seen
      <4>2. Promise!Retry(r)
        BY <2>4, <3>1, <3>2, <4>1 DEF AttemptFails, SeenPc, Seen, Promise!Retry,
           Promise!Goto, RecordRequest
      <4> QED
        BY <4>2 DEF Promise!ForwardingNext
    <3>3. CASE tries[r] > MaxRetries /\ Respond(r, "502")
      <4>1. SeenPc' = [SeenPc EXCEPT ![r] = "done"]
        BY <3>3, <1>0, SeenGoto DEF Respond, Seen
      <4>2. Promise!GiveUp(r)
        BY <2>4, <3>1, <3>3, <4>1 DEF AttemptFails, Respond, SeenPc, Seen,
           Promise!GiveUp, Promise!Respond, Promise!Goto, RecordRequest
      <4> QED
        BY <4>2 DEF Promise!ForwardingNext
    <3> QED
      BY <2>4, <3>2, <3>3 DEF AttemptFails, RecordRequest
  <2>5. ASSUME NEW a \in Replies, Answered(r, a)
        PROVE  Promise!ForwardingNext \/ UNCHANGED Promise!forwarding
    <3>1. SeenPc[r] = "wait" /\ SeenPc' = [SeenPc EXCEPT ![r] = "done"]
      BY <2>5, <1>0, SeenGoto DEF Answered, Respond, SeenPc, Seen, RecordRequest
    <3>2. Promise!Answered(r, a)
      BY <2>5, <3>1 DEF Answered, Respond, SeenPc, Seen,
         Promise!Answered, Promise!Respond, Promise!Goto, RecordRequest
    <3> QED
      BY <3>2 DEF Promise!ForwardingNext
  <2> QED
    BY <1>1, <2>1, <2>2, <2>3, <2>4, <2>5 DEF RequestStep
<1>2. ASSUME NEW r \in Requests, Arrive(r)
      PROVE  UNCHANGED Promise!forwarding
  <2>1. SeenPc[r] = "choose" /\ SeenPc' = [SeenPc EXCEPT ![r] = "choose"]
    BY <1>2, <1>0, SeenGoto DEF Arrive, SeenPc, Seen
  <2>2. SeenPc' = SeenPc
    BY <2>1 DEF SeenPc
  <2> QED
    BY <1>2, <2>2, PromiseStutter DEF Arrive
<1>3. ASSUME NEW r \in Requests, Again(r)
      PROVE  Promise!ForwardingNext
  <2>1. SeenPc[r] = "done" /\ SeenPc' = [SeenPc EXCEPT ![r] = "choose"]
    BY <1>3, <1>0, SeenGoto DEF Again, SeenPc, Seen
  <2>2. Promise!Again(r)
    BY <1>3, <2>1 DEF Again, SeenPc, Seen, Promise!Again, Promise!Goto
  <2> QED
    BY <2>2 DEF Promise!ForwardingNext
<1>4. CASE Probe \/ UpdateHealth \/ ServiceChanges \/ UNCHANGED vars
  <2>1. UNCHANGED <<pc, tries, answer>>
    BY <1>4 DEF Probe, UpdateHealth, ServiceChanges, vars, thread
  <2>2. SeenPc' = SeenPc
    BY <2>1 DEF SeenPc
  <2> QED
    BY <2>1, <2>2, PromiseStutter
<1>5. CASE Restart
  <2>1. SeenPc' = [r \in Requests |-> "choose"]
    BY <1>5 DEF Restart, SeenPc, Seen
  <2>2. Promise!Restart
    BY <1>5, <2>1 DEF Restart, SeenPc, Seen, Promise!Restart, Promise!ForwardingInit
  <2> QED
    BY <2>2 DEF Promise!ForwardingNext
<1> QED
  BY <1>1, <1>2, <1>3, <1>4, <1>5 DEF Next

(* The balancer, with its health checks, its two reads and its restarts,   *)
(* does to a request only what Forwarding promises.                        *)
THEOREM KeepsPromise == Spec => ForwardingSpec
<1> QED
  BY PromiseInit, PromiseStep, Invariance, PTL
  DEF Spec, ForwardingSpec, Promise!ForwardingSpec

=============================================================================
