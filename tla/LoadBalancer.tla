---------------------------- MODULE LoadBalancer ----------------------------
(***************************************************************************)
(* The load balancer (infrastructure/load-balancer/src) for one service:   *)
(* services share nothing but the lock of the registry, and the            *)
(* configuration gives each of them one instance, which makes the three    *)
(* strategies choose alike.  Request threads choose the instance by its    *)
(* status in two reads without a common lock, send the request, and send   *)
(* it again when no answer comes; the health checker asks the instance     *)
(* and then, under the lock, changes the status.  Both write one count of  *)
(* consecutive failures.                                                   *)
(*                                                                         *)
(* The service is away, or ill (running, with its health check failing),   *)
(* or up.  What it accepted it may answer at any time, an answer that is   *)
(* on its way when it goes included.                                       *)
(***************************************************************************)
EXTENDS Traffic

CONSTANTS
  Threshold,     (* unhealthy_threshold                                    *)
  Replies,       (* what a service may answer; the balancer passes it on   *)
  MaxRestarts    (* bound: how often the balancer is restarted             *)

ASSUME ThresholdAssumption == Threshold \in Nat \ {0}
ASSUME RepliesAssumption == Replies \cap {"none", "502", "503"} = {}
ASSUME RestartsAssumption == MaxRestarts \in Nat

VARIABLES
  status,     (* ServiceInstance.status                                    *)
  failures,   (* consecutive_failures, up to one above Threshold           *)
  probe,      (* what the health check in hand saw                         *)
  pc,         (* where a request's thread stands in forward()              *)
  tries,      (* how often the request was sent                            *)
  answer,     (* what its client was answered                              *)
  view,       (* history: what the statuses were while it was choosing     *)
  service,    (* the process of the service, as others find it             *)
  restarts    (* how often the balancer was restarted                      *)

health == <<status, failures, probe>>
thread == <<pc, tries, answer, view>>
environment == <<service, restarts>>
vars == <<health, thread, environment>>

Usable == {"healthy", "degraded"}
Choosing == {"choose", "fallback"}
Attempting == {"wait", "refused"}

TypeOK ==
  /\ status \in {"unknown", "healthy", "degraded", "unhealthy"}
  /\ failures \in 0..(Threshold + 1)
  /\ probe \in {"none", "passed", "failed"}
  /\ pc \in [Requests -> {"idle", "choose", "fallback", "send", "wait", "refused", "done"}]
  /\ tries \in [Requests -> 0..(MaxRetries + 1)]
  /\ \A r \in Requests : pc[r] = "send" => tries[r] <= MaxRetries
  /\ answer \in [Requests -> Replies \union {"none", "502", "503"}]
  /\ view \in [Requests -> {"none", "unusable", "usable", "mixed"}]
  /\ service \in {"up", "ill", "down"}
  /\ restarts \in 0..MaxRestarts

Init ==
  /\ status = "unknown" /\ failures = 0 /\ probe = "none"
  /\ pc = [r \in Requests |-> "idle"]
  /\ tries = [r \in Requests |-> 0]
  /\ answer = [r \in Requests |-> "none"]
  /\ view = [r \in Requests |-> "none"]
  /\ service \in {"up", "ill", "down"} /\ restarts = 0

-----------------------------------------------------------------------------
(* A request.                                                              *)

Goto(r, place) == pc' = [pc EXCEPT ![r] = place]

Respond(r, a) == Goto(r, "done") /\ answer' = [answer EXCEPT ![r] = a]

Raised == IF failures > Threshold THEN failures ELSE failures + 1

(* The end of a request, on the instance chosen for it.                    *)
RecordRequest(success) == failures' = IF success THEN 0 ELSE Raised

Arrive(r) ==
  /\ pc[r] = "idle"
  /\ Goto(r, "choose")
  /\ view' = [view EXCEPT ![r] = IF status \in Usable THEN "usable" ELSE "unusable"]
  /\ UNCHANGED <<health, tries, answer, environment>>

(* Mutant: the proxy does not look for a degraded instance.                *)
SelectHealthyOnly(r) ==
  /\ pc[r] = "choose"
  /\ IF status = "healthy" THEN Goto(r, "send") /\ UNCHANGED answer
                           ELSE Respond(r, "503")
  /\ UNCHANGED <<health, tries, view, environment>>

(* The strategy looks for a healthy instance ...                           *)
SelectInstance(r) ==
  /\ pc[r] = "choose"
  /\ Goto(r, IF status = "healthy" THEN "send" ELSE "fallback")
  /\ UNCHANGED <<health, tries, answer, view, environment>>

(* Mutant: the proxy falls back on any instance that is not unhealthy.     *)
SelectNotUnhealthy(r) ==
  /\ pc[r] = "fallback"
  /\ IF status # "unhealthy"
       THEN Goto(r, "send") /\ UNCHANGED answer
       ELSE Respond(r, "503")
  /\ UNCHANGED <<health, tries, view, environment>>

(* ... and, when it found none, the proxy looks for a degraded one.        *)
SelectDegraded(r) ==
  /\ pc[r] = "fallback"
  /\ IF status = "degraded"
       THEN Goto(r, "send") /\ UNCHANGED answer
       ELSE Respond(r, "503")
  /\ UNCHANGED <<health, tries, view, environment>>

(* Mutant: an attempt that is not counted.                                 *)
SendUncounted(r) ==
  /\ pc[r] = "send"
  /\ Goto(r, "wait")
  /\ UNCHANGED <<health, tries, answer, view, environment>>

(* An attempt goes to the instance chosen then, whatever its status now;   *)
(* it reaches the service or finds nobody there.                           *)
Send(r) ==
  /\ pc[r] = "send"
  /\ Goto(r, IF service = "down" THEN "refused" ELSE "wait")
  /\ tries' = [tries EXCEPT ![r] = @ + 1]
  /\ UNCHANGED <<health, answer, view, environment>>

(* Any answer, an error of the service too, counts as a success.           *)
Answered(r, a) ==
  /\ pc[r] = "wait"
  /\ Respond(r, a)
  /\ RecordRequest(TRUE)
  /\ UNCHANGED <<status, probe, tries, view, environment>>

(* Mutants: one more attempt; an attempt that chooses anew.                *)
AttemptFailsOnceMore(r) ==
  /\ pc[r] \in Attempting
  /\ tries[r] <= MaxRetries + 1
  /\ Goto(r, "send")
  /\ UNCHANGED <<health, tries, answer, view, environment>>

AttemptFailsElsewhere(r) ==
  /\ pc[r] \in Attempting
  /\ Goto(r, "choose")
  /\ UNCHANGED <<health, tries, answer, view, environment>>

(* A time-out or a lost connection, at any time: once more, or give up.    *)
AttemptFails(r) ==
  /\ pc[r] \in Attempting
  /\ \/ /\ tries[r] <= MaxRetries
        /\ Goto(r, "send")
        /\ UNCHANGED <<failures, answer>>
     \/ /\ tries[r] > MaxRetries
        /\ Respond(r, "502")
        /\ RecordRequest(FALSE)
  /\ UNCHANGED <<status, probe, tries, view, environment>>

(* The client has another request.                                         *)
Again(r) ==
  /\ pc[r] = "done"
  /\ Goto(r, "idle")
  /\ tries' = [tries EXCEPT ![r] = 0]
  /\ answer' = [answer EXCEPT ![r] = "none"]
  /\ view' = [view EXCEPT ![r] = "none"]
  /\ UNCHANGED <<health, environment>>

-----------------------------------------------------------------------------
(* The health checker and the service.                                     *)

Probe ==
  /\ probe = "none"
  /\ probe' = IF service = "up" THEN "passed" ELSE "failed"
  /\ UNCHANGED <<status, failures, thread, environment>>

(* Mutants: the threshold is met once only; an instance given up stays so. *)
JudgedAtThreshold ==
  IF probe = "passed" THEN "healthy"
  ELSE IF Raised = Threshold THEN "unhealthy" ELSE "degraded"

JudgedForGood ==
  IF probe = "passed" /\ status # "unhealthy" THEN "healthy"
  ELSE IF Raised >= Threshold \/ status = "unhealthy" THEN "unhealthy" ELSE "degraded"

Judged ==
  IF probe = "passed" THEN "healthy"
  ELSE IF Raised >= Threshold THEN "unhealthy" ELSE "degraded"

(* What a request that is choosing has seen, after a change of status.     *)
Spoiled(r) ==
  /\ pc[r] \in Choosing
  /\ \/ view[r] = "unusable" /\ Judged \in Usable
     \/ view[r] = "usable" /\ Judged \notin Usable
     \/ view[r] = "usable" /\ pc[r] = "fallback" /\ Judged = "healthy"

UpdateHealth ==
  /\ probe # "none"
  /\ probe' = "none"
  /\ failures' = IF probe = "passed" THEN 0 ELSE Raised
  /\ status' = Judged
  /\ view' = [r \in Requests |-> IF Spoiled(r) THEN "mixed" ELSE view[r]]
  /\ UNCHANGED <<pc, tries, answer, environment>>

ServiceChanges ==
  /\ \E s \in {"up", "ill", "down"} \ {service} : service' = s
  /\ UNCHANGED <<health, thread, restarts>>

(* What the balancer knows is lost, and so are its clients' connections.   *)
Restart ==
  /\ restarts < MaxRestarts
  /\ restarts' = restarts + 1
  /\ status' = "unknown" /\ failures' = 0 /\ probe' = "none"
  /\ pc' = [r \in Requests |-> "idle"]
  /\ tries' = [r \in Requests |-> 0]
  /\ answer' = [r \in Requests |-> "none"]
  /\ view' = [r \in Requests |-> "none"]
  /\ UNCHANGED service

-----------------------------------------------------------------------------
RequestStep(r) ==
  \/ SelectInstance(r) \/ SelectDegraded(r) \/ Send(r) \/ AttemptFails(r)
  \/ \E a \in Replies : Answered(r, a)

Next ==
  \/ \E r \in Requests : RequestStep(r) \/ Arrive(r) \/ Again(r)
  \/ Probe \/ UpdateHealth
  \/ ServiceChanges \/ Restart

Spec == Init /\ [][Next]_vars

(* Threads of the balancer are scheduled, a request that waits is answered *)
(* or times out, and the health checker loops.                             *)
Fairness ==
  /\ \A r \in Requests : WF_vars(RequestStep(r))
  /\ WF_vars(Probe \/ UpdateHealth)

FairSpec == Spec /\ Fairness

-----------------------------------------------------------------------------
(* Properties.                                                             *)

(* A request that meets nothing but an instance that is down, or not yet   *)
(* checked, from its arrival to its choice is not sent there.              *)
UnusableShields ==
  \A r \in Requests : view[r] = "unusable" => pc[r] \notin {"send", "wait", "refused"}

(* The two reads of a choice are not one: between them a degraded instance *)
(* may become healthy and be missed by both.  That apart, an instance that *)
(* stays usable while a request chooses is never refused to it.            *)
UsableServes ==
  \A r \in Requests : view[r] = "usable" => answer[r] # "503"

(* Every request is answered, however the service behaves, unless the      *)
(* balancer goes meanwhile.                                                *)
EveryRequestAnswered ==
  \A r \in Requests : (pc[r] = "choose") ~> (pc[r] \in {"done", "idle"})

(* A service that stays away ends up unhealthy, and one that stays well    *)
(* healthy, although requests and checks share the count of failures.      *)
OutageShown == <>[](service = "down") => <>[](status = "unhealthy")
RecoveryShown == <>[](service = "up") => <>[](status = "healthy")

(* The promise of Forwarding, which knows no health: to it a request that  *)
(* has not been chosen for or refused is still choosing.                   *)
Promise == INSTANCE Forwarding WITH
  pc <- [r \in Requests |->
    IF pc[r] \in {"idle", "fallback"} THEN "choose"
    ELSE IF pc[r] = "refused" THEN "wait" ELSE pc[r]]
ForwardingSpec == Promise!ForwardingSpec

=============================================================================
