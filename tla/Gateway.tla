------------------------------- MODULE Gateway -------------------------------
(***************************************************************************)
(* The load balancer with one of the three services behind it.  Of the     *)
(* balancer it takes the promise, Forwarding.  What the balancer sends     *)
(* becomes a run of the service, and the answer of the run reaches the     *)
(* balancer if it still waits for that run.  The process of the service    *)
(* may go and come back, and its database may be away for a while.         *)
(***************************************************************************)
EXTENDS Forwarding, Payments, Users, Recommendations

CONSTANT
  MaxFaults    (* bound: how often the service falls ill or goes down      *)

ASSUME FaultsAssumption == MaxFaults \in Nat
ASSUME RunRepliesAssumption == Replies = RunReplies

VARIABLES
  service,     (* the process of the service, as others find it            *)
  faults       (* how many faults happened                                 *)

tables == <<payments, users, recommendations>>
environment == <<service, faults>>
vars == <<forwarding, runs, tables, environment>>

TypeOK ==
  /\ ForwardingTypeOK
  /\ RunsTypeOK
  /\ PaymentsTypeOK
  /\ UsersTypeOK
  /\ RecommendationsTypeOK
  /\ service \in {"up", "ill", "down"}
  /\ faults \in 0..MaxFaults

Init ==
  /\ ForwardingInit
  /\ \E kinds \in {PaymentKinds, UserKinds, RecommendationKinds} :
       kind \in [Requests -> kinds]
  /\ at = [x \in Runs |-> "none"]
  /\ reply = [x \in Runs |-> "none"]
  /\ commits = {}
  /\ PaymentsInit /\ UsersInit /\ RecommendationsInit
  /\ service \in {"up", "down"} /\ faults = 0

-----------------------------------------------------------------------------
(* The balancer and the service.                                           *)

Choose(r) ==
  /\ Accept(r) \/ Refuse(r)
  /\ UNCHANGED <<runs, tables, environment>>

(* A process that is away refuses the connection.                          *)
SendToService(r) ==
  /\ Send(r)
  /\ IF service = "down"
       THEN UNCHANGED at
       ELSE at' = [at EXCEPT ![<<r, tries[r] + 1>>] = "begin"]
  /\ UNCHANGED <<kind, reply, commits, tables, environment>>

Deliver(r) ==
  /\ pc[r] = "wait" /\ at[<<r, tries[r]>>] = "done"
  /\ Answered(r, reply[<<r, tries[r]>>])
  /\ UNCHANGED <<runs, tables, environment>>

Timeout(r) ==
  /\ Retry(r) \/ GiveUp(r)
  /\ UNCHANGED <<runs, tables, environment>>

-----------------------------------------------------------------------------
(* The service.                                                            *)

RunStep(x) ==
  /\ \/ PaymentStep(x) /\ UNCHANGED <<users, recommendations>>
     \/ UserStep(x) /\ UNCHANGED <<payments, recommendations>>
     \/ RecommendationStep(x) /\ UNCHANGED <<payments, users>>
  /\ UNCHANGED <<forwarding, environment>>

DatabaseFails(x) ==
  /\ service = "ill"
  /\ RunFails(x)
  /\ ReleaseName(x)
  /\ UNCHANGED <<forwarding, payments, owner, recommendations, environment>>

FallsIll ==
  /\ service = "up"
  /\ faults < MaxFaults
  /\ service' = "ill" /\ faults' = faults + 1
  /\ UNCHANGED <<forwarding, runs, tables>>

GoesDown ==
  /\ service # "down"
  /\ faults < MaxFaults
  /\ service' = "down" /\ faults' = faults + 1
  /\ RunsDie
  /\ holder' = Free
  /\ UNCHANGED <<forwarding, payments, owner, recommendations>>

ComesBack ==
  /\ service # "up"
  /\ service' = "up"
  /\ UNCHANGED <<forwarding, runs, tables, faults>>

-----------------------------------------------------------------------------
RequestStep(r) == Choose(r) \/ SendToService(r) \/ Deliver(r) \/ Timeout(r)

Next ==
  \/ \E r \in Requests : RequestStep(r)
  \/ \E x \in Runs : RunStep(x) \/ DatabaseFails(x)
  \/ FallsIll \/ GoesDown \/ ComesBack

Spec == Init /\ [][Next]_vars

-----------------------------------------------------------------------------
(* Properties.                                                             *)

(* A 503 of the balancer means that the request was never executed, so     *)
(* that its client may repeat it; of a 502 nothing of the kind is true.    *)
RefusedNeverRan ==
  \A r \in Requests : answer[r] = "503" =>
    \A k \in Tries : at[<<r, k>>] = "none"

(* What a client is told of its own request is in the database, whichever  *)
(* of its runs answered; a name that is taken is taken, if only by an      *)
(* earlier run of the same request.                                        *)
ToldIsTrue ==
  \A r \in Requests :
    /\ answer[r] \in {"created", "completed"} => <<r, tries[r]>> \in commits
    /\ answer[r] = "granted" => owner = r
    /\ answer[r] = "taken" => owner # Free
    /\ answer[r] = "listed" /\ Batch > 0 => saved > 0

(* A run that wrote the payment and answered with this outcome.            *)
Wrote(outcome) ==
  \E x \in commits : Is(x, "process") /\ reply[x] = outcome

(* Nothing orders the runs that process one payment, and each writes back  *)
(* the whole row as it read it, however old.  Still the row accounts for   *)
(* what clients were told: what one was told is undone only by a run that  *)
(* decided otherwise and says so, never by the status a run had read; and  *)
(* paid_at is there only if a run completed the payment, and always if one *)
(* did and the row is completed.                                           *)
OutcomeAccounted ==
  /\ (\E r \in Requests : answer[r] \in {"completed", "failed"})
       => Wrote(payment.status)
  /\ payment.paid => Wrote("completed")
  /\ payment.status = "completed" /\ Wrote("completed") => payment.paid

(* Only runs that read before the first recommendation was saved make any. *)
MadeWhereNoneWas == saved <= Batch * Cardinality(makers)

=============================================================================
