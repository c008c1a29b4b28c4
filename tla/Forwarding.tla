------------------------------ MODULE Forwarding ------------------------------
(***************************************************************************)
(* What the load balancer promises of one request, whatever it knows of    *)
(* the health of the service: it is refused at once, or sent at most       *)
(* MaxRetries + 1 times, one time after the other, until an answer comes   *)
(* back; if none does, the client gets a 502.  LoadBalancer implements     *)
(* this, and Gateway builds on it.                                         *)
(***************************************************************************)
EXTENDS Traffic

CONSTANT
  Replies        (* what a service may answer; the balancer passes it on   *)

ASSUME RepliesAssumption == Replies \cap {"none", "502", "503"} = {}

VARIABLES
  pc,         (* where the thread of a request stands                      *)
  tries,      (* how often the request was sent                            *)
  answer      (* what its client was answered                              *)

forwarding == <<pc, tries, answer>>

ForwardingTypeOK ==
  /\ pc \in [Requests -> {"choose", "send", "wait", "done"}]
  /\ tries \in [Requests -> 0..(MaxRetries + 1)]
  /\ answer \in [Requests -> Replies \union {"none", "502", "503"}]

ForwardingInit ==
  /\ pc = [r \in Requests |-> "choose"]
  /\ tries = [r \in Requests |-> 0]
  /\ answer = [r \in Requests |-> "none"]

Goto(r, place) == pc' = [pc EXCEPT ![r] = place]

Respond(r, a) == Goto(r, "done") /\ answer' = [answer EXCEPT ![r] = a]

Accept(r) ==
  /\ pc[r] = "choose"
  /\ Goto(r, "send")
  /\ UNCHANGED <<tries, answer>>

Refuse(r) ==
  /\ pc[r] = "choose"
  /\ Respond(r, "503")
  /\ UNCHANGED tries

Send(r) ==
  /\ pc[r] = "send"
  /\ Goto(r, "wait")
  /\ tries' = [tries EXCEPT ![r] = @ + 1]
  /\ UNCHANGED answer

Answered(r, a) ==
  /\ pc[r] = "wait"
  /\ Respond(r, a)
  /\ UNCHANGED tries

(* A time-out or a lost connection, at any time.                           *)
Retry(r) ==
  /\ pc[r] = "wait" /\ tries[r] <= MaxRetries
  /\ Goto(r, "send")
  /\ UNCHANGED <<tries, answer>>

(* Mutant: a request that was sent in vain is answered as if refused.      *)
GiveUpRefused(r) ==
  /\ pc[r] = "wait" /\ tries[r] > MaxRetries
  /\ Respond(r, "503")
  /\ UNCHANGED tries

GiveUp(r) ==
  /\ pc[r] = "wait" /\ tries[r] > MaxRetries
  /\ Respond(r, "502")
  /\ UNCHANGED tries

(* The client has another request.                                         *)
Again(r) ==
  /\ pc[r] = "done"
  /\ Goto(r, "choose")
  /\ tries' = [tries EXCEPT ![r] = 0]
  /\ answer' = [answer EXCEPT ![r] = "none"]

(* The balancer starts again, and the clients have lost their connections. *)
Restart == ForwardingInit'

ForwardingNext ==
  \/ Restart
  \/ \E r \in Requests :
       \/ Accept(r) \/ Refuse(r) \/ Send(r) \/ Retry(r) \/ GiveUp(r) \/ Again(r)
       \/ \E a \in Replies : Answered(r, a)

ForwardingSpec == ForwardingInit /\ [][ForwardingNext]_forwarding

=============================================================================
