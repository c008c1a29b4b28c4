------------------------------- MODULE Traffic -------------------------------
(***************************************************************************)
(* What the load balancer and the services behind it have in common:       *)
(* client requests, and the runs of a request.  The balancer may send one  *)
(* request several times, and each time a service accepts it is a run of   *)
(* its own, which goes on whether or not the balancer still waits for it.  *)
(***************************************************************************)
EXTENDS Integers, FiniteSets

CONSTANTS
  Requests,      (* client requests, each of them sent once by its client  *)
  MaxRetries     (* max_retries of the instance                            *)

ASSUME RequestsAssumption == IsFiniteSet(Requests)
ASSUME RetriesAssumption == MaxRetries \in Nat

Tries == 1..(MaxRetries + 1)
Runs == Requests \X Tries

=============================================================================
