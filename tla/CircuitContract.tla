-------------------------- MODULE CircuitContract --------------------------
(***************************************************************************)
(* What the circuit breaker promises: the state machine that models.py     *)
(* and the head of circuit.py describe.  Each transition is one step,      *)
(* taken while its condition holds.                                        *)
(***************************************************************************)
EXTENDS Naturals

CONSTANTS FailureThreshold, SuccessThreshold, HalfOpenMax

VARIABLES state, failures, successes, slots, expired
vars == <<state, failures, successes, slots, expired>>

Init == /\ state = "CLOSED"
        /\ failures = 0 /\ successes = 0 /\ slots = 0
        /\ expired = TRUE

Failure == /\ failures' = failures + 1
           /\ successes' = 0
           /\ UNCHANGED <<state, slots, expired>>

Success == /\ successes' = successes + 1
           /\ failures' = 0
           /\ UNCHANGED <<state, slots, expired>>

(* CLOSED -> OPEN at the failure threshold, and HALF_OPEN -> OPEN at any   *)
(* failure.                                                                *)
Open == /\ \/ state = "CLOSED" /\ failures >= FailureThreshold
           \/ state = "HALF_OPEN" /\ failures > 0
        /\ state' = "OPEN"
        /\ slots' = 0
        /\ expired' = FALSE
        /\ UNCHANGED <<failures, successes>>

Expire == /\ expired' = TRUE
          /\ UNCHANGED <<state, failures, successes, slots>>

(* OPEN -> HALF_OPEN after the timeout; the request that finds out is the  *)
(* first probe.                                                            *)
HalfOpen == /\ state = "OPEN" /\ expired
            /\ state' = "HALF_OPEN"
            /\ successes' = 0
            /\ slots' = 1
            /\ UNCHANGED <<failures, expired>>

Probe == /\ state = "HALF_OPEN"
         /\ slots < HalfOpenMax
         /\ slots' = slots + 1
         /\ UNCHANGED <<state, failures, successes, expired>>

(* HALF_OPEN -> CLOSED at the success threshold.                           *)
Close == /\ state = "HALF_OPEN" /\ successes >= SuccessThreshold
         /\ state' = "CLOSED"
         /\ failures' = 0 /\ successes' = 0 /\ slots' = 0
         /\ UNCHANGED expired

(* The process starts again with no memory.                                *)
Forget == /\ state' = "CLOSED"
          /\ failures' = 0 /\ successes' = 0 /\ slots' = 0
          /\ expired' = TRUE

Next == Failure \/ Success \/ Open \/ Expire \/ HalfOpen \/ Probe \/ Close \/ Forget

Spec == Init /\ [][Next]_vars
=============================================================================
