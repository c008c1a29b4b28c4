------------------------ MODULE ReplicationContract ------------------------
(***************************************************************************)
(* What the replication manager promises of the entries it accepts,        *)
(* whatever its threads, its queue and its retries do: an entry is stored  *)
(* once, executed on replicas only after that, in any order and any number *)
(* of times, and concluded with a status that is true of the replicas.     *)
(* What is posted may be lost before it is stored; a conclusion may be     *)
(* announced and not stored, and another one drawn later.                  *)
(***************************************************************************)
CONSTANTS
  Entries,
  Replicas,
  Quorums        (* the sets of replicas that are enough for PARTIAL       *)

VARIABLES posted, log, executed, announced
vars == <<posted, log, executed, announced>>

Init ==
  /\ posted = {}
  /\ log = [e \in Entries |-> "absent"]
  /\ executed = [r \in Replicas |-> {}]
  /\ announced = [e \in Entries |-> {}]

Unsettled == {"PENDING", "PROPAGATING"}

Post(e) ==
  /\ posted' = posted \union {e}
  /\ UNCHANGED <<log, executed, announced>>

Store(e) ==
  /\ e \in posted /\ log[e] = "absent"
  /\ log' = [log EXCEPT ![e] = "PENDING"]
  /\ UNCHANGED <<posted, executed, announced>>

Propagate(e) ==
  /\ log[e] \in Unsettled
  /\ log' = [log EXCEPT ![e] = "PROPAGATING"]
  /\ UNCHANGED <<posted, executed, announced>>

Execute(e, r) ==
  /\ log[e] # "absent"
  /\ executed' = [executed EXCEPT ![r] = @ \union {e}]
  /\ UNCHANGED <<posted, log, announced>>

(* As the code has it, REPLICATED is all of the replicas; the repository's *)
(* text gives that name to a quorum, which is PARTIAL here.                *)
TrueOf(e, s) ==
  LET holders == {r \in Replicas : e \in executed[r]}
  IN /\ s = "REPLICATED" => holders = Replicas
     /\ s = "PARTIAL" => holders \in Quorums

Conclude(e, s) ==
  /\ log[e] \in Unsettled
  /\ TrueOf(e, s)
  /\ announced' = [announced EXCEPT ![e] = @ \union {s}]
  /\ log' \in {log, [log EXCEPT ![e] = s]}
  /\ UNCHANGED <<posted, executed>>

Next ==
  \E e \in Entries :
    \/ Post(e) \/ Store(e) \/ Propagate(e)
    \/ \E r \in Replicas : Execute(e, r)
    \/ \E s \in {"REPLICATED", "PARTIAL", "FAILED"} : Conclude(e, s)

Spec == Init /\ [][Next]_vars
=============================================================================
