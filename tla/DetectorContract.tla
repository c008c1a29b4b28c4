-------------------------- MODULE DetectorContract --------------------------
(***************************************************************************)
(* What the Event Monitor promises of the nodes it watches, with no lock,  *)
(* clock, cycle, request or call on Redis: a node that is heard is active; *)
(* each time an active one is found silent for longer than the timeout it  *)
(* gets a strike, and the last strike makes it inactive; and nothing but   *)
(* another heartbeat takes strikes back (heartbeat_monitor.py).  The list  *)
(* of nodes comes to show one as active by a registration, or when it was  *)
(* shown inactive and is held to be active again; as inactive only while   *)
(* it is held to be so; and it shows nothing of one that was never         *)
(* registered (node_registry.py).  It need not show every change.          *)
(***************************************************************************)
EXTENDS Naturals

CONSTANTS
  Nodes,      (* the nodes                                                 *)
  MaxStrikes  (* how many times in a row one must be found silent          *)

VARIABLES
  health,     (* what is held of each node                                 *)
  strikes,    (* how many times it was found silent since it was heard     *)
  silent,     (* whether it has been silent for longer than the timeout    *)
  listed      (* what the list shows of it; none: it is not in the list    *)

vars == <<health, strikes, silent, listed>>

Init ==
  /\ health = [n \in Nodes |-> "unknown"]
  /\ strikes = [n \in Nodes |-> 0]
  /\ silent = [n \in Nodes |-> FALSE]
  /\ listed = [n \in Nodes |-> "none"]

(* A heartbeat, which may have been long on its way.                       *)
Hear(n, late) ==
  /\ health' = [health EXCEPT ![n] = "active"]
  /\ strikes' = [strikes EXCEPT ![n] = 0]
  /\ silent' = [silent EXCEPT ![n] = late]
  /\ UNCHANGED listed

(* A silence that lasts becomes too long, and stays so.                    *)
FallSilent ==
  /\ silent' \in [Nodes -> BOOLEAN]
  /\ \A n \in Nodes : silent[n] => silent'[n]
  /\ UNCHANGED <<health, strikes, listed>>

Strike(n) ==
  /\ health[n] = "active" /\ silent[n]
  /\ strikes' = [strikes EXCEPT ![n] = @ + 1]
  /\ health' = [health EXCEPT ![n] = IF strikes[n] + 1 = MaxStrikes THEN "inactive" ELSE @]
  /\ UNCHANGED <<silent, listed>>

Register(n) ==
  /\ listed' = [listed EXCEPT ![n] = "active"]
  /\ UNCHANGED <<health, strikes, silent>>

Remove(n) ==
  /\ listed[n] # "none"
  /\ listed' = [listed EXCEPT ![n] = "removed"]
  /\ UNCHANGED <<health, strikes, silent>>

ShowDown(n) ==
  /\ health[n] = "inactive" /\ listed[n] # "none"
  /\ listed' = [listed EXCEPT ![n] = "inactive"]
  /\ UNCHANGED <<health, strikes, silent>>

(* The code for this is there, in _check_nodes, and is never reached.      *)
ShowUp(n) ==
  /\ health[n] = "active" /\ listed[n] = "inactive"
  /\ listed' = [listed EXCEPT ![n] = "active"]
  /\ UNCHANGED <<health, strikes, silent>>

(* The process starts again; the list survives it.                         *)
Forget ==
  /\ health' = [n \in Nodes |-> "unknown"]
  /\ strikes' = [n \in Nodes |-> 0]
  /\ silent' = [n \in Nodes |-> FALSE]
  /\ UNCHANGED listed

Next ==
  \/ \E n \in Nodes : \/ \E late \in BOOLEAN : Hear(n, late)
                      \/ Strike(n) \/ Register(n) \/ Remove(n)
                      \/ ShowDown(n) \/ ShowUp(n)
  \/ FallSilent
  \/ Forget

Spec == Init /\ [][Next]_vars
=============================================================================
