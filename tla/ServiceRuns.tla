----------------------------- MODULE ServiceRuns -----------------------------
(***************************************************************************)
(* The runs of requests in the Spring services (services/...): what the    *)
(* three have in common.  A run is one call of a controller: it works in   *)
(* the threads of the service, step by step against its database, and ends *)
(* with an answer, with an error, or with the process.  What a request     *)
(* asks for is its kind.                                                   *)
(***************************************************************************)
EXTENDS Traffic

CONSTANT
  Free        (* no run and no request: what nobody has                    *)

ASSUME FreeAssumption == Free \notin Runs \union Requests

VARIABLES
  kind,       (* what each request asks for                                *)
  at,         (* where a run stands                                        *)
  reply,      (* what it answered                                          *)
  commits     (* history: the runs that changed the database               *)

runs == <<kind, at, reply, commits>>

PaymentKinds == {"create", "process", "process unknown"}
UserKinds == {"register", "rename", "rename unknown"}
RecommendationKinds == {"recommend"}
Kinds == PaymentKinds \union UserKinds \union RecommendationKinds

RunReplies ==
  {"created", "completed", "failed", "granted", "taken", "listed", "error"}

Places == {"none", "begin", "found", "checked", "written", "saving", "done", "dead"}
Ended == {"none", "done", "dead"}

Is(x, k) == kind[x[1]] = k

RunsTypeOK ==
  /\ kind \in [Requests -> Kinds]
  /\ at \in [Runs -> Places]
  /\ reply \in [Runs -> RunReplies \union {"none"}]
  /\ \A x \in Runs : (at[x] = "done") = (reply[x] # "none")
  /\ commits \subseteq Runs

Moves(x, from, to) ==
  /\ at[x] = from
  /\ at' = [at EXCEPT ![x] = to]

(* The answer is written after the transaction has ended.                  *)
Ends(x, from, a) ==
  /\ Moves(x, from, "done")
  /\ reply' = [reply EXCEPT ![x] = a]

(* No connection, or a statement the database refuses: the transaction is  *)
(* rolled back and the controller answers with an error.                   *)
RunFails(x) ==
  /\ at[x] \notin Ended
  /\ Ends(x, at[x], "error")
  /\ UNCHANGED <<kind, commits>>

(* The process goes, and its unfinished runs with it.                      *)
RunsDie ==
  /\ at' = [x \in Runs |-> IF at[x] \in Ended THEN at[x] ELSE "dead"]
  /\ UNCHANGED <<kind, reply, commits>>

=============================================================================
