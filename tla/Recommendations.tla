--------------------------- MODULE Recommendations ---------------------------
(***************************************************************************)
(* The recommendations service (services/recomendaciones), for one user.   *)
(* A request for the list that finds none makes one, film by film, each    *)
(* saved in a transaction of its own: the method has none around them.     *)
(***************************************************************************)
EXTENDS ServiceRuns

CONSTANT
  Batch        (* how many are made: at most 6, and as films there are     *)

ASSUME BatchAssumption == Batch \in Nat

VARIABLES
  saved,       (* rows of the user                                         *)
  left,        (* how many a run has yet to save                           *)
  makers       (* history: the runs that found no row                      *)

recommendations == <<saved, left, makers>>

RecommendationsTypeOK ==
  /\ saved \in Nat
  /\ left \in [Runs -> 0..Batch]
  /\ \A x \in Runs : at[x] = "saving" => left[x] > 0
  /\ makers \subseteq Runs

RecommendationsInit ==
  /\ saved = 0
  /\ left = [x \in Runs |-> 0]
  /\ makers = {}

(* Mutant: the list is made again for each request.                        *)
FindRecommendationsAnew(x) ==
  /\ Is(x, "recommend")
  /\ Moves(x, "begin", "saving")
  /\ left' = [left EXCEPT ![x] = Batch]
  /\ makers' = IF saved = 0 THEN makers \union {x} ELSE makers
  /\ UNCHANGED <<kind, reply, commits, saved>>

(* With no film to recommend the list is empty, and nothing is saved.      *)
FindRecommendations(x) ==
  /\ Is(x, "recommend")
  /\ \/ /\ saved = 0 /\ Batch > 0
        /\ Moves(x, "begin", "saving")
        /\ left' = [left EXCEPT ![x] = Batch]
        /\ makers' = makers \union {x}
        /\ UNCHANGED reply
     \/ /\ saved = 0 => Batch = 0
        /\ Ends(x, "begin", "listed")
        /\ UNCHANGED <<left, makers>>
  /\ UNCHANGED <<kind, commits, saved>>

(* Mutant: one more than was asked for.                                    *)
SaveRecommendationOnceMore(x) ==
  /\ IF left[x] = 0
       THEN Ends(x, "saving", "listed")
       ELSE Moves(x, "saving", "saving") /\ UNCHANGED reply
  /\ saved' = saved + 1
  /\ left' = [left EXCEPT ![x] = @ - 1]
  /\ commits' = commits \union {x}
  /\ UNCHANGED <<kind, makers>>

SaveRecommendation(x) ==
  /\ IF left[x] = 1
       THEN Ends(x, "saving", "listed")
       ELSE Moves(x, "saving", "saving") /\ UNCHANGED reply
  /\ saved' = saved + 1
  /\ left' = [left EXCEPT ![x] = @ - 1]
  /\ commits' = commits \union {x}
  /\ UNCHANGED <<kind, makers>>

RecommendationStep(x) == FindRecommendations(x) \/ SaveRecommendation(x)

=============================================================================
