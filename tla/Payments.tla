------------------------------ MODULE Payments ------------------------------
(***************************************************************************)
(* The payments service (services/pagos): requests that create a payment   *)
(* and requests that process one payment, whose row is followed here.      *)
(* processPayment reads the row, decides by chance, and writes the whole   *)
(* row when it commits, if it differs from what it read; it takes no lock, *)
(* looks at no status and knows no version.                                *)
(***************************************************************************)
EXTENDS ServiceRuns

VARIABLES
  payment,     (* the row: its status, and whether paid_at is set          *)
  found        (* the row as a run has it in memory                        *)

payments == <<payment, found>>

Rows == [status : {"pending", "completed", "failed"}, paid : BOOLEAN]
Pending == [status |-> "pending", paid |-> FALSE]

(* The rows DataInitializer leaves: completed ones have no paid_at.        *)
SeededRows == {Pending, [status |-> "completed", paid |-> FALSE]}

PaymentsTypeOK ==
  /\ payment \in Rows
  /\ found \in [Runs -> Rows]

PaymentsInit ==
  /\ payment \in SeededRows
  /\ found = [x \in Runs |-> Pending]

(* createPayment: one insertion, with a new id and a new reference code.   *)
CreatePayment(x) ==
  /\ Is(x, "create")
  /\ Ends(x, "begin", "created")
  /\ commits' = commits \union {x}
  /\ UNCHANGED <<kind, payments>>

(* findById: an id that no row has is answered as not found.               *)
FindPayment(x) ==
  /\ \/ /\ Is(x, "process")
        /\ Moves(x, "begin", "found")
        /\ found' = [found EXCEPT ![x] = payment]
        /\ UNCHANGED reply
     \/ /\ Is(x, "process unknown")
        /\ Ends(x, "begin", "error")
        /\ UNCHANGED found
  /\ UNCHANGED <<kind, commits, payment>>

(* Mutant: a payment that failed before gets no date when it is completed. *)
DecidedUndated(row, outcome) ==
  [row EXCEPT !.status = outcome,
              !.paid = @ \/ (outcome = "completed" /\ row.status # "failed")]

Decided(row, outcome) ==
  [row EXCEPT !.status = outcome, !.paid = @ \/ outcome = "completed"]

(* A new paid_at always differs from the old; a second failure does not.   *)
Dirty(row, outcome) == outcome = "completed" \/ row.status # outcome

CommitPayment(x, outcome) ==
  /\ Is(x, "process")
  /\ Ends(x, "found", outcome)
  /\ IF Dirty(found[x], outcome)
       THEN /\ payment' = Decided(found[x], outcome)
            /\ commits' = commits \union {x}
       ELSE UNCHANGED <<payment, commits>>
  /\ UNCHANGED <<kind, found>>

PaymentStep(x) ==
  \/ CreatePayment(x)
  \/ FindPayment(x)
  \/ \E outcome \in {"completed", "failed"} : CommitPayment(x, outcome)

=============================================================================
