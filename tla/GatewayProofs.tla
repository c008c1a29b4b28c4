---------------------------- MODULE GatewayProofs ----------------------------
(***************************************************************************)
(* Proofs about Gateway: its types, and that what the clients are told is  *)
(* true, however often the balancer repeats a request and whatever run of  *)
(* it answers in the end.                                                  *)
(***************************************************************************)
EXTENDS Gateway, FiniteSetTheorems, TLAPS

-----------------------------------------------------------------------------
(* Types.                                                                  *)

LEMMA InitType == Init => TypeOK
<1> SUFFICES ASSUME Init
             PROVE  TypeOK
  OBVIOUS
<1>1. ForwardingTypeOK
  BY RetriesAssumption DEF Init, ForwardingInit, ForwardingTypeOK
<1>2. RunsTypeOK
  BY DEF Init, RunsTypeOK, Kinds, Places, RunReplies
<1>3. PaymentsTypeOK
  <2>1. Pending \in Rows /\ SeededRows \subseteq Rows
    BY DEF Pending, Rows, SeededRows
  <2>2. payment \in SeededRows /\ found = [x \in Runs |-> Pending]
    BY DEF Init, PaymentsInit
  <2> QED
    BY <2>1, <2>2 DEF PaymentsTypeOK
<1>4. UsersTypeOK /\ RecommendationsTypeOK
  BY BatchAssumption DEF Init, UsersInit, UsersTypeOK, RecommendationsInit,
     RecommendationsTypeOK
<1> QED
  BY <1>1, <1>2, <1>3, <1>4, FaultsAssumption DEF Init, TypeOK

LEMMA MovesType ==
  ASSUME RunsTypeOK, NEW x \in Runs, NEW from, NEW to \in Places \ {"done"},
         from # "done", Moves(x, from, to), UNCHANGED <<kind, reply>>,
         commits' \subseteq Runs
  PROVE  RunsTypeOK'
BY DEF RunsTypeOK, Moves

LEMMA EndsType ==
  ASSUME RunsTypeOK, NEW x \in Runs, NEW from, NEW a \in RunReplies,
         Ends(x, from, a), UNCHANGED kind, commits' \subseteq Runs
  PROVE  RunsTypeOK'
BY DEF RunsTypeOK, Ends, Moves, Places, RunReplies

LEMMA PaymentTypes ==
  ASSUME RunsTypeOK, PaymentsTypeOK, NEW x \in Runs, PaymentStep(x)
  PROVE  RunsTypeOK' /\ PaymentsTypeOK'
<1>1. CASE CreatePayment(x)
  <2>1. RunsTypeOK'
    BY <1>1, EndsType DEF CreatePayment, RunReplies, RunsTypeOK
  <2> QED
    BY <1>1, <2>1 DEF CreatePayment, payments, PaymentsTypeOK
<1>2. CASE FindPayment(x)
  <2>1. RunsTypeOK'
    BY <1>2, MovesType, EndsType DEF FindPayment, Places, RunReplies, RunsTypeOK
  <2> QED
    BY <1>2, <2>1 DEF FindPayment, PaymentsTypeOK
<1>3. ASSUME NEW outcome \in {"completed", "failed"}, CommitPayment(x, outcome)
      PROVE  RunsTypeOK' /\ PaymentsTypeOK'
  <2>1. commits' \subseteq Runs
    BY <1>3 DEF CommitPayment, RunsTypeOK
  <2>2. RunsTypeOK'
    BY <1>3, <2>1, EndsType DEF CommitPayment, RunReplies
  <2>3. Decided(found[x], outcome) \in Rows
    BY <1>3 DEF Decided, PaymentsTypeOK, Rows
  <2> QED
    BY <1>3, <2>2, <2>3 DEF CommitPayment, PaymentsTypeOK
<1> QED
  BY <1>1, <1>2, <1>3 DEF PaymentStep

LEMMA UserTypes ==
  ASSUME RunsTypeOK, UsersTypeOK, NEW x \in Runs, UserStep(x)
  PROVE  RunsTypeOK' /\ UsersTypeOK'
<1>0. x[1] \in Requests
  BY DEF Runs
<1>1. CASE CheckUsername(x) \/ FindUser(x)
  <2>1. RunsTypeOK'
    BY <1>1, MovesType, EndsType DEF CheckUsername, FindUser, Places, RunReplies, RunsTypeOK
  <2> QED
    BY <1>1, <2>1 DEF CheckUsername, FindUser, users, UsersTypeOK
<1>2. CASE ClaimName(x)
  <2>1. RunsTypeOK'
    BY <1>2, MovesType, EndsType DEF ClaimName, Places, RunReplies, RunsTypeOK
  <2> QED
    BY <1>2, <2>1 DEF ClaimName, UsersTypeOK
<1>3. CASE UpdateUser(x) /\ ~ClaimName(x)
  <2>1. RunsTypeOK'
    BY <1>3, EndsType DEF UpdateUser, RunReplies, RunsTypeOK
  <2> QED
    BY <1>3, <2>1 DEF UpdateUser, users, UsersTypeOK
<1>4. CASE CommitUser(x)
  <2>1. RunsTypeOK'
    BY <1>4, EndsType DEF CommitUser, RunReplies, RunsTypeOK
  <2> QED
    BY <1>4, <1>0, <2>1 DEF CommitUser, UsersTypeOK
<1> QED
  BY <1>1, <1>2, <1>3, <1>4 DEF UserStep, InsertUser

LEMMA RecommendationTypes ==
  ASSUME RunsTypeOK, RecommendationsTypeOK, NEW x \in Runs, RecommendationStep(x)
  PROVE  RunsTypeOK' /\ RecommendationsTypeOK'
<1>1. CASE FindRecommendations(x)
  <2>1. RunsTypeOK'
    BY <1>1, MovesType, EndsType DEF FindRecommendations, Places, RunReplies, RunsTypeOK
  <2> QED
    BY <1>1, <2>1, BatchAssumption
    DEF FindRecommendations, Moves, Ends, RecommendationsTypeOK, RunsTypeOK
<1>2. CASE SaveRecommendation(x)
  <2>1. at[x] = "saving" /\ left[x] \in 1..Batch
    BY <1>2, BatchAssumption DEF SaveRecommendation, Ends, Moves, RecommendationsTypeOK
  <2>2. commits' \subseteq Runs
    BY <1>2 DEF SaveRecommendation, RunsTypeOK
  <2>3. CASE left[x] = 1
    <3>1. RunsTypeOK'
      BY <1>2, <2>2, <2>3, EndsType DEF SaveRecommendation, RunReplies
    <3> QED
      BY <1>2, <2>1, <2>3, <3>1, BatchAssumption
      DEF SaveRecommendation, Ends, Moves, RecommendationsTypeOK, RunsTypeOK
  <2>4. CASE left[x] # 1
    <3>1. RunsTypeOK'
      BY <1>2, <2>2, <2>4, MovesType DEF SaveRecommendation, Places
    <3> QED
      BY <1>2, <2>1, <2>4, <3>1, BatchAssumption
      DEF SaveRecommendation, Moves, RecommendationsTypeOK, RunsTypeOK
  <2> QED
    BY <2>3, <2>4
<1> QED
  BY <1>1, <1>2 DEF RecommendationStep

-----------------------------------------------------------------------------
(* The inductive invariant: the balancer and its runs.                     *)

(* What the balancer counts and answers fits where the request stands.     *)
Counted ==
  \A r \in Requests :
    /\ pc[r] = "choose" => tries[r] = 0
    /\ pc[r] = "send" => tries[r] <= MaxRetries
    /\ pc[r] = "wait" => tries[r] > 0
    /\ answer[r] = "503" => tries[r] = 0
    /\ answer[r] # "none" => pc[r] = "done"

(* No run begins before it is sent.                                        *)
Unsent ==
  \A r \in Requests, k \in Tries : k > tries[r] => at[<<r, k>>] = "none"

(* What a service answered came from the last run that was sent.           *)
AnswersDelivered ==
  \A r \in Requests : answer[r] \in Replies =>
    /\ tries[r] \in Tries
    /\ at[<<r, tries[r]>>] = "done"
    /\ reply[<<r, tries[r]>>] = answer[r]

(* The service touches no run that has ended or was never sent, and        *)
(* nothing of the balancer.                                                *)
LEMMA RunFrame ==
  ASSUME TypeOK,
         \/ GoesDown
         \/ \E x \in Runs : RunStep(x) \/ DatabaseFails(x)
  PROVE  /\ UNCHANGED forwarding
         /\ \A y \in Runs : at[y] \in {"none", "done"} =>
              at'[y] = at[y] /\ reply'[y] = reply[y]
<1> USE DEF TypeOK, RunsTypeOK
<1>1. CASE GoesDown
  BY <1>1 DEF GoesDown, RunsDie, Ended
<1>2. ASSUME NEW x \in Runs, RunStep(x)
      PROVE  /\ UNCHANGED forwarding
             /\ \A y \in Runs : at[y] \in {"none", "done"} =>
                  at'[y] = at[y] /\ reply'[y] = reply[y]
  <2>1. CASE PaymentStep(x)
    BY <1>2, <2>1 DEF RunStep, PaymentStep, CreatePayment, FindPayment, CommitPayment,
       Moves, Ends
  <2>2. CASE UserStep(x)
    BY <1>2, <2>2 DEF RunStep, UserStep, CheckUsername, FindUser, InsertUser, ClaimName,
       UpdateUser, CommitUser, Moves, Ends
  <2>3. CASE RecommendationStep(x)
    BY <1>2, <2>3 DEF RunStep, RecommendationStep, FindRecommendations,
       SaveRecommendation, Moves, Ends
  <2> QED
    BY <1>2, <2>1, <2>2, <2>3 DEF RunStep
<1>3. ASSUME NEW x \in Runs, DatabaseFails(x)
      PROVE  /\ UNCHANGED forwarding
             /\ \A y \in Runs : at[y] \in {"none", "done"} =>
                  at'[y] = at[y] /\ reply'[y] = reply[y]
  BY <1>3 DEF DatabaseFails, RunFails, Ends, Moves, Ended
<1> QED
  BY <1>1, <1>2, <1>3

(* Nor do the balancer's steps touch a run, but to begin it.               *)
LEMMA RequestFrame ==
  ASSUME NEW r \in Requests, RequestStep(r)
  PROVE  /\ UNCHANGED <<kind, reply, commits, tables, environment>>
         /\ \/ UNCHANGED at
            \/ Send(r) /\ at' = [at EXCEPT ![<<r, tries[r] + 1>>] = "begin"]
BY DEF RequestStep, Choose, SendToService, Deliver, Timeout, runs

LEMMA RunsInTries ==
  ASSUME TypeOK, NEW r \in Requests, tries[r] <= MaxRetries
  PROVE  tries[r] + 1 \in Tries /\ <<r, tries[r] + 1>> \in Runs
BY RetriesAssumption DEF TypeOK, ForwardingTypeOK, Tries, Runs

LEMMA DeliveredType ==
  ASSUME TypeOK, Counted, NEW r \in Requests, Deliver(r)
  PROVE  /\ tries[r] \in Tries
         /\ <<r, tries[r]>> \in Runs
         /\ reply[<<r, tries[r]>>] \in Replies
<1>1. tries[r] \in Tries
  BY RetriesAssumption DEF Counted, Deliver, TypeOK, ForwardingTypeOK, Tries
<1>2. <<r, tries[r]>> \in Runs
  BY <1>1 DEF Runs
<1> QED
  BY <1>1, <1>2, RunRepliesAssumption DEF Deliver, TypeOK, RunsTypeOK

-----------------------------------------------------------------------------
LEMMA RequestTypes ==
  ASSUME TypeOK, Counted, Unsent, NEW r \in Requests, RequestStep(r)
  PROVE  TypeOK'
<1>1. ForwardingTypeOK'
  <2>1. CASE Choose(r) \/ Timeout(r)
    BY <2>1 DEF Choose, Timeout, Accept, Refuse, Retry, GiveUp, Goto, Respond, TypeOK,
       ForwardingTypeOK
  <2>2. CASE SendToService(r)
    BY <2>2, RetriesAssumption DEF SendToService, Send, Goto, Counted, TypeOK, ForwardingTypeOK
  <2>3. CASE Deliver(r)
    BY <2>3, DeliveredType DEF Deliver, Answered, Goto, Respond, TypeOK, ForwardingTypeOK
  <2> QED
    BY <2>1, <2>2, <2>3 DEF RequestStep
<1>2. RunsTypeOK'
  <2>1. CASE UNCHANGED at
    BY <2>1, RequestFrame DEF TypeOK, RunsTypeOK
  <2>2. CASE Send(r) /\ at' = [at EXCEPT ![<<r, tries[r] + 1>>] = "begin"]
    <3>1. <<r, tries[r] + 1>> \in Runs /\ at[<<r, tries[r] + 1>>] = "none"
      <4>1. tries[r] \in Nat /\ tries[r] <= MaxRetries
        BY <2>2 DEF Send, Counted, TypeOK, ForwardingTypeOK
      <4> QED
        BY <4>1, RunsInTries DEF Unsent
    <3>2. UNCHANGED <<kind, reply, commits>>
      BY RequestFrame
    <3> QED
      BY <2>2, <3>1, <3>2 DEF TypeOK, RunsTypeOK, Places
  <2> QED
    BY <2>1, <2>2, RequestFrame
<1>3. PaymentsTypeOK' /\ UsersTypeOK'
  BY RequestFrame DEF tables, payments, users, TypeOK, PaymentsTypeOK, UsersTypeOK
<1>4. RecommendationsTypeOK'
  <2>1. UNCHANGED <<saved, left, makers>>
    BY RequestFrame DEF tables, recommendations
  <2>2. \A x \in Runs : at'[x] = "saving" => at[x] = "saving"
    BY RequestFrame DEF TypeOK, RunsTypeOK
  <2> QED
    BY <2>1, <2>2 DEF TypeOK, RecommendationsTypeOK
<1> QED
  BY <1>1, <1>2, <1>3, <1>4, RequestFrame DEF TypeOK, environment

(* Only a step of the recommendations changes who is saving.               *)
LEMMA SavingFrame ==
  ASSUME RecommendationsTypeOK, UNCHANGED recommendations,
         \A x \in Runs : at'[x] = "saving" => at[x] = "saving"
  PROVE  RecommendationsTypeOK'
BY DEF RecommendationsTypeOK, recommendations

LEMMA RunTypes ==
  ASSUME TypeOK, NEW x \in Runs, RunStep(x)
  PROVE  TypeOK'
<1> USE DEF TypeOK
<1>1. ForwardingTypeOK' /\ service' \in {"up", "ill", "down"} /\ faults' \in 0..MaxFaults
  BY DEF RunStep, forwarding, environment, ForwardingTypeOK
<1>2. CASE PaymentStep(x) /\ UNCHANGED <<users, recommendations>>
  <2>1. RunsTypeOK' /\ PaymentsTypeOK'
    BY <1>2, PaymentTypes
  <2>2. \A y \in Runs : at'[y] = "saving" => at[y] = "saving"
    BY <1>2 DEF PaymentStep, CreatePayment, FindPayment, CommitPayment, Moves, Ends, RunsTypeOK
  <2>3. RecommendationsTypeOK'
    BY <1>2, <2>2, SavingFrame
  <2> QED
    BY <1>1, <1>2, <2>1, <2>3 DEF users, UsersTypeOK
<1>3. CASE UserStep(x) /\ UNCHANGED <<payments, recommendations>>
  <2>1. RunsTypeOK' /\ UsersTypeOK'
    BY <1>3, UserTypes
  <2>2. \A y \in Runs : at'[y] = "saving" => at[y] = "saving"
    BY <1>3 DEF UserStep, CheckUsername, FindUser, InsertUser, ClaimName, UpdateUser,
       CommitUser, Moves, Ends, RunsTypeOK
  <2>3. RecommendationsTypeOK'
    BY <1>3, <2>2, SavingFrame
  <2> QED
    BY <1>1, <1>3, <2>1, <2>3 DEF payments, PaymentsTypeOK
<1>4. CASE RecommendationStep(x) /\ UNCHANGED <<payments, users>>
  <2>1. RunsTypeOK' /\ RecommendationsTypeOK'
    BY <1>4, RecommendationTypes
  <2> QED
    BY <1>1, <1>4, <2>1 DEF payments, PaymentsTypeOK, users, UsersTypeOK
<1> QED
  BY <1>2, <1>3, <1>4 DEF RunStep

LEMMA FaultTypes ==
  ASSUME TypeOK,
         \/ FallsIll \/ GoesDown \/ ComesBack
         \/ \E x \in Runs : DatabaseFails(x)
  PROVE  TypeOK'
<1> USE FaultsAssumption DEF TypeOK
<1>1. CASE FallsIll \/ ComesBack
  <2>1. UNCHANGED <<forwarding, runs, tables>>
    BY <1>1 DEF FallsIll, ComesBack
  <2>2. service' \in {"up", "ill", "down"} /\ faults' \in 0..MaxFaults
    BY <1>1 DEF FallsIll, ComesBack
  <2> QED
    BY <2>1, <2>2 DEF forwarding, runs, tables, payments, users, recommendations,
       ForwardingTypeOK, RunsTypeOK, PaymentsTypeOK, UsersTypeOK, RecommendationsTypeOK
<1>2. CASE GoesDown
  <2>1. RunsTypeOK' /\ \A y \in Runs : at'[y] = "saving" => at[y] = "saving"
    BY <1>2 DEF GoesDown, RunsDie, Ended, RunsTypeOK, Places
  <2>2. RecommendationsTypeOK'
    BY <1>2, <2>1, SavingFrame DEF GoesDown
  <2> QED
    BY <1>2, <2>1, <2>2 DEF GoesDown, forwarding, payments, ForwardingTypeOK,
       PaymentsTypeOK, UsersTypeOK
<1>3. ASSUME NEW x \in Runs, DatabaseFails(x)
      PROVE  TypeOK'
  <2>1. RunsTypeOK'
    BY <1>3, EndsType DEF DatabaseFails, RunFails, RunReplies, RunsTypeOK
  <2>2. \A y \in Runs : at'[y] = "saving" => at[y] = "saving"
    BY <1>3 DEF DatabaseFails, RunFails, Ends, Moves, RunsTypeOK
  <2>3. RecommendationsTypeOK'
    BY <1>3, <2>2, SavingFrame DEF DatabaseFails
  <2> QED
    BY <1>3, <2>1, <2>3 DEF DatabaseFails, ReleaseName, forwarding, payments, environment,
       ForwardingTypeOK, PaymentsTypeOK, UsersTypeOK
<1> QED
  BY <1>1, <1>2, <1>3

LEMMA TypeStep == TypeOK /\ Counted /\ Unsent /\ [Next]_vars => TypeOK'
<1> SUFFICES ASSUME TypeOK, Counted, Unsent, [Next]_vars
             PROVE  TypeOK'
  OBVIOUS
<1>1. CASE UNCHANGED vars
  BY <1>1 DEF vars, forwarding, runs, tables, payments, users, recommendations, environment,
     TypeOK, ForwardingTypeOK, RunsTypeOK, PaymentsTypeOK, UsersTypeOK, RecommendationsTypeOK
<1> QED
  BY <1>1, RequestTypes, RunTypes, FaultTypes DEF Next

-----------------------------------------------------------------------------
(* The balancer's part is kept.                                            *)
LEMMA DeliveryStep ==
  TypeOK /\ Counted /\ Unsent /\ AnswersDelivered /\ [Next]_vars
    => Counted' /\ Unsent' /\ AnswersDelivered'
<1> SUFFICES ASSUME TypeOK, Counted, Unsent, AnswersDelivered, [Next]_vars
             PROVE  Counted' /\ Unsent' /\ AnswersDelivered'
  OBVIOUS
<1>1. ASSUME NEW r \in Requests, RequestStep(r)
      PROVE  Counted' /\ Unsent' /\ AnswersDelivered'
  <2>1. Counted'
    <3>1. CASE Choose(r) \/ Timeout(r)
      BY <3>1, RetriesAssumption DEF Choose, Timeout, Accept, Refuse, Retry, GiveUp, Goto,
         Respond, Counted, TypeOK, ForwardingTypeOK
    <3>2. CASE SendToService(r)
      BY <3>2 DEF SendToService, Send, Goto, Counted, TypeOK, ForwardingTypeOK
    <3>3. CASE Deliver(r)
      BY <3>3, DeliveredType, RepliesAssumption DEF Deliver, Answered, Goto, Respond, Counted,
         TypeOK, ForwardingTypeOK
    <3> QED
      BY <1>1, <3>1, <3>2, <3>3 DEF RequestStep
  <2>2. Unsent'
    <3>1. CASE Choose(r) \/ Timeout(r) \/ Deliver(r)
      <4>1. UNCHANGED <<at, tries>>
        BY <3>1 DEF Choose, Timeout, Deliver, Accept, Refuse, Retry, GiveUp, Answered, runs
      <4> QED
        BY <4>1 DEF Unsent
    <3>2. CASE SendToService(r)
      BY <3>2 DEF SendToService, Send, Unsent, Tries, TypeOK, ForwardingTypeOK, RunsTypeOK, Runs
    <3> QED
      BY <1>1, <3>1, <3>2 DEF RequestStep
  <2>3. AnswersDelivered'
    <3>1. CASE Choose(r) \/ Timeout(r)
      BY <3>1, RepliesAssumption DEF Choose, Timeout, Accept, Refuse, Retry, GiveUp, Goto,
         Respond, AnswersDelivered, TypeOK, ForwardingTypeOK, runs
    <3>2. CASE SendToService(r)
      <4>1. answer[r] \notin Replies
        BY <3>2, RepliesAssumption DEF SendToService, Send, Counted
      <4>2. /\ answer' = answer /\ reply' = reply
            /\ \A q \in Requests \ {r} : tries'[q] = tries[q]
            /\ \A q \in Requests \ {r}, k \in Tries : at'[<<q, k>>] = at[<<q, k>>]
        BY <3>2 DEF SendToService, Send, TypeOK, ForwardingTypeOK, RunsTypeOK, Runs
      <4> QED
        BY <4>1, <4>2 DEF AnswersDelivered
    <3>3. CASE Deliver(r)
      BY <3>3, DeliveredType DEF Deliver, Answered, Goto, Respond, AnswersDelivered, TypeOK,
         ForwardingTypeOK, runs
    <3> QED
      BY <1>1, <3>1, <3>2, <3>3 DEF RequestStep
  <2> QED
    BY <2>1, <2>2, <2>3
<1>2. CASE GoesDown \/ (\E x \in Runs : RunStep(x) \/ DatabaseFails(x))
  <2>1. UNCHANGED <<pc, tries, answer>>
    BY <1>2, RunFrame DEF forwarding
  <2>2. \A q \in Requests, k \in Tries : at[<<q, k>>] \in {"none", "done"} =>
          at'[<<q, k>>] = at[<<q, k>>] /\ reply'[<<q, k>>] = reply[<<q, k>>]
    BY <1>2, RunFrame DEF Runs
  <2> QED
    BY <2>1, <2>2 DEF Counted, Unsent, AnswersDelivered
<1>3. CASE FallsIll \/ ComesBack \/ UNCHANGED vars
  <2>1. UNCHANGED <<pc, tries, answer, at, reply>>
    BY <1>3 DEF FallsIll, ComesBack, vars, forwarding, runs
  <2> QED
    BY <2>1 DEF Counted, Unsent, AnswersDelivered
<1> QED
  BY <1>1, <1>2, <1>3 DEF Next

-----------------------------------------------------------------------------
(* The inductive invariant: the tables of the services.                    *)

(* A run that has written the name, and not committed, is alone in that.   *)
Holding == \A x \in Runs : at[x] = "written" => holder = x /\ owner = Free

(* What a run has answered is so in the tables, and stays so.              *)
RepliesTrue ==
  \A x \in Runs :
    /\ reply[x] \in {"created", "completed"} => x \in commits
    /\ reply[x] = "granted" => owner = x[1]
    /\ reply[x] = "taken" => owner # Free
    /\ reply[x] = "listed" /\ Batch > 0 => saved > 0

(* A date or a failure, in the table or in the memory of a run, is there   *)
(* because some run wrote and answered it.  The date is needed of the      *)
(* copies because a run writes it back as it read it, the failure because  *)
(* a run that fails a payment it read as failed writes nothing.            *)
Accounted(row) ==
  /\ row.paid => Wrote("completed")
  /\ row.status = "failed" => Wrote("failed")

(* Once a run has answered with an outcome, the row has one that a run     *)
(* wrote, and no copy of the row can put back another.                     *)
PaymentAccounted ==
  /\ (\E x \in Runs : reply[x] \in {"completed", "failed"}) => Wrote(payment.status)
  /\ payment.status = "completed" /\ Wrote("completed") => payment.paid
  /\ Accounted(payment)
  /\ \A x \in Runs : Accounted(found[x])

(* A run that saves recommendations has found none before.                 *)
MakersKnown ==
  \A x \in Runs :
    /\ x \in makers => at[x] \notin {"none", "begin"}
    /\ at[x] = "saving" => x \in makers

(* The saved rows, by the run that saved them and what it had yet to save. *)
Made == {p \in makers \X (1..Batch) : p[2] > left[p[1]]}

MadeCounted == saved = Cardinality(Made)

TablesInv == Holding /\ RepliesTrue /\ PaymentAccounted /\ MakersKnown /\ MadeCounted

IInv == TypeOK /\ Counted /\ Unsent /\ AnswersDelivered /\ TablesInv

LEMMA RunsNotFree ==
  ASSUME NEW x \in Runs
  PROVE  x # Free /\ x[1] # Free /\ x[1] \in Requests
BY FreeAssumption DEF Runs

LEMMA InitInv == Init => IInv
<1> SUFFICES ASSUME Init
             PROVE  IInv
  OBVIOUS
<1>1. TypeOK
  BY InitType
<1>2. Counted /\ Unsent /\ AnswersDelivered
  BY RepliesAssumption
  DEF Init, ForwardingInit, Counted, Unsent, AnswersDelivered, Runs
<1>3. Holding /\ RepliesTrue /\ MakersKnown
  BY DEF Init, RecommendationsInit, Holding, RepliesTrue, MakersKnown
<1>5. PaymentAccounted
  <2>1. /\ payment \in SeededRows /\ found = [x \in Runs |-> Pending]
        /\ commits = {} /\ reply = [x \in Runs |-> "none"]
    BY DEF Init, PaymentsInit
  <2>2. \A row \in SeededRows : ~row.paid /\ row.status # "failed"
    BY DEF SeededRows, Pending
  <2>3. Pending \in SeededRows
    BY DEF SeededRows
  <2>4. ~Wrote("completed")
    BY <2>1 DEF Wrote
  <2> QED
    BY <2>1, <2>2, <2>3, <2>4 DEF PaymentAccounted, Accounted
<1>4. MadeCounted
  <2>1. Made = {}
    BY DEF Init, RecommendationsInit, Made
  <2> QED
    BY <2>1, FS_EmptySet DEF Init, RecommendationsInit, MadeCounted
<1> QED
  BY <1>1, <1>2, <1>3, <1>4, <1>5 DEF IInv, TablesInv

-----------------------------------------------------------------------------
(* The payments, and what an ended run keeps.                              *)

LEMMA CountFrame ==
  ASSUME MadeCounted, UNCHANGED recommendations
  PROVE  MadeCounted'
BY DEF MadeCounted, Made, recommendations

(* Runs that answer with no outcome of a payment change nothing of what    *)
(* was written.                                                            *)
LEMMA AccountFrame ==
  ASSUME PaymentAccounted, UNCHANGED <<kind, payments>>, commits \subseteq commits',
         \A y \in commits' : y \in commits \/ reply'[y] \notin {"completed", "failed"},
         \A y \in Runs : \/ reply'[y] = reply[y]
                         \/ reply[y] = "none" /\ reply'[y] \notin {"completed", "failed"},
         commits' \subseteq Runs, payment \in Rows
  PROVE  PaymentAccounted'
<1>1. ASSUME NEW o \in {"pending", "completed", "failed"}
      PROVE  Wrote(o) => Wrote(o)'
  BY <1>1 DEF Wrote, Is
<1>2. ASSUME NEW o \in {"completed", "failed"}
      PROVE  Wrote(o)' => Wrote(o)
  BY <1>2 DEF Wrote, Is
<1>3. UNCHANGED <<payment, found>> /\ payment.status \in {"pending", "completed", "failed"}
  BY DEF payments, Rows
<1>4. Wrote(payment.status) => Wrote(payment.status)'
  BY <1>1, <1>3
<1>5. Wrote("completed")' <=> Wrote("completed")
  BY <1>1, <1>2
<1>6. Wrote("failed")' <=> Wrote("failed")
  BY <1>1, <1>2
<1>7. (\E x \in Runs : reply'[x] \in {"completed", "failed"})
        => \E x \in Runs : reply[x] \in {"completed", "failed"}
  OBVIOUS
<1> QED
  BY <1>3, <1>4, <1>5, <1>6, <1>7 DEF PaymentAccounted, Accounted

LEMMA FindAccounts ==
  ASSUME TypeOK, TablesInv, NEW x \in Runs, FindPayment(x)
  PROVE  PaymentAccounted'
<1> USE DEF TypeOK, RunsTypeOK, PaymentsTypeOK
<1>1. CASE UNCHANGED found
  <2>1. reply'[x] \in {"none", "error"} /\ reply[x] = "none"
        /\ \A y \in Runs : y # x => reply'[y] = reply[y]
    BY <1>1 DEF FindPayment, Moves, Ends
  <2> QED
    BY <1>1, <2>1, AccountFrame DEF FindPayment, payments, TablesInv
<1>2. CASE found' = [found EXCEPT ![x] = payment] /\ UNCHANGED reply
  <2>1. UNCHANGED <<kind, reply, commits, payment>>
    BY <1>2 DEF FindPayment
  <2>2. \A o : Wrote(o)' = Wrote(o)
    BY <2>1 DEF Wrote, Is
  <2>3. \A y \in Runs : found'[y] \in {payment, found[y]}
    BY <1>2
  <2> QED
    BY <2>1, <2>2, <2>3 DEF PaymentAccounted, Accounted, TablesInv
<1> QED
  BY <1>1, <1>2 DEF FindPayment

(* Whatever old row a run writes back, its date was written by some run;   *)
(* and a run that writes nothing has read a failure some run had written.  *)
LEMMA CommitAccounts ==
  ASSUME TypeOK, TablesInv, NEW x \in Runs, NEW outcome \in {"completed", "failed"},
         CommitPayment(x, outcome)
  PROVE  PaymentAccounted'
<1> USE DEF TypeOK, RunsTypeOK, PaymentsTypeOK
<1>1. /\ Is(x, "process") /\ reply[x] = "none" /\ reply' = [reply EXCEPT ![x] = outcome]
      /\ UNCHANGED <<kind, found>> /\ commits \subseteq commits'
      /\ commits' \subseteq commits \union {x}
  BY DEF CommitPayment, Ends, Moves
<1>2. \A o \in {"pending", "completed", "failed"} : Wrote(o) => Wrote(o)'
  BY <1>1 DEF Wrote, Is
<1>3. \A o \in {"completed", "failed"} : o # outcome => (Wrote(o)' => Wrote(o))
  BY <1>1 DEF Wrote, Is
<1>4. payment \in Rows /\ found[x] \in Rows
  OBVIOUS
<1>5. \A y \in Runs : Accounted(found[y])'
  BY <1>1, <1>2 DEF TablesInv, PaymentAccounted, Accounted
<1>6. CASE Dirty(found[x], outcome)
  <2>1. payment' = Decided(found[x], outcome) /\ x \in commits'
    BY <1>6 DEF CommitPayment
  <2>2. /\ payment'.status = outcome
        /\ payment'.paid = (found[x].paid \/ outcome = "completed")
    BY <2>1, <1>4 DEF Decided, Rows
  <2>3. Wrote(outcome)'
    BY <1>1, <2>1 DEF Wrote, Is
  <2>4. payment'.paid => Wrote("completed")'
    BY <1>2, <2>2, <2>3 DEF TablesInv, PaymentAccounted, Accounted
  <2> QED
    BY <1>5, <2>2, <2>3, <2>4 DEF PaymentAccounted, Accounted
<1>7. CASE ~Dirty(found[x], outcome)
  <2>1. outcome = "failed" /\ found[x].status = "failed"
    BY <1>7 DEF Dirty
  <2>2. UNCHANGED payment
    BY <1>7 DEF CommitPayment
  <2>3. Wrote("failed")
    BY <2>1 DEF TablesInv, PaymentAccounted, Accounted
  <2>4. Wrote(payment.status)
    <3>1. \E y \in Runs : reply[y] \in {"completed", "failed"}
      BY <2>3 DEF Wrote
    <3> QED
      BY <3>1 DEF TablesInv, PaymentAccounted
  <2>5. Wrote(payment.status)'
    BY <1>2, <1>4, <2>2, <2>4 DEF Rows
  <2> QED
    BY <1>2, <1>3, <1>5, <2>1, <2>2, <2>5 DEF TablesInv, PaymentAccounted, Accounted
<1> QED
  BY <1>6, <1>7

LEMMA PaymentInv ==
  ASSUME TypeOK, TablesInv, NEW x \in Runs, PaymentStep(x), UNCHANGED <<users, recommendations>>
  PROVE  TablesInv'
<1> USE DEF TypeOK, RunsTypeOK, TablesInv
<1>1. UNCHANGED <<owner, holder, saved, left, makers>>
  BY DEF users, recommendations
<1>2. /\ at[x] \in {"begin", "found"}
      /\ \A y \in Runs : y # x => at'[y] = at[y] /\ reply'[y] = reply[y]
      /\ at'[x] \in {"found", "done"}
      /\ commits \subseteq commits'
  BY DEF PaymentStep, CreatePayment, FindPayment, CommitPayment, Ends, Moves
<1>3. reply'[x] \in {"none", "created", "completed", "failed", "error"}
      /\ (reply'[x] \in {"created", "completed"} => x \in commits')
  <2>1. CASE CreatePayment(x)
    BY <2>1 DEF CreatePayment, Ends, Moves
  <2>2. CASE FindPayment(x)
    BY <2>2 DEF FindPayment, Ends, Moves
  <2>3. ASSUME NEW outcome \in {"completed", "failed"}, CommitPayment(x, outcome)
        PROVE  reply'[x] = outcome /\ (outcome = "completed" => x \in commits')
    BY <2>3 DEF CommitPayment, Dirty, Ends, Moves
  <2> QED
    BY <2>1, <2>2, <2>3 DEF PaymentStep
<1>4. Holding'
  BY <1>1, <1>2 DEF Holding
<1>5. RepliesTrue'
  BY <1>1, <1>2, <1>3 DEF RepliesTrue
<1>6. PaymentAccounted'
  <2>1. CASE CreatePayment(x)
    <3>1. /\ UNCHANGED <<kind, payments>> /\ commits' = commits \union {x}
          /\ reply[x] = "none" /\ reply' = [reply EXCEPT ![x] = "created"]
      BY <2>1 DEF CreatePayment, Ends, Moves
    <3> QED
      BY <3>1, AccountFrame DEF PaymentsTypeOK
  <2> QED
    BY <2>1, FindAccounts, CommitAccounts DEF PaymentStep
<1>7. MakersKnown'
  BY <1>1, <1>2 DEF MakersKnown
<1> QED
  BY <1>4, <1>5, <1>6, <1>7, CountFrame

LEMMA UserInv ==
  ASSUME TypeOK, TablesInv, NEW x \in Runs, UserStep(x), UNCHANGED <<payments, recommendations>>
  PROVE  TablesInv'
<1> USE DEF TypeOK, RunsTypeOK, TablesInv
<1>1. UNCHANGED <<payment, found, saved, left, makers>>
  BY DEF payments, recommendations
<1>2. /\ at[x] \in {"begin", "checked", "written"}
      /\ \A y \in Runs : y # x => at'[y] = at[y] /\ reply'[y] = reply[y]
      /\ at'[x] \in {"checked", "written", "done"}
      /\ commits \subseteq commits' /\ commits' \subseteq commits \union {x}
      /\ UNCHANGED kind
  BY DEF UserStep, CheckUsername, FindUser, InsertUser, ClaimName, UpdateUser, CommitUser,
     Ends, Moves
<1>3. /\ owner # Free => owner' = owner
      /\ reply'[x] \in {"none", "granted", "taken", "error"}
      /\ reply'[x] = "granted" => owner' = x[1]
      /\ reply'[x] = "taken" => owner' # Free
  BY DEF UserStep, CheckUsername, FindUser, InsertUser, ClaimName, UpdateUser, CommitUser,
     Ends, Moves, Holding, users
<1>4. Holding'
  <2>1. CASE ClaimName(x)
    BY <2>1, RunsNotFree DEF ClaimName, Ends, Moves, Holding
  <2>2. CASE CommitUser(x)
    BY <2>2, RunsNotFree DEF CommitUser, Ends, Moves, Holding
  <2>3. CASE at'[x] # "written" /\ UNCHANGED users
    BY <1>2, <2>3 DEF Holding, users
  <2> QED
    BY <2>1, <2>2, <2>3 DEF UserStep, CheckUsername, FindUser, InsertUser, UpdateUser, Ends, Moves
<1>5. RepliesTrue'
  <2>1. \A y \in Runs : y[1] # Free
    BY RunsNotFree
  <2> QED
    BY <1>1, <1>2, <1>3, <2>1 DEF RepliesTrue
<1>6. PaymentAccounted'
  BY <1>2, <1>3, AccountFrame DEF PaymentsTypeOK
<1>7. MakersKnown'
  BY <1>1, <1>2 DEF MakersKnown
<1> QED
  BY <1>4, <1>5, <1>6, <1>7, CountFrame

-----------------------------------------------------------------------------
(* The recommendations: every row is saved by a run that found none.       *)

LEMMA MakersFinite ==
  ASSUME TypeOK
  PROVE  IsFiniteSet(makers)
<1>1. IsFiniteSet(Tries)
  BY FS_Interval, RetriesAssumption DEF Tries
<1>2. IsFiniteSet(Runs)
  BY <1>1, FS_Product, RequestsAssumption DEF Runs
<1> QED
  BY <1>2, FS_Subset DEF TypeOK, RecommendationsTypeOK

LEMMA MadeFinite ==
  ASSUME TypeOK
  PROVE  IsFiniteSet(Made)
<1>1. IsFiniteSet(1..Batch)
  BY FS_Interval, BatchAssumption
<1>2. IsFiniteSet(makers \X (1..Batch))
  BY <1>1, MakersFinite, FS_Product
<1> QED
  BY <1>2, FS_Subset DEF Made

LEMMA FoundNone ==
  ASSUME TypeOK, TablesInv, NEW x \in Runs, at[x] = "begin",
         left' = [left EXCEPT ![x] = Batch], makers' = makers \union {x}
  PROVE  Made' = Made
<1>1. x \notin makers /\ makers \subseteq Runs /\ left \in [Runs -> 0..Batch]
  BY DEF TypeOK, RecommendationsTypeOK, TablesInv, MakersKnown
<1>2. \A p \in makers \X (1..Batch) : p[1] # x /\ left'[p[1]] = left[p[1]]
  BY <1>1
<1>3. \A p \in {x} \X (1..Batch) : ~(p[2] > left'[p[1]])
  BY <1>1, BatchAssumption
<1>4. (makers \union {x}) \X (1..Batch) = (makers \X (1..Batch)) \union ({x} \X (1..Batch))
  OBVIOUS
<1> QED
  BY <1>2, <1>3, <1>4 DEF Made

LEMMA SavedOne ==
  ASSUME TypeOK, TablesInv, NEW x \in Runs, SaveRecommendation(x)
  PROVE  MadeCounted'
<1>1. /\ x \in makers /\ makers \subseteq Runs /\ left \in [Runs -> 0..Batch]
      /\ left[x] \in 1..Batch
  BY BatchAssumption
  DEF TypeOK, RecommendationsTypeOK, TablesInv, MakersKnown, SaveRecommendation, Ends, Moves
<1>2. left' = [left EXCEPT ![x] = @ - 1] /\ makers' = makers /\ saved' = saved + 1
  BY DEF SaveRecommendation
<1>3. Made' = Made \union {<<x, left[x]>>}
  <2>1. \A p \in makers \X (1..Batch) :
          p[2] > left'[p[1]] <=> (p[2] > left[p[1]] \/ p = <<x, left[x]>>)
    <3> SUFFICES ASSUME NEW p \in makers \X (1..Batch)
                 PROVE  p[2] > left'[p[1]] <=> (p[2] > left[p[1]] \/ p = <<x, left[x]>>)
      OBVIOUS
    <3>1. p = <<p[1], p[2]>> /\ p[1] \in Runs /\ p[2] \in 1..Batch
      BY <1>1
    <3>2. CASE p[1] = x
      BY <1>1, <1>2, <3>1, <3>2, BatchAssumption
    <3>3. CASE p[1] # x
      BY <1>1, <1>2, <3>1, <3>3
    <3> QED
      BY <3>2, <3>3
  <2>2. <<x, left[x]>> \in makers \X (1..Batch)
    BY <1>1
  <2> QED
    BY <1>2, <2>1, <2>2 DEF Made
<1>4. <<x, left[x]>> \notin Made
  BY <1>1, BatchAssumption DEF Made
<1>5. Cardinality(Made \union {<<x, left[x]>>}) = Cardinality(Made) + 1
  BY <1>4, MadeFinite, FS_AddElement
<1> QED
  BY <1>2, <1>3, <1>5 DEF TablesInv, MadeCounted

LEMMA RecommendationInv ==
  ASSUME TypeOK, TablesInv, NEW x \in Runs, RecommendationStep(x), UNCHANGED <<payments, users>>
  PROVE  TablesInv'
<1> USE DEF TypeOK, RunsTypeOK, TablesInv
<1>1. UNCHANGED <<payment, found, owner, holder>>
  BY DEF payments, users
<1>2. /\ at[x] \in {"begin", "saving"}
      /\ \A y \in Runs : y # x => at'[y] = at[y] /\ reply'[y] = reply[y]
      /\ at'[x] \in {"saving", "done"}
      /\ commits \subseteq commits' /\ commits' \subseteq commits \union {x}
      /\ UNCHANGED kind
      /\ reply'[x] \in {"none", "listed"}
  BY DEF RecommendationStep, FindRecommendations, SaveRecommendation, Ends, Moves
<1>3. saved \in Nat /\ (saved > 0 => saved' > 0) /\ (reply'[x] = "listed" /\ Batch > 0 => saved' > 0)
  BY DEF RecommendationStep, FindRecommendations, SaveRecommendation, Ends, Moves,
     RecommendationsTypeOK
<1>4. Holding' /\ PaymentAccounted'
  <2>1. Holding'
    BY <1>1, <1>2 DEF Holding
  <2> QED
    BY <1>2, <2>1, AccountFrame DEF PaymentsTypeOK
<1>5. RepliesTrue'
  BY <1>1, <1>2, <1>3 DEF RepliesTrue
<1>6. MakersKnown'
  BY <1>2 DEF MakersKnown, RecommendationStep, FindRecommendations, SaveRecommendation, Ends, Moves
<1>7. MadeCounted'
  <2>1. CASE SaveRecommendation(x)
    BY <2>1, SavedOne
  <2>2. CASE FindRecommendations(x) /\ (saved = 0 => Batch = 0)
    BY <2>2 DEF FindRecommendations, MadeCounted, Made
  <2>3. CASE FindRecommendations(x) /\ saved = 0 /\ Batch > 0
    <3>1. Made' = Made /\ saved' = saved
      BY <2>3, FoundNone DEF FindRecommendations, Moves
    <3> QED
      BY <3>1 DEF MadeCounted
  <2> QED
    BY <2>1, <2>2, <2>3, BatchAssumption DEF RecommendationStep
<1> QED
  BY <1>4, <1>5, <1>6, <1>7

-----------------------------------------------------------------------------
(* The other steps.                                                        *)

LEMMA RequestInv ==
  ASSUME TypeOK, Counted, Unsent, TablesInv, NEW r \in Requests, RequestStep(r)
  PROVE  TablesInv'
<1> USE DEF TypeOK, RunsTypeOK, TablesInv
<1>1. UNCHANGED <<kind, reply, commits, payment, found, owner, holder, saved>>
      /\ UNCHANGED <<payments, recommendations>>
  BY RequestFrame DEF tables, payments, users, recommendations
<1>2. \A y \in Runs :
        \/ at'[y] = at[y]
        \/ at[y] = "none" /\ at'[y] = "begin"
  <2>1. CASE Send(r) /\ at' = [at EXCEPT ![<<r, tries[r] + 1>>] = "begin"]
    <3>1. tries[r] \in Nat /\ tries[r] <= MaxRetries
      BY <2>1 DEF Send, Counted, ForwardingTypeOK
    <3>2. at[<<r, tries[r] + 1>>] = "none"
      BY <3>1, RunsInTries DEF Unsent
    <3> QED
      BY <2>1, <3>2
  <2> QED
    BY <2>1, RequestFrame
<1>3. Holding' /\ RepliesTrue'
  BY <1>1, <1>2 DEF Holding, RepliesTrue
<1>4. PaymentAccounted'
  BY <1>1, AccountFrame DEF PaymentsTypeOK
<1>5. MakersKnown'
  BY <1>1, <1>2 DEF MakersKnown, recommendations
<1> QED
  BY <1>1, <1>3, <1>4, <1>5, CountFrame

(* A run that ends in an error or with the process has changed nothing.    *)
LEMMA FaultInv ==
  ASSUME TypeOK, TablesInv,
         \/ FallsIll \/ GoesDown \/ ComesBack
         \/ \E x \in Runs : DatabaseFails(x)
  PROVE  TablesInv'
<1> USE DEF TypeOK, RunsTypeOK, TablesInv
<1>1. UNCHANGED <<kind, commits, owner, saved>> /\ UNCHANGED <<payments, recommendations>>
  BY DEF FallsIll, GoesDown, ComesBack, DatabaseFails, RunFails, RunsDie, runs, tables,
     payments, users, recommendations
<1>2. \A y \in Runs :
        /\ at'[y] # at[y] => at[y] \notin Ended /\ at'[y] \in {"done", "dead"}
        /\ reply'[y] # reply[y] => at[y] # "done" /\ reply'[y] = "error"
        /\ at'[y] = "written" => at[y] = "written" /\ holder' = holder
  <2>1. CASE FallsIll \/ ComesBack
    BY <2>1 DEF FallsIll, ComesBack, runs, tables, users
  <2>2. CASE GoesDown
    BY <2>2 DEF GoesDown, RunsDie, Ended
  <2>3. ASSUME NEW x \in Runs, DatabaseFails(x), NEW y \in Runs
        PROVE  /\ at'[y] # at[y] => at[y] \notin Ended /\ at'[y] \in {"done", "dead"}
               /\ reply'[y] # reply[y] => at[y] # "done" /\ reply'[y] = "error"
               /\ at'[y] = "written" => at[y] = "written" /\ holder' = holder
    <3>1. at[x] \notin Ended /\ at' = [at EXCEPT ![x] = "done"]
          /\ reply' = [reply EXCEPT ![x] = "error"]
          /\ holder' = IF holder = x THEN Free ELSE holder
      BY <2>3 DEF DatabaseFails, RunFails, ReleaseName, Ends, Moves
    <3> QED
      BY <3>1, <2>3 DEF Holding, Ended
  <2> QED
    BY <2>1, <2>2, <2>3
<1>3. Holding' /\ RepliesTrue'
  BY <1>1, <1>2 DEF Holding, RepliesTrue
<1>4. PaymentAccounted'
  BY <1>1, <1>2, AccountFrame DEF PaymentsTypeOK
<1>5. MakersKnown'
  BY <1>1, <1>2 DEF MakersKnown, recommendations
<1> QED
  BY <1>1, <1>3, <1>4, <1>5, CountFrame

LEMMA StepInv == IInv /\ [Next]_vars => IInv'
<1> SUFFICES ASSUME IInv, [Next]_vars
             PROVE  IInv'
  OBVIOUS
<1>1. TypeOK /\ Counted /\ Unsent /\ AnswersDelivered /\ TablesInv
  BY DEF IInv
<1>2. TypeOK' /\ Counted' /\ Unsent' /\ AnswersDelivered'
  BY <1>1, TypeStep, DeliveryStep
<1>3. ASSUME NEW x \in Runs, RunStep(x)
      PROVE  TablesInv'
  BY <1>1, <1>3, PaymentInv, UserInv, RecommendationInv DEF RunStep
<1>4. ASSUME UNCHANGED vars
      PROVE  TablesInv'
  <2>1. UNCHANGED <<kind, at, reply, commits, payments, owner, holder, saved, left, makers>>
    BY <1>4 DEF vars, runs, tables, payments, users, recommendations
  <2>2. Holding' /\ RepliesTrue'
    BY <1>1, <2>1 DEF TablesInv, Holding, RepliesTrue
  <2>3. PaymentAccounted' /\ MakersKnown'
    BY <1>1, <2>1, AccountFrame
    DEF TypeOK, RunsTypeOK, PaymentsTypeOK, TablesInv, MakersKnown
  <2>4. MadeCounted'
    BY <1>1, <2>1, CountFrame DEF TablesInv, recommendations
  <2> QED
    BY <2>2, <2>3, <2>4 DEF TablesInv
<1>5. ASSUME NEW r \in Requests, RequestStep(r)
      PROVE  TablesInv'
  BY <1>1, <1>5, RequestInv
<1>6. ASSUME \/ FallsIll \/ GoesDown \/ ComesBack
             \/ \E x \in Runs : DatabaseFails(x)
      PROVE  TablesInv'
  BY <1>1, <1>6, FaultInv
<1>7. TablesInv'
  BY <1>3, <1>4, <1>5, <1>6 DEF Next
<1> QED
  BY <1>2, <1>7 DEF IInv

LEMMA Invariance == Spec => []IInv
<1>1. Init => IInv
  BY InitInv
<1>2. IInv /\ [Next]_vars => IInv'
  BY StepInv
<1> QED
  BY <1>1, <1>2, PTL DEF Spec

-----------------------------------------------------------------------------
(* Every variable keeps its type, whatever the requests are and however    *)
(* often the service fails (Forwarding, the three services, Gateway).      *)
THEOREM TypeCorrect == Spec => []TypeOK
<1>1. IInv => TypeOK
  BY DEF IInv
<1> QED
  BY <1>1, Invariance, PTL

(* A 503 from the load balancer means that no run of the request ever      *)
(* began, for any number of retries and of faults: what was sent in vain   *)
(* is answered with a 502 (proxy.py, forward_request).                     *)
THEOREM RefusedMeansUnsent == Spec => []RefusedNeverRan
<1>1. IInv => RefusedNeverRan
  BY RetriesAssumption
  DEF IInv, Counted, Unsent, RefusedNeverRan, TypeOK, ForwardingTypeOK, Tries
<1> QED
  BY <1>1, Invariance, PTL

(* What a client is told of its own request is in the tables of the        *)
(* service, although any of several runs of it may have answered and all   *)
(* of them may have worked at once (proxy.py and the three services).      *)
THEOREM ToldTrue == Spec => []ToldIsTrue
<1>1. IInv => ToldIsTrue
  <2> SUFFICES ASSUME IInv, NEW r \in Requests
               PROVE  /\ answer[r] \in {"created", "completed"} => <<r, tries[r]>> \in commits
                      /\ answer[r] = "granted" => owner = r
                      /\ answer[r] = "taken" => owner # Free
                      /\ answer[r] = "listed" /\ Batch > 0 => saved > 0
    BY DEF ToldIsTrue
  <2> SUFFICES ASSUME answer[r] \in {"created", "completed", "granted", "taken", "listed"}
               PROVE  /\ answer[r] \in {"created", "completed"} => <<r, tries[r]>> \in commits
                      /\ answer[r] = "granted" => owner = r
                      /\ answer[r] = "taken" => owner # Free
                      /\ answer[r] = "listed" /\ Batch > 0 => saved > 0
    OBVIOUS
  <2>1. answer[r] \in Replies
    BY RunRepliesAssumption DEF RunReplies
  <2>2. tries[r] \in Tries /\ reply[<<r, tries[r]>>] = answer[r]
    BY <2>1 DEF IInv, AnswersDelivered
  <2>3. <<r, tries[r]>> \in Runs
    BY <2>2 DEF Runs
  <2> QED
    BY <2>2, <2>3 DEF IInv, TablesInv, RepliesTrue
<1> QED
  BY <1>1, Invariance, PTL

(* However many runs process one payment, and however old the row is that  *)
(* each of them writes back, what a client was told of the payment is      *)
(* undone only by a run that wrote another outcome and answered with it,   *)
(* and a date of payment was never made up (PaymentService.java,           *)
(* processPayment).                                                        *)
THEOREM OutcomeHolds == Spec => []OutcomeAccounted
<1>1. IInv => OutcomeAccounted
  <2> SUFFICES ASSUME IInv
               PROVE  OutcomeAccounted
    OBVIOUS
  <2>1. PaymentAccounted
    BY DEF IInv, TablesInv
  <2>2. ASSUME NEW r \in Requests, answer[r] \in {"completed", "failed"}
        PROVE  \E x \in Runs : reply[x] \in {"completed", "failed"}
    <3>1. answer[r] \in Replies
      BY <2>2, RunRepliesAssumption DEF RunReplies
    <3>2. tries[r] \in Tries /\ reply[<<r, tries[r]>>] = answer[r]
      BY <3>1 DEF IInv, AnswersDelivered
    <3> QED
      BY <2>2, <3>2 DEF Runs
  <2> QED
    BY <2>1, <2>2 DEF OutcomeAccounted, PaymentAccounted, Accounted
<1> QED
  BY <1>1, Invariance, PTL

(* However many requests ask at once and however often each is repeated,   *)
(* a user has at most one full list for every run that found none          *)
(* (RecommendationService.java).                                           *)
THEOREM MadeBounded == Spec => []MadeWhereNoneWas
<1>1. IInv => MadeWhereNoneWas
  <2> SUFFICES ASSUME IInv
               PROVE  saved <= Batch * Cardinality(makers)
    BY DEF MadeWhereNoneWas
  <2>1. IsFiniteSet(makers)
    BY MakersFinite DEF IInv
  <2>2. /\ IsFiniteSet(1..Batch)
        /\ Cardinality(1..Batch) = Batch
    BY FS_Interval, BatchAssumption
  <2>3. /\ IsFiniteSet(makers \X (1..Batch))
        /\ Cardinality(makers \X (1..Batch)) = Cardinality(makers) * Batch
    BY <2>1, <2>2, FS_Product
  <2>4. Cardinality(Made) <= Cardinality(makers \X (1..Batch))
    BY <2>3, FS_Subset DEF Made
  <2>5. saved = Cardinality(Made)
    BY DEF IInv, TablesInv, MadeCounted
  <2>6. Cardinality(makers) \in Nat /\ Batch \in Nat
    BY <2>1, FS_CardinalityType, BatchAssumption
  <2>7. Cardinality(makers) * Batch = Batch * Cardinality(makers)
    BY <2>6
  <2> QED
    BY <2>3, <2>4, <2>5, <2>7
<1> QED
  BY <1>1, Invariance, PTL

=============================================================================
