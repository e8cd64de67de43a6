----------------------- MODULE ExecutionService_proofs -----------------------
(* Theorems about ExecutionService, for any orders, quantity and retry limit. *)
EXTENDS ExecutionService, SequenceTheorems, TLAPS

USE NoOrderAssumption, QuantityAssumption, MaxRetriesAssumption, OutcomesAssumption,
    DedupAssumption, BoundsAssumption

-----------------------------------------------------------------------------
(* Objects and their fields. *)

\* Absent and a new execution are executions.
LEMMA ConstantExecutions == Absent \in Execution /\ NewExecution \in Execution
  BY DEF Absent, NewExecution, Execution, Status

\* Adding fills to an execution gives an execution.
LEMMA AddFillsType ==
  ASSUME NEW e \in Execution, NEW units \in Nat
  PROVE  AddFills(e, units) \in Execution
  BY DEF AddFills, Execution, Status

\* Assigning the status, or the status and the exchange id, gives an execution.
LEMMA AssignType ==
  ASSUME NEW e \in Execution, NEW s \in Status, NEW id \in Nat
  PROVE  /\ [e EXCEPT !.status = s] \in Execution
         /\ [e EXCEPT !.status = s, !.exid = id] \in Execution
  BY DEF Execution

\* What is stored is an execution.
LEMMA StoredType ==
  ASSUME TypeOK, NEW o \in Orders
  PROVE  Stored(o) \in Execution
  BY DEF TypeOK, RepositoryType, Stored

\* The exchange reports a natural number of units.
LEMMA TradedType ==
  ASSUME NEW book \in Seq(Nat), NEW e
  PROVE  Traded(book, e) \in Nat
  BY DEF Traded

\* One more unit traded under an id the exchange gave leaves a book a book.
LEMMA BookGrows ==
  ASSUME NEW book \in Seq(Nat), NEW k \in DOMAIN book
  PROVE  [book EXCEPT ![k] = @ + 1] \in Seq(Nat)
<1>1. k \in 1..Len(book)
  OBVIOUS
<1>2. book[k] \in Nat
  BY <1>1
<1>3. book[k] + 1 \in Nat
  BY <1>2
<1> QED
  BY <1>1, <1>3, ExceptSeq

\* A submission leaves or extends the exchange's book for an order, and the id
\* it returns is in the book.
LEMMA PlacedType ==
  ASSUME NEW o \in Orders, exch \in [Orders -> Seq(Nat)]
  PROVE  /\ Placed(o) \in Seq(Nat)
         /\ PlacedID(o) \in DOMAIN Placed(o)
         /\ DOMAIN exch[o] \subseteq DOMAIN Placed(o)
         /\ \A k \in DOMAIN exch[o] : Placed(o)[k] = exch[o][k]
<1>1. exch[o] \in Seq(Nat)
  OBVIOUS
<1>2. CASE KnownToExchange(o)
  <2>1. exch[o] # << >>
    BY <1>2 DEF KnownToExchange
  <2>2. Len(exch[o]) \in Nat \ {0}
    BY <1>1, <2>1
  <2> QED
    BY <1>1, <1>2, <2>2 DEF Placed, PlacedID
<1>3. CASE ~KnownToExchange(o)
  <2>1. Placed(o) = Append(exch[o], 0) /\ PlacedID(o) = Len(exch[o]) + 1
    BY <1>3 DEF Placed, PlacedID
  <2> QED
    BY <1>1, <2>1
<1> QED
  BY <1>2, <1>3

-----------------------------------------------------------------------------
(* Type correctness. *)

LEMMA InitTypeOK == Init => TypeOK
  BY ConstantExecutions
  DEF Init, TypeOK, TopicType, ConsumerType, RepositoryType, ReconcilerType, EnvironmentType,
      HistoryType, ConsumerPC, ReconcilerPC

\* Every action keeps TypeOK.
LEMMA NextTypeOK == TypeOK /\ [Next]_vars => TypeOK'
<1> SUFFICES ASSUME TypeOK, [Next]_vars PROVE TypeOK'
  OBVIOUS
<1> USE DEF TypeOK, TopicType, ConsumerType, RepositoryType, ReconcilerType, EnvironmentType,
        HistoryType, ConsumerPC, ReconcilerPC, consumerVars, reconcilerVars, historyVars
<1>1. ASSUME NEW o \in Orders, Deliver(o) PROVE TypeOK'
  <2>1. TopicType'
    BY <1>1 DEF Deliver
  <2> QED
    BY <1>1, <2>1 DEF Deliver
<1>2. ASSUME NEW o \in Orders, NEW k \in DOMAIN exch[o], ExchangeFill(o, k) PROVE TypeOK'
  <2>1. exch[o] \in Seq(Nat)
    OBVIOUS
  <2>2. [exch[o] EXCEPT ![k] = @ + 1] \in Seq(Nat)
    BY <2>1, BookGrows
  <2>3. exch' \in [Orders -> Seq(Nat)]
    BY <1>2, <2>2 DEF ExchangeFill
  <2> QED
    BY <1>2, <2>3 DEF ExchangeFill
<1>3. CASE FetchMessage
  <2>1. next + 1 \in 1..Len(log) /\ log[next + 1] \in Orders
    BY <1>3 DEF FetchMessage
  <2>2. TopicType'
    BY <1>3, <2>1 DEF FetchMessage
  <2>3. ConsumerType'
    BY <1>3, <2>1 DEF FetchMessage
  <2> QED
    BY <1>3, <2>2, <2>3 DEF FetchMessage
<1>4. CASE FetchFails
  BY <1>4 DEF FetchFails
<1>5. CASE SkipProcessed
  BY <1>5 DEF SkipProcessed
<1>6. CASE HandleOrderCreated
  BY <1>6, ConstantExecutions DEF HandleOrderCreated
<1>7. ASSUME NEW outcome \in SubmitOutcomes, SubmitAttempt(outcome) PROVE TypeOK'
  <2>1. cur \in Orders /\ cur' = cur
    BY <1>7 DEF SubmitAttempt
  <2>2. PlacedID(cur) \in Nat /\ Placed(cur) \in Seq(Nat)
    <3>1. exch \in [Orders -> Seq(Nat)]
      OBVIOUS
    <3> HIDE DEF TypeOK
    <3> QED
      BY <2>1, <3>1, PlacedType
  <2>3. exch' \in [Orders -> Seq(Nat)]
    BY <1>7, <2>1, <2>2 DEF SubmitAttempt
  <2>4. cpc' \in {"accepted", "exhausted", "backoff"} /\ reply' \in Nat
    BY <1>7, <2>1, <2>2 DEF SubmitAttempt
  <2>5. attempts' \in [Orders -> Nat] /\ calls' \in [Orders -> Nat]
    <3>1. attempts[cur] + 1 \in Nat /\ calls[cur] + 1 \in Nat
      BY <2>1
    <3> QED
      BY <1>7, <3>1 DEF SubmitAttempt
  <2>6. ConsumerType' /\ HistoryType'
    BY <1>7, <2>1, <2>4, <2>5 DEF SubmitAttempt
  <2> QED
    BY <1>7, <2>3, <2>5, <2>6 DEF SubmitAttempt
<1>8. CASE BackoffElapses
  BY <1>8 DEF BackoffElapses
<1>9. CASE BackoffCanceled
  BY <1>9 DEF BackoffCanceled
<1>10. CASE FailExecution
  <2>1. [held[cur] EXCEPT !.status = "failed"] \in Execution
    BY <1>10, AssignType DEF FailExecution, Status
  <2> QED
    BY <1>10, <2>1, ConstantExecutions DEF FailExecution
<1>11. CASE MarkSubmitted
  <2>1. [held[cur] EXCEPT !.status = "submitted", !.exid = reply] \in Execution
    BY <1>11, AssignType DEF MarkSubmitted, Status
  <2> QED
    BY <1>11, <2>1 DEF MarkSubmitted
<1>12. CASE UpdateSubmitted
  BY <1>12, ConstantExecutions DEF UpdateSubmitted
<1>13. CASE PublishSubmitted
  <2>1. cur \in Orders /\ cur' = cur
    BY <1>13 DEF PublishSubmitted
  <2>2. submittedEvents' \in [Orders -> Nat]
    <3>1. submittedEvents[cur] + 1 \in Nat
      BY <2>1
    <3> QED
      BY <1>13, <3>1 DEF PublishSubmitted
  <2>3. ConsumerType'
    BY <1>13, <2>1 DEF PublishSubmitted
  <2> QED
    BY <1>13, <2>2, <2>3 DEF PublishSubmitted
<1>14. CASE CommitMessage
  <2>1. TopicType'
    BY <1>14 DEF CommitMessage
  <2>2. ConsumerType'
    BY <1>14 DEF CommitMessage
  <2> QED
    BY <1>14, <2>1, <2>2 DEF CommitMessage
<1>15. CASE ListSubmitted
  BY <1>15, StoredType, ConstantExecutions DEF ListSubmitted
<1>16. CASE ListPartial
  BY <1>16, StoredType DEF ListPartial
<1>17. ASSUME NEW o \in Orders, PollFails(o) PROVE TypeOK'
  BY <1>17, ConstantExecutions DEF PollFails, Drop, Due
<1>18. ASSUME NEW o \in Orders, PollFills(o) PROVE TypeOK'
  <2>1. batch[o] \in Execution /\ Traded(exch[o], batch[o]) \in Nat
    BY TradedType
  <2>2. AddFills(batch[o], Traded(exch[o], batch[o])) \in Execution
    BY <2>1, AddFillsType
  <2>3. batch' \in [Orders -> Execution]
    BY <1>18, <2>2, ConstantExecutions DEF PollFills, Drop
  <2>4. ReconcilerType'
    BY <1>18, <2>3 DEF PollFills, Due
  <2> QED
    BY <1>18, <2>4 DEF PollFills
<1>19. CASE SaveFills
  BY <1>19, ConstantExecutions DEF SaveFills, Drop
<1>20. CASE PublishFilled
  <2>1. filledEvents' \in [Orders -> Nat]
    <3>1. rcur \in Orders /\ filledEvents[rcur] + 1 \in Nat
      BY <1>20 DEF PublishFilled
    <3> QED
      BY <1>20, <3>1 DEF PublishFilled
  <2>2. ReconcilerType'
    BY <1>20 DEF PublishFilled
  <2> QED
    BY <1>20, <2>1, <2>2 DEF PublishFilled
<1>21. CASE PassEnds
  BY <1>21 DEF PassEnds
<1>22. CASE Terminate
  BY <1>22 DEF Terminate
<1>23. CASE Restart
  BY <1>23, ConstantExecutions DEF Restart
<1>24. CASE LoopStops
  BY <1>24 DEF LoopStops
<1>25. CASE UNCHANGED vars
  BY <1>25 DEF vars
<1> QED
  BY <1>1, <1>2, <1>3, <1>4, <1>5, <1>6, <1>7, <1>8, <1>9, <1>10, <1>11, <1>12, <1>13,
     <1>14, <1>15, <1>16, <1>17, <1>18, <1>19, <1>20, <1>21, <1>22, <1>23, <1>24, <1>25
     DEF Next, Exchange, Consumer, Reconciler

\* The variables of the execution service keep their types.
THEOREM TypeCorrect == Spec => []TypeOK
  BY InitTypeOK, NextTypeOK, PTL DEF Spec

-----------------------------------------------------------------------------
(* No unit is counted more than twice. *)

\* An object stays well counted when the exchange takes orders and trades.
LEMMA WellCountedGrows ==
  ASSUME NEW old \in Seq(Nat), NEW new \in Seq(Nat), NEW e \in Execution,
         WellCounted(old, e), DOMAIN old \subseteq DOMAIN new,
         \A k \in DOMAIN old : old[k] <= new[k]
  PROVE  WellCounted(new, e)
<1>1. Traded(old, e) \in Nat /\ Traded(new, e) \in Nat /\ e.qty \in Nat /\ e.value \in Nat
  BY TradedType DEF Execution
<1>2. Traded(old, e) <= Traded(new, e)
  BY <1>1 DEF Traded
<1> QED
  BY <1>1, <1>2 DEF WellCounted

\* An empty or a new execution is well counted whatever the exchange holds.
LEMMA NoFillsWellCounted ==
  ASSUME NEW book \in Seq(Nat)
  PROVE  WellCounted(book, Absent) /\ WellCounted(book, NewExecution)
<1>1. Traded(book, Absent) = 0 /\ Traded(book, NewExecution) = 0
  BY DEF Traded, Absent, NewExecution
<1> QED
  BY <1>1 DEF WellCounted, Absent, NewExecution

\* A poll that TransitionTo lets through keeps a copy well counted: a submitted
\* copy had no fills, and a partially filled one had at most what is reported now.
LEMMA AddFillsWellCounted ==
  ASSUME NEW book \in Seq(Nat), NEW e \in Execution, WellCounted(book, e),
         Traded(book, e) > 0,
         CanTransition(e.status, AddFills(e, Traded(book, e)).status)
  PROVE  WellCounted(book, AddFills(e, Traded(book, e)))
<1> DEFINE n == Traded(book, e)
           f == AddFills(e, n)
<1>1. n \in Nat /\ e.qty \in Nat /\ e.value \in Nat
  BY TradedType DEF Execution
<1>2. Traded(book, f) = n
  BY DEF AddFills, Traded
<1>3. /\ f.exid = e.exid /\ f.value = e.value + n
      /\ f.status \in {"partial_filled", "filled"}
      /\ f.status = "partial_filled" => f.qty = e.qty + n /\ f.qty < Quantity
  BY <1>1 DEF AddFills
<1>4. CASE e.status = "submitted"
  <2>1. e.qty = 0 /\ e.value = 0
    BY <1>4 DEF WellCounted
  <2> QED
    BY <1>1, <1>2, <1>3, <2>1 DEF WellCounted
<1>5. CASE e.status = "partial_filled"
  <2>1. f.status = "filled" /\ e.value <= n
    BY <1>1, <1>3, <1>5 DEF CanTransition, WellCounted
  <2> QED
    BY <1>1, <1>2, <1>3, <2>1 DEF WellCounted
<1>6. e.status \in {"submitted", "partial_filled"}
  BY <1>3 DEF CanTransition
<1> QED
  BY <1>4, <1>5, <1>6

LEMMA InitCountingInv == Init => CountingInv
<1> SUFFICES ASSUME Init PROVE CountingInv
  OBVIOUS
<1>1. << >> \in Seq(Nat)
  OBVIOUS
<1>2. ObjectsWellCounted
  BY <1>1, NoFillsWellCounted DEF Init, ObjectsWellCounted
<1> QED
  BY <1>2 DEF Init, CountingInv, HeldHasNoFills, ReplyIsKnown, Absent

\* Every action keeps CountingInv.
LEMMA NextCountingInv == TypeOK /\ TypeOK' /\ CountingInv /\ [Next]_vars => CountingInv'
<1> SUFFICES ASSUME TypeOK, TypeOK', CountingInv, [Next]_vars PROVE CountingInv'
  OBVIOUS
<1> USE DEF CountingInv, consumerVars, reconcilerVars, historyVars
<1>a. /\ exch \in [Orders -> Seq(Nat)] /\ exch' \in [Orders -> Seq(Nat)]
      /\ held \in [Orders -> Execution] /\ copied \in [Orders -> Execution]
      /\ batch \in [Orders -> Execution] /\ shared \in [Orders -> BOOLEAN]
      /\ cpc \notin {"fetch", "stopped"} => cur \in Orders
      /\ rpc \in {"save", "publish"} => rcur \in Orders
      /\ reply \in Nat
  BY DEF TypeOK, ConsumerType, RepositoryType, ReconcilerType, EnvironmentType
\* Most actions change neither an object nor the exchange, and end no submission.
<1>b. ASSUME UNCHANGED <<exch, held, copied, batch>>, cpc' # "accepted"
      PROVE  CountingInv'
  BY <1>b DEF ObjectsWellCounted, HeldHasNoFills, ReplyIsKnown
<1>c. ASSUME UNCHANGED <<exch, held, copied, batch, cpc, cur, reply>>
      PROVE  CountingInv'
  BY <1>c DEF ObjectsWellCounted, HeldHasNoFills, ReplyIsKnown
\* The exchange grows, the objects stay.
<1>d. ASSUME \A o \in Orders : /\ DOMAIN exch[o] \subseteq DOMAIN exch'[o]
                               /\ \A k \in DOMAIN exch[o] : exch[o][k] <= exch'[o][k],
             UNCHANGED <<held, copied, batch>>
      PROVE  ObjectsWellCounted' /\ HeldHasNoFills'
  BY <1>a, <1>d, WellCountedGrows DEF ObjectsWellCounted, HeldHasNoFills
<1>1. ASSUME NEW o \in Orders, Deliver(o) PROVE CountingInv'
  BY <1>1, <1>c DEF Deliver
<1>2. ASSUME NEW o \in Orders, NEW k \in DOMAIN exch[o], ExchangeFill(o, k) PROVE CountingInv'
  <2>1. \A p \in Orders : /\ DOMAIN exch[p] = DOMAIN exch'[p]
                          /\ \A j \in DOMAIN exch[p] : exch[p][j] <= exch'[p][j]
    <3> TAKE p \in Orders
    <3>1. exch[p] \in Seq(Nat) /\ DOMAIN exch[p] = 1..Len(exch[p])
      BY <1>a
    <3>2. \A j \in DOMAIN exch[p] : exch[p][j] \in Nat
      BY <3>1
    <3>3. exch'[p] = IF p = o THEN [exch[o] EXCEPT ![k] = @ + 1] ELSE exch[p]
      BY <1>2, <1>a DEF ExchangeFill
    <3> QED
      BY <3>1, <3>2, <3>3
  <2>2. ObjectsWellCounted' /\ HeldHasNoFills'
    BY <1>2, <1>d, <2>1 DEF ExchangeFill
  <2>3. ReplyIsKnown'
    BY <1>2, <1>a, <2>1 DEF ExchangeFill, ReplyIsKnown
  <2> QED
    BY <2>2, <2>3
<1>3. CASE FetchMessage
  BY <1>3, <1>b DEF FetchMessage
<1>4. CASE FetchFails
  BY <1>4, <1>b DEF FetchFails
<1>5. CASE SkipProcessed
  BY <1>5, <1>b DEF SkipProcessed
<1>6. CASE HandleOrderCreated
  <2>1. ObjectsWellCounted'
    BY <1>6, <1>a, NoFillsWellCounted DEF HandleOrderCreated, ObjectsWellCounted
  <2>2. HeldHasNoFills' /\ ReplyIsKnown'
    BY <1>6, <1>a DEF HandleOrderCreated, HeldHasNoFills, ReplyIsKnown, NewExecution, Absent
  <2> QED
    BY <2>1, <2>2
<1>7. ASSUME NEW outcome \in SubmitOutcomes, SubmitAttempt(outcome) PROVE CountingInv'
  <2>1. cur \in Orders /\ cur' = cur
    BY <1>7, <1>a DEF SubmitAttempt
  <2>2. /\ Placed(cur) \in Seq(Nat) /\ PlacedID(cur) \in DOMAIN Placed(cur)
        /\ DOMAIN exch[cur] \subseteq DOMAIN Placed(cur)
        /\ \A k \in DOMAIN exch[cur] : Placed(cur)[k] = exch[cur][k]
    BY <1>a, <2>1, PlacedType
  <2>3. \A p \in Orders : exch'[p] = exch[p] \/ (p = cur /\ exch'[p] = Placed(cur))
    <3>1. exch' = exch \/ exch' = [exch EXCEPT ![cur] = Placed(cur)]
      BY <1>7 DEF SubmitAttempt
    <3>2. CASE exch' = exch
      BY <3>2
    <3>3. CASE exch' = [exch EXCEPT ![cur] = Placed(cur)]
      <4>1. DOMAIN exch = Orders
        BY <1>a
      <4> QED
        BY <2>1, <3>3, <4>1, Zenon
    <3> QED
      BY <3>1, <3>2, <3>3
  <2>4. \A p \in Orders : /\ DOMAIN exch[p] \subseteq DOMAIN exch'[p]
                          /\ \A k \in DOMAIN exch[p] : exch[p][k] <= exch'[p][k]
    <3> TAKE p \in Orders
    <3>1. \A k \in DOMAIN exch[p] : exch[p][k] <= exch[p][k]
      <4>1. exch[p] \in Seq(Nat)
        BY <1>a
      <4> QED
        BY <4>1
    <3>2. CASE exch'[p] = exch[p]
      BY <3>1, <3>2
    <3>3. CASE p = cur /\ exch'[p] = Placed(cur)
      BY <2>2, <3>1, <3>3
    <3> QED
      BY <2>3, <3>2, <3>3
  <2>5. ObjectsWellCounted' /\ HeldHasNoFills'
    BY <1>7, <1>d, <2>4 DEF SubmitAttempt
  <2>6. ReplyIsKnown'
    <3>1. CASE outcome = "accepted"
      BY <1>7, <1>a, <2>1, <2>2, <3>1 DEF SubmitAttempt, ReplyIsKnown
    <3>2. CASE outcome # "accepted"
      BY <1>7, <3>2 DEF SubmitAttempt, ReplyIsKnown
    <3> QED
      BY <3>1, <3>2
  <2> QED
    BY <2>5, <2>6
<1>8. CASE BackoffElapses
  BY <1>8, <1>b DEF BackoffElapses
<1>9. CASE BackoffCanceled
  BY <1>9, <1>b DEF BackoffCanceled
<1>10. CASE FailExecution
  <2>1. cur \in Orders
    BY <1>10, <1>a DEF FailExecution
  <2> DEFINE e == [held[cur] EXCEPT !.status = "failed"]
  <2>2. WellCounted(exch[cur], e)
    <3>1. WellCounted(exch[cur], held[cur]) /\ held[cur] \in Execution
          /\ held[cur].status \notin {"partial_filled", "filled"}
      BY <1>a, <2>1 DEF ObjectsWellCounted, HeldHasNoFills
    <3>2. e.status = "failed" /\ e.exid = held[cur].exid /\ e.qty = held[cur].qty
          /\ e.value = held[cur].value
      BY <3>1 DEF Execution
    <3> QED
      BY <3>1, <3>2 DEF WellCounted, Traded
  <2>3. held' = [held EXCEPT ![cur] = e]
    BY <1>10 DEF FailExecution
  <2>4. ObjectsWellCounted'
    BY <1>10, <1>a, <2>1, <2>2, <2>3, NoFillsWellCounted DEF FailExecution, ObjectsWellCounted
  <2>5. e.status = "failed"
    BY <1>a, <2>1 DEF Execution
  <2>6. HeldHasNoFills' /\ ReplyIsKnown'
    BY <1>10, <1>a, <2>1, <2>3, <2>5 DEF FailExecution, HeldHasNoFills, ReplyIsKnown
  <2> QED
    BY <2>4, <2>6
<1>11. CASE MarkSubmitted
  <2>1. cur \in Orders /\ reply \in DOMAIN exch[cur]
    BY <1>11, <1>a DEF MarkSubmitted, ReplyIsKnown
  <2> DEFINE e == [held[cur] EXCEPT !.status = "submitted", !.exid = reply]
  <2>2. held[cur] \in Execution /\ held[cur].qty = 0 /\ held[cur].value = 0
    BY <1>a, <2>1 DEF ObjectsWellCounted, HeldHasNoFills, WellCounted
  <2>3. e.status = "submitted" /\ e.exid = reply /\ e.qty = 0 /\ e.value = 0
    BY <2>2 DEF Execution
  <2>4. WellCounted(exch[cur], e)
    <3>1. Traded(exch[cur], e) \in Nat
      BY <1>a, <2>1, TradedType
    <3> QED
      BY <2>1, <2>3, <3>1 DEF WellCounted
  <2>5. held' = [held EXCEPT ![cur] = e]
    BY <1>11 DEF MarkSubmitted
  <2>6. ObjectsWellCounted'
    BY <1>11, <1>a, <2>1, <2>4, <2>5 DEF MarkSubmitted, ObjectsWellCounted
  <2>7. HeldHasNoFills' /\ ReplyIsKnown'
    BY <1>11, <1>a, <2>1, <2>3, <2>5 DEF MarkSubmitted, HeldHasNoFills, ReplyIsKnown
  <2> QED
    BY <2>6, <2>7
<1>12. CASE UpdateSubmitted
  <2>1. ObjectsWellCounted'
    BY <1>12, <1>a, NoFillsWellCounted DEF UpdateSubmitted, ObjectsWellCounted
  <2> QED
    BY <1>12, <2>1 DEF UpdateSubmitted, HeldHasNoFills, ReplyIsKnown
<1>13. CASE PublishSubmitted
  BY <1>13, <1>b DEF PublishSubmitted
<1>14. CASE CommitMessage
  BY <1>14, <1>b DEF CommitMessage
\* The reconciler's copies are copies of what is stored.
<1>e. \A o \in Orders : WellCounted(exch[o], Stored(o))
  BY <1>a DEF ObjectsWellCounted, Stored
\* The reconciler leaves the consumer's objects and the exchange alone.
<1>f. ASSUME UNCHANGED <<exch, held, cpc, cur, reply>>,
             \A o \in Orders : WellCounted(exch[o], copied'[o]) /\ WellCounted(exch[o], batch'[o])
      PROVE  CountingInv'
  BY <1>f DEF ObjectsWellCounted, HeldHasNoFills, ReplyIsKnown
<1>15. CASE ListSubmitted
  BY <1>15, <1>a, <1>e, <1>f, NoFillsWellCounted DEF ListSubmitted, ObjectsWellCounted
<1>16. CASE ListPartial
  BY <1>16, <1>e, <1>f DEF ListPartial, ObjectsWellCounted
<1>17. ASSUME NEW o \in Orders, PollFails(o) PROVE CountingInv'
  BY <1>17, <1>a, <1>f, NoFillsWellCounted DEF PollFails, Drop, ObjectsWellCounted
<1>18. ASSUME NEW o \in Orders, PollFills(o) PROVE CountingInv'
  <2> DEFINE e == AddFills(batch[o], Traded(exch[o], batch[o]))
  <2>1. batch[o] \in Execution /\ WellCounted(exch[o], batch[o]) /\ exch[o] \in Seq(Nat)
    BY <1>a DEF ObjectsWellCounted
  <2>2. CASE Traded(exch[o], batch[o]) > 0 /\ CanTransition(batch[o].status, e.status)
    <3>1. WellCounted(exch[o], e)
      BY <2>1, <2>2, AddFillsWellCounted
    <3>2. batch' = [batch EXCEPT ![o] = e]
      BY <1>18, <2>2 DEF PollFills
    <3> QED
      BY <1>18, <1>a, <1>f, <3>1, <3>2 DEF PollFills, ObjectsWellCounted
  <2>3. CASE ~(Traded(exch[o], batch[o]) > 0 /\ CanTransition(batch[o].status, e.status))
    <3>1. batch' = [batch EXCEPT ![o] = Absent]
      BY <1>18, <2>3 DEF PollFills, Drop
    <3> QED
      BY <1>18, <1>a, <1>f, <3>1, NoFillsWellCounted DEF PollFills, ObjectsWellCounted
  <2> QED
    BY <2>2, <2>3
<1>19. CASE SaveFills
  BY <1>19, <1>a, <1>f, NoFillsWellCounted DEF SaveFills, Drop, ObjectsWellCounted
<1>20. CASE PublishFilled
  BY <1>20, <1>c DEF PublishFilled
<1>21. CASE PassEnds
  BY <1>21, <1>c DEF PassEnds
<1>22. CASE Terminate
  BY <1>22, <1>c DEF Terminate
<1>23. CASE Restart
  BY <1>23, <1>a, NoFillsWellCounted
  DEF Restart, ObjectsWellCounted, HeldHasNoFills, ReplyIsKnown, Absent
<1>24. CASE LoopStops
  BY <1>24, <1>c DEF LoopStops
<1>25. CASE UNCHANGED vars
  BY <1>25, <1>c DEF vars
<1> QED
  BY <1>1, <1>2, <1>3, <1>4, <1>5, <1>6, <1>7, <1>8, <1>9, <1>10, <1>11, <1>12, <1>13,
     <1>14, <1>15, <1>16, <1>17, <1>18, <1>19, <1>20, <1>21, <1>22, <1>23, <1>24, <1>25
     DEF Next, Exchange, Consumer, Reconciler

\* The inductive invariant of the two counting properties.
THEOREM CountingInvHolds == Spec => []CountingInv
<1>1. TypeOK /\ CountingInv /\ [Next]_vars => (TypeOK /\ CountingInv)'
  BY NextTypeOK, NextCountingInv
<1> QED
  BY <1>1, InitTypeOK, InitCountingInv, PTL DEF Spec

\* What CountingInv says of every object it says of the stored one.
LEMMA CountingInvImplies ==
  TypeOK /\ CountingInv => UnitsCountedAtMostTwice /\ PartialIsExact
  BY DEF TypeOK, RepositoryType, CountingInv, ObjectsWellCounted, WellCounted, Stored,
         UnitsCountedAtMostTwice, PartialIsExact

\* However polls, late updates and restarts interleave, no stored execution
\* counts a traded unit more than twice.
THEOREM CountedAtMostTwice == Spec => []UnitsCountedAtMostTwice
  BY TypeCorrect, CountingInvHolds, CountingInvImplies, PTL

\* A partially filled execution reports no more than the exchange traded.
THEOREM PartialExact == Spec => []PartialIsExact
  BY TypeCorrect, CountingInvHolds, CountingInvImplies, PTL

-----------------------------------------------------------------------------
(* How a stored execution may change. *)

\* Where the two goroutines are with o: the consumer between Create and the outcome
\* of Submit, before its late Update, and before the event after it; the reconciler
\* before its Update and before the event after it.
Submitting(o) == cur = o /\ cpc \in {"submit", "backoff", "accepted", "exhausted"}
Late(o) == cur = o /\ cpc = "marked"
Telling(o) == cur = o /\ cpc = "publish"
Saving(o) == rpc = "save" /\ rcur = o
Announcing(o) == rpc = "publish" /\ rcur = o

\* The reconciler has nothing to do with o, and nothing was published about it.
Untouched(o) ==
  /\ copied[o] = Absent /\ batch[o] = Absent
  /\ submittedEvents[o] = 0 /\ filledEvents[o] = 0
  /\ ~Saving(o) /\ ~Announcing(o)

\* The consumer's object tells how far o is: absent until its message is handled,
\* created while it is submitted, then failed or submitted for good.  Only a
\* submitted one is polled.
StageOf(o) ==
  /\ held[o].status \in {"none", "created", "submitted", "failed"}
  /\ o \notin processed <=> held[o].status = "none"
  /\ Submitting(o) <=> held[o].status = "created"
  /\ Late(o) \/ Telling(o) => held[o].status = "submitted"
  /\ held[o].status = "none" => ~shared[o] /\ calls[o] = 0
  /\ held[o].status \in {"created", "failed"} => shared[o] /\ held[o].exid = 0
  /\ held[o].status # "submitted" => Untouched(o)

\* What the reconciler works on is not filled yet.
FillingOf(o) ==
  /\ held[o].status = "submitted" =>
       Stored(o).status \in {"submitted", "partial_filled", "filled"}
  /\ batch[o] # Absent => Stored(o).status # "filled"
  /\ Saving(o) => batch[o].status \in {"partial_filled", "filled"}
  /\ ~Saving(o) => batch[o] = Absent \/ batch[o].status \in {"submitted", "partial_filled"}

\* Publications of execution.filled, the one that is due included.
Announced(o) == filledEvents[o] + (IF Announcing(o) THEN 1 ELSE 0)

\* Each time the stored execution becomes filled it is announced once more, and only
\* the late Update makes it happen a second time.
AnnouncedOf(o) ==
  Announced(o) <= (IF Stored(o).status = "filled" THEN 1 ELSE 0)
                  + (IF Late(o) THEN 0 ELSE 1)

LifeOf(o) == StageOf(o) /\ FillingOf(o) /\ AnnouncedOf(o)
LifeInv == \A o \in Orders : LifeOf(o)

\* The calls of the adapter follow the attempts, and the loop gives up after the
\* last one or when the context is canceled.
AttemptsInv ==
  /\ cpc \in {"submit", "backoff"} => calls[cur] = attempts[cur] /\ attempts[cur] <= MaxRetries
  /\ cpc = "exhausted" => calls[cur] = MaxRetries + 1 \/ up = "stopping"
  /\ \A o \in Orders :
       held[o].status = "failed" => calls[o] = MaxRetries + 1 \/ up = "stopping"

\* A step that does none of this to o.
Undisturbed(o) ==
  /\ held'[o] = held[o] /\ shared'[o] = shared[o] /\ copied'[o] = copied[o]
  /\ batch'[o] = batch[o] /\ calls'[o] = calls[o]
  /\ submittedEvents'[o] = submittedEvents[o] /\ filledEvents'[o] = filledEvents[o]
  /\ (o \in processed)' <=> o \in processed
  /\ Submitting(o)' <=> Submitting(o)
  /\ Late(o)' <=> Late(o)
  /\ Telling(o)' => Telling(o)
  /\ Saving(o)' <=> Saving(o)
  /\ Announcing(o)' <=> Announcing(o)

LEMMA UndisturbedLife ==
  ASSUME NEW o \in Orders, LifeOf(o), Undisturbed(o)
  PROVE  LifeOf(o)'
<1>1. Stored(o)' = Stored(o) /\ Announced(o)' = Announced(o)
  BY DEF Undisturbed, Stored, Announced
<1>2. StageOf(o)'
  BY DEF LifeOf, StageOf, Undisturbed, Untouched
<1>3. FillingOf(o)'
  BY <1>1 DEF LifeOf, FillingOf, Undisturbed
<1>4. AnnouncedOf(o)'
  BY <1>1 DEF LifeOf, AnnouncedOf, Undisturbed
<1> QED
  BY <1>2, <1>3, <1>4 DEF LifeOf

LEMMA InitLifeInv == Init => LifeInv
<1> SUFFICES ASSUME Init, NEW o \in Orders PROVE LifeOf(o)
  BY DEF LifeInv
<1> USE DEF Init, Submitting, Late, Telling, Saving, Announcing
<1>1. StageOf(o)
  BY DEF StageOf, Untouched, Absent
<1>2. Stored(o) = Absent
  BY DEF Stored
<1>3. FillingOf(o) /\ AnnouncedOf(o)
  BY <1>2 DEF FillingOf, AnnouncedOf, Announced, Absent
<1> QED
  BY <1>1, <1>3 DEF LifeOf

\* The consumer's steps, up to the one order they are about.
LEMMA ConsumerLifeInv == TypeOK /\ LifeInv /\ Consumer => LifeInv'
<1> SUFFICES ASSUME TypeOK, LifeInv, Consumer, NEW o \in Orders PROVE LifeOf(o)'
  BY DEF LifeInv
<1>t. /\ held \in [Orders -> Execution] /\ copied \in [Orders -> Execution]
      /\ shared \in [Orders -> BOOLEAN] /\ batch \in [Orders -> Execution]
      /\ calls \in [Orders -> Nat] /\ submittedEvents \in [Orders -> Nat]
      /\ filledEvents \in [Orders -> Nat] /\ processed \subseteq Orders
      /\ cpc \notin {"fetch", "stopped"} => cur \in Orders
      /\ cpc \in {"fetch", "stopped"} => cur = NoOrder
  BY DEF TypeOK, ConsumerType, RepositoryType, ReconcilerType, HistoryType
<1>l. LifeOf(o)
  BY DEF LifeInv
<1> USE DEF reconcilerVars, historyVars, Submitting, Late, Telling, Saving, Announcing
<1>1. CASE FetchMessage
  BY <1>1, <1>t, <1>l, UndisturbedLife DEF FetchMessage, Undisturbed
<1>2. CASE FetchFails
  BY <1>2, <1>t, <1>l, UndisturbedLife DEF FetchFails, Undisturbed
<1>3. CASE SkipProcessed
  BY <1>3, <1>t, <1>l, UndisturbedLife DEF SkipProcessed, Undisturbed
<1>4. CASE HandleOrderCreated
  <2>1. CASE o # cur
    BY <1>4, <1>t, <1>l, <2>1, UndisturbedLife DEF HandleOrderCreated, Undisturbed
  <2>2. CASE o = cur
    <3>1. held[o].status = "none" /\ Untouched(o)
      BY <1>4, <1>l, <2>2 DEF HandleOrderCreated, LifeOf, StageOf
    <3>2. held'[o] = NewExecution /\ shared'[o] /\ o \in processed'
      BY <1>4, <1>t, <2>2 DEF HandleOrderCreated
    <3>3. held'[o].status = "created" /\ held'[o].exid = 0
      BY <3>2 DEF NewExecution, Absent
    <3>4. Untouched(o)'
      BY <1>4, <3>1 DEF HandleOrderCreated, Untouched
    <3>5. StageOf(o)'
      BY <1>4, <2>2, <3>2, <3>3, <3>4 DEF HandleOrderCreated, StageOf
    <3>6. FillingOf(o)' /\ AnnouncedOf(o)'
      BY <1>4, <2>2, <3>3, <3>4 DEF HandleOrderCreated, Untouched, FillingOf, AnnouncedOf, Announced
    <3> QED
      BY <3>5, <3>6 DEF LifeOf
  <2> QED
    BY <2>1, <2>2
<1>5. ASSUME NEW outcome \in SubmitOutcomes, SubmitAttempt(outcome) PROVE LifeOf(o)'
  <2>1. CASE o # cur
    BY <1>5, <1>t, <1>l, <2>1, UndisturbedLife DEF SubmitAttempt, Undisturbed
  <2>2. CASE o = cur
    <3>1. cpc' \in {"accepted", "exhausted", "backoff"} /\ cpc = "submit"
      BY <1>5 DEF SubmitAttempt
    <3>2. held[o].status = "created" /\ shared[o]
      BY <1>l, <2>2, <3>1 DEF LifeOf, StageOf
    <3>3. StageOf(o)'
      BY <1>5, <1>l, <2>2, <3>1, <3>2 DEF SubmitAttempt, LifeOf, StageOf, Untouched
    <3>4. FillingOf(o)'
      BY <1>5, <1>l, <2>2, <3>1, <3>2 DEF SubmitAttempt, LifeOf, FillingOf, Stored
    <3>5. AnnouncedOf(o)'
      BY <1>5, <1>l, <1>t, <2>2, <3>1, <3>2 DEF SubmitAttempt, LifeOf, AnnouncedOf, Announced, Stored
    <3> QED
      BY <3>3, <3>4, <3>5 DEF LifeOf
  <2> QED
    BY <2>1, <2>2
<1>6. CASE BackoffElapses
  BY <1>6, <1>t, <1>l, UndisturbedLife DEF BackoffElapses, Undisturbed
<1>7. CASE BackoffCanceled
  BY <1>7, <1>t, <1>l, UndisturbedLife DEF BackoffCanceled, Undisturbed
<1>8. CASE FailExecution
  <2>1. CASE o # cur
    BY <1>8, <1>t, <1>l, <2>1, UndisturbedLife DEF FailExecution, Undisturbed
  <2>2. CASE o = cur
    <3>1. held[o].status = "created" /\ held[o].exid = 0 /\ Untouched(o) /\ o \in processed
      BY <1>8, <1>l, <2>2 DEF FailExecution, LifeOf, StageOf
    <3>2. held'[o].status = "failed" /\ held'[o].exid = 0 /\ shared'[o]
      BY <1>8, <1>t, <2>2, <3>1 DEF FailExecution, Execution
    <3>3. Untouched(o)'
      BY <1>8, <1>t, <2>2, <3>1 DEF FailExecution, Untouched
    <3>4. StageOf(o)'
      BY <1>8, <2>2, <3>1, <3>2, <3>3 DEF FailExecution, StageOf
    <3>5. FillingOf(o)' /\ AnnouncedOf(o)'
      BY <1>8, <2>2, <3>2, <3>3 DEF FailExecution, Untouched, FillingOf, AnnouncedOf, Announced
    <3> QED
      BY <3>4, <3>5 DEF LifeOf
  <2> QED
    BY <2>1, <2>2
<1>9. CASE MarkSubmitted
  <2>1. CASE o # cur
    BY <1>9, <1>t, <1>l, <2>1, UndisturbedLife DEF MarkSubmitted, Undisturbed
  <2>2. CASE o = cur
    <3>1. held[o].status = "created" /\ shared[o] /\ Untouched(o) /\ o \in processed
      BY <1>9, <1>l, <2>2 DEF MarkSubmitted, LifeOf, StageOf
    <3>2. held'[o].status = "submitted" /\ shared'[o]
      BY <1>9, <1>t, <2>2, <3>1 DEF MarkSubmitted, Execution
    <3>3. StageOf(o)'
      BY <1>9, <2>2, <3>1, <3>2 DEF MarkSubmitted, StageOf
    <3>4. FillingOf(o)' /\ AnnouncedOf(o)'
      BY <1>9, <2>2, <3>1, <3>2
      DEF MarkSubmitted, Untouched, FillingOf, AnnouncedOf, Announced, Stored
    <3> QED
      BY <3>3, <3>4 DEF LifeOf
  <2> QED
    BY <2>1, <2>2
\* The late Update: a filled execution, announced at most once, is submitted again.
<1>10. CASE UpdateSubmitted
  <2>1. CASE o # cur
    BY <1>10, <1>t, <1>l, <2>1, UndisturbedLife DEF UpdateSubmitted, Undisturbed
  <2>2. CASE o = cur
    <3>1. held[o].status = "submitted" /\ o \in processed
      BY <1>10, <1>l, <2>2 DEF UpdateSubmitted, LifeOf, StageOf
    <3>2. Stored(o)' = held[o]
      BY <1>10, <1>t, <2>2 DEF UpdateSubmitted, Stored
    <3>3. StageOf(o)'
      BY <1>10, <2>2, <3>1 DEF UpdateSubmitted, StageOf
    <3>4. FillingOf(o)'
      BY <1>10, <1>l, <3>1, <3>2 DEF UpdateSubmitted, LifeOf, FillingOf
    <3>5. Announced(o)' = Announced(o) /\ Announced(o) <= 1
      BY <1>10, <1>l, <1>t, <2>2 DEF UpdateSubmitted, LifeOf, AnnouncedOf, Announced
    <3>6. AnnouncedOf(o)'
      BY <1>10, <3>1, <3>2, <3>5 DEF UpdateSubmitted, AnnouncedOf
    <3> QED
      BY <3>3, <3>4, <3>6 DEF LifeOf
  <2> QED
    BY <2>1, <2>2
<1>11. CASE PublishSubmitted
  <2>1. CASE o # cur
    BY <1>11, <1>t, <1>l, <2>1, UndisturbedLife DEF PublishSubmitted, Undisturbed
  <2>2. CASE o = cur
    <3>1. held[o].status = "submitted" /\ o \in processed
      BY <1>11, <1>l, <2>2 DEF PublishSubmitted, LifeOf, StageOf
    <3>2. Stored(o)' = Stored(o) /\ Announced(o)' = Announced(o)
      BY <1>11 DEF PublishSubmitted, Stored, Announced
    <3>3. StageOf(o)'
      BY <1>11, <2>2, <3>1 DEF PublishSubmitted, StageOf
    <3>4. FillingOf(o)' /\ AnnouncedOf(o)'
      BY <1>11, <1>l, <3>2 DEF PublishSubmitted, LifeOf, FillingOf, AnnouncedOf
    <3> QED
      BY <3>3, <3>4 DEF LifeOf
  <2> QED
    BY <2>1, <2>2
<1>12. CASE CommitMessage
  BY <1>12, <1>t, <1>l, UndisturbedLife DEF CommitMessage, Undisturbed
<1> QED
  BY <1>1, <1>2, <1>3, <1>4, <1>5, <1>6, <1>7, <1>8, <1>9, <1>10, <1>11, <1>12 DEF Consumer

\* The reconciler's steps.
LEMMA ReconcilerLifeInv == TypeOK /\ LifeInv /\ Reconciler => LifeInv'
<1> SUFFICES ASSUME TypeOK, LifeInv, Reconciler, NEW o \in Orders PROVE LifeOf(o)'
  BY DEF LifeInv
<1>t. /\ held \in [Orders -> Execution] /\ copied \in [Orders -> Execution]
      /\ shared \in [Orders -> BOOLEAN] /\ batch \in [Orders -> Execution]
      /\ calls \in [Orders -> Nat] /\ submittedEvents \in [Orders -> Nat]
      /\ filledEvents \in [Orders -> Nat] /\ processed \subseteq Orders
      /\ rpc \in {"save", "publish"} => rcur \in Orders
      /\ rpc \notin {"save", "publish"} => rcur = NoOrder
  BY DEF TypeOK, ConsumerType, RepositoryType, ReconcilerType, HistoryType
<1>l. LifeOf(o)
  BY DEF LifeInv
<1> USE DEF consumerVars, historyVars, Submitting, Late, Telling, Saving, Announcing
\* A step that changes only which copies the reconciler holds.
<1>b. ASSUME UNCHANGED <<consumerVars, copied, rcur, historyVars>>,
             ~Saving(o), ~Announcing(o), ~Saving(o)', ~Announcing(o)',
             \/ batch'[o] = Absent
             \/ batch'[o] = Stored(o) /\ Stored(o).status \in {"submitted", "partial_filled"}
             \/ batch'[o] = batch[o]
      PROVE  LifeOf(o)'
  <2>1. Stored(o)' = Stored(o) /\ Announced(o)' = Announced(o)
    BY <1>b DEF Stored, Announced
  <2>2. held[o].status # "submitted" => batch'[o] = Absent
    <3>1. ASSUME held[o].status # "submitted"
          PROVE  batch[o] = Absent /\ Stored(o).status \notin {"submitted", "partial_filled"}
      <4>1. Untouched(o)
        BY <1>l, <3>1 DEF LifeOf, StageOf
      <4> QED
        BY <1>t, <3>1, <4>1, <1>l DEF Untouched, Stored, LifeOf, StageOf, Absent
    <3> QED
      BY <1>b, <3>1
  <2>3. StageOf(o)'
    BY <1>b, <1>l, <2>2 DEF LifeOf, StageOf, Untouched
  <2>4. FillingOf(o)' /\ AnnouncedOf(o)'
    BY <1>b, <1>l, <2>1 DEF LifeOf, FillingOf, AnnouncedOf
  <2> QED
    BY <2>3, <2>4 DEF LifeOf
<1>1. CASE ListSubmitted
  BY <1>1, <1>b DEF ListSubmitted, ListByStatus
<1>2. CASE ListPartial
  BY <1>2, <1>b DEF ListPartial, ListByStatus
<1>3. ASSUME NEW p \in Orders, PollFails(p) PROVE LifeOf(o)'
  BY <1>3, <1>b, <1>t DEF PollFails, Due, Drop
<1>4. ASSUME NEW p \in Orders, PollFills(p) PROVE LifeOf(o)'
  <2> DEFINE e == AddFills(batch[p], Traded(exch[p], batch[p]))
  <2>1. CASE o # p
    BY <1>4, <1>l, <1>t, <2>1, UndisturbedLife DEF PollFills, Due, Drop, Undisturbed
  <2>2. CASE o = p /\ Traded(exch[p], batch[p]) > 0 /\ CanTransition(batch[p].status, e.status)
    <3>1. batch'[o] = e /\ rpc' = "save" /\ rcur' = o /\ rpc = "poll" /\ batch[o] # Absent
      BY <1>4, <1>t, <2>2 DEF PollFills, Due, InBatch
    <3>2. e.status \in {"partial_filled", "filled"}
      BY DEF AddFills
    <3>3. held[o].status = "submitted"
      BY <1>l, <3>1 DEF LifeOf, StageOf, Untouched
    <3>4. Stored(o)' = Stored(o) /\ Announced(o)' = Announced(o)
      BY <1>4, <3>1 DEF PollFills, Stored, Announced
    <3>5. StageOf(o)'
      BY <1>4, <1>l, <3>3 DEF PollFills, LifeOf, StageOf
    <3>6. FillingOf(o)' /\ AnnouncedOf(o)'
      BY <1>4, <1>l, <3>1, <3>2, <3>4 DEF PollFills, LifeOf, FillingOf, AnnouncedOf
    <3> QED
      BY <3>5, <3>6 DEF LifeOf
  <2>3. CASE o = p /\ ~(Traded(exch[p], batch[p]) > 0 /\ CanTransition(batch[p].status, e.status))
    BY <1>4, <1>b, <1>t, <2>3 DEF PollFills, Due, Drop
  <2> QED
    BY <2>1, <2>2, <2>3
<1>5. CASE SaveFills
  <2>1. CASE o # rcur
    BY <1>5, <1>t, <1>l, <2>1, UndisturbedLife DEF SaveFills, Drop, Undisturbed
  <2>2. CASE o = rcur
    <3>1. Saving(o) /\ batch[o].status \in {"partial_filled", "filled"}
      BY <1>5, <1>l, <2>2 DEF SaveFills, LifeOf, FillingOf
    <3>2. held[o].status = "submitted" /\ Stored(o).status # "filled"
      BY <1>l, <3>1 DEF LifeOf, StageOf, FillingOf, Untouched, Absent
    <3>3. Stored(o)' = batch[o] /\ batch'[o] = Absent
      BY <1>5, <1>t, <2>2 DEF SaveFills, Drop, Stored
    <3>4. StageOf(o)'
      BY <1>5, <1>l, <3>2 DEF SaveFills, LifeOf, StageOf
    <3>5. FillingOf(o)'
      BY <1>5, <2>2, <3>1, <3>3 DEF SaveFills, FillingOf
    <3>6. Announcing(o)' <=> batch[o].status = "filled"
      BY <1>5, <1>t, <2>2 DEF SaveFills
    <3>7. ~Announcing(o) /\ filledEvents'[o] = filledEvents[o] /\ filledEvents[o] \in Nat
      BY <1>5, <1>t DEF SaveFills
    <3>8. Late(o)' <=> Late(o)
      BY <1>5 DEF SaveFills
    <3> HIDE DEF Announcing, Late
    <3>9. AnnouncedOf(o)'
      BY <1>l, <3>2, <3>3, <3>6, <3>7, <3>8 DEF LifeOf, AnnouncedOf, Announced
    <3> QED
      BY <3>4, <3>5, <3>9 DEF LifeOf
  <2> QED
    BY <2>1, <2>2
<1>6. CASE PublishFilled
  <2>1. CASE o # rcur
    BY <1>6, <1>t, <1>l, <2>1, UndisturbedLife DEF PublishFilled, Undisturbed
  <2>2. CASE o = rcur
    <3>1. held[o].status = "submitted" /\ Announcing(o) /\ ~Announcing(o)'
      BY <1>6, <1>l, <2>2 DEF PublishFilled, LifeOf, StageOf, Untouched
    <3>2. Stored(o)' = Stored(o)
      BY <1>6 DEF PublishFilled, Stored
    <3>3. filledEvents'[o] \in {filledEvents[o], filledEvents[o] + 1} /\ filledEvents[o] \in Nat
      BY <1>6, <1>t, <2>2 DEF PublishFilled
    <3>4. StageOf(o)'
      BY <1>6, <1>l, <3>1 DEF PublishFilled, LifeOf, StageOf
    <3>5. FillingOf(o)'
      BY <1>6, <1>l, <3>2 DEF PublishFilled, LifeOf, FillingOf
    <3>6. Late(o)' <=> Late(o)
      BY <1>6 DEF PublishFilled
    <3> HIDE DEF Announcing, Late
    <3>7. AnnouncedOf(o)'
      BY <1>l, <3>1, <3>2, <3>3, <3>6 DEF LifeOf, AnnouncedOf, Announced
    <3> QED
      BY <3>4, <3>5, <3>7 DEF LifeOf
  <2> QED
    BY <2>1, <2>2
<1>7. CASE PassEnds
  BY <1>7, <1>t, <1>l, UndisturbedLife DEF PassEnds, Undisturbed
<1>8. CASE LoopStops
  BY <1>8, <1>t, <1>l, UndisturbedLife DEF LoopStops, Undisturbed
<1> QED
  BY <1>1, <1>2, <1>3, <1>4, <1>5, <1>6, <1>7, <1>8 DEF Reconciler

LEMMA NextLifeInv == TypeOK /\ LifeInv /\ [Next]_vars => LifeInv'
<1> SUFFICES ASSUME TypeOK, LifeInv, [Next]_vars PROVE LifeInv'
  OBVIOUS
\* The environment and the signal do not touch the objects.
<1>a. ASSUME UNCHANGED <<consumerVars, copied, reconcilerVars, historyVars>> PROVE LifeInv'
  <2> SUFFICES ASSUME NEW o \in Orders PROVE LifeOf(o)'
    BY DEF LifeInv
  <2>1. Undisturbed(o)
    BY <1>a DEF consumerVars, reconcilerVars, historyVars, Undisturbed, Submitting, Late,
                Telling, Saving, Announcing
  <2> QED
    BY <2>1, UndisturbedLife DEF LifeInv
<1>1. ASSUME NEW o \in Orders, Deliver(o) PROVE LifeInv'
  BY <1>1, <1>a DEF Deliver
<1>2. CASE Exchange
  BY <1>2, <1>a DEF Exchange, ExchangeFill
<1>3. CASE Consumer
  BY <1>3, ConsumerLifeInv
<1>4. CASE Reconciler
  BY <1>4, ReconcilerLifeInv
<1>5. CASE Terminate
  BY <1>5, <1>a DEF Terminate
<1>6. CASE Restart
  <2> SUFFICES ASSUME NEW o \in Orders PROVE LifeOf(o)'
    BY DEF LifeInv
  <2> USE DEF Restart, Submitting, Late, Telling, Saving, Announcing
  <2>1. StageOf(o)'
    BY <1>6 DEF StageOf, Untouched, Absent
  <2>2. Stored(o)' = Absent
    BY <1>6 DEF Stored
  <2>3. FillingOf(o)' /\ AnnouncedOf(o)'
    BY <1>6, <2>2 DEF FillingOf, AnnouncedOf, Announced, Absent
  <2> QED
    BY <2>1, <2>3 DEF LifeOf
<1>7. CASE UNCHANGED vars
  BY <1>7, <1>a DEF vars
<1> QED
  BY <1>1, <1>2, <1>3, <1>4, <1>5, <1>6, <1>7 DEF Next

\* The reconciler and the consumer keep out of each other's way, but for the late Update.
THEOREM LifeInvHolds == Spec => []LifeInv
<1>1. TypeOK /\ LifeInv /\ [Next]_vars => (TypeOK /\ LifeInv)'
  BY NextTypeOK, NextLifeInv
<1> QED
  BY <1>1, InitTypeOK, InitLifeInv, PTL DEF Spec

\* What a step makes of the stored execution of an order, action by action.
LEMMA StoredSteps ==
  ASSUME TypeOK, LifeInv, [Next]_vars, restarts' = restarts, NEW o \in Orders
  PROVE  \/ Stored(o)' = Stored(o)
         \/ Stored(o).status = "none" /\ Stored(o)'.status = "created"
         \/ Stored(o).status = "created" /\ Stored(o)'.status \in {"submitted", "failed"}
         \/ Late(o) /\ Stored(o)'.status = "submitted"
         \/ /\ Stored(o).status \in {"submitted", "partial_filled"}
            /\ Stored(o)'.status \in {"partial_filled", "filled"}
<1>t. /\ held \in [Orders -> Execution] /\ copied \in [Orders -> Execution]
      /\ shared \in [Orders -> BOOLEAN] /\ restarts \in Nat
      /\ cpc \notin {"fetch", "stopped"} => cur \in Orders
      /\ rpc \in {"save", "publish"} => rcur \in Orders
  BY DEF TypeOK, ConsumerType, RepositoryType, ReconcilerType, EnvironmentType
<1>l. StageOf(o) /\ FillingOf(o)
  BY DEF LifeInv, LifeOf
\* Most steps store nothing.
<1>a. ASSUME held'[o] = held[o], shared'[o] = shared[o], copied'[o] = copied[o]
      PROVE  Stored(o)' = Stored(o)
  BY <1>a DEF Stored
<1> USE DEF consumerVars
<1>1. ASSUME NEW p \in Orders, Deliver(p) PROVE Stored(o)' = Stored(o)
  BY <1>1, <1>a DEF Deliver
<1>2. CASE Exchange
  BY <1>2, <1>a DEF Exchange, ExchangeFill
<1>3. CASE Consumer
  <2>1. CASE HandleOrderCreated
    <3>1. CASE o = cur
      <4>1. held[o].status = "none" /\ copied[o] = Absent /\ ~shared[o]
        BY <1>l, <2>1, <3>1 DEF HandleOrderCreated, StageOf, Untouched
      <4>2. Stored(o)' = NewExecution
        BY <1>t, <2>1, <3>1 DEF HandleOrderCreated, Stored
      <4> QED
        BY <4>1, <4>2 DEF Stored, NewExecution, Absent
    <3> QED
      BY <1>a, <1>t, <2>1, <3>1 DEF HandleOrderCreated
  <2>2. CASE FailExecution
    <3>1. CASE o = cur
      <4>1. held[o].status = "created" /\ shared[o]
        BY <1>l, <2>2, <3>1 DEF FailExecution, StageOf, Submitting
      <4>2. Stored(o)'.status = "failed"
        BY <1>t, <2>2, <3>1 DEF FailExecution, Stored, Execution
      <4> QED
        BY <4>1, <4>2 DEF Stored
    <3> QED
      BY <1>a, <1>t, <2>2, <3>1 DEF FailExecution
  <2>3. CASE MarkSubmitted
    <3>1. CASE o = cur
      <4>1. held[o].status = "created" /\ shared[o]
        BY <1>l, <2>3, <3>1 DEF MarkSubmitted, StageOf, Submitting
      <4>2. Stored(o)'.status = "submitted"
        BY <1>t, <2>3, <3>1, <4>1 DEF MarkSubmitted, Stored, Execution
      <4> QED
        BY <4>1, <4>2 DEF Stored
    <3> QED
      BY <1>a, <1>t, <2>3, <3>1 DEF MarkSubmitted
  <2>4. CASE UpdateSubmitted
    <3>1. CASE o = cur
      <4>1. Late(o) /\ held[o].status = "submitted"
        BY <1>l, <2>4, <3>1 DEF UpdateSubmitted, StageOf, Late
      <4>2. Stored(o)' = held[o]
        BY <1>t, <2>4, <3>1 DEF UpdateSubmitted, Stored
      <4> QED
        BY <4>1, <4>2
    <3> QED
      BY <1>a, <1>t, <2>4, <3>1 DEF UpdateSubmitted
  <2>5. CASE \/ FetchMessage \/ FetchFails \/ SkipProcessed \/ BackoffElapses
             \/ BackoffCanceled \/ PublishSubmitted \/ CommitMessage
    BY <1>a, <2>5 DEF FetchMessage, FetchFails, SkipProcessed, BackoffElapses,
       BackoffCanceled, PublishSubmitted, CommitMessage
  <2>6. ASSUME NEW outcome \in SubmitOutcomes, SubmitAttempt(outcome)
        PROVE  Stored(o)' = Stored(o)
    BY <1>a, <2>6 DEF SubmitAttempt
  <2> QED
    BY <1>3, <2>1, <2>2, <2>3, <2>4, <2>5, <2>6 DEF Consumer
<1>4. CASE Reconciler
  <2>1. CASE SaveFills
    <3>1. CASE o = rcur
      <4>1. batch[o].status \in {"partial_filled", "filled"} /\ batch[o] # Absent
        BY <1>l, <2>1, <3>1 DEF SaveFills, FillingOf, Saving, Absent
      <4>2. held[o].status = "submitted"
        BY <1>l, <4>1 DEF StageOf, Untouched
      <4>3. Stored(o).status \in {"submitted", "partial_filled"}
        BY <1>l, <4>1, <4>2 DEF FillingOf
      <4>4. Stored(o)' = batch[o]
        BY <1>t, <2>1, <3>1 DEF SaveFills, Stored
      <4> QED
        BY <4>1, <4>3, <4>4
    <3> QED
      BY <1>a, <1>t, <2>1, <3>1 DEF SaveFills
  <2>2. CASE \/ ListSubmitted \/ ListPartial \/ PublishFilled \/ PassEnds \/ LoopStops
             \/ \E p \in Orders : PollFails(p) \/ PollFills(p)
    BY <1>a, <2>2 DEF ListSubmitted, ListPartial, PublishFilled, PassEnds, LoopStops,
       PollFails, PollFills
  <2> QED
    BY <1>4, <2>1, <2>2 DEF Reconciler
<1>5. CASE Terminate
  BY <1>5, <1>a DEF Terminate
<1>6. CASE Restart
  BY <1>6, <1>t DEF Restart
<1>7. CASE UNCHANGED vars
  BY <1>7, <1>a DEF vars
<1> QED
  BY <1>1, <1>2, <1>3, <1>4, <1>5, <1>6, <1>7 DEF Next

\* However the consumer and the reconciler overlap, a stored execution moves along
\* CanTransition, but for the two assignments of submitExecution.
THEOREM TransitionsAreVisible == Spec => VisibleTransitions
<1> DEFINE Step == \A o \in Orders :
              LET from == Stored(o).status
                  to == Stored(o)'.status
              IN from # to /\ restarts' = restarts =>
                    \/ CanTransition(from, to)
                    \/ from = "none" /\ to = "created"
                    \/ from = "created" /\ to = "submitted"
                    \/ cur = o /\ cpc = "marked" /\ to = "submitted"
<1>1. TypeOK /\ LifeInv /\ [Next]_vars => [Step]_vars
  BY StoredSteps DEF CanTransition, Late
<1> QED
  BY <1>1, TypeCorrect, LifeInvHolds, PTL DEF Spec, VisibleTransitions

\* A filled execution stays as it is until the process ends, the late Update apart.
THEOREM FilledStays == Spec => FilledIsStable
<1> DEFINE Step == \A o \in Orders :
              Stored(o).status = "filled" /\ ~(cur = o /\ cpc = "marked") /\ restarts' = restarts
                  => Stored(o)' = Stored(o)
<1>1. TypeOK /\ LifeInv /\ [Next]_vars => [Step]_vars
  BY StoredSteps DEF Late
<1> QED
  BY <1>1, TypeCorrect, LifeInvHolds, PTL DEF Spec, FilledIsStable

\* execution.filled goes out at most twice for an execution, and at most once before
\* the late Update.
THEOREM AnnouncedAtMostTwice == Spec => []FilledPublishedAtMostTwice
<1>1. TypeOK /\ LifeInv => FilledPublishedAtMostTwice
  <2> SUFFICES ASSUME TypeOK, LifeInv, NEW o \in Orders
               PROVE  filledEvents[o] <= IF cur = o /\ cpc \in {"accepted", "marked"} THEN 1 ELSE 2
    BY DEF FilledPublishedAtMostTwice
  <2>1. filledEvents[o] \in Nat /\ StageOf(o) /\ AnnouncedOf(o)
    BY DEF TypeOK, HistoryType, LifeInv, LifeOf
  <2>2. CASE cur = o /\ cpc = "accepted"
    BY <2>1, <2>2 DEF StageOf, Submitting, Untouched
  <2>3. CASE ~(cur = o /\ cpc = "accepted")
    BY <2>1, <2>3 DEF AnnouncedOf, Announced, Late
  <2> QED
    BY <2>2, <2>3
<1> QED
  BY <1>1, TypeCorrect, LifeInvHolds, PTL

LEMMA InitAttemptsInv == Init => AttemptsInv
  BY DEF Init, AttemptsInv, Absent

LEMMA NextAttemptsInv == TypeOK /\ LifeInv /\ AttemptsInv /\ [Next]_vars => AttemptsInv'
<1> SUFFICES ASSUME TypeOK, LifeInv, AttemptsInv, [Next]_vars PROVE AttemptsInv'
  OBVIOUS
<1>t. /\ held \in [Orders -> Execution] /\ calls \in [Orders -> Nat] /\ attempts \in [Orders -> Nat]
      /\ cpc \notin {"fetch", "stopped"} => cur \in Orders
  BY DEF TypeOK, ConsumerType, RepositoryType, HistoryType
<1> USE DEF AttemptsInv, historyVars
\* A step that starts, ends or fails no submission.
<1>a. ASSUME UNCHANGED <<calls, attempts, held, up, cur>>,
             cpc' = cpc \/ cpc' \notin {"submit", "backoff", "exhausted"}
      PROVE  AttemptsInv'
  BY <1>a
<1>b. ASSUME UNCHANGED <<calls, attempts, held, up>>,
             cpc' \notin {"submit", "backoff", "exhausted"}
      PROVE  AttemptsInv'
  BY <1>b
<1>1. ASSUME NEW o \in Orders, Deliver(o) PROVE AttemptsInv'
  BY <1>1, <1>a DEF Deliver, consumerVars
<1>2. CASE Exchange
  BY <1>2, <1>a DEF Exchange, ExchangeFill, consumerVars
<1>3. CASE HandleOrderCreated
  <2>1. held[cur].status = "none" /\ calls[cur] = 0
    BY <1>3, <1>t DEF HandleOrderCreated, LifeInv, LifeOf, StageOf
  <2>2. \A o \in Orders : held'[o].status = "failed" => held[o].status = "failed"
    BY <1>3, <1>t DEF HandleOrderCreated, NewExecution, Absent
  <2> QED
    BY <1>3, <1>t, <2>1, <2>2 DEF HandleOrderCreated
<1>4. ASSUME NEW outcome \in SubmitOutcomes, SubmitAttempt(outcome) PROVE AttemptsInv'
  <2>1. held[cur].status = "created" /\ calls[cur] = attempts[cur] /\ attempts[cur] <= MaxRetries
    BY <1>4, <1>t DEF SubmitAttempt, LifeInv, LifeOf, StageOf, Submitting
  <2>2. calls'[cur] = calls[cur] + 1 /\ attempts'[cur] = attempts[cur] + 1
    BY <1>4, <1>t DEF SubmitAttempt
  <2>3. cpc' = "backoff" => attempts[cur] < MaxRetries
    BY <1>4, <1>t DEF SubmitAttempt
  <2>4. cpc' = "exhausted" => attempts[cur] >= MaxRetries
    BY <1>4, <1>t DEF SubmitAttempt
  <2>5. cpc' # "submit" /\ UNCHANGED <<cur, held, up>>
    BY <1>4 DEF SubmitAttempt
  <2>6. \A o \in Orders : o # cur => calls'[o] = calls[o]
    BY <1>4, <1>t DEF SubmitAttempt
  <2>7. cur \in Orders /\ attempts[cur] \in Nat
    BY <1>4, <1>t DEF SubmitAttempt
  <2>8. cpc' = "backoff" => calls'[cur] = attempts'[cur] /\ attempts'[cur] <= MaxRetries
    BY <2>1, <2>2, <2>3, <2>7
  <2>9. cpc' = "exhausted" => calls'[cur] = MaxRetries + 1
    BY <2>1, <2>2, <2>4, <2>7
  <2>10. ASSUME NEW o \in Orders, held'[o].status = "failed"
         PROVE  calls'[o] = MaxRetries + 1 \/ up' = "stopping"
    BY <2>1, <2>5, <2>6, <2>10
  <2> QED
    BY <2>5, <2>8, <2>9, <2>10
<1>5. CASE BackoffElapses
  BY <1>5 DEF BackoffElapses
<1>6. CASE BackoffCanceled
  BY <1>6 DEF BackoffCanceled
<1>7. CASE FailExecution
  BY <1>7, <1>t DEF FailExecution
<1>8. CASE MarkSubmitted
  <2>1. \A o \in Orders : held'[o].status = "failed" => held[o].status = "failed"
    BY <1>8, <1>t DEF MarkSubmitted, Execution
  <2> QED
    BY <1>8, <2>1 DEF MarkSubmitted
<1>9. CASE \/ FetchMessage \/ FetchFails \/ SkipProcessed \/ UpdateSubmitted
           \/ PublishSubmitted \/ CommitMessage
  BY <1>9, <1>b DEF FetchMessage, FetchFails, SkipProcessed, UpdateSubmitted,
     PublishSubmitted, CommitMessage
<1>10. CASE Reconciler
  BY <1>10, <1>a DEF Reconciler, ListSubmitted, ListPartial, PollFails, PollFills, SaveFills,
     PublishFilled, PassEnds, LoopStops, consumerVars
<1>11. CASE Terminate
  BY <1>11 DEF Terminate, consumerVars
<1>12. CASE Restart
  BY <1>12 DEF Restart, Absent
<1>13. CASE UNCHANGED vars
  BY <1>13, <1>a DEF vars, consumerVars
<1> QED
  BY <1>1, <1>2, <1>3, <1>4, <1>5, <1>6, <1>7, <1>8, <1>9, <1>10, <1>11, <1>12, <1>13
     DEF Next, Consumer

\* An execution is given up only after the last attempt or on the way to a stop, and
\* then the service has told nobody about it.
THEOREM FailedUsedAll == Spec => []FailedUsedEveryAttempt
<1>1. LifeInv /\ AttemptsInv => FailedUsedEveryAttempt
  <2> SUFFICES ASSUME LifeInv, AttemptsInv, NEW o \in Orders, Stored(o).status = "failed"
               PROVE  /\ calls[o] = MaxRetries + 1 \/ up = "stopping"
                      /\ Stored(o).exid = 0 /\ submittedEvents[o] = 0 /\ filledEvents[o] = 0
    BY DEF FailedUsedEveryAttempt
  <2>1. StageOf(o) /\ FillingOf(o)
    BY DEF LifeInv, LifeOf
  <2>2. held[o].status = "failed"
    BY <2>1 DEF StageOf, FillingOf, Stored, Untouched, Absent
  <2>3. Stored(o) = held[o]
    BY <2>1, <2>2 DEF StageOf, Stored
  <2> QED
    BY <2>1, <2>2, <2>3 DEF AttemptsInv, StageOf, Untouched
<1>2. TypeOK /\ LifeInv /\ AttemptsInv /\ [Next]_vars => AttemptsInv'
  BY NextAttemptsInv
<1> QED
  BY <1>1, <1>2, InitAttemptsInv, TypeCorrect, LifeInvHolds, PTL DEF Spec

=============================================================================
