------------------------- MODULE OrderService_proofs -------------------------
(* Theorems about OrderService, for any orders, decisions, workers and quantity. *)
EXTENDS OrderService, SequenceTheorems, TLAPS

USE NoOrderAssumption, PostedAssumption, InvalidAssumption, QuantityAssumption,
    BoundsAssumption, StatusesAssumption

-----------------------------------------------------------------------------
(* Type correctness. *)

\* The request a worker is given has the type of a request.
LEMMA RequestType ==
  ASSUME NEW op \in {"cancel", "fill", "transition"}, NEW id \in OrderIDs,
         NEW to \in OrderStatus, NEW executed \in Nat
  PROVE  /\ [op |-> op, id |-> id, to |-> to, executed |-> executed] \in Request
         /\ NoRequest \in Request
  BY DEF Request, NoRequest, OrderStatus, Lifecycle!OrderStatus

LEMMA InitTypeOK == Init => TypeOK
  BY DEF Init, TypeOK, Order, Request, Absent, NoRequest, OrderStatus, Lifecycle!OrderStatus

\* A worker that begins an operation holds an order that exists.
LEMMA BeginTypeOK ==
  ASSUME TypeOK, NEW w \in Workers, NEW op \in {"cancel", "fill", "transition"},
         NEW id \in OrderIDs, NEW to \in OrderStatus \ {"none"}, NEW executed \in Nat,
         NEW p \in {"validate", "check"}, Begin(w, op, id, to, executed, p)
  PROVE  TypeOK'
<1> DEFINE r == [op |-> op, id |-> id, to |-> to, executed |-> executed]
<1>1. r \in Request /\ r.id = id /\ r.op # "none" /\ r.to # "none"
  BY RequestType
<1>2. request' = [request EXCEPT ![w] = r] /\ wpc' = [wpc EXCEPT ![w] = p]
  BY DEF Begin
<1>3. request' \in [Workers -> Request]
  BY <1>1, <1>2 DEF TypeOK
<1>4. \A v \in Workers : wpc'[v] # "idle" =>
         /\ request'[v].op # "none" /\ request'[v].to # "none"
         /\ request'[v].id \in OrderIDs /\ Exists(request'[v].id)
  BY <1>1, <1>2 DEF TypeOK, Begin
<1> QED
  BY <1>2, <1>3, <1>4 DEF TypeOK, Begin, Exists, consumerVars, eventVars

\* The worker's step keeps the types when the orders stay.
LEMMA StepTypeOK ==
  ASSUME TypeOK, NEW w \in Workers, wpc[w] # "idle",
         NEW p \in {"idle", "check", "apply", "record", "publish"}, Step(w, p)
  PROVE  /\ wpc' \in [Workers -> {"idle", "validate", "check", "apply", "record", "publish"}]
         /\ request' \in [Workers -> Request]
         /\ checked' \in [Workers -> OrderStatus]
         /\ \A v \in Workers : wpc'[v] # "idle" =>
               /\ wpc[v] # "idle" /\ request'[v] = request[v]
               /\ request'[v].op # "none" /\ request'[v].to # "none"
               /\ request'[v].id \in OrderIDs /\ Exists(request'[v].id)
<1>1. NoRequest \in Request
  BY DEF Request, NoRequest, OrderStatus, Lifecycle!OrderStatus
<1>2. Status(w) \in OrderStatus /\ "none" \in OrderStatus
  BY DEF TypeOK, Status, Order, OrderStatus, Lifecycle!OrderStatus
<1>3. checked' \in [Workers -> OrderStatus]
  BY <1>2 DEF TypeOK, Step
<1> QED
  BY <1>1, <1>3 DEF TypeOK, Step

\* Every action keeps TypeOK.
LEMMA NextTypeOK == TypeOK /\ [Next]_vars => TypeOK'
<1> SUFFICES ASSUME TypeOK, [Next]_vars PROVE TypeOK'
  OBVIOUS
<1> USE DEF Exists, consumerVars, workerVars, eventVars
<1>1. ASSUME NEW d \in Decisions, Deliver(d) PROVE TypeOK'
  <2>1. log' \in Seq(Decisions) /\ Len(log') = Len(log) + 1
    BY <1>1 DEF Deliver, TypeOK
  <2> QED
    BY <1>1, <2>1 DEF Deliver, TypeOK
<1>2. CASE Fetch
  BY <1>2 DEF Fetch, TypeOK
<1>3. CASE FetchFails
  BY <1>3 DEF FetchFails, TypeOK
<1>4. CASE HandleWithoutOrder
  BY <1>4 DEF HandleWithoutOrder, TypeOK, Decision
<1>5. CASE PublishCreated
  <2>1. [id |-> fresh, decision |-> source[fresh]] \in CreatedEvent
    BY <1>5 DEF PublishCreated, TypeOK, CreatedEvent
  <2> QED
    BY <1>5, <2>1 DEF PublishCreated, TypeOK
<1>6. CASE Commit
  BY <1>6 DEF Commit, TypeOK
<1>7. ASSUME NEW id \in OrderIDs, HandleApproved(id) PROVE TypeOK'
  <2>1. Decision \in Decisions
    BY <1>7 DEF HandleApproved, TypeOK, Decision
  <2>2. NewOrder \in Order /\ NewOrder.status # "none"
    BY DEF NewOrder, Order, OrderStatus, Lifecycle!OrderStatus
  <2> QED
    BY <1>7, <2>1, <2>2 DEF HandleApproved, Store, TypeOK
<1>8. ASSUME NEW id \in OrderIDs, NEW d \in Decisions \cup {"none"}, PostOrder(id, d) PROVE TypeOK'
  <2>1. NewOrder \in Order /\ NewOrder.status # "none"
    BY DEF NewOrder, Order, OrderStatus, Lifecycle!OrderStatus
  <2> QED
    BY <1>8, <2>1 DEF PostOrder, Store, TypeOK
<1>9. ASSUME NEW w \in Workers, NEW id \in OrderIDs, BeginCancel(w, id) PROVE TypeOK'
  BY <1>9, BeginTypeOK DEF BeginCancel, OrderStatus, Lifecycle!OrderStatus
<1>10. ASSUME NEW w \in Workers, NEW id \in OrderIDs, NEW executed \in 0..(Quantity + 1),
              NEW to \in FillStatuses, BeginFill(w, id, executed, to)
       PROVE  TypeOK'
  BY <1>10, BeginTypeOK DEF BeginFill
<1>11. ASSUME NEW w \in Workers, NEW id \in OrderIDs, NEW to \in Targets,
              BeginTransition(w, id, to)
       PROVE  TypeOK'
  BY <1>11, BeginTypeOK DEF BeginTransition
<1>12. ASSUME NEW w \in Workers, ValidateCancellation(w) PROVE TypeOK'
  BY <1>12, StepTypeOK DEF ValidateCancellation, TypeOK
<1>13. ASSUME NEW w \in Workers, CheckTransition(w) PROVE TypeOK'
  BY <1>13, StepTypeOK DEF CheckTransition, TypeOK
<1>14. ASSUME NEW w \in Workers, ApplyTransition(w) PROVE TypeOK'
  <2>1. request[w].id \in OrderIDs /\ request[w].to \in OrderStatus \ {"none"} /\ wpc[w] = "apply"
    BY <1>14 DEF ApplyTransition, TypeOK, Request
  <2>2. orders' \in [OrderIDs -> Order] /\ \A id \in OrderIDs : Exists(id) => Exists(id)'
    BY <1>14, <2>1 DEF ApplyTransition, TypeOK, Order
  <2>3. request[w].op \in {"cancel", "fill", "transition"}
    BY <2>1 DEF TypeOK, Request
  <2>4. PICK p \in {"record", "publish", "idle"} : Step(w, p)
    BY <1>14, <2>3 DEF ApplyTransition
  <2>5. /\ wpc' \in [Workers -> {"idle", "validate", "check", "apply", "record", "publish"}]
        /\ request' \in [Workers -> Request]
        /\ checked' \in [Workers -> OrderStatus]
        /\ \A v \in Workers : wpc'[v] # "idle" =>
              /\ request'[v].op # "none" /\ request'[v].to # "none"
              /\ request'[v].id \in OrderIDs /\ Exists(request'[v].id)
    BY <2>1, <2>4, StepTypeOK
  <2> QED
    BY <1>14, <2>2, <2>5 DEF ApplyTransition, TypeOK
<1>15. ASSUME NEW w \in Workers, RecordFill(w) PROVE TypeOK'
  <2>1. request[w].id \in OrderIDs /\ request[w].executed \in Nat /\ wpc[w] = "record"
    BY <1>15 DEF RecordFill, TypeOK, Request
  <2> DEFINE o == [orders[request[w].id] EXCEPT !.executed = request[w].executed]
  <2>3. orders[request[w].id] \in Order
    BY <2>1 DEF TypeOK
  <2>4. o \in Order /\ o.status = orders[request[w].id].status
    BY <2>1, <2>3 DEF Order
  <2>5. orders' = [orders EXCEPT ![request[w].id] = o]
    BY <1>15, <2>1 DEF RecordFill, TypeOK
  <2>2. orders' \in [OrderIDs -> Order] /\ \A id \in OrderIDs : Exists(id) => Exists(id)'
    <3> HIDE DEF o
    <3> QED  BY <2>1, <2>4, <2>5 DEF TypeOK
  <2>6. /\ wpc' \in [Workers -> {"idle", "validate", "check", "apply", "record", "publish"}]
        /\ request' \in [Workers -> Request]
        /\ checked' \in [Workers -> OrderStatus]
        /\ \A v \in Workers : wpc'[v] # "idle" =>
              /\ request'[v].op # "none" /\ request'[v].to # "none"
              /\ request'[v].id \in OrderIDs /\ Exists(request'[v].id)
    BY <1>15, <2>1, StepTypeOK DEF RecordFill
  <2> QED
    BY <1>15, <2>2, <2>6 DEF RecordFill, TypeOK
<1>16. ASSUME NEW w \in Workers, PublishCanceled(w) PROVE TypeOK'
  <2>1. wpc[w] = "publish" /\ request[w].id \in OrderIDs /\ Exists(request[w].id)
    BY <1>16 DEF PublishCanceled, TypeOK
  <2>2. canceledEvents' \subseteq OrderIDs
    BY <1>16, <2>1 DEF PublishCanceled, TypeOK
  <2>3. /\ wpc' \in [Workers -> {"idle", "validate", "check", "apply", "record", "publish"}]
        /\ request' \in [Workers -> Request]
        /\ checked' \in [Workers -> OrderStatus]
        /\ \A v \in Workers : wpc'[v] # "idle" =>
              /\ request'[v].op # "none" /\ request'[v].to # "none"
              /\ request'[v].id \in OrderIDs /\ Exists(request'[v].id)
    BY <1>16, <2>1, StepTypeOK DEF PublishCanceled
  <2>4. UNCHANGED <<log, consumerVars, orders, source, minted, restarts, createdEvents>>
    BY <1>16 DEF PublishCanceled
  <2> QED
    BY <2>2, <2>3, <2>4 DEF TypeOK
<1>17. CASE Restart
  <2>1. Absent \in Order /\ NoRequest \in Request /\ "none" \in OrderStatus
    BY DEF Absent, NoRequest, Order, Request, OrderStatus, Lifecycle!OrderStatus
  <2> QED
    BY <1>17, <2>1 DEF Restart, TypeOK
<1>18. CASE UNCHANGED vars
  BY <1>18 DEF vars, TypeOK
<1> QED
  BY <1>1, <1>2, <1>3, <1>4, <1>5, <1>6, <1>7, <1>8, <1>9, <1>10, <1>11, <1>12, <1>13,
     <1>14, <1>15, <1>16, <1>17, <1>18 DEF Next, Consumer, Worker

\* The variables of the order service keep their types.
THEOREM TypeCorrect == Spec => []TypeOK
  BY InitTypeOK, NextTypeOK, PTL DEF Spec

-----------------------------------------------------------------------------
(* One order per decision.  An order exists only under a minted id, and its      *)
(* decision is marked as processed: a second order of the decision would need    *)
(* either an id minted twice or a decision looked up and not found.              *)

ExistingAreMinted == \A id \in OrderIDs : Exists(id) => id \in minted

SourcesAreProcessed ==
    \A id \in OrderIDs \ PostedIDs : Exists(id) => source[id] \in processed

DecisionInv == ExistingAreMinted /\ SourcesAreProcessed /\ OneOrderPerDecision

\* A worker neither creates nor removes an order.
LEMMA WorkerKeepsOrders ==
  ASSUME TypeOK, NEW w \in Workers, Worker(w)
  PROVE  /\ \A id \in OrderIDs : Exists(id)' <=> Exists(id)
         /\ UNCHANGED <<source, minted, processed, restarts>>
<1> USE DEF Exists, consumerVars, eventVars
<1>1. ASSUME NEW id \in OrderIDs, NEW op, NEW to, NEW executed, NEW p, Begin(w, op, id, to, executed, p)
      PROVE  UNCHANGED <<orders, source, minted, processed, restarts>>
  BY <1>1 DEF Begin
<1>2. CASE \E id \in OrderIDs :
              \/ BeginCancel(w, id)
              \/ \E executed \in 0..(Quantity + 1), to \in FillStatuses : BeginFill(w, id, executed, to)
              \/ \E to \in Targets : BeginTransition(w, id, to)
  BY <1>1, <1>2 DEF BeginCancel, BeginFill, BeginTransition
<1>3. CASE ApplyTransition(w)
  <2>1. wpc[w] = "apply"
    BY <1>3 DEF ApplyTransition
  <2>2. request[w].id \in OrderIDs /\ request[w].to # "none" /\ Exists(request[w].id)
    BY <2>1 DEF TypeOK
  <2>3. \A id \in OrderIDs : orders'[id].status =
           IF id = request[w].id THEN request[w].to ELSE orders[id].status
    BY <1>3, <2>2 DEF ApplyTransition, TypeOK, Order
  <2> QED
    BY <1>3, <2>2, <2>3 DEF ApplyTransition
<1>4. CASE RecordFill(w)
  <2>1. request[w].id \in OrderIDs
    BY <1>4 DEF RecordFill, TypeOK
  <2>2. \A id \in OrderIDs : orders'[id].status = orders[id].status
    BY <1>4, <2>1 DEF RecordFill, TypeOK, Order
  <2> QED
    BY <1>4, <2>2 DEF RecordFill
<1>5. CASE ValidateCancellation(w) \/ CheckTransition(w) \/ PublishCanceled(w)
  BY <1>5 DEF ValidateCancellation, CheckTransition, PublishCanceled
<1> QED
  BY <1>2, <1>3, <1>4, <1>5 DEF Worker

\* A stored order is new, and no other order changes.
LEMMA StoreEffect ==
  ASSUME TypeOK, ExistingAreMinted, NEW id \in OrderIDs, NEW from, Store(id, from)
  PROVE  /\ ~Exists(id) /\ Exists(id)' /\ source'[id] = from
         /\ orders'[id] = NewOrder /\ minted' = minted \cup {id}
         /\ \A i \in OrderIDs \ {id} :
               orders'[i] = orders[i] /\ source'[i] = source[i] /\ (Exists(i)' <=> Exists(i))
  BY DEF TypeOK, Store, ExistingAreMinted, Exists, NewOrder

LEMMA NextDecisionInv ==
  ASSUME TypeOK, DecisionInv, [Next]_vars
  PROVE  DecisionInv'
<1> USE DEF DecisionInv
<1>1. ASSUME NEW id \in OrderIDs, HandleApproved(id) PROVE DecisionInv'
  <2>1. Store(id, Decision) /\ id \notin PostedIDs /\ Decision \notin processed /\ processed' = processed \cup {Decision}
    BY <1>1 DEF HandleApproved
  <2> QED
    BY <2>1, StoreEffect DEF ExistingAreMinted, SourcesAreProcessed, OneOrderPerDecision
<1>2. ASSUME NEW id \in OrderIDs, NEW d \in Decisions \cup {"none"}, PostOrder(id, d) PROVE DecisionInv'
  <2>1. Store(id, d) /\ id \in PostedIDs /\ processed' = processed
    BY <1>2 DEF PostOrder, consumerVars
  <2> QED
    BY <2>1, StoreEffect DEF ExistingAreMinted, SourcesAreProcessed, OneOrderPerDecision
<1>3. ASSUME NEW w \in Workers, Worker(w) PROVE DecisionInv'
  BY <1>3, WorkerKeepsOrders DEF ExistingAreMinted, SourcesAreProcessed, OneOrderPerDecision
<1>4. CASE Restart
  BY <1>4 DEF Restart, ExistingAreMinted, SourcesAreProcessed, OneOrderPerDecision, Exists, Absent
<1>5. ASSUME UNCHANGED <<orders, source, minted>>, processed \subseteq processed' PROVE DecisionInv'
  BY <1>5 DEF ExistingAreMinted, SourcesAreProcessed, OneOrderPerDecision, Exists
<1>6. CASE \E d \in Decisions : Deliver(d)
  BY <1>5, <1>6 DEF Deliver, consumerVars
<1>7. CASE Fetch \/ FetchFails \/ HandleWithoutOrder \/ PublishCreated \/ Commit
  BY <1>5, <1>7 DEF Fetch, FetchFails, HandleWithoutOrder, PublishCreated, Commit
<1>8. CASE UNCHANGED vars
  BY <1>5, <1>8 DEF vars, consumerVars
<1> QED
  BY <1>1, <1>2, <1>3, <1>4, <1>6, <1>7, <1>8 DEF Next, Consumer

LEMMA InitDecisionInv == Init => DecisionInv
  BY DEF Init, DecisionInv, ExistingAreMinted, SourcesAreProcessed, OneOrderPerDecision, Exists, Absent

LEMMA DecisionInvHolds == Spec => [](TypeOK /\ DecisionInv)
  BY InitTypeOK, NextTypeOK, InitDecisionInv, NextDecisionInv, PTL DEF Spec

\* While the process runs a risk decision becomes at most one order, for any
\* number of decisions, redeliveries and overlapping HTTP requests.
THEOREM DecisionMakesOneOrder == Spec => []OneOrderPerDecision
  BY DecisionInvHolds, PTL DEF DecisionInv

-----------------------------------------------------------------------------
(* Terminal orders. *)

\* What a worker assigns, or records, was allowed in the status it saw at its check.
CheckedInv ==
    \A w \in Workers : wpc[w] \in {"apply", "record"} => CanTransition(checked[w], request[w].to)

LEMMA InitCheckedInv == Init => CheckedInv
  BY DEF Init, CheckedInv

\* A worker that begins, or ends, its request holds no check; one that goes on keeps it.
LEMMA StepChecked ==
  ASSUME TypeOK, CheckedInv, NEW w \in Workers, NEW p, Step(w, p),
         p = "apply" => CanTransition(Status(w), request[w].to),
         p = "record" => wpc[w] = "apply"
  PROVE  CheckedInv'
<1>1. \A v \in Workers \ {w} :
         wpc'[v] = wpc[v] /\ request'[v] = request[v] /\ checked'[v] = checked[v]
  BY DEF Step, TypeOK
<1>2. wpc'[w] = p
  BY DEF Step, TypeOK
<1>3. CASE p = "apply"
  <2>1. checked'[w] = Status(w) /\ request' = request
    BY <1>3 DEF Step, TypeOK
  <2> QED
    BY <1>1, <1>3, <2>1 DEF CheckedInv
<1>4. CASE p = "record"
  <2>1. checked'[w] = checked[w] /\ request' = request
    BY <1>4 DEF Step, TypeOK
  <2> QED
    BY <1>1, <1>4, <2>1 DEF CheckedInv
<1>5. CASE p \notin {"apply", "record"}
  BY <1>1, <1>2, <1>5 DEF CheckedInv
<1> QED
  BY <1>3, <1>4, <1>5

LEMMA NextCheckedInv ==
  ASSUME TypeOK, CheckedInv, [Next]_vars
  PROVE  CheckedInv'
<1> USE DEF consumerVars, workerVars, eventVars
<1>1. ASSUME UNCHANGED workerVars PROVE CheckedInv'
  BY <1>1 DEF CheckedInv
<1>2. ASSUME NEW w \in Workers, NEW id \in OrderIDs, NEW op, NEW to, NEW executed,
             NEW p \in {"validate", "check"}, Begin(w, op, id, to, executed, p)
      PROVE  CheckedInv'
  <2>1. /\ checked' = checked /\ wpc'[w] = p
        /\ \A v \in Workers \ {w} : wpc'[v] = wpc[v] /\ request'[v] = request[v]
    BY <1>2 DEF Begin, TypeOK
  <2> QED
    BY <2>1 DEF CheckedInv
<1>3. ASSUME NEW w \in Workers, Worker(w) PROVE CheckedInv'
  <2>1. CASE \E id \in OrderIDs :
                \/ BeginCancel(w, id)
                \/ \E executed \in 0..(Quantity + 1), to \in FillStatuses : BeginFill(w, id, executed, to)
                \/ \E to \in Targets : BeginTransition(w, id, to)
    BY <1>2, <2>1 DEF BeginCancel, BeginFill, BeginTransition
  <2>2. CASE ValidateCancellation(w)
    <3>1. PICK p \in {"check", "idle"} : Step(w, p)
      BY <2>2 DEF ValidateCancellation
    <3> QED
      BY <3>1, StepChecked
  <2>3. CASE CheckTransition(w)
    <3>1. PICK p \in {"apply", "idle"} :
             Step(w, p) /\ (p = "apply" => CanTransition(Status(w), request[w].to))
      BY <2>3 DEF CheckTransition
    <3> QED
      BY <3>1, StepChecked
  <2>4. CASE ApplyTransition(w)
    <3>1. wpc[w] = "apply" /\ request[w].op \in {"cancel", "fill", "transition"}
      BY <2>4 DEF ApplyTransition, TypeOK, Request
    <3>2. PICK p \in {"record", "publish", "idle"} : Step(w, p)
      BY <2>4, <3>1 DEF ApplyTransition
    <3> QED
      BY <3>1, <3>2, StepChecked
  <2>5. CASE RecordFill(w) \/ PublishCanceled(w)
    <3>1. Step(w, "idle")
      BY <2>5 DEF RecordFill, PublishCanceled
    <3> QED
      BY <3>1, StepChecked
  <2> QED
    BY <1>3, <2>1, <2>2, <2>3, <2>4, <2>5 DEF Worker
<1>4. CASE Restart
  BY <1>4 DEF Restart, CheckedInv
<1>5. CASE \/ \E d \in Decisions : Deliver(d)
           \/ Fetch \/ FetchFails \/ HandleWithoutOrder \/ PublishCreated \/ Commit
           \/ \E id \in OrderIDs : HandleApproved(id) \/ \E d \in Decisions \cup {"none"} : PostOrder(id, d)
           \/ UNCHANGED vars
  BY <1>1, <1>5 DEF Deliver, Fetch, FetchFails, HandleWithoutOrder, PublishCreated, Commit,
                    HandleApproved, PostOrder, vars
<1> QED
  BY <1>3, <1>4, <1>5 DEF Next, Consumer

\* Nothing leaves a terminal status through the state machine.
LEMMA FinalIsStuck == \A from, to : CanTransition(from, to) => ~IsFinal(from)
  BY DEF CanTransition, Lifecycle!CanTransition, IsFinal, Lifecycle!IsFinal

\* The change that a worker makes to a terminal order.
Overtakes(w, id) ==
    /\ request[w].id = id /\ wpc'[w] # wpc[w]
    /\ CanTransition(checked[w], request[w].to)
    /\ ~IsFinal(checked[w])
    /\ orders'[id].status \in {orders[id].status, request[w].to}

\* One step moves a terminal order only on behalf of a worker whose check it passed
\* while it could still move.
LEMMA TerminalStep ==
  ASSUME TypeOK, ExistingAreMinted, CheckedInv, [Next]_vars, NEW id \in OrderIDs,
         IsFinal(orders[id].status), restarts' = restarts, orders'[id] # orders[id]
  PROVE  \E w \in Workers : Overtakes(w, id)
<1> USE DEF consumerVars, eventVars
<1>1. Exists(id)
  BY DEF Exists, IsFinal, Lifecycle!IsFinal
<1>2. CASE \E i \in OrderIDs : HandleApproved(i) \/ \E d \in Decisions \cup {"none"} : PostOrder(i, d)
  BY <1>1, <1>2, StoreEffect DEF HandleApproved, PostOrder
<1>3. ASSUME NEW w \in Workers, Worker(w)
      PROVE  Overtakes(w, id)
  <2>1. ASSUME NEW i \in OrderIDs, NEW op, NEW to, NEW executed, NEW p, Begin(w, op, i, to, executed, p)
        PROVE  UNCHANGED orders
    BY <2>1 DEF Begin
  <2>2. CASE ApplyTransition(w)
    <3>1. wpc[w] = "apply" /\ request[w].id \in OrderIDs /\ request[w].op \in {"cancel", "fill", "transition"}
      BY <2>2 DEF ApplyTransition, TypeOK, Request
    <3>2. \A i \in OrderIDs : i # request[w].id => orders'[i] = orders[i]
      BY <2>2 DEF ApplyTransition, TypeOK
    <3>3. request[w].id = id
      BY <3>2
    <3>4. orders'[id].status = request[w].to
      BY <2>2, <3>3 DEF ApplyTransition, TypeOK, Order
    <3>5. PICK p \in {"record", "publish", "idle"} : Step(w, p)
      BY <2>2, <3>1 DEF ApplyTransition
    <3>6. wpc'[w] # wpc[w]
      BY <3>1, <3>5 DEF Step, TypeOK
    <3>7. CanTransition(checked[w], request[w].to) /\ ~IsFinal(checked[w])
      BY <3>1, FinalIsStuck DEF CheckedInv
    <3> QED
      BY <3>3, <3>4, <3>6, <3>7 DEF Overtakes
  <2>3. CASE RecordFill(w)
    <3>1. wpc[w] = "record" /\ request[w].id \in OrderIDs /\ Step(w, "idle")
      BY <2>3 DEF RecordFill, TypeOK
    <3>2. \A i \in OrderIDs : i # request[w].id => orders'[i] = orders[i]
      BY <2>3 DEF RecordFill, TypeOK
    <3>3. request[w].id = id
      BY <3>2
    <3>4. orders'[id].status = orders[id].status
      BY <2>3, <3>3 DEF RecordFill, TypeOK, Order
    <3>5. wpc'[w] # wpc[w]
      BY <3>1 DEF Step, TypeOK
    <3>6. CanTransition(checked[w], request[w].to) /\ ~IsFinal(checked[w])
      BY <3>1, FinalIsStuck DEF CheckedInv
    <3> QED
      BY <3>3, <3>4, <3>5, <3>6 DEF Overtakes
  <2>4. CASE ValidateCancellation(w) \/ CheckTransition(w) \/ PublishCanceled(w)
    BY <2>4 DEF ValidateCancellation, CheckTransition, PublishCanceled
  <2> QED
    BY <1>3, <2>1, <2>2, <2>3, <2>4 DEF Worker, BeginCancel, BeginFill, BeginTransition
<1>4. CASE Restart
  BY <1>4 DEF Restart, TypeOK
<1>5. CASE \/ \E d \in Decisions : Deliver(d)
           \/ Fetch \/ FetchFails \/ HandleWithoutOrder \/ PublishCreated \/ Commit
           \/ UNCHANGED vars
  BY <1>5 DEF Deliver, Fetch, FetchFails, HandleWithoutOrder, PublishCreated, Commit, vars
<1> QED
  BY <1>2, <1>3, <1>4, <1>5 DEF Next, Consumer

\* However many requests overlap, a terminal order is moved only by one whose check
\* saw a status that was not terminal and from which its transition was legal.
THEOREM TerminalMovesByOverlap == Spec => TerminalMovesOnlyByOverlap
<1>1. TypeOK /\ DecisionInv /\ CheckedInv /\ [Next]_vars =>
        [\A id \in OrderIDs :
            IsFinal(orders[id].status) /\ restarts' = restarts /\ orders'[id] # orders[id] =>
              \E w \in Workers :
                /\ request[w].id = id /\ wpc'[w] # wpc[w]
                /\ CanTransition(checked[w], request[w].to)
                /\ ~IsFinal(checked[w])
                /\ orders'[id].status \in {orders[id].status, request[w].to}]_vars
  BY TerminalStep DEF DecisionInv, Overtakes
<1>2. TypeOK /\ CheckedInv /\ [Next]_vars => CheckedInv'
  BY NextCheckedInv
<1> QED
  BY <1>1, <1>2, InitCheckedInv, DecisionInvHolds, PTL DEF Spec, TerminalMovesOnlyByOverlap

-----------------------------------------------------------------------------
(* Executed quantities: what a worker was asked to record was validated, and    *)
(* validation reads only the quantity, which never changes.                      *)

ExecutedInv ==
    /\ ExecutedWithinQuantity
    /\ \A w \in Workers : request[w].executed <= Quantity

LEMMA InitExecutedInv == Init => ExecutedInv
  BY DEF Init, ExecutedInv, ExecutedWithinQuantity, Absent, NoRequest

\* A request with a bounded quantity keeps the bound.
LEMMA BeginExecutedInv ==
  ASSUME TypeOK, ExecutedInv, NEW w \in Workers, NEW op, NEW id, NEW to,
         NEW executed \in 0..Quantity, NEW p, Begin(w, op, id, to, executed, p)
  PROVE  ExecutedInv'
<1>1. orders' = orders
  BY DEF Begin
<1>2. \A v \in Workers : request'[v].executed = IF v = w THEN executed ELSE request[v].executed
  BY DEF Begin, TypeOK
<1> QED
  BY <1>1, <1>2 DEF ExecutedInv, ExecutedWithinQuantity

\* A step that goes on with its request, or drops it, keeps the bound on requests.
LEMMA StepExecuted ==
  ASSUME TypeOK, ExecutedInv, NEW w \in Workers, NEW p, Step(w, p)
  PROVE  \A v \in Workers : request'[v].executed <= Quantity
<1>1. NoRequest.executed = 0
  BY DEF NoRequest
<1> QED
  BY <1>1 DEF Step, TypeOK, ExecutedInv

LEMMA NextExecutedInv ==
  ASSUME TypeOK, ExecutedInv, [Next]_vars
  PROVE  ExecutedInv'
<1> USE DEF consumerVars, workerVars, eventVars
<1>1. ASSUME NEW id \in OrderIDs, NEW from, Store(id, from), UNCHANGED request PROVE ExecutedInv'
  <2>1. \A i \in OrderIDs : orders'[i] = IF i = id THEN NewOrder ELSE orders[i]
    BY <1>1 DEF Store, TypeOK
  <2>2. NewOrder.executed = 0
    BY DEF NewOrder
  <2> QED
    BY <1>1, <2>1, <2>2 DEF ExecutedInv, ExecutedWithinQuantity
<1>2. CASE \E id \in OrderIDs : HandleApproved(id) \/ \E d \in Decisions \cup {"none"} : PostOrder(id, d)
  BY <1>1, <1>2 DEF HandleApproved, PostOrder
<1>3. ASSUME NEW w \in Workers, NEW id \in OrderIDs,
             \/ BeginCancel(w, id)
             \/ \E executed \in 0..(Quantity + 1), to \in FillStatuses : BeginFill(w, id, executed, to)
             \/ \E to \in Targets : BeginTransition(w, id, to)
      PROVE  ExecutedInv'
  BY <1>3, BeginExecutedInv DEF BeginCancel, BeginFill, BeginTransition, ValidateFillUpdate
<1>4. ASSUME NEW w \in Workers, ValidateCancellation(w) \/ CheckTransition(w) \/ PublishCanceled(w)
      PROVE  ExecutedInv'
  <2>1. orders' = orders /\ \E p : Step(w, p)
    BY <1>4 DEF ValidateCancellation, CheckTransition, PublishCanceled
  <2> QED
    BY <2>1, StepExecuted DEF ExecutedInv, ExecutedWithinQuantity
<1>5. ASSUME NEW w \in Workers, ApplyTransition(w) PROVE ExecutedInv'
  <2>1. wpc[w] = "apply" /\ request[w].id \in OrderIDs
    BY <1>5 DEF ApplyTransition, TypeOK
  <2>2. \A i \in OrderIDs : orders'[i].executed \in {orders[i].executed, Quantity}
    BY <1>5, <2>1 DEF ApplyTransition, TypeOK, Order
  <2>3. \E p : Step(w, p)
    BY <1>5 DEF ApplyTransition
  <2> QED
    BY <2>2, <2>3, StepExecuted DEF ExecutedInv, ExecutedWithinQuantity
<1>6. ASSUME NEW w \in Workers, RecordFill(w) PROVE ExecutedInv'
  <2>1. wpc[w] = "record" /\ request[w].id \in OrderIDs
    BY <1>6 DEF RecordFill, TypeOK
  <2>2. \A i \in OrderIDs : orders'[i].executed \in {orders[i].executed, request[w].executed}
    BY <1>6, <2>1 DEF RecordFill, TypeOK, Order
  <2>3. Step(w, "idle")
    BY <1>6 DEF RecordFill
  <2> QED
    BY <2>2, <2>3, StepExecuted DEF ExecutedInv, ExecutedWithinQuantity
<1>7. CASE Restart
  BY <1>7 DEF Restart, ExecutedInv, ExecutedWithinQuantity, Absent, NoRequest
<1>8. CASE \/ \E d \in Decisions : Deliver(d)
           \/ Fetch \/ FetchFails \/ HandleWithoutOrder \/ PublishCreated \/ Commit
           \/ UNCHANGED vars
  BY <1>8 DEF Deliver, Fetch, FetchFails, HandleWithoutOrder, PublishCreated, Commit, vars,
              ExecutedInv, ExecutedWithinQuantity
<1> QED
  BY <1>2, <1>3, <1>4, <1>5, <1>6, <1>7, <1>8 DEF Next, Consumer, Worker

\* No interleaving of fills, transitions and cancellations executes more than
\* the quantity of an order.
THEOREM ExecutedBounded == Spec => []ExecutedWithinQuantity
<1>1. TypeOK /\ ExecutedInv /\ [Next]_vars => ExecutedInv'
  BY NextExecutedInv
<1> QED
  BY <1>1, InitTypeOK, NextTypeOK, InitExecutedInv, PTL DEF Spec, ExecutedInv

-----------------------------------------------------------------------------
(* Requests one at a time: nothing changes an order between the check of a       *)
(* transition and its assignment, so every change of status is a move of the     *)
(* abstract lifecycle and a canceled order stays canceled.                        *)

AppliesWhatItChecked ==
    \A w \in Workers : wpc[w] = "apply" => CanTransition(Status(w), request[w].to)

CancelsWhatItPublishes ==
    \A w \in Workers :
        /\ wpc[w] = "publish" => Status(w) = "canceled"
        /\ request[w].op = "cancel" => request[w].to = "canceled"

SerialInv ==
    /\ AppliesWhatItChecked /\ CancelsWhatItPublishes
    /\ canceledEvents \subseteq minted /\ CanceledEventStands

LEMMA InitSerialInv == Init => SerialInv
  BY DEF Init, SerialInv, AppliesWhatItChecked, CancelsWhatItPublishes, CanceledEventStands, NoRequest

\* What a step of the only worker does to the orders and to its own request.
LEMMA NextSerialInv ==
  ASSUME \A v, w \in Workers : v = w, TypeOK, ExistingAreMinted, SerialInv, [Next]_vars
  PROVE  SerialInv'
<1> USE DEF SerialInv, AppliesWhatItChecked, CancelsWhatItPublishes, CanceledEventStands,
            Exists, Status, consumerVars, workerVars, eventVars
<1>1. ASSUME NEW id \in OrderIDs, NEW from, Store(id, from), UNCHANGED <<workerVars, canceledEvents>>
      PROVE  SerialInv'
  <2>1. ~Exists(id) /\ \A i \in OrderIDs \ {id} : orders'[i] = orders[i]
    BY <1>1, StoreEffect
  <2>2. \A w \in Workers : wpc[w] # "idle" => request[w].id # id /\ request[w].id \in OrderIDs
    BY <2>1 DEF TypeOK
  <2>3. minted' = minted \cup {id} /\ id \notin minted
    BY <1>1 DEF Store
  <2> QED
    BY <1>1, <2>1, <2>2, <2>3 DEF TypeOK
<1>2. CASE \E id \in OrderIDs : HandleApproved(id) \/ \E d \in Decisions \cup {"none"} : PostOrder(id, d)
  BY <1>1, <1>2 DEF HandleApproved, PostOrder
<1>3. ASSUME NEW w \in Workers, NEW id \in OrderIDs,
             \/ BeginCancel(w, id)
             \/ \E executed \in 0..(Quantity + 1), to \in FillStatuses : BeginFill(w, id, executed, to)
             \/ \E to \in Targets : BeginTransition(w, id, to)
      PROVE  SerialInv'
  <2>1. ASSUME NEW op, NEW to, NEW executed, NEW p \in {"validate", "check"},
               Begin(w, op, id, to, executed, p), op = "cancel" => to = "canceled"
        PROVE  SerialInv'
    <3>1. /\ request'[w].op = op /\ request'[w].to = to /\ wpc'[w] = p
          /\ UNCHANGED <<orders, minted, canceledEvents>>
      BY <2>1 DEF Begin, TypeOK
    <3> QED
      BY <2>1, <3>1
  <2>2. CASE BeginCancel(w, id)
    BY <2>1, <2>2 DEF BeginCancel
  <2>3. ASSUME NEW executed \in 0..(Quantity + 1), NEW to \in FillStatuses, BeginFill(w, id, executed, to)
        PROVE  SerialInv'
    BY <2>1, <2>3 DEF BeginFill
  <2>4. ASSUME NEW to \in Targets, BeginTransition(w, id, to)
        PROVE  SerialInv'
    BY <2>1, <2>4 DEF BeginTransition
  <2> QED
    BY <1>3, <2>2, <2>3, <2>4
<1>4. ASSUME NEW w \in Workers, NEW p, Step(w, p)
      PROVE  /\ wpc'[w] = p
             /\ request'[w] = IF p = "idle" THEN NoRequest ELSE request[w]
  BY <1>4 DEF Step, TypeOK
<1>5. NoRequest.op = "none"
  BY DEF NoRequest
<1>6. ASSUME NEW w \in Workers, ValidateCancellation(w) PROVE SerialInv'
  <2>1. wpc'[w] \in {"check", "idle"} /\ request'[w] \in {request[w], NoRequest}
    BY <1>4, <1>6 DEF ValidateCancellation
  <2> QED
    BY <1>5, <1>6, <2>1 DEF ValidateCancellation
<1>7. ASSUME NEW w \in Workers, CheckTransition(w) PROVE SerialInv'
  <2>1. CASE CanTransition(Status(w), request[w].to)
    <3>1. wpc'[w] = "apply" /\ request'[w] = request[w]
      BY <1>4, <1>7, <2>1 DEF CheckTransition
    <3> QED
      BY <1>7, <2>1, <3>1 DEF CheckTransition
  <2>2. CASE ~CanTransition(Status(w), request[w].to)
    <3>1. wpc'[w] = "idle" /\ request'[w] = NoRequest
      BY <1>4, <1>7, <2>2 DEF CheckTransition
    <3> QED
      BY <1>5, <1>7, <3>1 DEF CheckTransition
  <2> QED
    BY <2>1, <2>2
<1>8. ASSUME NEW w \in Workers, ApplyTransition(w) PROVE SerialInv'
  <2>1. /\ wpc[w] = "apply" /\ request[w].id \in OrderIDs
        /\ request[w].op \in {"cancel", "fill", "transition"}
    BY <1>8 DEF ApplyTransition, TypeOK, Request
  <2>2. CanTransition(orders[request[w].id].status, request[w].to)
    BY <2>1
  <2>3. \A i \in OrderIDs : orders'[i].status =
           IF i = request[w].id THEN request[w].to ELSE orders[i].status
    BY <1>8, <2>1 DEF ApplyTransition, TypeOK, Order
  <2>4. orders[request[w].id].status # "canceled"
    BY <2>2 DEF CanTransition, Lifecycle!CanTransition
  <2>5. \A i \in canceledEvents : i \in OrderIDs
    BY DEF TypeOK
  <2>6. CanceledEventStands'
    <3>1. orders[request[w].id].status # "none"
      BY <2>1 DEF TypeOK
    <3>2. request[w].id \notin canceledEvents
      BY <2>4, <3>1
    <3>3. canceledEvents' = canceledEvents
      BY <1>8 DEF ApplyTransition
    <3>4. \A i \in canceledEvents : orders'[i].status = orders[i].status
      BY <2>3, <2>5, <3>2
    <3> QED
      BY <3>3, <3>4
  <2>7. CASE request[w].op = "cancel"
    <3>1. wpc'[w] = "publish" /\ request'[w] = request[w]
      BY <1>4, <1>8, <2>7 DEF ApplyTransition
    <3>2. request'[w].to = "canceled" /\ orders'[request'[w].id].status = "canceled"
      BY <2>1, <2>3, <2>7, <3>1
    <3>3. AppliesWhatItChecked' /\ CancelsWhatItPublishes'
      BY <3>1, <3>2
    <3>4. canceledEvents' \subseteq minted'
      BY <1>8 DEF ApplyTransition
    <3> QED
      BY <2>6, <3>3, <3>4
  <2>8. CASE request[w].op # "cancel"
    <3>1. wpc'[w] \in {"record", "idle"} /\ request'[w] \in {request[w], NoRequest}
      BY <1>4, <1>8, <2>1, <2>8 DEF ApplyTransition
    <3> QED
      BY <1>5, <1>8, <2>6, <2>8, <3>1 DEF ApplyTransition
  <2> QED
    BY <2>7, <2>8
<1>9. ASSUME NEW w \in Workers, RecordFill(w) PROVE SerialInv'
  <2>1. wpc[w] = "record" /\ request[w].id \in OrderIDs
    BY <1>9 DEF RecordFill, TypeOK
  <2>2. \A i \in OrderIDs : orders'[i].status = orders[i].status
    BY <1>9, <2>1 DEF RecordFill, TypeOK, Order
  <2>3. wpc'[w] = "idle" /\ request'[w] = NoRequest
    BY <1>4, <1>9 DEF RecordFill
  <2> QED
    BY <1>5, <1>9, <2>2, <2>3 DEF RecordFill, TypeOK
<1>10. ASSUME NEW w \in Workers, PublishCanceled(w) PROVE SerialInv'
  <2>1. wpc[w] = "publish" /\ request[w].id \in OrderIDs /\ Exists(request[w].id)
    BY <1>10 DEF PublishCanceled, TypeOK
  <2>2. orders[request[w].id].status = "canceled" /\ request[w].id \in minted
    BY <2>1 DEF ExistingAreMinted
  <2>3. wpc'[w] = "idle" /\ request'[w] = NoRequest
    BY <1>4, <1>10 DEF PublishCanceled
  <2> QED
    BY <1>5, <1>10, <2>2, <2>3 DEF PublishCanceled
<1>11. CASE Restart
  BY <1>5, <1>11 DEF Restart, Absent, TypeOK
<1>12. CASE \/ \E d \in Decisions : Deliver(d)
            \/ Fetch \/ FetchFails \/ HandleWithoutOrder \/ PublishCreated \/ Commit
            \/ UNCHANGED vars
  BY <1>12 DEF Deliver, Fetch, FetchFails, HandleWithoutOrder, PublishCreated, Commit, vars
<1> QED
  BY <1>2, <1>3, <1>6, <1>7, <1>8, <1>9, <1>10, <1>11, <1>12 DEF Next, Consumer, Worker

LEMMA SerialInvHolds ==
  ASSUME \A v, w \in Workers : v = w
  PROVE  Spec => [](TypeOK /\ DecisionInv /\ SerialInv)
<1>1. TypeOK /\ DecisionInv /\ SerialInv /\ [Next]_vars => (TypeOK /\ DecisionInv /\ SerialInv)'
  BY NextTypeOK, NextDecisionInv, NextSerialInv DEF DecisionInv
<1>2. Init => TypeOK /\ DecisionInv /\ SerialInv
  BY InitTypeOK, InitDecisionInv, InitSerialInv
<1> QED
  BY <1>1, <1>2, PTL DEF Spec

\* With requests one at a time an order whose cancellation was announced stays canceled.
THEOREM SerialCancellationStands ==
  ASSUME \A v, w \in Workers : v = w
  PROVE  Spec => []CanceledEventStands
  BY SerialInvHolds, PTL DEF SerialInv

\* Every step of a service with one worker is a step of the abstract lifecycle.
LEMMA SerialStep ==
  ASSUME \A v, w \in Workers : v = w, TypeOK, ExistingAreMinted, SerialInv, [Next]_vars
  PROVE  [Lifecycle!Next]_([id \in OrderIDs |-> orders[id].status])
<1> DEFINE life == [id \in OrderIDs |-> orders[id].status]
<1> USE DEF consumerVars, workerVars, eventVars
<1>1. ASSUME NEW id \in OrderIDs, NEW from, Store(id, from) PROVE Lifecycle!Next
  <2>1. orders[id].status = "none"
    BY <1>1, StoreEffect DEF Exists
  <2>2. \A i \in OrderIDs : orders'[i].status = IF i = id THEN "created" ELSE orders[i].status
    BY <1>1, StoreEffect DEF NewOrder
  <2>3. Lifecycle!Create(id)
    BY <2>1, <2>2 DEF Lifecycle!Create
  <2> QED
    BY <2>3 DEF Lifecycle!Next
<1>2. CASE \E id \in OrderIDs : HandleApproved(id) \/ \E d \in Decisions \cup {"none"} : PostOrder(id, d)
  BY <1>1, <1>2 DEF HandleApproved, PostOrder
<1>3. ASSUME NEW w \in Workers, ApplyTransition(w) PROVE Lifecycle!Next
  <2>1. /\ wpc[w] = "apply" /\ request[w].id \in OrderIDs /\ request[w].to \in OrderStatus
    BY <1>3 DEF ApplyTransition, TypeOK, Request
  <2>2. Lifecycle!CanTransition(life[request[w].id], request[w].to)
    BY <2>1 DEF SerialInv, AppliesWhatItChecked, Status, CanTransition
  <2>3. \A i \in OrderIDs : orders'[i].status =
           IF i = request[w].id THEN request[w].to ELSE orders[i].status
    BY <1>3, <2>1 DEF ApplyTransition, TypeOK, Order
  <2>4. PICK id \in OrderIDs, to \in OrderStatus : id = request[w].id /\ to = request[w].to
    BY <2>1
  <2>5. Lifecycle!Move(id, to)
    BY <2>2, <2>3, <2>4 DEF Lifecycle!Move
  <2> QED
    BY <2>5 DEF Lifecycle!Next, OrderStatus
<1>4. ASSUME NEW w \in Workers, RecordFill(w) PROVE life' = life
  <2>1. request[w].id \in OrderIDs
    BY <1>4 DEF RecordFill, TypeOK
  <2>2. \A i \in OrderIDs : orders'[i].status = orders[i].status
    BY <1>4, <2>1 DEF RecordFill, TypeOK, Order
  <2> QED
    BY <2>2
<1>5. CASE Restart
  <2>1. Lifecycle!ProcessEnds
    BY <1>5 DEF Restart, Absent, Lifecycle!ProcessEnds
  <2> QED
    BY <2>1 DEF Lifecycle!Next
<1>6. ASSUME NEW w \in Workers, NEW id \in OrderIDs,
             \/ BeginCancel(w, id)
             \/ \E executed \in 0..(Quantity + 1), to \in FillStatuses : BeginFill(w, id, executed, to)
             \/ \E to \in Targets : BeginTransition(w, id, to)
      PROVE  life' = life
  BY <1>6 DEF BeginCancel, BeginFill, BeginTransition, Begin
<1>7. CASE \/ \E w \in Workers : ValidateCancellation(w) \/ CheckTransition(w) \/ PublishCanceled(w)
           \/ \E d \in Decisions : Deliver(d)
           \/ Fetch \/ FetchFails \/ HandleWithoutOrder \/ PublishCreated \/ Commit
           \/ UNCHANGED vars
  <2>1. orders' = orders
    BY <1>7 DEF ValidateCancellation, CheckTransition, PublishCanceled, Deliver, Fetch, FetchFails,
                HandleWithoutOrder, PublishCreated, Commit, vars
  <2> QED
    BY <2>1
<1> QED
  BY <1>2, <1>3, <1>4, <1>5, <1>6, <1>7 DEF Next, Consumer, Worker

\* With requests one at a time the order service implements the order lifecycle.
THEOREM SerialImplementsLifecycle ==
  ASSUME \A v, w \in Workers : v = w
  PROVE  Spec => ImplementsLifecycle
<1>1. Init => Lifecycle!Init
  BY DEF Init, Lifecycle!Init, Absent
<1>2. TypeOK /\ DecisionInv /\ SerialInv /\ [Next]_vars
        => [Lifecycle!Next]_([id \in OrderIDs |-> orders[id].status])
  BY SerialStep DEF DecisionInv
<1> QED
  BY <1>1, <1>2, SerialInvHolds, PTL DEF Spec, ImplementsLifecycle, Lifecycle!Spec

=============================================================================
