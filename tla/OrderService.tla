---------------------------- MODULE OrderService ----------------------------
(***************************************************************************)
(* The order service: internal/application/order (service, state_machine,  *)
(* validator), internal/domain/order.go, the in-memory repository and the  *)
(* HTTP handlers.  One goroutine consumes approved risk decisions; every   *)
(* HTTP request runs on a goroutine of its own.  GetByID returns the       *)
(* stored pointer, so all of them read and write the same Order object,    *)
(* and no lock spans the check of a transition and its assignment: each    *)
(* request is a worker whose steps interleave with the others'.            *)
(***************************************************************************)
EXTENDS Naturals, Sequences

CONSTANTS
    OrderIDs,      \* ids that uuid.New may mint
    PostedIDs,     \* bound: those it mints for POST /orders
    NoOrder,
    Decisions,     \* event ids on risk.order.approved
    Invalid,       \* the decisions that ValidateOrderCreation refuses
    Workers,       \* HTTP requests that may be in progress together
    Quantity,      \* Quantity of every order, in units
    FillStatuses,  \* what callers pass to UpdateOrderFill (the handler: partial_filled)
    Targets,       \* what callers pass to TransitionOrder (the deployed service: none)
    MaxMessages,   \* bound: messages in the topic, repeats included
    MaxRestarts    \* bound: restarts of the process

ASSUME NoOrderAssumption == NoOrder \notin OrderIDs
ASSUME PostedAssumption == PostedIDs \subseteq OrderIDs
ASSUME InvalidAssumption == Invalid \subseteq Decisions
ASSUME QuantityAssumption == Quantity \in Nat \ {0}
ASSUME BoundsAssumption == MaxMessages \in Nat /\ MaxRestarts \in Nat

VARIABLES
    log, committed, next,   \* the topic, the group's offset, the consumer's offset
    cpc,           \* where the consumer goroutine is
    fresh,         \* the order it created and has not announced yet
    processed,     \* Service.processedRiskDecisions
    orders,        \* the stored Order objects
    source,        \* Order.RiskDecisionID: the consumer's decision, or what the client of POST names
    minted,        \* ids that exist; a uuid is never minted twice
    wpc, request,  \* where each worker is, and what it was asked
    checked,       \* history variable: the status in which a worker's transition passed its check
    restarts,
    createdEvents,   \* order.created events: the order and its decision
    canceledEvents   \* orders an order.canceled event was published for

consumerVars == <<committed, next, cpc, fresh, processed>>
workerVars == <<wpc, request, checked>>
eventVars == <<createdEvents, canceledEvents>>
vars == <<log, consumerVars, orders, source, minted, workerVars, restarts, eventVars>>

Lifecycle == INSTANCE OrderLifecycle WITH life <- [id \in OrderIDs |-> orders[id].status]

OrderStatus == Lifecycle!OrderStatus
CanTransition(from, to) == Lifecycle!CanTransition(from, to)
IsFinal(status) == Lifecycle!IsFinal(status)

ASSUME StatusesAssumption == FillStatuses \cup Targets \subseteq OrderStatus \ {"none"}

-----------------------------------------------------------------------------

Absent == [status |-> "none", executed |-> 0]
NewOrder == [status |-> "created", executed |-> 0]

NoRequest == [op |-> "none", id |-> NoOrder, to |-> "none", executed |-> 0]

Exists(id) == orders[id].status # "none"

Init ==
    /\ log = <<>> /\ committed = 0 /\ next = 0
    /\ cpc = "fetch" /\ fresh = NoOrder /\ processed = {}
    /\ orders = [id \in OrderIDs |-> Absent]
    /\ source = [id \in OrderIDs |-> "none"]
    /\ minted = {}
    /\ wpc = [w \in Workers |-> "idle"] /\ request = [w \in Workers |-> NoRequest]
    /\ checked = [w \in Workers |-> "none"]
    /\ restarts = 0
    /\ createdEvents = {} /\ canceledEvents = {}

-----------------------------------------------------------------------------
(* The consumer of risk.order.approved. *)

Deliver(d) ==
    /\ Len(log) < MaxMessages
    /\ log' = Append(log, d)
    /\ UNCHANGED <<consumerVars, orders, source, minted, workerVars, restarts, eventVars>>

Fetch ==
    /\ cpc = "fetch" /\ next < Len(log)
    /\ next' = next + 1 /\ cpc' = "handle"
    /\ UNCHANGED <<log, committed, fresh, processed, orders, source, minted, workerVars,
                   restarts, eventVars>>

FetchFails ==
    /\ cpc = "fetch"
    /\ cpc' = "stopped"
    /\ UNCHANGED <<log, committed, next, fresh, processed, orders, source, minted,
                   workerVars, restarts, eventVars>>

Decision == log[next]

\* CreateOrder: fresh ids, so the repository finds no duplicate, and the order is stored.
Store(id, from) ==
    /\ id \notin minted
    /\ minted' = minted \cup {id}
    /\ orders' = [orders EXCEPT ![id] = NewOrder]
    /\ source' = [source EXCEPT ![id] = from]

\* Known decisions are skipped; a refused one stays marked as processed.
HandleWithoutOrder ==
    /\ cpc = "handle" /\ Decision \in processed \cup Invalid
    /\ processed' = processed \cup {Decision}
    /\ cpc' = "commit"
    /\ UNCHANGED <<log, committed, next, fresh, orders, source, minted, workerVars,
                   restarts, eventVars>>

\* Slip: the processed decisions are not looked up.
HandleApprovedAgain(id) ==
    /\ cpc = "handle" /\ Decision \notin Invalid
    /\ processed' = processed \cup {Decision}
    /\ id \notin PostedIDs
    /\ Store(id, Decision)
    /\ fresh' = id /\ cpc' = "announce"
    /\ UNCHANGED <<log, committed, next, workerVars, restarts, eventVars>>

HandleApproved(id) ==
    /\ cpc = "handle" /\ Decision \notin processed \cup Invalid
    /\ processed' = processed \cup {Decision}
    /\ id \notin PostedIDs
    /\ Store(id, Decision)
    /\ fresh' = id /\ cpc' = "announce"
    /\ UNCHANGED <<log, committed, next, workerVars, restarts, eventVars>>

\* A failed publication is only logged.
PublishCreated ==
    /\ cpc = "announce"
    /\ \/ createdEvents' = createdEvents \cup
              {[id |-> fresh, decision |-> source[fresh]]}
       \/ UNCHANGED createdEvents
    /\ fresh' = NoOrder /\ cpc' = "commit"
    /\ UNCHANGED <<log, committed, next, processed, orders, source, minted, workerVars,
                   restarts, canceledEvents>>

\* Slip: the offset before the handled one is committed.
CommitTooNear ==
    /\ cpc = "commit" /\ committed' = next - 1 /\ cpc' = "fetch"
    /\ UNCHANGED <<log, next, fresh, processed, orders, source, minted, workerVars,
                   restarts, eventVars>>

Commit ==
    /\ cpc = "commit"
    /\ \/ committed' = next /\ cpc' = "fetch"
       \/ cpc' = "stopped" /\ UNCHANGED committed
    /\ UNCHANGED <<log, next, fresh, processed, orders, source, minted, workerVars,
                   restarts, eventVars>>

-----------------------------------------------------------------------------
(* The HTTP workers. *)

\* POST /orders calls CreateOrder with the decision the client names, one the consumer
\* handled or will handle, or none.  It marks and publishes nothing.
PostOrder(id, d) ==
    /\ id \in PostedIDs
    /\ Store(id, d)
    /\ UNCHANGED <<log, consumerVars, workerVars, restarts, eventVars>>

Status(w) == orders[request[w].id].status

\* The worker goes on, or its request is over.
Step(w, pc) ==
    /\ wpc' = [wpc EXCEPT ![w] = pc]
    /\ request' = IF pc = "idle" THEN [request EXCEPT ![w] = NoRequest] ELSE request
    /\ checked' = [checked EXCEPT ![w] = CASE pc = "idle"  -> "none"
                                          [] pc = "apply" -> Status(w)
                                          [] OTHER        -> @]

Begin(w, op, id, to, executed, pc) ==
    /\ wpc[w] = "idle" /\ Exists(id)
    /\ request' = [request EXCEPT
                      ![w] = [op |-> op, id |-> id, to |-> to, executed |-> executed]]
    /\ wpc' = [wpc EXCEPT ![w] = pc]
    /\ UNCHANGED <<log, consumerVars, orders, source, minted, checked, restarts, eventVars>>

BeginCancel(w, id) == Begin(w, "cancel", id, "canceled", 0, "validate")

\* Slip: off by one.
ValidateFillLoosely(executed) == executed <= Quantity + 1

\* ValidateFillUpdate reads only fields that never change.
ValidateFillUpdate(executed) == executed <= Quantity

BeginFill(w, id, executed, to) ==
    /\ ValidateFillUpdate(executed)
    /\ Begin(w, "fill", id, to, executed, "check")

BeginTransition(w, id, to) == Begin(w, "transition", id, to, 0, "check")

ValidateCancellation(w) ==
    /\ wpc[w] = "validate"
    /\ Step(w, IF Status(w) \in {"created", "submitted"} THEN "check" ELSE "idle")
    /\ UNCHANGED <<log, consumerVars, orders, source, minted, restarts, eventVars>>

\* Slip: every transition passes.
CheckNothing(w) ==
    /\ wpc[w] = "check"
    /\ Step(w, "apply")
    /\ UNCHANGED <<log, consumerVars, orders, source, minted, restarts, eventVars>>

\* Transition and TransitionTo both call CanTransition; the last call decides.
CheckTransition(w) ==
    /\ wpc[w] = "check"
    /\ Step(w, IF CanTransition(Status(w), request[w].to) THEN "apply" ELSE "idle")
    /\ UNCHANGED <<log, consumerVars, orders, source, minted, restarts, eventVars>>

\* TransitionTo assigns the status without looking at it again.  Update stores
\* the pointer that is already stored.
ApplyTransition(w) ==
    /\ wpc[w] = "apply"
    /\ LET id == request[w].id
           to == request[w].to
       IN orders' = [orders EXCEPT ![id].status = to,
                                   ![id].executed = IF to = "filled" THEN Quantity ELSE @]
    /\ Step(w, CASE request[w].op = "fill"       -> "record"
                 [] request[w].op = "cancel"     -> "publish"
                 [] request[w].op = "transition" -> "idle")
    /\ UNCHANGED <<log, consumerVars, source, minted, restarts, eventVars>>

\* UpdateOrderFill overwrites what TransitionTo set.
RecordFill(w) ==
    /\ wpc[w] = "record"
    /\ orders' = [orders EXCEPT ![request[w].id].executed = request[w].executed]
    /\ Step(w, "idle")
    /\ UNCHANGED <<log, consumerVars, source, minted, restarts, eventVars>>

PublishCanceled(w) ==
    /\ wpc[w] = "publish"
    /\ \/ canceledEvents' = canceledEvents \cup {request[w].id}
       \/ UNCHANGED canceledEvents
    /\ Step(w, "idle")
    /\ UNCHANGED <<log, consumerVars, orders, source, minted, restarts, createdEvents>>

\* The process ends and a new one resumes at the committed offset with empty maps.
Restart ==
    /\ restarts < MaxRestarts
    /\ restarts' = restarts + 1
    /\ next' = committed /\ cpc' = "fetch" /\ fresh' = NoOrder /\ processed' = {}
    /\ orders' = [id \in OrderIDs |-> Absent]
    /\ source' = [id \in OrderIDs |-> "none"]
    /\ wpc' = [w \in Workers |-> "idle"] /\ request' = [w \in Workers |-> NoRequest]
    /\ checked' = [w \in Workers |-> "none"]
    /\ UNCHANGED <<log, committed, minted, eventVars>>

Consumer ==
    \/ Fetch \/ FetchFails \/ HandleWithoutOrder \/ PublishCreated \/ Commit
    \/ \E id \in OrderIDs : HandleApproved(id)

Worker(w) ==
    \/ \E id \in OrderIDs :
          \/ BeginCancel(w, id)
          \/ \E executed \in 0..(Quantity + 1), to \in FillStatuses : BeginFill(w, id, executed, to)
          \/ \E to \in Targets : BeginTransition(w, id, to)
    \/ ValidateCancellation(w) \/ CheckTransition(w) \/ ApplyTransition(w)
    \/ RecordFill(w) \/ PublishCanceled(w)

Next ==
    \/ \E d \in Decisions : Deliver(d)
    \/ Consumer
    \/ \E id \in OrderIDs, d \in Decisions \cup {"none"} : PostOrder(id, d)
    \/ \E w \in Workers : Worker(w)
    \/ Restart

Spec == Init /\ [][Next]_vars

\* The consumer goroutine goes on, though never owed the error that ends it, and a
\* request that was begun ends.
FairSpec ==
    /\ Spec
    /\ WF_vars(Consumer /\ cpc' # "stopped")
    /\ \A w \in Workers : WF_vars(wpc[w] # "idle" /\ Worker(w))

-----------------------------------------------------------------------------
(* Properties. *)

Order == [status : OrderStatus, executed : Nat]
Request == [op : {"none", "cancel", "fill", "transition"}, id : OrderIDs \cup {NoOrder},
            to : OrderStatus, executed : Nat]
CreatedEvent == [id : OrderIDs, decision : Decisions \cup {"none"}]

\* Every variable keeps its type, and whoever is in the middle of an operation
\* has an order to work on.
TypeOK ==
    /\ log \in Seq(Decisions) /\ next \in 0..Len(log) /\ committed \in 0..next
    /\ cpc \in {"fetch", "handle", "announce", "commit", "stopped"}
    /\ IF cpc = "announce" THEN fresh \in minted ELSE fresh = NoOrder
    /\ cpc \in {"handle", "announce", "commit"} => next > committed
    /\ processed \subseteq Decisions
    /\ orders \in [OrderIDs -> Order]
    /\ source \in [OrderIDs -> Decisions \cup {"none"}]
    /\ minted \subseteq OrderIDs
    /\ wpc \in [Workers -> {"idle", "validate", "check", "apply", "record", "publish"}]
    /\ request \in [Workers -> Request]
    /\ checked \in [Workers -> OrderStatus]
    /\ \A w \in Workers : wpc[w] # "idle" =>
          /\ request[w].op # "none" /\ request[w].to # "none"
          /\ request[w].id \in OrderIDs /\ Exists(request[w].id)
    /\ restarts \in Nat
    /\ createdEvents \subseteq CreatedEvent
    /\ canceledEvents \subseteq OrderIDs

\* While the process runs, the consumer makes at most one order of a risk decision,
\* however often it is delivered (processedRiskDecisions in handleApprovedSignal).
\* An order posted under the decision's id is another one: nothing compares the two.
OneOrderPerDecision ==
    \A a, b \in OrderIDs \ PostedIDs :
        Exists(a) /\ Exists(b) /\ source[a] = source[b] => a = b

\* An order never executes more than its quantity, whatever fills and
\* transitions overlap (ValidateFillUpdate, TransitionTo, UpdateOrderFill).
ExecutedWithinQuantity == \A id \in OrderIDs : orders[id].executed <= Quantity

\* A terminal order changes only through a request whose transition was legal in
\* the status it saw at its check, which was not terminal; it sets the status, or the
\* fill, it was asked to.  No request whose check (Order.CanTransition) comes after
\* the order became terminal moves it, whatever overlaps: what a cancellation or a
\* fill has ended is undone only by a request that was past its check by then.
TerminalMovesOnlyByOverlap ==
    [][\A id \in OrderIDs :
        IsFinal(orders[id].status) /\ restarts' = restarts /\ orders'[id] # orders[id] =>
            \E w \in Workers :
                /\ request[w].id = id /\ wpc'[w] # wpc[w]
                /\ CanTransition(checked[w], request[w].to)
                /\ ~IsFinal(checked[w])
                /\ orders'[id].status \in {orders[id].status, request[w].to}]_vars

\* With requests one at a time the service implements the abstract lifecycle.
ImplementsLifecycle == Lifecycle!Spec

\* With requests one at a time an announced cancellation stands.
CanceledEventStands ==
    \A id \in canceledEvents : orders[id].status = "canceled" \/ ~Exists(id)

\* The topic is drained: a delivered decision is committed some time, whatever
\* the HTTP requests do, unless the consumer goroutine ended.
TopicIsDrained ==
    \A n \in 1..MaxMessages : Len(log) >= n ~> committed >= n \/ cpc = "stopped"

=============================================================================
