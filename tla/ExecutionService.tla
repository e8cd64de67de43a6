-------------------------- MODULE ExecutionService --------------------------
(***************************************************************************)
(* The execution service: internal/application/execution (service,         *)
(* submitter, reconciler), internal/domain/execution.go and the in-memory  *)
(* repository.  Three actors share state:                                  *)
(*                                                                         *)
(*   - the consumer goroutine takes order.created messages one by one,     *)
(*     creates an execution, submits it with retries, stores the result    *)
(*     and publishes execution.submitted;                                  *)
(*   - the reconciliation goroutine copies the submitted and the partially *)
(*     filled executions out of the repository, asks the exchange for the  *)
(*     fills of each and stores the updated copy;                          *)
(*   - the exchange and the Kafka topic are the environment.               *)
(*                                                                         *)
(* The repository maps an id to a POINTER.  Create and the consumer's      *)
(* Update store the pointer the consumer keeps writing through; the        *)
(* reconciler's Update replaces it by a pointer to its own copy.  That     *)
(* aliasing is modelled: held[o] is the object the consumer points to,     *)
(* shared[o] says that the repository holds that same pointer, and         *)
(* copied[o] is the object stored by the reconciler otherwise.             *)
(*                                                                         *)
(* Quantities are whole units, every unit trades at price 1, so an         *)
(* execution's ExecutedValue is the number of units that were added to it. *)
(***************************************************************************)
EXTENDS Naturals, Sequences

CONSTANTS
    Orders,           \* order ids; the order service mints one ClientOrderID per id
    NoOrder,          \* no order is being worked on
    Quantity,         \* OriginalQuantity of every order, in units
    MaxRetries,       \* Submitter.maxRetries
    SubmitOutcomes,   \* what a call of Adapter.SubmitOrder may come to
    DedupByClientID,  \* does the exchange answer a repeated ClientOrderID with the first order?
    MaxMessages,      \* bound: order.created messages in the topic, repeats included
    MaxRestarts       \* bound: times the process ends and starts again

ASSUME NoOrderAssumption == NoOrder \notin Orders
ASSUME QuantityAssumption == Quantity \in Nat \ {0}
ASSUME MaxRetriesAssumption == MaxRetries \in Nat
ASSUME OutcomesAssumption == SubmitOutcomes \subseteq {"accepted", "refused", "lost"}
ASSUME DedupAssumption == DedupByClientID \in BOOLEAN
ASSUME BoundsAssumption == MaxMessages \in Nat /\ MaxRestarts \in Nat

VARIABLES
    log,          \* the order.created topic
    committed,    \* offset committed by the consumer group
    next,         \* offset the running consumer has fetched up to
    cpc,          \* where the consumer goroutine is
    cur,          \* the order it handles
    reply,        \* exchange order id returned by the last accepted submission
    processed,    \* Service.processedOrders
    attempts,     \* Submitter.attempts
    held,         \* the consumer's Execution objects
    shared,       \* does the repository store the consumer's pointer?
    copied,       \* the reconciler's object in the repository when it does not
    rpc,          \* where the reconciliation goroutine is
    batch,        \* the value copies of this pass (`executions`)
    rcur,         \* the order whose copy it stores or publishes
    up,           \* "running", or "stopping" after SIGTERM
    restarts,     \* how often the process was started again
    exch,         \* exchange orders placed per order, each with the units filled so far
    calls,        \* adapter submissions per order since the process started
    submittedEvents,  \* execution.submitted events published since then
    filledEvents      \* execution.filled events published since then

consumerVars == <<committed, next, cpc, cur, reply, processed, attempts, held, shared>>
reconcilerVars == <<rpc, batch, rcur>>
historyVars == <<calls, submittedEvents, filledEvents>>
vars == <<log, consumerVars, copied, reconcilerVars, up, restarts, exch, historyVars>>

-----------------------------------------------------------------------------
(* The Execution object and its state machine. *)

Status == {"none", "created", "submitting", "submitted", "partial_filled",
           "filled", "canceling", "canceled", "failed", "closed"}

\* exid 0 is the empty ExchangeOrderID; status "none" marks "no object".
Execution == [status : Status, exid : Nat, qty : Nat, value : Nat]

Absent == [status |-> "none", exid |-> 0, qty |-> 0, value |-> 0]

NewExecution == [Absent EXCEPT !.status = "created"]

\* Slip: more fills may follow a partial fill.
CanTransitionLoose(from, to) ==
    \/ from = "created"        /\ to \in {"submitting", "failed"}
    \/ from = "submitting"     /\ to \in {"submitted", "failed"}
    \/ from = "submitted"      /\ to \in {"partial_filled", "filled", "canceling", "failed"}
    \/ from = "partial_filled" /\ to \in {"partial_filled", "filled", "canceling", "failed"}

CanTransition(from, to) ==
    \/ from = "created"        /\ to \in {"submitting", "failed"}
    \/ from = "submitting"     /\ to \in {"submitted", "failed"}
    \/ from = "submitted"      /\ to \in {"partial_filled", "filled", "canceling", "failed"}
    \/ from = "partial_filled" /\ to \in {"filled", "canceling", "closed", "failed"}
    \/ from = "filled"         /\ to \in {"closed", "failed"}
    \/ from = "canceling"      /\ to \in {"canceled", "failed"}

\* applyFills up to the transition: every fill the exchange reports is added
\* to what the execution already has; only the quantity is capped.
AddFills(e, units) ==
    LET total == e.qty + units
        full  == total >= Quantity
    IN [status |-> IF full THEN "filled" ELSE "partial_filled",
        exid   |-> e.exid,
        qty    |-> IF full THEN Quantity ELSE total,
        value  |-> e.value + units]

\* Slip: Update keeps the pointer that Create stored.
StoredUnreplaced(o) == held[o]

\* What a reader of the repository sees of order o.
Stored(o) == IF shared[o] THEN held[o] ELSE copied[o]

ListByStatus(s) == {o \in Orders : Stored(o).status = s}

Init ==
    /\ log = <<>> /\ committed = 0 /\ next = 0
    /\ cpc = "fetch" /\ cur = NoOrder /\ reply = 0
    /\ processed = {}
    /\ attempts = [o \in Orders |-> 0]
    /\ held = [o \in Orders |-> Absent]
    /\ shared = [o \in Orders |-> FALSE]
    /\ copied = [o \in Orders |-> Absent]
    /\ rpc = "idle" /\ batch = [o \in Orders |-> Absent] /\ rcur = NoOrder
    /\ up = "running" /\ restarts = 0
    /\ exch = [o \in Orders |-> <<>>]
    /\ calls = [o \in Orders |-> 0]
    /\ submittedEvents = [o \in Orders |-> 0]
    /\ filledEvents = [o \in Orders |-> 0]

-----------------------------------------------------------------------------
(* The environment: the topic and the exchange. *)

\* A message about o reaches the topic; a producer retry may repeat it.
Deliver(o) ==
    /\ Len(log) < MaxMessages
    /\ log' = Append(log, o)
    /\ UNCHANGED <<consumerVars, copied, reconcilerVars, up, restarts, exch, historyVars>>

\* The exchange trades one more unit of its k-th order for o.
ExchangeFill(o, k) ==
    /\ exch[o][k] < Quantity
    /\ exch' = [exch EXCEPT ![o] = [exch[o] EXCEPT ![k] = @ + 1]]
    /\ UNCHANGED <<log, consumerVars, copied, reconcilerVars, up, restarts, historyVars>>

\* The exchange's book for o after it took a submission, and the id it gave.
KnownToExchange(o) == DedupByClientID /\ exch[o] # <<>>
Placed(o) == IF KnownToExchange(o) THEN exch[o] ELSE Append(exch[o], 0)
PlacedID(o) == IF KnownToExchange(o) THEN 1 ELSE Len(exch[o]) + 1

\* What an exchange with these orders has traded on the one an execution names.
Traded(book, e) == IF e.exid \in DOMAIN book THEN book[e.exid] ELSE 0

-----------------------------------------------------------------------------
(* The consumer goroutine. *)

FetchMessage ==
    /\ cpc = "fetch" /\ next < Len(log)
    /\ next' = next + 1
    /\ cur' = log[next + 1]
    /\ cpc' = "handle"
    /\ UNCHANGED <<log, committed, reply, processed, attempts, held, shared, copied,
                   reconcilerVars, up, restarts, exch, historyVars>>

\* Consume returns on a fetch error or on cancellation, and nothing starts it again.
\* (A fetch or a commit that races the cancellation may still succeed.)
FetchFails ==
    /\ cpc = "fetch"
    /\ cpc' = "stopped"
    /\ UNCHANGED <<log, committed, next, cur, reply, processed, attempts, held, shared,
                   copied, reconcilerVars, up, restarts, exch, historyVars>>

SkipProcessed ==
    /\ cpc = "handle" /\ cur \in processed
    /\ cpc' = "commit"
    /\ UNCHANGED <<log, committed, next, cur, reply, processed, attempts, held, shared,
                   copied, reconcilerVars, up, restarts, exch, historyVars>>

\* handleOrderCreated marks the order, creates the execution and enters Submit,
\* which resets the attempt count.
HandleOrderCreated ==
    /\ cpc = "handle" /\ cur \notin processed
    /\ processed' = processed \cup {cur}
    /\ held' = [held EXCEPT ![cur] = NewExecution]
    /\ shared' = [shared EXCEPT ![cur] = TRUE]
    /\ attempts' = [attempts EXCEPT ![cur] = 0]
    /\ cpc' = "submit"
    /\ UNCHANGED <<log, committed, next, cur, reply, copied, reconcilerVars, up,
                   restarts, exch, historyVars>>

\* Slip: one attempt too many.
SubmitAttemptOnceMore(outcome) ==
    /\ cpc = "submit"
    /\ attempts' = [attempts EXCEPT ![cur] = @ + 1]
    /\ calls' = [calls EXCEPT ![cur] = @ + 1]
    /\ exch' = IF outcome = "refused" THEN exch ELSE [exch EXCEPT ![cur] = Placed(cur)]
    /\ IF outcome = "accepted"
       THEN reply' = PlacedID(cur) /\ cpc' = "accepted"
       ELSE /\ cpc' = IF attempts[cur] > MaxRetries THEN "exhausted" ELSE "backoff"
            /\ UNCHANGED reply
    /\ UNCHANGED <<log, committed, next, cur, processed, held, shared, copied,
                   reconcilerVars, up, restarts, submittedEvents, filledEvents>>

\* One turn of Submit's loop.  "lost": the exchange took the order, the caller got an error.
SubmitAttempt(outcome) ==
    /\ cpc = "submit"
    /\ attempts' = [attempts EXCEPT ![cur] = @ + 1]
    /\ calls' = [calls EXCEPT ![cur] = @ + 1]
    /\ exch' = IF outcome = "refused" THEN exch ELSE [exch EXCEPT ![cur] = Placed(cur)]
    /\ IF outcome = "accepted"
       THEN reply' = PlacedID(cur) /\ cpc' = "accepted"
       ELSE /\ cpc' = IF attempts[cur] >= MaxRetries THEN "exhausted" ELSE "backoff"
            /\ UNCHANGED reply
    /\ UNCHANGED <<log, committed, next, cur, processed, held, shared, copied,
                   reconcilerVars, up, restarts, submittedEvents, filledEvents>>

\* Slip: the loop gives up after the backoff and the failure is not recorded.
BackoffGivesUp ==
    /\ cpc = "backoff"
    /\ cpc' = "commit"
    /\ UNCHANGED <<log, committed, next, cur, reply, processed, attempts, held, shared,
                   copied, reconcilerVars, up, restarts, exch, historyVars>>

BackoffElapses ==
    /\ cpc = "backoff"
    /\ cpc' = "submit"
    /\ UNCHANGED <<log, committed, next, cur, reply, processed, attempts, held, shared,
                   copied, reconcilerVars, up, restarts, exch, historyVars>>

BackoffCanceled ==
    /\ cpc = "backoff" /\ up = "stopping"
    /\ cpc' = "exhausted"
    /\ UNCHANGED <<log, committed, next, cur, reply, processed, attempts, held, shared,
                   copied, reconcilerVars, up, restarts, exch, historyVars>>

\* Submit returned an error: the status is set without TransitionTo, the pointer
\* stored, and no event published.
FailExecution ==
    /\ cpc = "exhausted"
    /\ held' = [held EXCEPT ![cur].status = "failed"]
    /\ shared' = [shared EXCEPT ![cur] = TRUE]
    /\ copied' = [copied EXCEPT ![cur] = Absent]
    /\ cpc' = "commit"
    /\ UNCHANGED <<log, committed, next, cur, reply, processed, attempts,
                   reconcilerVars, up, restarts, exch, historyVars>>

\* The writes through the shared pointer, before Update takes the repository lock.
\* (A reader that sees the status without the exchange id skips the execution,
\* so the two writes need not be told apart.)
MarkSubmitted ==
    /\ cpc = "accepted"
    /\ held' = [held EXCEPT ![cur].status = "submitted", ![cur].exid = reply]
    /\ cpc' = "marked"
    /\ UNCHANGED <<log, committed, next, cur, reply, processed, attempts, shared, copied,
                   reconcilerVars, up, restarts, exch, historyVars>>

\* repository.Update stores the consumer's pointer, whatever is stored by now.
UpdateSubmitted ==
    /\ cpc = "marked"
    /\ shared' = [shared EXCEPT ![cur] = TRUE]
    /\ copied' = [copied EXCEPT ![cur] = Absent]
    /\ cpc' = "publish"
    /\ UNCHANGED <<log, committed, next, cur, reply, processed, attempts, held,
                   reconcilerVars, up, restarts, exch, historyVars>>

\* Slip: the execution is stored again after it was announced.
PublishAndStoreAgain ==
    /\ cpc = "publish"
    /\ shared' = [shared EXCEPT ![cur] = TRUE] /\ copied' = [copied EXCEPT ![cur] = Absent]
    /\ cpc' = "commit"
    /\ UNCHANGED <<log, committed, next, cur, reply, processed, attempts, held,
                   reconcilerVars, up, restarts, exch, historyVars>>

\* A failed publication is not looked at.
PublishSubmitted ==
    /\ cpc = "publish"
    /\ \/ submittedEvents' = [submittedEvents EXCEPT ![cur] = @ + 1]
       \/ UNCHANGED submittedEvents
    /\ cpc' = "commit"
    /\ UNCHANGED <<log, committed, next, cur, reply, processed, attempts, held, shared,
                   copied, reconcilerVars, up, restarts, exch, calls, filledEvents>>

\* Slip: the offset after the next one is committed.
CommitTooFar ==
    /\ cpc = "commit" /\ committed' = next + 1 /\ cpc' = "fetch" /\ cur' = NoOrder
    /\ UNCHANGED <<log, next, reply, processed, attempts, held, shared, copied,
                   reconcilerVars, up, restarts, exch, historyVars>>

\* The handler always returns nil, so the message is committed; a commit
\* error ends the consumer for the life of the process.
CommitMessage ==
    /\ cpc = "commit"
    /\ \/ committed' = next /\ cpc' = "fetch"
       \/ cpc' = "stopped" /\ UNCHANGED committed
    /\ cur' = NoOrder
    /\ UNCHANGED <<log, next, reply, processed, attempts, held, shared, copied,
                   reconcilerVars, up, restarts, exch, historyVars>>

Consumer ==
    \/ FetchMessage \/ FetchFails \/ SkipProcessed \/ HandleOrderCreated
    \/ \E outcome \in SubmitOutcomes : SubmitAttempt(outcome)
    \/ BackoffElapses \/ BackoffCanceled \/ FailExecution
    \/ MarkSubmitted \/ UpdateSubmitted \/ PublishSubmitted \/ CommitMessage

-----------------------------------------------------------------------------
(* The reconciliation goroutine. *)

\* The ticker fired: copy the submitted executions.
ListSubmitted ==
    /\ rpc = "idle"
    /\ batch' = [o \in Orders |-> IF o \in ListByStatus("submitted") THEN Stored(o) ELSE Absent]
    /\ rpc' = "list"
    /\ UNCHANGED <<log, consumerVars, copied, rcur, up, restarts, exch, historyVars>>

\* Slip: the partially filled executions are not listed.
ListNoPartial ==
    /\ rpc = "list" /\ rpc' = "poll"
    /\ UNCHANGED <<log, consumerVars, copied, batch, rcur, up, restarts, exch, historyVars>>

\* Then, under a second lock, the partially filled ones.
ListPartial ==
    /\ rpc = "list"
    /\ batch' = [o \in Orders |->
                    IF o \in ListByStatus("partial_filled") THEN Stored(o) ELSE batch[o]]
    /\ rpc' = "poll"
    /\ UNCHANGED <<log, consumerVars, copied, rcur, up, restarts, exch, historyVars>>

InBatch == {o \in Orders : batch[o] # Absent}

\* The submitted executions come first in the slice.
Due(o) ==
    /\ rpc = "poll" /\ o \in InBatch
    /\ batch[o].status = "submitted" \/ \A p \in InBatch : batch[p].status # "submitted"

Drop(o) == batch' = [batch EXCEPT ![o] = Absent]

\* No exchange id, or GetFills failed: on to the next execution.
PollFails(o) ==
    /\ Due(o) /\ Drop(o)
    /\ UNCHANGED <<log, consumerVars, copied, rpc, rcur, up, restarts, exch, historyVars>>

\* GetFills answered with every fill of the exchange order so far.  Nothing is
\* stored when there is none, or when TransitionTo refuses the new status.
PollFills(o) ==
    /\ Due(o) /\ batch[o].exid # 0
    /\ LET units == Traded(exch[o], batch[o])
           e == AddFills(batch[o], units)
       IN IF units > 0 /\ CanTransition(batch[o].status, e.status)
          THEN batch' = [batch EXCEPT ![o] = e] /\ rpc' = "save" /\ rcur' = o
          ELSE Drop(o) /\ UNCHANGED <<rpc, rcur>>
    /\ UNCHANGED <<log, consumerVars, copied, up, restarts, exch, historyVars>>

\* repository.Update replaces the stored pointer by the reconciler's copy.
SaveFills ==
    /\ rpc = "save"
    /\ copied' = [copied EXCEPT ![rcur] = batch[rcur]]
    /\ shared' = [shared EXCEPT ![rcur] = FALSE]
    /\ IF batch[rcur].status = "filled"
       THEN rpc' = "publish" /\ UNCHANGED rcur
       ELSE rpc' = "poll" /\ rcur' = NoOrder
    /\ Drop(rcur)
    /\ UNCHANGED <<log, committed, next, cpc, cur, reply, processed, attempts, held, up,
                   restarts, exch, historyVars>>

\* A failed publication is not looked at, and a filled execution is never listed again.
PublishFilled ==
    /\ rpc = "publish"
    /\ \/ filledEvents' = [filledEvents EXCEPT ![rcur] = @ + 1]
       \/ UNCHANGED filledEvents
    /\ rpc' = "poll" /\ rcur' = NoOrder
    /\ UNCHANGED <<log, consumerVars, copied, batch, up, restarts, exch, calls, submittedEvents>>

PassEnds ==
    /\ rpc = "poll" /\ InBatch = {}
    /\ rpc' = "idle"
    /\ UNCHANGED <<log, consumerVars, copied, batch, rcur, up, restarts, exch, historyVars>>

\* The select sees the cancellation; it may also pick a tick that is due as well.
LoopStops ==
    /\ rpc = "idle" /\ up = "stopping"
    /\ rpc' = "stopped"
    /\ UNCHANGED <<log, consumerVars, copied, batch, rcur, up, restarts, exch, historyVars>>

Reconciler ==
    \/ ListSubmitted \/ ListPartial \/ SaveFills \/ PublishFilled \/ PassEnds \/ LoopStops
    \/ \E o \in Orders : PollFails(o) \/ PollFills(o)

-----------------------------------------------------------------------------
(* The process. *)

\* SIGTERM cancels the context every goroutine watches.
Terminate ==
    /\ up = "running" /\ restarts < MaxRestarts
    /\ up' = "stopping"
    /\ UNCHANGED <<log, consumerVars, copied, reconcilerVars, restarts, exch, historyVars>>

\* The process ends (main does not wait for its goroutines; it may also crash)
\* and a new one starts: every map is empty and the consumer resumes at the
\* committed offset.
Restart ==
    /\ restarts < MaxRestarts
    /\ restarts' = restarts + 1
    /\ up' = "running"
    /\ next' = committed
    /\ cpc' = "fetch" /\ cur' = NoOrder /\ reply' = 0
    /\ processed' = {}
    /\ attempts' = [o \in Orders |-> 0]
    /\ held' = [o \in Orders |-> Absent]
    /\ shared' = [o \in Orders |-> FALSE]
    /\ copied' = [o \in Orders |-> Absent]
    /\ rpc' = "idle" /\ batch' = [o \in Orders |-> Absent] /\ rcur' = NoOrder
    /\ calls' = [o \in Orders |-> 0]
    /\ submittedEvents' = [o \in Orders |-> 0]
    /\ filledEvents' = [o \in Orders |-> 0]
    /\ UNCHANGED <<log, committed, exch>>

Exchange == \E o \in Orders : \E k \in DOMAIN exch[o] : ExchangeFill(o, k)

Next ==
    \/ \E o \in Orders : Deliver(o)
    \/ Exchange
    \/ Consumer
    \/ Reconciler
    \/ Terminate \/ Restart

Spec == Init /\ [][Next]_vars

\* The goroutines are scheduled, a poll that keeps being made is answered some
\* time, and the exchange completes what it took.
Fairness ==
    /\ WF_vars(Consumer /\ cpc' # "stopped")
    /\ WF_vars(Reconciler)
    /\ \A o \in Orders : SF_vars(PollFills(o))
    /\ \A o \in Orders : WF_vars(\E k \in DOMAIN exch[o] : ExchangeFill(o, k))

FairSpec == Spec /\ Fairness

-----------------------------------------------------------------------------
(* Properties. *)

ConsumerPC == {"fetch", "handle", "submit", "backoff", "accepted", "marked", "exhausted",
               "publish", "commit", "stopped"}
ReconcilerPC == {"idle", "list", "poll", "save", "publish", "stopped"}

TopicType == log \in Seq(Orders) /\ next \in 0..Len(log) /\ committed \in 0..next

ConsumerType ==
    /\ cpc \in ConsumerPC
    /\ cpc \in {"fetch", "stopped"} => cur = NoOrder
    /\ cpc \notin {"fetch", "stopped"} => cur \in Orders
    /\ reply \in Nat
    /\ processed \subseteq Orders
    /\ attempts \in [Orders -> Nat]

RepositoryType ==
    /\ held \in [Orders -> Execution]
    /\ shared \in [Orders -> BOOLEAN]
    /\ copied \in [Orders -> Execution]

ReconcilerType ==
    /\ rpc \in ReconcilerPC
    /\ batch \in [Orders -> Execution]
    /\ rpc \in {"save", "publish"} => rcur \in Orders
    /\ rpc \notin {"save", "publish"} => rcur = NoOrder

EnvironmentType == up \in {"running", "stopping"} /\ restarts \in Nat /\ exch \in [Orders -> Seq(Nat)]

HistoryType ==
    /\ calls \in [Orders -> Nat]
    /\ submittedEvents \in [Orders -> Nat]
    /\ filledEvents \in [Orders -> Nat]

\* Every variable keeps its type, and each goroutine holds an order exactly
\* while it works on one.
TypeOK ==
    /\ TopicType /\ ConsumerType /\ RepositoryType
    /\ ReconcilerType /\ EnvironmentType /\ HistoryType

\* applyFills adds all fills of the exchange order again on every poll, yet no
\* traded unit is counted more than twice: an execution is stored with fills once
\* as partially filled and once as filled, because TransitionTo refuses
\* partial_filled -> partial_filled.
UnitsCountedAtMostTwice ==
    \A o \in Orders : Stored(o).value <= 2 * Traded(exch[o], Stored(o))

\* A partially filled execution reports what the exchange traded by the poll that
\* stored it, neither more nor all of the order.
PartialIsExact ==
    \A o \in Orders : LET e == Stored(o) IN
        e.status = "partial_filled" =>
            e.qty = e.value /\ e.qty \in 1..(Quantity - 1) /\ e.qty <= Traded(exch[o], e)

\* The strengthening that makes the two counting invariants inductive: every
\* Execution object, the consumer's, the stored one and the reconciler's copy,
\* names an exchange order that exists, has fills only once it is partially
\* filled or filled, and counts no unit more than twice; the consumer's own
\* object never has fills.
WellCounted(book, e) ==
    /\ e.exid = 0 \/ e.exid \in DOMAIN book
    /\ e.status \notin {"partial_filled", "filled"} => e.qty = 0 /\ e.value = 0
    /\ e.status = "partial_filled" =>
          e.qty = e.value /\ e.qty \in 1..(Quantity - 1) /\ e.qty <= Traded(book, e)
    /\ e.value <= 2 * Traded(book, e)

ObjectsWellCounted ==
    \A o \in Orders :
        /\ WellCounted(exch[o], held[o])
        /\ WellCounted(exch[o], copied[o])
        /\ WellCounted(exch[o], batch[o])

HeldHasNoFills == \A o \in Orders : held[o].status \notin {"partial_filled", "filled"}

ReplyIsKnown == cpc = "accepted" => reply \in DOMAIN exch[cur]

CountingInv == ObjectsWellCounted /\ HeldHasNoFills /\ ReplyIsKnown

\* The late Update of submitExecution can undo one Update of the reconciler, so
\* execution.filled goes out at most twice for an execution, and at most once
\* before that Update.
FilledPublishedAtMostTwice ==
    \A o \in Orders :
        filledEvents[o] <= IF cur = o /\ cpc \in {"accepted", "marked"} THEN 1 ELSE 2

\* An execution is given up only when all attempts were used or the process is
\* stopping; then no event was published about it and no exchange order is named
\* (submitExecution's error branch).
FailedUsedEveryAttempt ==
    \A o \in Orders : Stored(o).status = "failed" =>
        /\ calls[o] = MaxRetries + 1 \/ up = "stopping"
        /\ Stored(o).exid = 0 /\ submittedEvents[o] = 0 /\ filledEvents[o] = 0

\* What is stored changes its status along CanTransition.  The exceptions are
\* created -> submitted, which submitExecution assigns without TransitionTo, and
\* its Update, which may bring an older object back.
VisibleTransitions ==
    [][\A o \in Orders :
        LET from == Stored(o).status
            to == Stored(o)'.status
        IN from # to /\ restarts' = restarts =>
              \/ CanTransition(from, to)
              \/ from = "none" /\ to = "created"
              \/ from = "created" /\ to = "submitted"
              \/ cur = o /\ cpc = "marked" /\ to = "submitted"]_vars

\* While the process runs, a filled execution changes in no way, except by the
\* Update of a consumer that has not stored its submission yet.
FilledIsStable ==
    [][\A o \in Orders :
        Stored(o).status = "filled" /\ ~(cur = o /\ cpc = "marked") /\ restarts' = restarts
            => Stored(o)' = Stored(o)]_vars

\* Retries end: an order whose submission began is stored as submitted or
\* failed, or was filled in the meantime, unless the process ends first.
SubmissionSettles ==
    \A o \in Orders, n \in 0..MaxRestarts :
        (cpc = "submit" /\ cur = o /\ restarts = n) ~>
            \/ restarts > n
            \/ /\ ~(cur = o /\ cpc \in {"submit", "backoff", "accepted", "exhausted"})
               /\ Stored(o).status \in {"submitted", "partial_filled", "filled", "failed"}

\* Polling ends: a submitted execution is filled some time, also when it
\* is partially filled first or the consumer undoes what the reconciler stored.
SubmittedGetsFilled ==
    \A o \in Orders, n \in 0..MaxRestarts :
        (Stored(o).status = "submitted" /\ restarts = n /\ up = "running") ~>
            (Stored(o).status = "filled" \/ restarts > n \/ up = "stopping")

=============================================================================
