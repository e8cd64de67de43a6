---------------------------- MODULE KafkaConsumer ----------------------------
(***************************************************************************)
(* The consume loop of internal/infrastructure/broker/consumer.go with the *)
(* handler the services give it: a set of processed ids, in memory and     *)
(* marked before the work, makes a repeated message a no-op.  The handler  *)
(* is the portfolio service's, the one whose work may fail after the mark. *)
(***************************************************************************)
EXTENDS Naturals, Sequences

CONSTANTS
    Messages,      \* event ids
    Poison,        \* those whose payload does not parse
    MaxMessages,   \* bound: messages in the topic, repeats included
    MaxRestarts    \* bound: restarts of the process

ASSUME PoisonAssumption == Poison \subseteq Messages
ASSUME BoundsAssumption == MaxMessages \in Nat /\ MaxRestarts \in Nat

VARIABLES
    log,         \* the topic
    committed,   \* the group's offset
    next,        \* offset of the message fetched last
    pc,          \* where the consumer goroutine is
    processed,   \* ids the handler has marked
    restarts,
    effects,     \* how often the work for an id was done, over all runs of the process
    handled,     \* highest offset whose handler returned, over all runs
    failed,      \* offsets the handler returned an error for
    deadLetters  \* offsets published to the dead-letter topic

loopVars == <<log, committed, next, pc, processed, restarts, effects, handled, failed, deadLetters>>

LoopInit ==
    /\ log = <<>> /\ committed = 0 /\ next = 0
    /\ pc = "fetch" /\ processed = {} /\ restarts = 0
    /\ effects = [m \in Messages |-> 0]
    /\ handled = 0 /\ failed = {} /\ deadLetters = {}

Send(m) ==
    /\ Len(log) < MaxMessages
    /\ log' = Append(log, m)
    /\ UNCHANGED <<committed, next, pc, processed, restarts, effects, handled, failed, deadLetters>>

\* Slip: ReadMessage instead of FetchMessage commits at once.
ReadMessage ==
    /\ pc = "fetch" /\ next < Len(log)
    /\ next' = next + 1 /\ committed' = next + 1 /\ pc' = "handle"
    /\ UNCHANGED <<log, processed, restarts, effects, handled, failed, deadLetters>>

FetchMessage ==
    /\ pc = "fetch" /\ next < Len(log)
    /\ next' = next + 1 /\ pc' = "handle"
    /\ UNCHANGED <<log, committed, processed, restarts, effects, handled, failed, deadLetters>>

\* Consume returns; the service goes on without its consumer.
FetchFails ==
    /\ pc = "fetch"
    /\ pc' = "stopped"
    /\ UNCHANGED <<log, committed, next, processed, restarts, effects, handled, failed, deadLetters>>

Message == log[next]

\* Slip: a failed message is handled again and again.
ReturnsToRetry(ok) ==
    /\ handled' = IF next > handled THEN next ELSE handled
    /\ failed' = IF ok THEN failed ELSE failed \cup {next}
    /\ pc' = IF ok THEN "commit" ELSE "handle"

\* The handler returned: with nil the loop goes on to commit, with an error to the DLQ.
Returns(ok) ==
    /\ handled' = IF next > handled THEN next ELSE handled
    /\ failed' = IF ok THEN failed ELSE failed \cup {next}
    /\ pc' = IF ok THEN "commit" ELSE "deadletter"

ParseFails ==
    /\ pc = "handle" /\ Message \in Poison
    /\ Returns(FALSE)
    /\ UNCHANGED <<log, committed, next, processed, restarts, effects, deadLetters>>

SkipProcessed ==
    /\ pc = "handle" /\ Message \notin Poison /\ Message \in processed
    /\ Returns(TRUE)
    /\ UNCHANGED <<log, committed, next, processed, restarts, effects, deadLetters>>

\* Slip: the mark is not looked at.
MarkUnchecked ==
    /\ pc = "handle" /\ Message \notin Poison
    /\ processed' = processed \cup {Message}
    /\ pc' = "work"
    /\ UNCHANGED <<log, committed, next, restarts, effects, handled, failed, deadLetters>>

MarkProcessed ==
    /\ pc = "handle" /\ Message \notin Poison /\ Message \notin processed
    /\ processed' = processed \cup {Message}
    /\ pc' = "work"
    /\ UNCHANGED <<log, committed, next, restarts, effects, handled, failed, deadLetters>>

\* Slip: an error of the work is logged and not returned.
WorkSwallows ==
    /\ pc = "work"
    /\ Returns(TRUE)
    /\ effects' \in {effects, [effects EXCEPT ![Message] = @ + 1]}
    /\ UNCHANGED <<log, committed, next, processed, restarts, deadLetters>>

\* The work is done, or fails and leaves its id marked.
Work ==
    /\ pc = "work"
    /\ \/ effects' = [effects EXCEPT ![Message] = @ + 1] /\ Returns(TRUE)
       \/ UNCHANGED effects /\ Returns(FALSE)
    /\ UNCHANGED <<log, committed, next, processed, restarts, deadLetters>>

\* The error of publishToDLQ is dropped.
PublishToDLQ ==
    /\ pc = "deadletter"
    /\ deadLetters' \in {deadLetters, deadLetters \cup {next}}
    /\ pc' = "commit"
    /\ UNCHANGED <<log, committed, next, processed, restarts, effects, handled, failed>>

CommitMessages ==
    /\ pc = "commit"
    /\ \/ committed' = next /\ pc' = "fetch"
       \/ UNCHANGED committed /\ pc' = "stopped"
    /\ UNCHANGED <<log, next, processed, restarts, effects, handled, failed, deadLetters>>

\* The process ends and starts again at the committed offset; its maps are empty.
Restart ==
    /\ restarts < MaxRestarts
    /\ restarts' = restarts + 1
    /\ next' = committed /\ pc' = "fetch" /\ processed' = {}
    /\ UNCHANGED <<log, committed, effects, handled, failed, deadLetters>>

Consumer ==
    \/ FetchMessage \/ FetchFails \/ ParseFails \/ SkipProcessed
    \/ MarkProcessed \/ Work \/ PublishToDLQ \/ CommitMessages

LoopNext == Consumer \/ Restart \/ \E m \in Messages : Send(m)

LoopSpec == LoopInit /\ [][LoopNext]_loopVars

\* The consumer goroutine goes on with the next message; it is never owed the error that ends it.
FairLoopSpec == LoopSpec /\ WF_loopVars(Consumer /\ pc' # "stopped")

-----------------------------------------------------------------------------
(* Properties. *)

\* Every variable keeps its type.
LoopTypeOK ==
    /\ log \in Seq(Messages) /\ next \in 0..Len(log) /\ committed \in 0..next
    /\ pc \in {"fetch", "handle", "work", "deadletter", "commit", "stopped"}
    /\ pc \in {"handle", "work", "deadletter", "commit"} => next \in 1..Len(log)
    /\ processed \subseteq Messages
    /\ restarts \in Nat
    /\ effects \in [Messages -> Nat]
    /\ handled \in 0..Len(log)
    /\ failed \subseteq 1..Len(log) /\ deadLetters \subseteq failed
    /\ pc = "deadletter" => next \in failed

\* How far the loop may be ahead of what was handled: it fetches at most the
\* message after, and commits only what was handled.
OffsetsInStep ==
    /\ committed <= handled
    /\ next <= handled + (IF pc \in {"handle", "work"} THEN 1 ELSE 0)

DeliveryPromise == INSTANCE AtLeastOnce WITH sent <- Len(log), settled <- committed

\* The loop implements at-least-once delivery in order: no message is committed
\* before its handler returned, across crashes, failed commits and restarts.
DeliversAtLeastOnce == DeliveryPromise!Spec

\* The work for an id is done at most once in each run of the process, however
\* often its message is delivered (processedExecutions and the like).
OneEffectPerRun == \A m \in Messages : effects[m] <= restarts + 1

\* A message whose handler returned had its effect, or this or an earlier delivery
\* of it failed: an error is the only way for the work to be left out, but it also
\* stands for the deliveries that follow, because the mark stays.
EffectOrFailure ==
    \A n \in 1..handled :
        effects[log[n]] > 0 \/ \E k \in failed : k <= n /\ log[k] = log[n]

\* What makes the two properties above inductive: a marked id had its effect, or
\* failed at an offset of this run, or is being worked on; and an id has had an
\* effect in this run only if it is marked.
InWork(m) == pc = "work" /\ m = Message

MarkHasReason(m) ==
    m \in processed =>
        effects[m] > 0 \/ InWork(m) \/ \E k \in failed : k <= next /\ log[k] = m

EffectsHaveMarks(m) ==
    effects[m] <= restarts + (IF m \in processed /\ ~InWork(m) THEN 1 ELSE 0)

MarksInv ==
    \A m \in Messages :
        MarkHasReason(m) /\ EffectsHaveMarks(m) /\ (InWork(m) => m \in processed)

\* A delivered message is committed some time, unless the consumer goroutine ended.
TopicIsDrained ==
    \A n \in 1..MaxMessages : Len(log) >= n ~> committed >= n \/ pc = "stopped"

=============================================================================
