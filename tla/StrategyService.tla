--------------------------- MODULE StrategyService ---------------------------
(***************************************************************************)
(* The strategy service: application/strategy/service.go, the in-memory    *)
(* strategy repository, strategy_handler.go and cmd/strategy-service.  One *)
(* goroutine consumes market.price.updated and runs the engines; requests  *)
(* create and toggle strategies meanwhile.  The event in hand works on the *)
(* strategies that were active when it listed them.                        *)
(***************************************************************************)
EXTENDS StrategyEngines

CONSTANTS
    Events,        \* event ids on market.price.updated
    Symbol, Price, \* of each event
    Undecodable,   \* events whose payload does not decode
    Configs,       \* what POST /strategies may ask for: type, symbol, parameters
    MaxStrategies, MaxMessages,   \* bounds
    MaxRequests, MaxRestarts      \* bounds

ASSUME EventsAssumption == Undecodable \subseteq Events /\ Price \in [Events -> Int]

\* The parameters are the defaults where the request gave none; an RSI period below one
\* is replaced, an EMA period is not.
ASSUME ConfigsAssumption ==
    \A config \in Configs :
        \/ /\ config.type = "ema_cross"
           /\ config.fast \in Int /\ config.slow \in Int /\ config.signal \in Int
        \/ config.type = "rsi" /\ config.period \in Nat \ {0}
ASSUME StrategyBoundsAssumption ==
    MaxStrategies \in Nat /\ MaxMessages \in Nat /\ MaxRequests \in Nat /\ MaxRestarts \in Nat

VARIABLES
    events,          \* the topic, as far as it was ever fetched
    settled, taken,  \* the group's offset, the consumer's offset
    spc,             \* where the consumer goroutine is
    batch,           \* the active strategies it still has to evaluate
    processedEvent,
    strategies,      \* in the order of their ids, which is that of their creation
    runtimeState,    \* per strategy; a strategy keeps its symbol
    signals,         \* history: every signal emitted
    fed,             \* history: the events evaluated for each strategy in this run
    idleAt,          \* history: the offset taken when a strategy was deactivated
    requests,        \* strategies created and toggled so far
    restarts

topicVars == <<events, settled, taken>>
engineVars == <<runtimeState, signals, fed>>
vars == <<topicVars, spc, batch, processedEvent, strategies, engineVars, idleAt, requests, restarts>>

-----------------------------------------------------------------------------

IDs == 1..MaxStrategies
Known == 1..Len(strategies)

Event == events[taken]

Init ==
    /\ events = <<>> /\ settled = 0 /\ taken = 0
    /\ spc = "fetch" /\ batch = {} /\ processedEvent = {}
    /\ strategies = <<>>
    /\ runtimeState = [id \in IDs |-> NoState]
    /\ signals = <<>> /\ fed = [id \in IDs |-> <<>>]
    /\ idleAt = [id \in IDs |-> 0]
    /\ requests = 0 /\ restarts = 0

-----------------------------------------------------------------------------
(* Requests. *)

CreateStrategy(config, active) ==
    /\ requests < MaxRequests /\ requests' = requests + 1
    /\ Len(strategies) < MaxStrategies
    /\ strategies' = Append(strategies, [config |-> config, active |-> active])
    /\ UNCHANGED <<topicVars, spc, batch, processedEvent, engineVars, idleAt, restarts>>

\* Activate or deactivate.  A request that asks for what the strategy already is changes
\* nothing: it is a stutter, and needs no action.
Toggle(id, active) ==
    /\ strategies[id].active # active
    /\ requests < MaxRequests /\ requests' = requests + 1
    /\ strategies' = [strategies EXCEPT ![id].active = active]
    /\ idleAt' = IF active THEN idleAt ELSE [idleAt EXCEPT ![id] = taken]
    /\ UNCHANGED <<topicVars, spc, batch, processedEvent, engineVars, restarts>>

-----------------------------------------------------------------------------
(* The consumer. *)

\* The next message: one that was fetched before a restart, or whichever was published
\* after it.  Nobody else looks at the topic, so that is settled when it is fetched.
FetchEvent ==
    /\ spc = "fetch"
    /\ \/ taken < Len(events) /\ UNCHANGED events
       \/ /\ taken = Len(events) /\ taken < MaxMessages
          /\ \E e \in Events : events' = Append(events, e)
    /\ taken' = taken + 1 /\ spc' = "handle"
    /\ UNCHANGED <<settled, batch, processedEvent, strategies, engineVars, idleAt, requests,
                   restarts>>

FetchEventFails ==
    /\ spc = "fetch" /\ spc' = "stopped"
    /\ UNCHANGED <<topicVars, batch, processedEvent, strategies, engineVars, idleAt, requests,
                   restarts>>

Listed(id) == strategies[id].active /\ strategies[id].config.symbol = Symbol[Event]

\* The batch is empty unless the event is news; the engines then run on it.
Handle(listed) ==
    /\ spc = "handle"
    /\ processedEvent' = processedEvent \cup {Event}
    /\ batch' = listed
    /\ spc' = IF listed = {} THEN "commit" ELSE "evaluate"
    /\ UNCHANGED <<topicVars, strategies, engineVars, idleAt, requests, restarts>>

\* Slips: a known event is evaluated again; inactive strategies are listed too.
HandleAgain ==
    Handle(IF Event \in Undecodable THEN {} ELSE {id \in Known : Listed(id)})

HandleForAll ==
    Handle(IF Event \in processedEvent \cup Undecodable THEN {}
           ELSE {id \in Known : strategies[id].config.symbol = Symbol[Event]})

\* The event is marked; unless it was before, or does not decode and goes to the
\* dead-letter topic, ListActive copies the strategies, and those of its symbol are
\* evaluated.  The marks are the consumer's own, so marking and listing are one step.
HandleEvent ==
    Handle(IF Event \in processedEvent \cup Undecodable THEN {}
           ELSE {id \in Known : Listed(id)})

\* The oldest strategy in hand is next, for List sorts them by their creation.  Its engine
\* steps on the event's price; a hold is not emitted, and whether the publication of a
\* signal succeeds is not looked at.
EvaluateNext ==
    /\ spc = "evaluate"
    /\ \E id \in batch :
         /\ \A other \in batch : id <= other
         /\ LET config == strategies[id].config
                step == Evaluate(config, runtimeState[id], Price[Event])
            IN /\ runtimeState' = [runtimeState EXCEPT ![id] = step.state]
               /\ fed' = [fed EXCEPT ![id] = Append(@, Event)]
               /\ signals' = IF step.action = "hold" THEN signals
                             ELSE Append(signals, [strategy |-> id, offset |-> taken,
                                                   action |-> step.action, run |-> restarts,
                                                   after |-> Len(fed[id]) + 1])
         /\ batch' = batch \ {id}
         /\ spc' = IF batch = {id} THEN "commit" ELSE "evaluate"
    /\ UNCHANGED <<topicVars, processedEvent, strategies, idleAt, requests, restarts>>

CommitEvent ==
    /\ spc = "commit"
    /\ \/ settled' = taken /\ spc' = "fetch"
       \/ spc' = "stopped" /\ UNCHANGED settled
    /\ UNCHANGED <<events, taken, batch, processedEvent, strategies, engineVars, idleAt, requests,
                   restarts>>

\* Slip: only the marks are forgotten; strategies, states and batch live on.
RestartWarm ==
    /\ restarts < MaxRestarts /\ restarts' = restarts + 1
    /\ taken' = settled /\ spc' = "fetch" /\ processedEvent' = {}
    /\ UNCHANGED <<events, settled, batch, strategies, engineVars, idleAt, requests>>

\* The process ends; strategies, marks and states are gone, and ids start again at 1.
Restart ==
    /\ restarts < MaxRestarts /\ restarts' = restarts + 1
    /\ taken' = settled /\ spc' = "fetch" /\ batch' = {} /\ processedEvent' = {}
    /\ strategies' = <<>>
    /\ runtimeState' = [id \in IDs |-> NoState] /\ fed' = [id \in IDs |-> <<>>]
    /\ idleAt' = [id \in IDs |-> 0]
    /\ UNCHANGED <<events, settled, signals, requests>>

Consumer ==
    \/ FetchEvent \/ FetchEventFails \/ HandleEvent \/ EvaluateNext
    \/ CommitEvent

Next ==
    \/ Consumer
    \/ \E config \in Configs, active \in BOOLEAN : CreateStrategy(config, active)
    \/ \E id \in Known, active \in BOOLEAN : Toggle(id, active)
    \/ Restart

Spec == Init /\ [][Next]_vars

-----------------------------------------------------------------------------
(* Properties. *)

Signal == [strategy : IDs, offset : 1..MaxMessages, action : {"buy", "sell"},
           run : 0..MaxRestarts, after : 1..MaxMessages]

\* Every variable keeps its type, and the strategies in hand exist.
TypeOK ==
    /\ events \in Seq(Events) /\ taken \in 0..Len(events) /\ settled \in 0..taken
    /\ spc \in {"fetch", "handle", "evaluate", "commit", "stopped"}
    /\ (spc = "evaluate") = (batch # {}) /\ batch \subseteq Known
    /\ processedEvent \subseteq Events
    /\ Len(strategies) <= MaxStrategies
    /\ \A id \in Known : strategies[id] \in [config : Configs, active : BOOLEAN]
    /\ \A i \in 1..Len(signals) : signals[i] \in Signal
    /\ \A id \in IDs \ Known : runtimeState[id] = NoState
    /\ idleAt \in [IDs -> 0..Len(events)]
    /\ requests \in 0..MaxRequests /\ restarts \in 0..MaxRestarts

Prices(es) == [i \in 1..Len(es) |-> Price[es[i]]]

\* No event is evaluated twice for a strategy, and the averages its engine keeps step by
\* step are the weighted means of exactly those prices, across deactivations and repeats.
StateMatchesPrices ==
    \A id \in Known :
        /\ \A i, j \in 1..Len(fed[id]) : fed[id][i] = fed[id][j] => i = j
        /\ MatchesPrices(strategies[id].config, runtimeState[id], Prices(fed[id]))

\* A message gives a strategy at most one signal, even when it is delivered again after a
\* crash: the new process has no state, and the first price of a state gives no signal.
OneSignalPerMessage ==
    \A i, j \in 1..Len(signals) :
        signals[i].strategy = signals[j].strategy /\ signals[i].offset = signals[j].offset => i = j

\* Of two successive signals of one EMA strategy one is a buy and the other a sell, unless
\* the averages met exactly on the way: the engine then reports the same side again.
SignalsAlternate ==
    \A i, j \in 1..Len(signals) :
        LET a == signals[i]
            b == signals[j]
        IN /\ i < j /\ a.run = restarts /\ b.run = restarts /\ a.strategy = b.strategy
           /\ ~ \E k \in (i + 1)..(j - 1) :
                   signals[k].strategy = a.strategy /\ signals[k].run = restarts
           /\ a.strategy \in Known /\ strategies[a.strategy].config.type = "ema_cross"
           /\ a.action = b.action
           => \E n \in (a.after + 1)..(b.after - 1) :
                 AveragesMeet(strategies[a.strategy].config,
                              Prices(SubSeq(fed[a.strategy], 1, n)))

\* A deactivated strategy emits for the event that was in hand and for none after it.
InactiveEmitsOnlyInHand ==
    [][\A id \in Known :
        /\ ~ strategies[id].active
        /\ Len(signals') > Len(signals) /\ signals'[Len(signals')].strategy = id
        => idleAt[id] = taken]_vars

=============================================================================
