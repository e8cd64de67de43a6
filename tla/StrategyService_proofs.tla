------------------------ MODULE StrategyService_proofs ------------------------
(***************************************************************************)
(* Proofs about the strategy service: where the consumer is in the topic,  *)
(* that no event is evaluated twice and no message signalled twice for a   *)
(* strategy, and what a deactivated strategy may still emit; that the      *)
(* state of an engine is the weighted means of the prices evaluated; and   *)
(* that the signals of an EMA strategy take turns.                         *)
(***************************************************************************)
EXTENDS StrategyService, NaturalsInduction, WellFoundedInduction, SequenceTheorems, TLAPS

Strategy == [config : Configs, active : BOOLEAN]

Shapes ==
    /\ strategies \in Seq(Strategy) /\ signals \in Seq(Signal)
    /\ fed \in [IDs -> Seq(Events)]
    /\ runtimeState = [id \in IDs |-> runtimeState[id]]
    /\ Len(events) <= MaxMessages

\* Only the message in hand is not settled, and what was evaluated for a strategy is
\* no more than was taken, without the one in hand as long as the strategy waits.
Position ==
    /\ settled <= Len(events) /\ Len(events) <= settled + 1 /\ taken <= settled + 1
    /\ spc = "fetch" => taken = settled
    /\ spc \in {"handle", "evaluate", "commit"} => taken = settled + 1
    /\ \A id \in IDs : /\ Len(fed[id]) <= taken
                       /\ spc = "handle" \/ id \in batch => Len(fed[id]) < taken

Typing == TypeOK /\ Shapes /\ Position

-----------------------------------------------------------------------------

\* An engine buys, sells or holds, and holds on the first price of a state.
LEMMA EvaluateFacts ==
    ASSUME NEW config, NEW st, NEW price
    PROVE  /\ Evaluate(config, st, price).action \in {"buy", "sell", "hold"}
           /\ st = NoState => Evaluate(config, st, price).action = "hold"
<1>1. CASE Refused(config)
  <2>1. config.type # "rsi"
    BY <1>1 DEF Refused
  <2>2. Evaluate(config, st, price) = Step(st, "hold")
    BY <1>1, <2>1 DEF Evaluate
  <2> QED
    BY <2>2 DEF Step
<1>2. /\ EvaluateRSI(config, st, price).action \in {"buy", "sell", "hold"}
      /\ st = NoState => EvaluateRSI(config, st, price).action = "hold"
  BY DEF EvaluateRSI, Step
<1>3. /\ EvaluateEMA(config, st, price).action \in {"buy", "sell", "hold"}
      /\ st = NoState => EvaluateEMA(config, st, price).action = "hold"
  BY DEF EvaluateEMA, Step
<1>4. CASE ~Refused(config)
  <2>1. Evaluate(config, st, price)
          \in {EvaluateRSI(config, st, price), EvaluateEMA(config, st, price)}
    BY <1>4 DEF Evaluate
  <2> QED
    BY <1>2, <1>3, <2>1
<1> QED
  BY <1>1, <1>4

LEMMA InitTyping == Init => Typing
<1> SUFFICES ASSUME Init PROVE Typing
  OBVIOUS
<1>1. /\ events = <<>> /\ strategies = <<>> /\ signals = <<>>
      /\ taken = 0 /\ settled = 0 /\ batch = {} /\ spc = "fetch" /\ processedEvent = {}
      /\ requests = 0 /\ restarts = 0
      /\ runtimeState = [id \in IDs |-> NoState]
      /\ fed = [id \in IDs |-> <<>>] /\ idleAt = [id \in IDs |-> 0]
  BY DEF Init
<1>2. Shapes
  <2>1. runtimeState = [id \in IDs |-> runtimeState[id]]
    BY <1>1
  <2>2. fed \in [IDs -> Seq(Events)]
    BY <1>1
  <2> QED
    BY <1>1, <2>1, <2>2, StrategyBoundsAssumption DEF Shapes
<1>3. Position
  BY <1>1 DEF Position
<1>4. TypeOK
  <2>1. idleAt \in [IDs -> 0..Len(events)]
    BY <1>1
  <2>2. \A id \in IDs \ Known : runtimeState[id] = NoState
    BY <1>1
  <2>3. batch \subseteq Known /\ \A id \in Known : FALSE
    BY <1>1 DEF Known
  <2> QED
    BY <1>1, <2>1, <2>2, <2>3, StrategyBoundsAssumption DEF TypeOK
<1> QED
  BY <1>2, <1>3, <1>4 DEF Typing

\* The facts of the type invariant in the form the steps use.
LEMMA TypeFacts ==
    ASSUME Typing
    PROVE  /\ events \in Seq(Events) /\ Len(events) \in Nat /\ Len(events) <= MaxMessages
           /\ taken \in Nat /\ settled \in Nat /\ taken <= Len(events)
           /\ strategies \in Seq(Strategy) /\ Len(strategies) \in Nat
           /\ Known \subseteq IDs /\ batch \subseteq Known
           /\ \A id \in IDs : id \in Nat /\ fed[id] \in Seq(Events) /\ Len(fed[id]) \in Nat
           /\ \A id \in Known : strategies[id] \in Strategy
           /\ spc \in {"handle", "evaluate", "commit"} =>
                taken > 0 /\ taken \in DOMAIN events /\ Event \in Events
<1>1. /\ events \in Seq(Events) /\ Len(events) \in Nat /\ Len(events) <= MaxMessages
      /\ taken \in Nat /\ settled \in Nat /\ taken <= Len(events)
  BY DEF Typing, TypeOK, Shapes
<1>2. strategies \in Seq(Strategy) /\ Len(strategies) \in Nat
  BY DEF Typing, Shapes
<1>3. Known \subseteq IDs
  BY <1>2, StrategyBoundsAssumption DEF Known, IDs, Typing, TypeOK
<1>4. \A id \in IDs : id \in Nat /\ fed[id] \in Seq(Events) /\ Len(fed[id]) \in Nat
  BY DEF IDs, Typing, Shapes
<1>5. \A id \in Known : strategies[id] \in Strategy
  BY <1>2 DEF Known
<1>6. ASSUME spc \in {"handle", "evaluate", "commit"}
      PROVE  taken > 0 /\ taken \in DOMAIN events /\ Event \in Events
  <2>1. taken = settled + 1
    BY <1>6 DEF Typing, Position
  <2>2. taken > 0 /\ taken \in DOMAIN events
    BY <1>1, <2>1
  <2> QED
    BY <1>1, <2>2 DEF Event
<1> QED
  BY <1>1, <1>2, <1>3, <1>4, <1>5, <1>6 DEF Typing, TypeOK

LEMMA CreateTyping ==
    ASSUME Typing, NEW config \in Configs, NEW active \in BOOLEAN,
           CreateStrategy(config, active)
    PROVE  Typing'
<1> DEFINE new == [config |-> config, active |-> active]
<1>0. /\ requests < MaxRequests /\ requests' = requests + 1
      /\ Len(strategies) < MaxStrategies /\ strategies' = Append(strategies, new)
      /\ UNCHANGED <<events, settled, taken, spc, batch, processedEvent, runtimeState,
                     signals, fed, idleAt, restarts>>
  BY DEF CreateStrategy, topicVars, engineVars
<1>1. new \in Strategy
  BY DEF Strategy
<1>2. /\ strategies' \in Seq(Strategy) /\ Len(strategies') = Len(strategies) + 1
      /\ Len(strategies) \in Nat
  BY <1>0, <1>1, TypeFacts, AppendProperties
<1>3. Known \subseteq Known' /\ Len(strategies') <= MaxStrategies
  BY <1>0, <1>2, StrategyBoundsAssumption DEF Known
<1>4. \A id \in Known' : strategies'[id] \in [config : Configs, active : BOOLEAN]
  <2>1. \A id \in Known' : strategies'[id] \in Strategy
    BY <1>2, ElementOfSeq DEF Known
  <2> QED
    BY <2>1 DEF Strategy
<1>5. TypeOK'
  <2>1. requests' \in 0..MaxRequests
    BY <1>0, StrategyBoundsAssumption DEF Typing, TypeOK
  <2> QED
    BY <1>0, <1>3, <1>4, <2>1 DEF Typing, TypeOK
<1>6. Shapes' /\ Position'
  BY <1>0, <1>2 DEF Typing, Shapes, Position
<1> QED
  BY <1>5, <1>6 DEF Typing

LEMMA ToggleTyping ==
    ASSUME Typing, NEW id \in Known, NEW active \in BOOLEAN, Toggle(id, active)
    PROVE  Typing'
<1>0. /\ requests < MaxRequests /\ requests' = requests + 1
      /\ strategies' = [strategies EXCEPT ![id].active = active]
      /\ UNCHANGED <<events, settled, taken, spc, batch, processedEvent, runtimeState,
                     signals, fed, restarts>>
  BY DEF Toggle, topicVars, engineVars
<1>1. [strategies[id] EXCEPT !.active = active] \in Strategy
  BY TypeFacts DEF Strategy
<1>2. /\ strategies' \in Seq(Strategy) /\ Len(strategies') = Len(strategies)
  BY <1>0, <1>1, TypeFacts, ExceptSeq DEF Known
<1>3. Known' = Known
  BY <1>2 DEF Known
<1>4. \A k \in Known' : strategies'[k] \in [config : Configs, active : BOOLEAN]
  <2>1. \A k \in Known' : strategies'[k] \in Strategy
    BY <1>2, ElementOfSeq DEF Known
  <2> QED
    BY <2>1 DEF Strategy
<1>5. idleAt' \in [IDs -> 0..Len(events)]
  BY TypeFacts DEF Toggle, Typing, TypeOK
<1>6. requests' \in 0..MaxRequests
  BY <1>0, StrategyBoundsAssumption DEF Typing, TypeOK
<1>7. TypeOK'
  BY <1>0, <1>2, <1>3, <1>4, <1>5, <1>6 DEF Typing, TypeOK
<1>8. Shapes' /\ Position'
  BY <1>0, <1>2 DEF Typing, Shapes, Position
<1> QED
  BY <1>7, <1>8 DEF Typing

LEMMA FetchTyping ==
    ASSUME Typing, FetchEvent
    PROVE  Typing'
<1>0. /\ spc = "fetch" /\ taken' = taken + 1 /\ spc' = "handle"
      /\ UNCHANGED <<settled, batch, processedEvent, strategies, runtimeState, signals, fed,
                     idleAt, requests, restarts>>
  BY DEF FetchEvent, engineVars
<1>1. taken = settled /\ batch = {} /\ Len(events) <= settled + 1
  BY <1>0 DEF Typing, TypeOK, Position
<1>2. /\ events' \in Seq(Events) /\ Len(events') \in Nat /\ Len(events) <= Len(events')
      /\ taken + 1 <= Len(events') /\ Len(events') <= MaxMessages
      /\ Len(events') <= settled + 1
  <2>1. CASE taken < Len(events) /\ UNCHANGED events
    BY <1>1, <2>1, TypeFacts
  <2>2. CASE taken = Len(events) /\ taken < MaxMessages
             /\ \E e \in Events : events' = Append(events, e)
    <3>1. events' \in Seq(Events) /\ Len(events') = Len(events) + 1
      BY <2>2, TypeFacts, AppendProperties
    <3> QED
      BY <1>1, <2>2, <3>1, TypeFacts, StrategyBoundsAssumption
  <2> QED
    BY <2>1, <2>2 DEF FetchEvent
<1>3. taken' \in 0..Len(events') /\ settled' \in 0..(taken')
  BY <1>0, <1>1, <1>2, TypeFacts
<1>4. idleAt' \in [IDs -> 0..Len(events')]
  <2>1. 0..Len(events) \subseteq 0..Len(events')
    BY <1>2, TypeFacts
  <2> QED
    BY <1>0, <2>1 DEF Typing, TypeOK
<1>5. TypeOK'
  BY <1>0, <1>1, <1>2, <1>3, <1>4 DEF Typing, TypeOK, Known
<1>6. Shapes'
  BY <1>0, <1>2 DEF Typing, Shapes
<1>7. \A id \in IDs : Len(fed[id]) < taken + 1 /\ Len(fed[id]) <= taken + 1
  BY TypeFacts DEF Typing, Position
<1>8. Position'
  BY <1>0, <1>1, <1>2, <1>7, TypeFacts DEF Position
<1> QED
  BY <1>5, <1>6, <1>8 DEF Typing

LEMMA HandleTyping ==
    ASSUME Typing, HandleEvent
    PROVE  Typing'
<1> DEFINE listed == IF Event \in processedEvent \cup Undecodable THEN {}
                     ELSE {id \in Known : Listed(id)}
<1>0. /\ spc = "handle" /\ processedEvent' = processedEvent \cup {Event}
      /\ batch' = listed /\ spc' = IF listed = {} THEN "commit" ELSE "evaluate"
      /\ UNCHANGED <<events, settled, taken, strategies, runtimeState, signals, fed,
                     idleAt, requests, restarts>>
  BY DEF HandleEvent, Handle, topicVars, engineVars
<1>1. listed \subseteq Known
  OBVIOUS
<1> HIDE DEF listed
<1>2. Event \in Events /\ Known \subseteq IDs
  BY <1>0, TypeFacts
<1>3. TypeOK'
  BY <1>0, <1>1, <1>2 DEF Typing, TypeOK, Known
<1>4. Shapes'
  BY <1>0 DEF Typing, Shapes
<1>5. Position'
  BY <1>0, <1>1, <1>2 DEF Typing, Position
<1> QED
  BY <1>3, <1>4, <1>5 DEF Typing

\* What the evaluation of one strategy does.
LEMMA EvaluateStep ==
    ASSUME Typing, EvaluateNext
    PROVE  \E id \in batch :
             /\ id \in Known /\ id \in IDs /\ \A other \in batch : id <= other
             /\ runtimeState' = [runtimeState EXCEPT ![id] = runtimeState'[id]]
             /\ fed' = [fed EXCEPT ![id] = Append(@, Event)]
             /\ batch' = batch \ {id}
             /\ spc' = IF batch' = {} THEN "commit" ELSE "evaluate"
             /\ \/ signals' = signals
                \/ /\ runtimeState[id] # NoState
                   /\ \E action \in {"buy", "sell"} :
                        signals' = Append(signals, [strategy |-> id, offset |-> taken,
                                                    action |-> action, run |-> restarts,
                                                    after |-> Len(fed[id]) + 1])
<1> PICK id \in batch :
      /\ \A other \in batch : id <= other
      /\ LET config == strategies[id].config
             step == Evaluate(config, runtimeState[id], Price[Event])
         IN /\ runtimeState' = [runtimeState EXCEPT ![id] = step.state]
            /\ fed' = [fed EXCEPT ![id] = Append(@, Event)]
            /\ signals' = IF step.action = "hold" THEN signals
                          ELSE Append(signals, [strategy |-> id, offset |-> taken,
                                                action |-> step.action, run |-> restarts,
                                                after |-> Len(fed[id]) + 1])
      /\ batch' = batch \ {id}
      /\ spc' = IF batch = {id} THEN "commit" ELSE "evaluate"
  BY DEF EvaluateNext
<1> DEFINE step == Evaluate(strategies[id].config, runtimeState[id], Price[Event])
<1>1. id \in Known /\ id \in IDs
  BY TypeFacts
<1>2. /\ step.action \in {"buy", "sell", "hold"}
      /\ runtimeState[id] = NoState => step.action = "hold"
  BY EvaluateFacts
<1> HIDE DEF step
<1>3. runtimeState' = [runtimeState EXCEPT ![id] = step.state]
  BY DEF step
<1>4. runtimeState' = [runtimeState EXCEPT ![id] = runtimeState'[id]]
  BY <1>1, <1>3 DEF Typing, Shapes
<1>5. \/ signals' = signals
      \/ /\ runtimeState[id] # NoState
         /\ \E action \in {"buy", "sell"} :
              signals' = Append(signals, [strategy |-> id, offset |-> taken,
                                          action |-> action, run |-> restarts,
                                          after |-> Len(fed[id]) + 1])
  BY <1>2 DEF step
<1>6. spc' = IF batch' = {} THEN "commit" ELSE "evaluate"
  OBVIOUS
<1> QED
  BY <1>1, <1>4, <1>5, <1>6

LEMMA EvaluateTyping ==
    ASSUME Typing, EvaluateNext
    PROVE  Typing'
<1> PICK id \in batch :
      /\ id \in Known /\ id \in IDs
      /\ runtimeState' = [runtimeState EXCEPT ![id] = runtimeState'[id]]
      /\ fed' = [fed EXCEPT ![id] = Append(@, Event)]
      /\ batch' = batch \ {id}
      /\ spc' = IF batch' = {} THEN "commit" ELSE "evaluate"
      /\ \/ signals' = signals
         \/ \E action \in {"buy", "sell"} :
              signals' = Append(signals, [strategy |-> id, offset |-> taken,
                                          action |-> action, run |-> restarts,
                                          after |-> Len(fed[id]) + 1])
  BY EvaluateStep
<1>0. /\ spc = "evaluate"
      /\ UNCHANGED <<events, settled, taken, processedEvent, strategies, idleAt, requests, restarts>>
  BY DEF EvaluateNext, topicVars
<1>1. /\ fed[id] \in Seq(Events) /\ Event \in Events /\ taken \in 1..MaxMessages
      /\ Len(fed[id]) \in Nat /\ Len(fed[id]) < taken
  <2>1. taken > 0 /\ taken <= MaxMessages
    BY <1>0, TypeFacts, StrategyBoundsAssumption
  <2> QED
    BY <1>0, <2>1, TypeFacts, StrategyBoundsAssumption DEF Typing, Position
<1>2. /\ Append(fed[id], Event) \in Seq(Events)
      /\ Len(Append(fed[id], Event)) = Len(fed[id]) + 1
  BY <1>1, AppendProperties
<1>3. /\ fed' \in [IDs -> Seq(Events)]
      /\ \A k \in IDs : Len(fed'[k]) = IF k = id THEN Len(fed[id]) + 1 ELSE Len(fed[k])
  BY <1>2 DEF Typing, Shapes
<1>4. signals' \in Seq(Signal)
  <2>1. CASE signals' = signals
    BY <2>1 DEF Typing, Shapes
  <2>2. ASSUME NEW action \in {"buy", "sell"},
               signals' = Append(signals, [strategy |-> id, offset |-> taken,
                                           action |-> action, run |-> restarts,
                                           after |-> Len(fed[id]) + 1])
        PROVE  signals' \in Seq(Signal)
    <3>1. Len(fed[id]) + 1 \in 1..MaxMessages
      BY <1>1, StrategyBoundsAssumption
    <3>2. restarts \in 0..MaxRestarts
      BY DEF Typing, TypeOK
    <3>3. [strategy |-> id, offset |-> taken, action |-> action, run |-> restarts,
           after |-> Len(fed[id]) + 1] \in Signal
      BY <1>1, <3>1, <3>2 DEF Signal
    <3> QED
      BY <2>2, <3>3, AppendProperties DEF Typing, Shapes
  <2> QED
    BY <2>1, <2>2
<1>5. runtimeState' = [k \in IDs |-> runtimeState'[k]]
  BY DEF Typing, Shapes
<1>6. \A k \in IDs \ Known : runtimeState'[k] = NoState
  BY DEF Typing, TypeOK, Shapes
<1>7. Shapes'
  BY <1>0, <1>3, <1>4, <1>5 DEF Typing, Shapes
<1>8. \A i \in 1..Len(signals') : signals'[i] \in Signal
  BY <1>4
<1>9. TypeOK'
  BY <1>0, <1>6, <1>8 DEF Typing, TypeOK, Known
<1>10. Position'
  <2>1. \A k \in IDs : /\ Len(fed'[k]) <= taken
                       /\ k \in batch' => Len(fed'[k]) < taken
    BY <1>1, <1>3, TypeFacts DEF Typing, Position
  <2> QED
    BY <1>0, <2>1 DEF Typing, Position
<1> QED
  BY <1>7, <1>9, <1>10 DEF Typing

LEMMA CommitTyping ==
    ASSUME Typing, CommitEvent \/ FetchEventFails
    PROVE  Typing'
<1>0. UNCHANGED <<events, taken, batch, processedEvent, strategies, runtimeState, signals, fed,
                  idleAt, requests, restarts>>
  BY DEF CommitEvent, FetchEventFails, topicVars, engineVars
<1>1. \/ spc = "commit" /\ settled' = taken /\ spc' = "fetch"
      \/ spc \in {"commit", "fetch"} /\ settled' = settled /\ spc' = "stopped"
  BY DEF CommitEvent, FetchEventFails, topicVars
<1>2. Shapes'
  BY <1>0 DEF Typing, Shapes
<1>3. batch = {} /\ settled' \in 0..taken
  BY <1>1, TypeFacts DEF Typing, TypeOK
<1>4. TypeOK'
  BY <1>0, <1>1, <1>3 DEF Typing, TypeOK, Known
<1>5. Position'
  BY <1>0, <1>1, <1>3, TypeFacts DEF Typing, Position
<1> QED
  BY <1>2, <1>4, <1>5 DEF Typing

LEMMA RestartTyping ==
    ASSUME Typing, Restart
    PROVE  Typing'
<1>0. /\ restarts < MaxRestarts /\ restarts' = restarts + 1
      /\ taken' = settled /\ spc' = "fetch" /\ batch' = {} /\ processedEvent' = {}
      /\ strategies' = <<>>
      /\ runtimeState' = [id \in IDs |-> NoState] /\ fed' = [id \in IDs |-> <<>>]
      /\ idleAt' = [id \in IDs |-> 0]
      /\ UNCHANGED <<events, settled, signals, requests>>
  BY DEF Restart
<1>1. /\ fed' \in [IDs -> Seq(Events)] /\ \A id \in IDs : Len(fed'[id]) = 0
      /\ runtimeState' = [id \in IDs |-> runtimeState'[id]]
      /\ \A id \in IDs : runtimeState'[id] = NoState
  BY <1>0
<1>2. strategies' \in Seq(Strategy) /\ Len(strategies') = 0
  BY <1>0
<1>3. Shapes'
  BY <1>0, <1>1, <1>2 DEF Typing, Shapes
<1>4. restarts' \in 0..MaxRestarts
  BY <1>0, StrategyBoundsAssumption DEF Typing, TypeOK
<1>5. idleAt' \in [IDs -> 0..Len(events')]
  BY <1>0, TypeFacts
<1>6. taken' \in 0..Len(events') /\ settled' \in 0..(taken')
  BY <1>0, TypeFacts DEF Typing, TypeOK
<1>7. Known' = {}
  BY <1>2 DEF Known
<1>8. TypeOK'
  BY <1>0, <1>1, <1>2, <1>4, <1>5, <1>6, <1>7, StrategyBoundsAssumption DEF Typing, TypeOK
<1>9. Position'
  BY <1>0, <1>1, TypeFacts DEF Typing, Position
<1> QED
  BY <1>3, <1>8, <1>9 DEF Typing

LEMMA NextTyping == Typing /\ [Next]_vars => Typing'
<1> SUFFICES ASSUME Typing, [Next]_vars PROVE Typing'
  OBVIOUS
<1>1. CASE UNCHANGED vars
  BY <1>1 DEF vars, topicVars, engineVars, Typing, TypeOK, Shapes, Position, Known
<1> QED
  BY <1>1, CreateTyping, ToggleTyping, FetchTyping, HandleTyping, EvaluateTyping,
     CommitTyping, RestartTyping DEF Next, Consumer

\* Every variable has its type, and no message but the one in hand is unsettled
\* (service.go, consumer.go).
THEOREM TypeCorrect == Spec => []Typing
<1> QED
  BY InitTyping, NextTyping, PTL DEF Spec

-----------------------------------------------------------------------------
(* What is evaluated.                                                      *)

\* What was evaluated is marked, and so is the event in hand, which was not yet
\* evaluated for the strategies that wait.
FedOnce ==
    /\ batch # {} => Event \in processedEvent
    /\ \A id \in IDs :
         /\ \A i, j \in DOMAIN fed[id] : fed[id][i] = fed[id][j] => i = j
         /\ \A i \in DOMAIN fed[id] : /\ fed[id][i] \in processedEvent
                                      /\ id \in batch => fed[id][i] # Event

LEMMA NextFedOnce == Typing /\ FedOnce /\ [Next]_vars => FedOnce'
<1> SUFFICES ASSUME Typing, FedOnce, [Next]_vars PROVE FedOnce'
  OBVIOUS
<1>1. ASSUME UNCHANGED fed, processedEvent \subseteq processedEvent',
             batch' = {} \/ UNCHANGED <<batch, events, taken>>
      PROVE  FedOnce'
  BY <1>1 DEF FedOnce, Event
<1>2. ASSUME NEW config \in Configs, NEW active \in BOOLEAN, CreateStrategy(config, active)
      PROVE  FedOnce'
  BY <1>1, <1>2 DEF CreateStrategy, topicVars, engineVars
<1>3. ASSUME NEW id \in Known, NEW active \in BOOLEAN, Toggle(id, active)
      PROVE  FedOnce'
  BY <1>1, <1>3 DEF Toggle, topicVars, engineVars
<1>4. CASE FetchEvent
  <2>1. batch = {}
    BY <1>4 DEF FetchEvent, Typing, TypeOK
  <2> QED
    BY <1>1, <1>4, <2>1 DEF FetchEvent, engineVars
<1>5. CASE HandleEvent
  <2>1. /\ processedEvent' = processedEvent \cup {Event} /\ UNCHANGED <<fed, events, taken>>
        /\ batch' # {} => Event \notin processedEvent
    BY <1>5 DEF HandleEvent, Handle, topicVars, engineVars
  <2> QED
    BY <2>1 DEF FedOnce, Event
<1>6. CASE EvaluateNext
  <2> PICK id \in batch : /\ id \in IDs
                          /\ fed' = [fed EXCEPT ![id] = Append(@, Event)]
                          /\ batch' = batch \ {id}
    BY <1>6, EvaluateStep
  <2>1. UNCHANGED <<processedEvent, events, taken>> /\ Event' = Event
    BY <1>6 DEF EvaluateNext, topicVars, Event
  <2>2. ASSUME NEW k \in IDs, k # id
        PROVE  fed'[k] = fed[k] /\ (k \in batch' => k \in batch)
    BY <2>2 DEF Typing, Shapes
  <2>3. fed'[id] = Append(fed[id], Event) /\ fed[id] \in Seq(Events) /\ Event \in Events
    BY <1>6, TypeFacts DEF Typing, Shapes, EvaluateNext
  <2>4. /\ DOMAIN fed'[id] = DOMAIN fed[id] \cup {Len(fed[id]) + 1}
        /\ \A i \in DOMAIN fed[id] : fed'[id][i] = fed[id][i]
        /\ fed'[id][Len(fed[id]) + 1] = Event
    BY <2>3
  <2>5. Event \in processedEvent
    BY DEF FedOnce
  <2> QED
    BY <2>1, <2>2, <2>4, <2>5 DEF FedOnce
<1>7. CASE CommitEvent \/ FetchEventFails
  BY <1>1, <1>7 DEF CommitEvent, FetchEventFails, topicVars, engineVars
<1>8. CASE Restart
  BY <1>8 DEF Restart, FedOnce
<1>9. CASE UNCHANGED vars
  BY <1>1, <1>9 DEF vars, topicVars, engineVars
<1> QED
  BY <1>2, <1>3, <1>4, <1>5, <1>6, <1>7, <1>8, <1>9 DEF Next, Consumer

\* No event is evaluated twice for a strategy in one run of the service, however often
\* it is delivered and whenever the strategy is toggled: the half of
\* StateMatchesPrices that does not depend on the prices (service.go: processedEvent).
THEOREM EvaluatedOnce ==
    Spec => [](\A id \in Known : \A i, j \in 1..Len(fed[id]) : fed[id][i] = fed[id][j] => i = j)
<1> DEFINE Once == \A id \in Known : \A i, j \in 1..Len(fed[id]) :
                     fed[id][i] = fed[id][j] => i = j
<1>1. Init => FedOnce
  BY DEF Init, FedOnce
<1>2. Typing /\ FedOnce => Once
  <2> SUFFICES ASSUME Typing, FedOnce, NEW id \in Known
               PROVE  \A i, j \in 1..Len(fed[id]) : fed[id][i] = fed[id][j] => i = j
    OBVIOUS
  <2>1. id \in IDs /\ fed[id] \in Seq(Events)
    BY TypeFacts
  <2>2. 1..Len(fed[id]) = DOMAIN fed[id]
    BY <2>1
  <2> QED
    BY <2>1, <2>2 DEF FedOnce
<1> QED
  BY <1>1, <1>2, NextFedOnce, TypeCorrect, PTL DEF Spec

-----------------------------------------------------------------------------
(* What is emitted.                                                        *)

\* A signal for the message that may come again is forgotten by the strategy's state,
\* unless the strategy has had its turn; and no signal is for a message not yet fetched.
EmittedBehind ==
    \A i \in DOMAIN signals :
        /\ signals[i].offset <= Len(events)
        /\ signals[i].offset = settled + 1 /\ spc \in {"fetch", "handle", "evaluate"} =>
             \/ runtimeState[signals[i].strategy] = NoState
             \/ spc = "evaluate" /\ signals[i].strategy \notin batch

SignalInv == OneSignalPerMessage /\ EmittedBehind

\* What the evaluation of one strategy emits.
LEMMA EmittedSignal ==
    ASSUME Typing, EvaluateNext
    PROVE  \E id \in batch :
             /\ id \in IDs
             /\ runtimeState' = [runtimeState EXCEPT ![id] = runtimeState'[id]]
             /\ batch' = batch \ {id}
             /\ spc' = IF batch' = {} THEN "commit" ELSE "evaluate"
             /\ \/ signals' = signals
                \/ /\ runtimeState[id] # NoState
                   /\ \E new \in Signal : /\ new.strategy = id /\ new.offset = taken
                                         /\ signals' = Append(signals, new)
<1> PICK id \in batch :
      /\ id \in IDs
      /\ runtimeState' = [runtimeState EXCEPT ![id] = runtimeState'[id]]
      /\ batch' = batch \ {id}
      /\ spc' = IF batch' = {} THEN "commit" ELSE "evaluate"
      /\ \/ signals' = signals
         \/ /\ runtimeState[id] # NoState
            /\ \E action \in {"buy", "sell"} :
                 signals' = Append(signals, [strategy |-> id, offset |-> taken,
                                             action |-> action, run |-> restarts,
                                             after |-> Len(fed[id]) + 1])
  BY EvaluateStep
<1>1. /\ taken \in 1..MaxMessages /\ restarts \in 0..MaxRestarts
      /\ Len(fed[id]) + 1 \in 1..MaxMessages
  <2>1. spc = "evaluate" /\ taken > 0 /\ taken <= MaxMessages /\ taken \in Nat
    BY TypeFacts, StrategyBoundsAssumption DEF EvaluateNext
  <2>2. Len(fed[id]) \in Nat /\ Len(fed[id]) < taken
    BY <2>1, TypeFacts DEF Typing, Position
  <2> QED
    BY <2>1, <2>2, StrategyBoundsAssumption DEF Typing, TypeOK
<1>2. ASSUME NEW action \in {"buy", "sell"},
             signals' = Append(signals, [strategy |-> id, offset |-> taken,
                                         action |-> action, run |-> restarts,
                                         after |-> Len(fed[id]) + 1])
      PROVE  \E new \in Signal : /\ new.strategy = id /\ new.offset = taken
                               /\ signals' = Append(signals, new)
  <2> DEFINE new == [strategy |-> id, offset |-> taken, action |-> action,
                     run |-> restarts, after |-> Len(fed[id]) + 1]
  <2>1. new \in Signal
    BY <1>1 DEF Signal
  <2>2. new.strategy = id /\ new.offset = taken /\ signals' = Append(signals, new)
    BY <1>2
  <2> HIDE DEF new
  <2> QED
    BY <2>1, <2>2
<1> QED
  BY <1>2

LEMMA NextSignalInv == Typing /\ SignalInv /\ [Next]_vars => SignalInv'
<1> SUFFICES ASSUME Typing, SignalInv, [Next]_vars PROVE SignalInv'
  OBVIOUS
<1>0. /\ signals \in Seq(Signal) /\ DOMAIN signals = 1..Len(signals) /\ Len(signals) \in Nat
      /\ \A i \in DOMAIN signals : /\ signals[i].strategy \in IDs
                                   /\ signals[i].offset \in Nat
      /\ Len(events) \in Nat /\ settled \in Nat /\ taken \in Nat
      /\ Len(events) <= settled + 1
  <2>1. signals \in Seq(Signal) /\ Len(events) <= settled + 1
    BY DEF Typing, Shapes, Position
  <2>2. \A i \in DOMAIN signals : signals[i] \in Signal
    BY <2>1
  <2>3. \A i \in DOMAIN signals : signals[i].strategy \in IDs /\ signals[i].offset \in Nat
    BY <2>2 DEF Signal
  <2>4. Len(events) \in Nat /\ settled \in Nat /\ taken \in Nat
    BY TypeFacts
  <2>5. DOMAIN signals = 1..Len(signals) /\ Len(signals) \in Nat
    BY <2>1
  <2> QED
    BY <2>1, <2>3, <2>4, <2>5
\* Steps that emit nothing and run no engine.
<1>1. ASSUME UNCHANGED <<signals, settled, runtimeState>>,
             Len(events) <= Len(events'), Len(events') \in Nat,
             spc' = "evaluate" => spc = "handle" \/ (spc = "evaluate" /\ batch' = batch),
             spc' \in {"fetch", "handle"} => spc \in {"fetch", "handle"}
      PROVE  SignalInv'
  BY <1>0, <1>1 DEF SignalInv, OneSignalPerMessage, EmittedBehind
<1>2. ASSUME NEW config \in Configs, NEW active \in BOOLEAN, CreateStrategy(config, active)
      PROVE  SignalInv'
  BY <1>0, <1>1, <1>2 DEF CreateStrategy, topicVars, engineVars
<1>3. ASSUME NEW id \in Known, NEW active \in BOOLEAN, Toggle(id, active)
      PROVE  SignalInv'
  BY <1>0, <1>1, <1>3 DEF Toggle, topicVars, engineVars
<1>4. CASE FetchEvent
  <2>1. Len(events') \in Nat /\ Len(events) <= Len(events')
    BY <1>4, TypeFacts, AppendProperties DEF FetchEvent
  <2> QED
    BY <1>1, <1>4, <2>1 DEF FetchEvent, engineVars
<1>5. CASE HandleEvent
  BY <1>0, <1>1, <1>5 DEF HandleEvent, Handle, topicVars, engineVars
\* A strategy that has a signal for the message in hand starts without a state.
<1>6. CASE EvaluateNext
  <2> PICK id \in batch :
        /\ id \in IDs
        /\ runtimeState' = [runtimeState EXCEPT ![id] = runtimeState'[id]]
        /\ batch' = batch \ {id}
        /\ spc' = IF batch' = {} THEN "commit" ELSE "evaluate"
        /\ \/ signals' = signals
           \/ /\ runtimeState[id] # NoState
              /\ \E new \in Signal : /\ new.strategy = id /\ new.offset = taken
                                    /\ signals' = Append(signals, new)
    BY <1>6, EmittedSignal
  <2>1. /\ spc = "evaluate" /\ UNCHANGED <<events, settled, taken>>
        /\ taken = settled + 1 /\ taken <= Len(events)
    BY <1>6, TypeFacts DEF EvaluateNext, topicVars, Typing, Position
  <2>2. \A k \in IDs : k # id => runtimeState'[k] = runtimeState[k]
    BY DEF Typing, Shapes
\* What was emitted before.
  <2>3. ASSUME NEW i \in DOMAIN signals
        PROVE  /\ signals[i].offset <= Len(events)
               /\ signals[i].offset = settled + 1 /\ spc' = "evaluate" =>
                    \/ runtimeState'[signals[i].strategy] = NoState
                    \/ signals[i].strategy \notin batch'
    <3>1. CASE signals[i].strategy = id
      BY <3>1 DEF SignalInv, EmittedBehind
    <3>2. CASE signals[i].strategy # id
      <4>1. runtimeState'[signals[i].strategy] = runtimeState[signals[i].strategy]
        BY <1>0, <2>2, <3>2
      <4> QED
        BY <2>1, <4>1 DEF SignalInv, EmittedBehind
    <3> QED
      BY <3>1, <3>2
  <2>4. CASE signals' = signals
    BY <2>1, <2>3, <2>4 DEF SignalInv, OneSignalPerMessage, EmittedBehind
  <2>5. ASSUME NEW new \in Signal, signals' = Append(signals, new), new.strategy = id,
               new.offset = taken, runtimeState[id] # NoState
        PROVE  SignalInv'
    <3> DEFINE last == Len(signals) + 1
    <3>1. /\ signals' \in Seq(Signal) /\ Len(signals') = last
          /\ \A i \in DOMAIN signals : signals'[i] = signals[i]
          /\ signals'[last] = new
      <4>1. signals \in Seq(Signal) /\ new \in Signal
        BY <1>0
      <4>2. /\ Append(signals, new) \in Seq(Signal)
            /\ Len(Append(signals, new)) = Len(signals) + 1
            /\ \A i \in 1..Len(signals) : Append(signals, new)[i] = signals[i]
            /\ Append(signals, new)[Len(signals) + 1] = new
        BY ONLY <4>1, AppendProperties
      <4> QED
        BY <1>0, <2>5, <4>2
    <3>2. DOMAIN signals' = DOMAIN signals \cup {last} /\ last \notin DOMAIN signals
      <4>1. DOMAIN signals' = 1..last
        BY <3>1
      <4> QED
        BY <1>0, <4>1
    <3> HIDE DEF last
    <3>3. \A i \in DOMAIN signals : ~(signals[i].strategy = id /\ signals[i].offset = taken)
      BY <2>1, <2>5 DEF SignalInv, EmittedBehind
    <3>4. ASSUME NEW i \in DOMAIN signals', NEW j \in DOMAIN signals',
                 signals'[i].strategy = signals'[j].strategy,
                 signals'[i].offset = signals'[j].offset
          PROVE  i = j
      <4>1. CASE i \in DOMAIN signals /\ j \in DOMAIN signals
        BY <1>0, <3>1, <3>4, <4>1 DEF SignalInv, OneSignalPerMessage
      <4>2. CASE i \in DOMAIN signals /\ j = last
        BY <2>5, <3>1, <3>3, <3>4, <4>2
      <4>3. CASE i = last /\ j \in DOMAIN signals
        BY <2>5, <3>1, <3>3, <3>4, <4>3
      <4> QED
        BY <3>2, <4>1, <4>2, <4>3
    <3>5. OneSignalPerMessage'
      <4>1. DOMAIN signals' = 1..Len(signals')
        BY <3>1
      <4> QED
        BY <3>4, <4>1 DEF OneSignalPerMessage
    <3>6. EmittedBehind'
      BY <2>1, <2>3, <2>5, <3>1, <3>2 DEF EmittedBehind
    <3> QED
      BY <3>5, <3>6 DEF SignalInv
  <2> QED
    BY <2>4, <2>5
<1>7. CASE CommitEvent \/ FetchEventFails
  <2>1. /\ UNCHANGED <<signals, runtimeState, events, taken>>
        /\ \/ spc = "commit" /\ settled' = taken /\ spc' = "fetch"
           \/ spc' = "stopped" /\ settled' = settled
    BY <1>7 DEF CommitEvent, FetchEventFails, topicVars, engineVars
  <2>2. spc = "commit" => taken = settled + 1
    BY DEF Typing, Position
  <2>3. \A i \in DOMAIN signals : spc = "commit" => signals[i].offset # taken + 1
    BY <1>0, <2>2 DEF SignalInv, EmittedBehind
  <2> QED
    BY <2>1, <2>3 DEF SignalInv, OneSignalPerMessage, EmittedBehind
<1>8. CASE Restart
  <2>1. /\ UNCHANGED <<signals, settled, events>> /\ spc' = "fetch"
        /\ runtimeState' = [id \in IDs |-> NoState]
    BY <1>8 DEF Restart
  <2> QED
    BY <1>0, <2>1 DEF SignalInv, OneSignalPerMessage, EmittedBehind
<1>9. CASE UNCHANGED vars
  BY <1>0, <1>1, <1>9 DEF vars, topicVars, engineVars
<1> QED
  BY <1>2, <1>3, <1>4, <1>5, <1>6, <1>7, <1>8, <1>9 DEF Next, Consumer

\* A message gives a strategy at most one signal, however often the service restarts
\* and the message is delivered again: only the message in hand can come again, and a
\* new process has no state, with which the first price gives no signal (service.go,
\* ema_strategy.go, rsi_strategy.go).
THEOREM SignalledOnce == Spec => []OneSignalPerMessage
<1>1. Init => SignalInv
  BY DEF Init, SignalInv, OneSignalPerMessage, EmittedBehind
<1>2. SignalInv => OneSignalPerMessage
  BY DEF SignalInv
<1> QED
  BY <1>1, <1>2, NextSignalInv, TypeCorrect, PTL DEF Spec

\* Of the strategies that wait for the event in hand, those that are not active were
\* deactivated with it in hand.
WaitingWasActive ==
    \A id \in batch : strategies[id].active \/ idleAt[id] = taken

LEMMA NextWaitingWasActive == Typing /\ WaitingWasActive /\ [Next]_vars => WaitingWasActive'
<1> SUFFICES ASSUME Typing, WaitingWasActive, [Next]_vars PROVE WaitingWasActive'
  OBVIOUS
<1>0. batch \subseteq Known /\ Known \subseteq IDs /\ strategies \in Seq(Strategy)
  BY TypeFacts
<1>1. ASSUME NEW config \in Configs, NEW active \in BOOLEAN, CreateStrategy(config, active)
      PROVE  WaitingWasActive'
  <2>1. /\ strategies' = Append(strategies, [config |-> config, active |-> active])
        /\ UNCHANGED <<batch, idleAt, taken>>
    BY <1>1 DEF CreateStrategy, topicVars
  <2>2. \A id \in batch : strategies'[id] = strategies[id]
    BY <1>0, <2>1 DEF Known
  <2> QED
    BY <2>1, <2>2 DEF WaitingWasActive
<1>2. ASSUME NEW id \in Known, NEW active \in BOOLEAN, Toggle(id, active)
      PROVE  WaitingWasActive'
  <2>1. /\ strategies' = [strategies EXCEPT ![id].active = active]
        /\ idleAt' = IF active THEN idleAt ELSE [idleAt EXCEPT ![id] = taken]
        /\ UNCHANGED <<batch, taken>>
    BY <1>2 DEF Toggle, topicVars
  <2>2. ASSUME NEW k \in batch
        PROVE  strategies'[k].active \/ idleAt'[k] = taken
    <3>1. CASE k = id /\ ~active
      <4>1. idleAt'[k] = taken
        BY <1>0, <2>1, <3>1 DEF Typing, TypeOK
      <4> QED
        BY <4>1
    <3>2. CASE k = id /\ active
      <4>1. strategies[id] \in Strategy
        BY TypeFacts
      <4>2. strategies'[id] = [strategies[id] EXCEPT !.active = active]
        BY <1>0, <2>1 DEF Known
      <4> QED
        BY <3>2, <4>1, <4>2 DEF Strategy
    <3>3. CASE k # id
      <4>1. strategies'[k] = strategies[k]
        BY <1>0, <2>1, <3>3 DEF Known
      <4>2. idleAt'[k] = idleAt[k]
        BY <1>0, <2>1, <3>3 DEF Typing, TypeOK
      <4> QED
        BY <4>1, <4>2 DEF WaitingWasActive
    <3> QED
      BY <3>1, <3>2, <3>3
  <2> QED
    BY <2>1, <2>2 DEF WaitingWasActive
<1>3. CASE FetchEvent
  <2>1. batch = {} /\ batch' = batch
    BY <1>3 DEF FetchEvent, Typing, TypeOK
  <2> QED
    BY <2>1 DEF WaitingWasActive
<1>4. CASE HandleEvent
  BY <1>4 DEF HandleEvent, Handle, Listed, WaitingWasActive, topicVars
<1>5. CASE EvaluateNext
  BY <1>5 DEF EvaluateNext, WaitingWasActive, topicVars
<1>6. CASE CommitEvent \/ FetchEventFails
  BY <1>6 DEF CommitEvent, FetchEventFails, WaitingWasActive, topicVars
<1>7. CASE Restart
  BY <1>7 DEF Restart, WaitingWasActive
<1>8. CASE UNCHANGED vars
  BY <1>8 DEF vars, topicVars, WaitingWasActive
<1> QED
  BY <1>1, <1>2, <1>3, <1>4, <1>5, <1>6, <1>7, <1>8 DEF Next, Consumer

\* A deactivated strategy emits for the event that was in hand and for none after it
\* (service.go: ListActive is called once for an event).
THEOREM EmitsOnlyInHand == Spec => InactiveEmitsOnlyInHand
<1> DEFINE OnlyInHand == \A id \in Known :
                     /\ ~ strategies[id].active
                     /\ Len(signals') > Len(signals) /\ signals'[Len(signals')].strategy = id
                     => idleAt[id] = taken
<1>1. Init => WaitingWasActive
  BY DEF Init, WaitingWasActive
<1>2. Typing /\ WaitingWasActive /\ [Next]_vars => [OnlyInHand]_vars
  <2> SUFFICES ASSUME Typing, WaitingWasActive, [Next]_vars PROVE [OnlyInHand]_vars
    OBVIOUS
  <2>0. signals \in Seq(Signal) /\ Len(signals) \in Nat
    BY DEF Typing, Shapes
  <2>1. CASE UNCHANGED signals
    BY <2>0, <2>1
  <2>2. CASE EvaluateNext
    <3> PICK id \in batch :
          /\ id \in Known
          /\ \/ signals' = signals
             \/ \E action \in {"buy", "sell"} :
                  signals' = Append(signals, [strategy |-> id, offset |-> taken,
                                              action |-> action, run |-> restarts,
                                              after |-> Len(fed[id]) + 1])
      BY <2>2, EvaluateStep
    <3>1. ASSUME NEW action \in {"buy", "sell"},
                 signals' = Append(signals, [strategy |-> id, offset |-> taken,
                                             action |-> action, run |-> restarts,
                                             after |-> Len(fed[id]) + 1])
          PROVE  OnlyInHand
      <4> DEFINE new == [strategy |-> id, offset |-> taken, action |-> action,
                         run |-> restarts, after |-> Len(fed[id]) + 1]
      <4>1. new.strategy = id
        OBVIOUS
      <4> HIDE DEF new
      <4>2. signals' = Append(signals, new)
        BY <3>1 DEF new
      <4>3. signals'[Len(signals')] = new
        BY <2>0, <4>2
      <4> QED
        BY <4>1, <4>3 DEF WaitingWasActive
    <3> QED
      BY <2>1, <3>1
  <2> QED
    BY <2>1, <2>2 DEF Next, Consumer, CreateStrategy, Toggle, FetchEvent, FetchEventFails,
                      HandleEvent, Handle, CommitEvent, Restart, vars, engineVars
<1> QED
  BY <1>1, <1>2, NextWaitingWasActive, TypeCorrect, PTL DEF Spec, InactiveEmitsOnlyInHand

-----------------------------------------------------------------------------
(* What recursive functions compute.                                       *)

\* What is true of some number is true of a smallest one.
LEMMA LeastNat ==
    ASSUME NEW B \in SUBSET Nat, B # {}
    PROVE  \E n \in B : \A k \in B : n <= k
<1>1. PICK n \in B : \A k \in B : ~ (<<k, n>> \in OpToRel(<, Nat))
  BY NatLessThanWellFounded, WFMin
<1>2. ASSUME NEW k \in B, k < n PROVE FALSE
  <2>1. <<k, n>> \in Nat \X Nat /\ <<k, n>>[1] < <<k, n>>[2]
    BY <1>2
  <2>2. <<k, n>> \in OpToRel(<, Nat)
    BY <2>1 DEF OpToRel
  <2> QED
    BY <1>1, <2>2
<1>3. ASSUME NEW k \in B PROVE n <= k
  BY <1>2, <1>3
<1> QED
  BY <1>3

\* What holds of 0 and is handed on from each number to the next holds of all.
LEMMA Induction ==
    ASSUME NEW S, 0 \in S, \A n \in Nat : n \in S => n + 1 \in S
    PROVE  Nat \subseteq S
<1> SUFFICES ASSUME NEW n \in Nat \ S PROVE FALSE
  OBVIOUS
<1>1. PICK m \in Nat \ S : \A k \in Nat \ S : m <= k
  BY LeastNat
<1>2. m # 0 /\ m - 1 \in Nat /\ m - 1 + 1 = m /\ ~ (m <= m - 1)
  BY <1>1
<1> QED
  BY <1>1, <1>2

\* h counts up to n from a by the steps of g.
Recurs(h, a, g, n) ==
    /\ DOMAIN h = 0..n
    /\ h[0] = a
    /\ \A i \in 1..n : h[i] = g[i, h[i - 1]]

\* Recursion over the naturals has one value everywhere.
LEMMA RecursionAgrees ==
    ASSUME NEW a, NEW g, NEW m \in Nat, NEW n \in Nat, NEW h, NEW k,
           Recurs(h, a, g, m), Recurs(k, a, g, n), NEW i \in Nat, i <= m, i <= n
    PROVE  h[i] = k[i]
<1> SUFFICES ASSUME h[i] # k[i] PROVE FALSE
  OBVIOUS
<1> DEFINE B == {j \in Nat : j <= i /\ h[j] # k[j]}
<1>1. PICK j \in B : \A l \in B : j <= l
  <2>1. i \in B /\ B \in SUBSET Nat
    OBVIOUS
  <2> HIDE DEF B
  <2> QED
    BY <2>1, LeastNat
<1>2. CASE j = 0
  BY <1>1, <1>2 DEF Recurs
<1>3. CASE j > 0
  <2>1. j - 1 \in Nat /\ j - 1 <= i /\ ~ (j <= j - 1)
    BY <1>3
  <2>2. h[j - 1] = k[j - 1]
    BY <1>1, <2>1
  <2>3. j \in 1..m /\ j \in 1..n
    BY <1>3
  <2> QED
    BY <1>1, <2>2, <2>3 DEF Recurs
<1> QED
  BY <1>2, <1>3

\* A function that follows a recurrence up to m goes on to m + 1.
LEMMA RecursionOn ==
    ASSUME NEW a, NEW g, NEW m \in Nat, NEW k, Recurs(k, a, g, m)
    PROVE  \E h : Recurs(h, a, g, m + 1)
<1>1. PICK v : v = g[m + 1, k[m]]
  OBVIOUS
<1> DEFINE h == [i \in 0..(m + 1) |-> IF i = m + 1 THEN v ELSE k[i]]
<1>2. DOMAIN h = 0..(m + 1)
  OBVIOUS
<1>3. \A i \in 0..m : h[i] = k[i]
  BY ONLY m \in Nat
<1>4. h[m + 1] = v
  BY ONLY m \in Nat
<1> HIDE DEF h
<1>5. h[0] = a
  <2>1. k[0] = a
    BY Zenon DEF Recurs
  <2>2. h[0] = k[0]
    BY ONLY m \in Nat, <1>3
  <2> QED
    BY <2>1, <2>2
<1>6. ASSUME NEW i \in 1..(m + 1) PROVE h[i] = g[i, h[i - 1]]
  <2>1. CASE i = m + 1
    <3>1. i - 1 = m /\ m \in 0..m
      BY <2>1
    <3> QED
      BY <1>1, <1>3, <1>4, <2>1, <3>1
  <2>2. CASE i # m + 1
    <3>1. i \in 1..m /\ i \in 0..m /\ i - 1 \in 0..m
      BY <2>2
    <3>2. k[i] = g[i, k[i - 1]]
      BY <3>1 DEF Recurs
    <3> QED
      BY <1>3, <3>1, <3>2
  <2> QED
    BY <2>1, <2>2
<1> QED
  BY <1>2, <1>5, <1>6 DEF Recurs

\* Some function follows the recurrence up to any n.
LEMMA RecursionTo ==
    ASSUME NEW a, NEW g, NEW n \in Nat
    PROVE  \E h : Recurs(h, a, g, n)
<1> DEFINE B == {j \in Nat : ~ \E h : Recurs(h, a, g, j)}
<1> SUFFICES ASSUME n \in B PROVE FALSE
  OBVIOUS
<1>1. PICK j \in B : \A l \in B : j <= l
  <2>1. B \in SUBSET Nat
    OBVIOUS
  <2> HIDE DEF B
  <2> QED
    BY <2>1, LeastNat
<1>2. CASE j = 0
  <2> DEFINE h == [i \in {0} |-> a]
  <2>1. DOMAIN h = 0..0 /\ h[0] = a
    OBVIOUS
  <2>2. \A i \in 1..0 : FALSE
    OBVIOUS
  <2> HIDE DEF h, B
  <2>3. Recurs(h, a, g, 0)
    BY ONLY <2>1, <2>2 DEF Recurs
  <2> QED
    BY <1>2, <2>3 DEF B
<1>3. CASE j # 0
  <2>1. j - 1 \in Nat /\ ~ (j <= j - 1) /\ j - 1 + 1 = j
    BY <1>3
  <2>2. \E h : Recurs(h, a, g, j - 1)
    BY <1>1, <2>1
  <2>3. \E h : Recurs(h, a, g, j)
    BY <2>1, <2>2, RecursionOn
  <2> QED
    BY <2>3
<1> QED
  BY <1>2, <1>3

\* A recursive function of integers exists on all naturals.
LEMMA Recursion ==
    ASSUME NEW a \in Int, NEW g \in [Nat \X Int -> Int]
    PROVE  \E h \in [Nat -> Int] : h = [i \in Nat |-> IF i = 0 THEN a ELSE g[i, h[i - 1]]]
<1> DEFINE To(n) == CHOOSE h : Recurs(h, a, g, n)
           h == [n \in Nat |-> To(n)[n]]
<1>1. ASSUME NEW n \in Nat PROVE Recurs(To(n), a, g, n)
  BY RecursionTo
<1> HIDE DEF To
<1>2. h = [n \in Nat |-> h[n]] /\ \A n \in Nat : h[n] = To(n)[n]
  OBVIOUS
<1> HIDE DEF h
<1>3. h[0] = a
  BY <1>1, <1>2 DEF Recurs
<1>4. ASSUME NEW i \in Nat \ {0} PROVE h[i] = g[i, h[i - 1]]
  <2>1. i \in Nat /\ i - 1 \in Nat /\ i - 1 <= i /\ i - 1 <= i - 1 /\ i \in 1..i
    OBVIOUS
  <2>2. Recurs(To(i), a, g, i) /\ Recurs(To(i - 1), a, g, i - 1)
    BY <1>1, <2>1
  <2>3. To(i)[i - 1] = To(i - 1)[i - 1]
    BY <2>1, <2>2, RecursionAgrees
  <2>4. To(i)[i] = g[i, To(i)[i - 1]]
    BY <2>1, <2>2 DEF Recurs
  <2>5. h[i] = To(i)[i] /\ h[i - 1] = To(i - 1)[i - 1]
    BY <1>2, <2>1
  <2> QED
    BY <2>3, <2>4, <2>5
<1>5. ASSUME NEW n \in Nat PROVE h[n] \in Int
  <2> DEFINE S == {j \in Nat : h[j] \in Int}
  <2>1. 0 \in S
    BY <1>3
  <2>2. ASSUME NEW j \in S PROVE j + 1 \in S
    <3>1. PICK i \in Nat \ {0} : i = j + 1 /\ i - 1 = j
      OBVIOUS
    <3>2. h[i] = g[i, h[i - 1]] /\ h[i - 1] \in Int
      BY <1>4, <3>1
    <3>3. g[i, h[i - 1]] \in Int
      BY <3>2
    <3> QED
      BY <3>1, <3>2, <3>3
  <2> HIDE DEF S
  <2>3. n \in S
    BY <2>1, <2>2, Induction
  <2> QED
    BY <2>3 DEF S
<1> DEFINE k == [i \in Nat |-> IF i = 0 THEN a ELSE g[i, h[i - 1]]]
<1>6. \A i \in Nat : h[i] = k[i]
  BY <1>3, <1>4
<1>7. h = k
  <2> HIDE DEF k
  <2>1. k = [i \in Nat |-> k[i]]
    BY DEF k
  <2> QED
    BY <1>2, <1>6, <2>1
<1>8. h \in [Nat -> Int]
  BY <1>2, <1>5
<1> QED
  BY <1>7, <1>8

\* What a power is.
LEMMA PowerFacts ==
    ASSUME NEW b \in Int
    PROVE  /\ Power(b, 0) = 1
           /\ \A n \in Nat : /\ Power(b, n) \in Int
                             /\ Power(b, n + 1) = b * Power(b, n)
<1> DEFINE g == [e \in Nat \X Int |-> b * e[2]]
           IsPower(p) == p = [i \in Nat |-> IF i = 0 THEN 1 ELSE b * p[i - 1]]
           p == CHOOSE p : IsPower(p)
<1>1. \E h \in [Nat -> Int] : h = [i \in Nat |-> IF i = 0 THEN 1 ELSE g[i, h[i - 1]]]
  <2>1. g \in [Nat \X Int -> Int]
    OBVIOUS
  <2>2. 1 \in Int
    OBVIOUS
  <2> HIDE DEF g
  <2> QED
    BY <2>1, <2>2, Recursion, Zenon
<1>2. PICK h \in [Nat -> Int] : h = [i \in Nat |-> IF i = 0 THEN 1 ELSE g[i, h[i - 1]]]
  BY <1>1
<1>3. \A i \in Nat \ {0} : g[i, h[i - 1]] = b * h[i - 1]
  <2>1. \A i \in Nat \ {0} : <<i, h[i - 1]>> \in Nat \X Int
    OBVIOUS
  <2> QED
    BY <2>1
<1>4. IsPower(h)
  <2> HIDE DEF g
  <2> QED
    BY <1>2, <1>3
<1>5. IsPower(p)
  BY <1>4
<1>6. \A n \in Nat : Power(b, n) = p[n]
  BY DEF Power
<1> HIDE DEF p
<1>7. p[0] = 1 /\ \A n \in Nat : p[n + 1] = b * p[n]
  BY <1>5
<1> DEFINE S == {n \in Nat : p[n] \in Int}
<1>8. 0 \in S /\ \A n \in S : n + 1 \in S
  BY <1>7
<1>9. ASSUME NEW n \in Nat PROVE n \in S
  <2> HIDE DEF S
  <2>1. \A k \in Nat : k \in S => k + 1 \in S
    BY <1>8
  <2> QED
    BY <1>8, <2>1, Induction
<1> QED
  BY <1>6, <1>7, <1>9

\* What a total is, by the recursion: the partial totals s of w.
LEMMA TotalFacts ==
    ASSUME NEW w \in Seq(Int)
    PROVE  \E s \in [0..Len(w) -> Int] :
             /\ s[0] = 0
             /\ \A i \in 1..Len(w) : s[i] = w[i] + s[i - 1]
             /\ Total(w) = s[Len(w)]
<1> DEFINE n == Len(w)
           g == [e \in Nat \X Int |-> (IF e[1] \in 1..n THEN w[e[1]] ELSE 0) + e[2]]
           IsTotal(s) == s = [i \in 0..n |-> IF i = 0 THEN 0 ELSE w[i] + s[i - 1]]
           t == CHOOSE s : IsTotal(s)
<1>1. \E h \in [Nat -> Int] : h = [i \in Nat |-> IF i = 0 THEN 0 ELSE g[i, h[i - 1]]]
  <2>1. g \in [Nat \X Int -> Int]
    OBVIOUS
  <2>2. 0 \in Int
    OBVIOUS
  <2> HIDE DEF g
  <2> QED
    BY <2>1, <2>2, Recursion, Zenon
<1>2. PICK h \in [Nat -> Int] : h = [i \in Nat |-> IF i = 0 THEN 0 ELSE g[i, h[i - 1]]]
  BY <1>1
<1>3. ASSUME NEW i \in 1..n PROVE i \in Nat \ {0} /\ g[i, h[i - 1]] = w[i] + h[i - 1]
  <2>1. i \in Nat \ {0} /\ i - 1 \in Nat
    OBVIOUS
  <2>2. PICK x \in Int : x = h[i - 1]
    BY <2>1
  <2>3. <<i, x>> \in Nat \X Int /\ <<i, x>>[1] = i /\ <<i, x>>[2] = x
    BY <2>1
  <2>4. g[i, x] = (IF i \in 1..n THEN w[i] ELSE 0) + x
    BY <2>3
  <2> QED
    BY <2>1, <2>2, <2>4
<1> DEFINE k == [i \in 0..n |-> h[i]]
<1>4. n \in Nat /\ 0..n \subseteq Nat
  OBVIOUS
<1>5. k[0] = 0 /\ \A i \in 1..n : k[i] = w[i] + k[i - 1]
  <2> HIDE DEF g
  <2>1. h[0] = 0 /\ \A i \in Nat \ {0} : h[i] = g[i, h[i - 1]]
    BY <1>2
  <2>2. 0 \in 0..n /\ \A i \in 1..n : i \in 0..n /\ i - 1 \in 0..n
    BY <1>4
  <2>3. \A i \in 0..n : k[i] = h[i]
    OBVIOUS
  <2> HIDE DEF k
  <2>4. ASSUME NEW i \in 1..n PROVE k[i] = w[i] + k[i - 1]
    <3>1. h[i] = w[i] + h[i - 1]
      BY <1>3, <2>1
    <3> QED
      BY <2>2, <2>3, <3>1
  <2> QED
    BY <2>1, <2>2, <2>3, <2>4
<1>6. IsTotal(k)
  <2>1. \A i \in 0..n : i # 0 => i \in 1..n
    BY <1>4
  <2>2. \A i \in 0..n : k[i] = IF i = 0 THEN 0 ELSE w[i] + k[i - 1]
    <3> HIDE DEF k
    <3> QED
      BY <1>5, <2>1
  <2>3. k = [i \in 0..n |-> k[i]]
    OBVIOUS
  <2> HIDE DEF k
  <2> QED
    BY <2>2, <2>3
<1>7. IsTotal(t)
  <2> HIDE DEF k
  <2> QED
    BY <1>6
<1>8. Total(w) = t[n]
  BY DEF Total
<1> HIDE DEF t, k, g
<1>9. t[0] = 0 /\ \A i \in 1..n : t[i] = w[i] + t[i - 1]
  <2>1. 0 \in 0..n /\ \A i \in 1..n : i \in 0..n /\ i # 0
    BY <1>4
  <2>2. \A i \in 0..n : t[i] = IF i = 0 THEN 0 ELSE w[i] + t[i - 1]
    BY ONLY <1>7
  <2> QED
    BY ONLY <2>1, <2>2
<1>10. t \in [0..n -> Int]
  <2> DEFINE S == {i \in Nat : i <= n => t[i] \in Int}
  <2>1. 0 \in S
    BY <1>9
  <2>2. ASSUME NEW i \in Nat, i \in S PROVE i + 1 \in S
    <3> SUFFICES ASSUME i + 1 <= n PROVE t[i + 1] \in Int
      OBVIOUS
    <3>1. PICK j \in 1..n : j = i + 1 /\ j - 1 = i
      BY <1>4
    <3>2. t[j] = w[j] + t[j - 1] /\ w[j] \in Int /\ t[j - 1] \in Int
      BY <1>9, <2>2, <3>1
    <3> QED
      BY <3>1, <3>2
  <2> HIDE DEF S
  <2>3. Nat \subseteq S
    BY <2>1, <2>2, Induction
  <2>4. \A i \in 0..n : t[i] \in Int
    BY <1>4, <2>3 DEF S
  <2> QED
    BY <1>7, <2>4
<1> QED
  BY <1>8, <1>9, <1>10

\* A factor distributes over a sum.
LEMMA Distributes ==
    ASSUME NEW a \in Int, NEW b \in Int, NEW c \in Int
    PROVE  c * (a + b) = c * a + c * b
  OBVIOUS

\* A longer sequence that begins with the multiples of w has the multiple of its total
\* and what it adds.
LEMMA TotalScaled ==
    ASSUME NEW w \in Seq(Int), NEW v \in Seq(Int), NEW c \in Int, Len(v) = Len(w) + 1,
           \A i \in 1..Len(w) : v[i] = c * w[i]
    PROVE  /\ Total(w) \in Int
           /\ Total(v) = c * Total(w) + v[Len(v)]
<1>1. PICK s \in [0..Len(w) -> Int] :
        s[0] = 0 /\ (\A i \in 1..Len(w) : s[i] = w[i] + s[i - 1]) /\ Total(w) = s[Len(w)]
  BY TotalFacts
<1>2. PICK r \in [0..Len(v) -> Int] :
        r[0] = 0 /\ (\A i \in 1..Len(v) : r[i] = v[i] + r[i - 1]) /\ Total(v) = r[Len(v)]
  BY TotalFacts
<1> DEFINE S == {i \in Nat : i <= Len(w) => r[i] = c * s[i]}
<1>3. 0 \in S
  BY <1>1, <1>2
<1>4. ASSUME NEW i \in Nat, i \in S PROVE i + 1 \in S
  <2> SUFFICES ASSUME i + 1 <= Len(w) PROVE r[i + 1] = c * s[i + 1]
    OBVIOUS
  <2>1. PICK j \in 1..Len(w) : j = i + 1 /\ j - 1 = i /\ j \in 1..Len(v)
    OBVIOUS
  <2>2. r[j] = v[j] + r[j - 1] /\ s[j] = w[j] + s[j - 1] /\ v[j] = c * w[j]
    BY <1>1, <1>2, <2>1
  <2>3. r[j - 1] = c * s[j - 1]
    BY <1>4, <2>1
  <2>4. PICK x \in Int, y \in Int : x = w[j] /\ y = s[j - 1]
    <3>1. w[j] \in Int
      OBVIOUS
    <3>2. j - 1 \in 0..Len(w)
      BY <2>1
    <3>3. s[j - 1] \in Int
      BY <3>2
    <3> QED
      BY ONLY <3>1, <3>3
  <2>5. c * (x + y) = c * x + c * y
    BY Distributes
  <2> QED
    BY <2>1, <2>2, <2>3, <2>4, <2>5
<1> HIDE DEF S
<1>5. Nat \subseteq S
  BY <1>3, <1>4, Induction
<1>6. r[Len(w)] = c * s[Len(w)]
  <2>1. Len(w) \in Nat /\ Len(w) <= Len(w)
    OBVIOUS
  <2>2. Len(w) \in S
    BY ONLY <1>5, <2>1
  <2> QED
    BY <2>1, <2>2 DEF S
<1>7. PICK m \in 1..Len(v) : m = Len(v) /\ m - 1 = Len(w) /\ m - 1 \in 0..Len(v)
  OBVIOUS
<1>8. r[m] = v[m] + r[m - 1]
  BY <1>2, <1>7
<1>9. PICK x \in Int, y \in Int, z \in Int : x = r[m - 1] /\ y = v[m] /\ z = s[Len(w)]
  <2>1. Len(w) \in 0..Len(w)
    OBVIOUS
  <2>2. v[m] \in Int
    OBVIOUS
  <2>3. r[m - 1] \in Int /\ s[Len(w)] \in Int
    BY <1>7, <2>1
  <2> QED
    BY ONLY <2>2, <2>3
<1> QED
  BY <1>1, <1>2, <1>6, <1>7, <1>8, <1>9

\* The weighted sum of one more number: what came before has its weight reduced.
LEMMA WeightedSumGrows ==
    ASSUME NEW x \in Seq(Int), Len(x) > 0, NEW z \in Int, NEW num \in Int, NEW den \in Int
    PROVE  /\ WeightedSum(x, num, den) \in Int
           /\ WeightedSum(Append(x, z), num, den)
                = (den - num) * WeightedSum(x, num, den)
                  + (num * Power(den, Len(x) - 1)) * z
<1> DEFINE n == Len(x)
           y == Append(x, z)
           W(m, i) == IF i = 1 THEN Power(den - num, m - 1)
                      ELSE num * Power(den - num, m - i) * Power(den, i - 2)
           w == [i \in 1..n |-> W(n, i) * x[i]]
           v == [i \in 1..(n + 1) |-> W(n + 1, i) * y[i]]
<1>1. n \in Nat /\ n > 0 /\ den - num \in Int
  OBVIOUS
<1>2. Len(y) = n + 1 /\ y[n + 1] = z /\ \A i \in 1..n : y[i] = x[i] /\ x[i] \in Int
  OBVIOUS
<1>3. WeightedSum(x, num, den) = Total(w) /\ WeightedSum(y, num, den) = Total(v)
  BY <1>2 DEF WeightedSum
<1>4. ASSUME NEW m \in Nat, NEW i \in 1..m
      PROVE  W(m, i) \in Int /\ W(m + 1, i) = (den - num) * W(m, i)
  <2>1. CASE i = 1
    <3>1. m - 1 \in Nat /\ m - 1 + 1 = m /\ m + 1 - 1 = m
      BY <2>1
    <3>2. Power(den - num, m - 1) \in Int
      BY <1>1, <3>1, PowerFacts
    <3>3. Power(den - num, m - 1 + 1) = (den - num) * Power(den - num, m - 1)
      BY <1>1, <3>1, PowerFacts
    <3> QED
      BY <2>1, <3>1, <3>2, <3>3
  <2>2. CASE i # 1
    <3>1. /\ m - i \in Nat /\ i - 2 \in Nat /\ m - i + 1 = m + 1 - i
      BY <2>2
    <3>2. PICK a \in Int, b \in Int, c \in Int :
            a = Power(den - num, m - i) /\ b = Power(den, i - 2) /\ c = den - num
      BY <1>1, <3>1, PowerFacts
    <3>3. Power(den - num, m - i + 1) = c * a
      BY <1>1, <3>1, <3>2, PowerFacts
    <3>4. W(m + 1, i) = num * (c * a) * b /\ W(m, i) = num * a * b
      BY <2>2, <3>1, <3>2, <3>3
    <3>5. num * (c * a) * b = c * (num * a * b) /\ num * a * b \in Int
      OBVIOUS
    <3> HIDE DEF W
    <3> QED
      BY <3>2, <3>4, <3>5
  <2> QED
    BY <2>1, <2>2
<1>5. W(n + 1, n + 1) = num * Power(den, n - 1) /\ W(n + 1, n + 1) \in Int
  <2>1. n - 1 \in Nat /\ n + 1 # 1 /\ n + 1 - (n + 1) = 0 /\ n + 1 - 2 = n - 1
    BY <1>1
  <2>2. Power(den - num, 0) = 1 /\ Power(den, n - 1) \in Int
    BY <1>1, <2>1, PowerFacts
  <2> QED
    BY <2>1, <2>2
<1> HIDE DEF W, y
<1>6. w \in Seq(Int) /\ Len(w) = n /\ \A i \in 1..n : w[i] = W(n, i) * x[i]
  <2>1. ASSUME NEW i \in 1..n PROVE W(n, i) * x[i] \in Int
    <3>1. W(n, i) \in Int /\ x[i] \in Int
      BY <1>1, <1>2, <1>4
    <3> QED
      BY <3>1
  <2> QED
    BY <1>1, <2>1
<1>7. /\ v \in Seq(Int) /\ Len(v) = n + 1
      /\ \A i \in 1..(n + 1) : v[i] = W(n + 1, i) * y[i]
  <2>1. ASSUME NEW i \in 1..(n + 1) PROVE W(n + 1, i) * y[i] \in Int
    <3>1. CASE i = n + 1
      BY <1>2, <1>5, <3>1
    <3>2. CASE i # n + 1
      <4>1. i \in 1..n
        BY <3>2
      <4>2. W(n + 1, i) \in Int
        BY <1>1, <1>4, <4>1
      <4> QED
        BY <1>2, <4>1, <4>2
    <3> QED
      BY <3>1, <3>2
  <2> QED
    BY <1>1, <2>1
<1> HIDE DEF w, v
<1>8. ASSUME NEW i \in 1..Len(w) PROVE v[i] = (den - num) * w[i]
  <2>1. i \in 1..n /\ i \in 1..(n + 1)
    BY <1>6
  <2>2. PICK a \in Int, b \in Int, c \in Int : a = W(n, i) /\ b = x[i] /\ c = den - num
    BY <1>1, <1>2, <1>4, <2>1
  <2>3. v[i] = (c * a) * b /\ w[i] = a * b
    BY <1>1, <1>2, <1>4, <1>6, <1>7, <2>1, <2>2
  <2>4. (c * a) * b = c * (a * b)
    OBVIOUS
  <2> QED
    BY <2>2, <2>3, <2>4
<1>9. Total(w) \in Int /\ Total(v) = (den - num) * Total(w) + v[n + 1]
  <2>1. PICK c \in Int : c = den - num
    BY <1>1
  <2>2. Len(v) = Len(w) + 1 /\ \A i \in 1..Len(w) : v[i] = c * w[i]
    BY <1>1, <1>6, <1>7, <1>8, <2>1
  <2>3. Total(w) \in Int /\ Total(v) = c * Total(w) + v[Len(v)]
    BY <1>6, <1>7, <2>2, TotalScaled
  <2> QED
    BY <1>7, <2>1, <2>3
<1>10. v[n + 1] = (num * Power(den, n - 1)) * z
  <2>1. n + 1 \in 1..(n + 1)
    BY <1>1
  <2> QED
    BY <1>2, <1>5, <1>7, <2>1
<1> QED
  BY <1>3, <1>9, <1>10 DEF y

\* One number is its own mean.
LEMMA MeanOfOne ==
    ASSUME NEW z \in Int, NEW num \in Int, NEW den \in Int
    PROVE  IsMean(z, <<z>>, num, den) /\ WeightedSum(<<z>>, num, den) = z
<1>1. Power(den, 0) = 1 /\ Power(den - num, 0) = 1
  BY PowerFacts
<1> DEFINE w == [i \in 1..1 |-> z]
<1>2. WeightedSum(<<z>>, num, den) = Total(w)
  <2> DEFINE Weight(i) == IF i = 1 THEN Power(den - num, 1 - 1)
                          ELSE num * Power(den - num, 1 - i) * Power(den, i - 2)
             u == [i \in 1..1 |-> Weight(i) * <<z>>[i]]
  <2>1. \A i \in 1..1 : i = 1
    OBVIOUS
  <2>2. Weight(1) * <<z>>[1] = z
    BY <1>1
  <2> HIDE DEF Weight
  <2>3. u = w
    BY <2>1, <2>2
  <2>4. WeightedSum(<<z>>, num, den) = Total(u)
    <3>1. Len(<<z>>) = 1
      OBVIOUS
    <3> QED
      BY <3>1 DEF WeightedSum, Weight
  <2> HIDE DEF u, w
  <2> QED
    BY <2>3, <2>4
<1>3. w \in Seq(Int) /\ Len(w) = 1 /\ w[1] = z
  OBVIOUS
<1> HIDE DEF w
<1>4. Total(w) = z
  <2>1. PICK s \in [0..Len(w) -> Int] :
          s[0] = 0 /\ (\A i \in 1..Len(w) : s[i] = w[i] + s[i - 1]) /\ Total(w) = s[Len(w)]
    BY <1>3, TotalFacts
  <2>2. s[1] = w[1] + s[1 - 1]
    BY <1>3, <2>1
  <2> QED
    BY <1>3, <2>1, <2>2
<1> QED
  BY <1>1, <1>2, <1>4 DEF IsMean

\* Where a division leaves nothing, smoothing keeps the mean.
LEMMA SmoothedMean ==
    ASSUME NEW x \in Seq(Int), Len(x) > 0, NEW z \in Int, NEW num \in Int,
           NEW den \in Nat \ {0}, NEW average \in Int, IsMean(average, x, num, den),
           (num * z + (den - num) * average) % den = 0
    PROVE  /\ Smooth(average, z, num, den) \in Int
           /\ IsMean(Smooth(average, z, num, den), Append(x, z), num, den)
<1>1. Len(x) - 1 \in Nat /\ Len(x) - 1 + 1 = Len(x) /\ Len(Append(x, z)) - 1 = Len(x)
  OBVIOUS
<1>2. PICK p \in Int : p = Power(den, Len(x) - 1)
  BY <1>1, PowerFacts
<1>3. Power(den, Len(x)) = den * p
  BY <1>1, <1>2, PowerFacts
<1>0. /\ WeightedSum(x, num, den) \in Int
      /\ WeightedSum(Append(x, z), num, den)
           = (den - num) * WeightedSum(x, num, den) + (num * Power(den, Len(x) - 1)) * z
  <2>1. den \in Int
    OBVIOUS
  <2> QED
    BY <2>1, WeightedSumGrows
<1>4. PICK s \in Int : s = WeightedSum(x, num, den)
  BY <1>0
<1>5. WeightedSum(Append(x, z), num, den) = (den - num) * s + (num * p) * z
  BY <1>0, <1>2, <1>4
<1>6. average * p = s
  BY <1>2, <1>4 DEF IsMean
<1>7. PICK a \in Int : a = num * z + (den - num) * average
  OBVIOUS
<1>8. PICK q \in Int : q = a \div den
  OBVIOUS
<1>9. q * den = a
  BY <1>7, <1>8
<1>10. Smooth(average, z, num, den) = q
  BY <1>7, <1>8 DEF Smooth
<1>11. q * (den * p) = (den - num) * s + (num * p) * z
  <2>1. PICK c \in Int : c = den - num
    OBVIOUS
  <2>2. a = num * z + c * average
    BY <1>7, <2>1
  <2>3. q * (den * p) = (q * den) * p
    OBVIOUS
  <2>4. (num * z + c * average) * p = (num * p) * z + c * (average * p)
    BY ONLY num \in Int, z \in Int, c \in Int, average \in Int, p \in Int
  <2>5. q * (den * p) = a * p
    BY <1>9, <2>3
  <2>6. a * p = (num * p) * z + c * s
    BY <1>6, <2>2, <2>4
  <2>7. (num * p) * z + c * s = c * s + (num * p) * z
    OBVIOUS
  <2> QED
    BY <2>1, <2>5, <2>6, <2>7
<1> QED
  BY <1>1, <1>3, <1>5, <1>10, <1>11 DEF IsMean

-----------------------------------------------------------------------------
(* What the engines compute.                                               *)

\* The moves of a price more.
LEMMA MovesGrow ==
    ASSUME NEW x \in Seq(Int), Len(x) > 0, NEW z \in Int
    PROVE  /\ Gains(x) \in Seq(Int) /\ Len(Gains(x)) = Len(x) - 1
           /\ Losses(x) \in Seq(Int) /\ Len(Losses(x)) = Len(x) - 1
           /\ Gains(Append(x, z)) = Append(Gains(x), Positive(z - x[Len(x)]))
           /\ Losses(Append(x, z)) = Append(Losses(x), Positive(x[Len(x)] - z))
<1> DEFINE n == Len(x)
           y == Append(x, z)
<1>1. n \in Nat /\ n > 0 /\ n - 1 \in Nat /\ x[n] \in Int
  OBVIOUS
<1>2. Len(y) - 1 = n /\ y[n + 1] = z /\ \A i \in 1..n : y[i] = x[i]
  OBVIOUS
<1>3. ASSUME NEW i \in 1..(n - 1)
      PROVE  /\ Moves(x)[i] = x[i + 1] - x[i] /\ Moves(y)[i] = x[i + 1] - x[i]
             /\ x[i + 1] \in Int /\ x[i] \in Int
  <2>1. i \in 1..n /\ i + 1 \in 1..n
    BY <1>1
  <2> QED
    BY <1>2, <2>1 DEF Moves
<1>4. Moves(y)[n] = z - x[n]
  <2>1. n \in 1..n
    BY <1>1
  <2> QED
    BY <1>2, <2>1 DEF Moves
<1>5. \A m \in Int : Positive(m) \in Int
  BY DEF Positive
<1>6. -(z - x[n]) = x[n] - z
  BY <1>1
<1> DEFINE g == Gains(x)
           l == Losses(x)
<1>7. /\ Gains(y) = [i \in 1..n |-> Positive(Moves(y)[i])]
      /\ Losses(y) = [i \in 1..n |-> Positive(-Moves(y)[i])]
  BY <1>2 DEF Gains, Losses
<1>8. /\ g = [i \in 1..(n - 1) |-> g[i]] /\ l = [i \in 1..(n - 1) |-> l[i]]
      /\ \A i \in 1..(n - 1) : /\ g[i] = Positive(Moves(x)[i])
                              /\ l[i] = Positive(-Moves(x)[i])
  BY DEF Gains, Losses
<1> HIDE DEF y, g, l
<1>9. \A i \in 1..(n - 1) : g[i] \in Int /\ l[i] \in Int
  <2> SUFFICES ASSUME NEW i \in 1..(n - 1) PROVE g[i] \in Int /\ l[i] \in Int
    OBVIOUS
  <2>1. PICK u \in Int, v \in Int : Moves(x)[i] = u - v
    BY <1>3
  <2>2. PICK m \in Int : Moves(x)[i] = m /\ -m \in Int
    BY <2>1
  <2> QED
    BY <1>5, <1>8, <2>2
<1>10. g \in Seq(Int) /\ Len(g) = n - 1 /\ l \in Seq(Int) /\ Len(l) = n - 1
  BY <1>1, <1>8, <1>9
<1>11. ASSUME NEW i \in 1..n
       PROVE  /\ Positive(Moves(y)[i]) = Append(g, Positive(z - x[n]))[i]
              /\ Positive(-Moves(y)[i]) = Append(l, Positive(x[n] - z))[i]
  <2>1. CASE i = n
    <3>1. Moves(y)[i] = z - x[n] /\ -Moves(y)[i] = x[n] - z
      BY <1>4, <1>6, <2>1
    <3> QED
      BY <1>10, <2>1, <3>1
  <2>2. CASE i # n
    <3>1. i \in 1..(n - 1)
      BY <1>1, <2>2
    <3>2. Moves(y)[i] = Moves(x)[i]
      BY <1>3, <3>1
    <3> QED
      BY <1>8, <1>10, <3>1, <3>2
  <2> QED
    BY <2>1, <2>2
<1>12. Gains(y) = Append(g, Positive(z - x[n])) /\ Losses(y) = Append(l, Positive(x[n] - z))
  <2>1. /\ Append(g, Positive(z - x[n])) = [i \in 1..n |-> Append(g, Positive(z - x[n]))[i]]
        /\ Append(l, Positive(x[n] - z)) = [i \in 1..n |-> Append(l, Positive(x[n] - z))[i]]
    BY <1>1, <1>10
  <2> QED
    BY <1>7, <1>11, <2>1
<1> QED
  BY <1>10, <1>12 DEF y, g, l

\* What the engines keep once they saw a price.
RSIState == [engine : {"rsi"}, last : Int, gain : Int, loss : Int, count : Nat]
EMAState == [engine : {"ema"}, fast : Int, slow : Int, diff : Int]

\* The state of an engine has its shape and is that of the prices x.
EngineInv(config, st, x) ==
    /\ MatchesPrices(config, st, x)
    /\ x # <<>> /\ ~Refused(config) =>
         IF config.type = "rsi" THEN st \in RSIState
         ELSE st \in EMAState /\ st.diff = st.fast - st.slow

\* The parameters are numbers an engine can be built from.
ConfigOK(config) ==
    \/ config.type = "ema_cross" /\ config.fast \in Int /\ config.slow \in Int
    \/ config.type = "rsi" /\ config.period \in Nat \ {0}

\* The step of the crossing engine.
LEMMA EMAMatches ==
    ASSUME NEW config, config.type = "ema_cross", config.fast \in Int, config.slow \in Int,
           ~Refused(config), NEW x \in Seq(Int), NEW z \in Int, NEW st,
           EngineInv(config, st, x), st # NoState => StepIsExact(config, st, z)
    PROVE  EngineInv(config, EvaluateEMA(config, st, z).state, Append(x, z))
<1>1. PICK f \in Nat \ {0}, s \in Nat \ {0} : f = config.fast + 1 /\ s = config.slow + 1
  BY DEF Refused
<1>2. config.type # "rsi"
  OBVIOUS
<1>3. Append(x, z) # <<>>
  <2>1. Len(Append(x, z)) = Len(x) + 1 /\ Len(<<>>) = 0 /\ Len(x) \in Nat
    OBVIOUS
  <2> QED
    BY <2>1
<1> DEFINE next == EvaluateEMA(config, st, z).state
<1>4. CASE x = <<>>
  <2>1. st = NoState
    BY <1>4 DEF EngineInv, MatchesPrices
  <2>2. next = [engine |-> "ema", fast |-> z, slow |-> z, diff |-> 0]
    BY <2>1 DEF EvaluateEMA, Step
  <2>3. next \in EMAState /\ next.diff = next.fast - next.slow /\ next.fast = z /\ next.slow = z
    BY <2>2 DEF EMAState
  <2>4. Append(x, z) = <<z>>
    BY <1>4
  <2> HIDE DEF next
  <2>5. IsMean(next.fast, Append(x, z), 2, config.fast + 1)
    BY <1>1, <2>3, <2>4, MeanOfOne
  <2>6. IsMean(next.slow, Append(x, z), 2, config.slow + 1)
    BY <1>1, <2>3, <2>4, MeanOfOne
  <2>7. MatchesPrices(config, next, Append(x, z))
    BY <1>2, <1>3, <2>5, <2>6 DEF MatchesPrices
  <2> QED
    BY <1>2, <2>3, <2>7 DEF EngineInv, next
<1>5. CASE x # <<>>
  <2>1. st \in EMAState /\ Len(x) > 0
    BY <1>2, <1>5 DEF EngineInv
  <2>2. st # NoState
    BY <2>1 DEF EMAState, NoState
  <2>3. IsMean(st.fast, x, 2, f) /\ IsMean(st.slow, x, 2, s)
    BY <1>1, <1>2, <1>5 DEF EngineInv, MatchesPrices
  <2>4. /\ (2 * z + (f - 2) * st.fast) % f = 0
        /\ (2 * z + (s - 2) * st.slow) % s = 0
    BY <1>1, <1>2, <2>2 DEF StepIsExact
  <2>5. st.fast \in Int /\ st.slow \in Int /\ 2 \in Int
    BY <2>1 DEF EMAState
  <2>6. Smooth(st.fast, z, 2, f) \in Int /\ IsMean(Smooth(st.fast, z, 2, f), Append(x, z), 2, f)
    BY <2>1, <2>3, <2>4, <2>5, SmoothedMean, Zenon
  <2>7. Smooth(st.slow, z, 2, s) \in Int /\ IsMean(Smooth(st.slow, z, 2, s), Append(x, z), 2, s)
    BY <2>1, <2>3, <2>4, <2>5, SmoothedMean, Zenon
  <2>8. next = [engine |-> "ema", fast |-> Smooth(st.fast, z, 2, f),
                slow |-> Smooth(st.slow, z, 2, s),
                diff |-> Smooth(st.fast, z, 2, f) - Smooth(st.slow, z, 2, s)]
    BY <1>1, <2>2 DEF EvaluateEMA, Step, Ema
  <2>9. /\ next \in EMAState /\ next.diff = next.fast - next.slow
        /\ next.fast = Smooth(st.fast, z, 2, f) /\ next.slow = Smooth(st.slow, z, 2, s)
    BY <2>6, <2>7, <2>8 DEF EMAState
  <2> HIDE DEF next
  <2>10. MatchesPrices(config, next, Append(x, z))
    BY <1>1, <1>2, <1>3, <2>6, <2>7, <2>9 DEF MatchesPrices
  <2> QED
    BY <1>2, <2>9, <2>10 DEF EngineInv, next
<1> QED
  BY <1>4, <1>5

\* The step of the strength engine.
LEMMA RSIMatches ==
    ASSUME NEW config, config.type = "rsi", config.period \in Nat \ {0},
           NEW x \in Seq(Int), NEW z \in Int, NEW st,
           EngineInv(config, st, x), st # NoState => StepIsExact(config, st, z)
    PROVE  EngineInv(config, EvaluateRSI(config, st, z).state, Append(x, z))
<1>1. PICK p \in Nat \ {0} : p = config.period
  OBVIOUS
<1>2. ~Refused(config)
  BY DEF Refused
<1> DEFINE y == Append(x, z)
<1>3. Len(y) = Len(x) + 1 /\ y[Len(y)] = z /\ Len(x) \in Nat /\ y # <<>>
  <2>1. Len(y) = Len(x) + 1 /\ y[Len(y)] = z /\ Len(<<>>) = 0 /\ Len(x) \in Nat
    OBVIOUS
  <2> QED
    BY <2>1
<1> DEFINE next == EvaluateRSI(config, st, z).state
<1>4. CASE x = <<>>
  <2>1. st = NoState
    BY <1>4 DEF EngineInv, MatchesPrices
  <2>2. next = [engine |-> "rsi", last |-> z, gain |-> 0, loss |-> 0, count |-> 0]
    BY <2>1 DEF EvaluateRSI, Step
  <2>3. /\ next \in RSIState /\ next.last = z /\ next.gain = 0 /\ next.loss = 0
        /\ next.count = 0
    BY <2>2 DEF RSIState
  <2>4. Len(y) = 1 /\ Len(y) - 1 = 0 /\ ~ (Len(y) > 1)
    BY <1>3, <1>4
  <2> HIDE DEF next, y
  <2>5. MatchesPrices(config, next, y)
    BY <1>2, <1>3, <2>3, <2>4 DEF MatchesPrices
  <2> QED
    BY <2>3, <2>5 DEF EngineInv, next, y
<1>5. CASE x # <<>>
  <2>1. st \in RSIState /\ Len(x) > 0
    BY <1>2, <1>5 DEF EngineInv
  <2>2. st # NoState
    BY <2>1 DEF RSIState, NoState
  <2>3. st.last = x[Len(x)] /\ st.count = Len(x) - 1
    BY <1>2, <1>5 DEF EngineInv, MatchesPrices
  <2>4. Len(x) > 1 => IsMean(st.gain, Gains(x), 1, p) /\ IsMean(st.loss, Losses(x), 1, p)
    BY <1>1, <1>2, <1>5 DEF EngineInv, MatchesPrices
  <2>5. st.last \in Int /\ st.gain \in Int /\ st.loss \in Int /\ st.count \in Nat /\ 1 \in Int
    BY <2>1 DEF RSIState
  <2> DEFINE gain == Positive(z - st.last)
             loss == Positive(st.last - z)
             Average(a, m) == IF st.count = 0 THEN m ELSE Smooth(a, m, 1, p)
             g == Average(st.gain, gain)
             l == Average(st.loss, loss)
  <2>6. next = [engine |-> "rsi", last |-> z, gain |-> g, loss |-> l, count |-> st.count + 1]
    BY <1>1, <2>2 DEF EvaluateRSI, Step
  <2>7. gain \in Int /\ loss \in Int
    BY <2>5 DEF Positive
  <2>8. /\ Gains(y) = Append(Gains(x), gain) /\ Gains(x) \in Seq(Int)
        /\ Losses(y) = Append(Losses(x), loss) /\ Losses(x) \in Seq(Int)
        /\ Len(Gains(x)) = Len(x) - 1 /\ Len(Losses(x)) = Len(x) - 1
    BY <2>1, <2>3, MovesGrow
  <2>9. st.count > 0 => /\ (1 * gain + (p - 1) * st.gain) % p = 0
                       /\ (1 * loss + (p - 1) * st.loss) % p = 0
    BY <1>1, <2>2 DEF StepIsExact
  <2> HIDE DEF gain, loss
  <2>10. /\ g \in Int /\ IsMean(g, Gains(y), 1, p)
         /\ l \in Int /\ IsMean(l, Losses(y), 1, p)
    <3>1. CASE st.count = 0
      <4>1. Len(Gains(x)) = 0 /\ Len(Losses(x)) = 0
        BY <2>3, <2>8, <3>1
      <4>2. Gains(x) = <<>> /\ Losses(x) = <<>>
        BY <2>8, <4>1
      <4>3. Gains(y) = <<gain>> /\ Losses(y) = <<loss>>
        BY <2>8, <4>2
      <4>4. g = gain /\ l = loss
        BY <3>1
      <4>5. IsMean(gain, <<gain>>, 1, p) /\ IsMean(loss, <<loss>>, 1, p)
        BY <2>7, MeanOfOne
      <4> QED
        BY <2>7, <4>3, <4>4, <4>5
    <3>2. CASE st.count # 0
      <4>1. st.count > 0 /\ Len(x) > 1 /\ Len(Gains(x)) > 0 /\ Len(Losses(x)) > 0
        BY <2>3, <2>5, <2>8, <3>2
      <4>2. /\ (1 * gain + (p - 1) * st.gain) % p = 0 /\ IsMean(st.gain, Gains(x), 1, p)
            /\ (1 * loss + (p - 1) * st.loss) % p = 0 /\ IsMean(st.loss, Losses(x), 1, p)
        BY <2>4, <2>9, <4>1
      <4>3. /\ Smooth(st.gain, gain, 1, p) \in Int
            /\ IsMean(Smooth(st.gain, gain, 1, p), Append(Gains(x), gain), 1, p)
        BY <2>5, <2>7, <2>8, <4>1, <4>2, SmoothedMean, Zenon
      <4>4. /\ Smooth(st.loss, loss, 1, p) \in Int
            /\ IsMean(Smooth(st.loss, loss, 1, p), Append(Losses(x), loss), 1, p)
        BY <2>5, <2>7, <2>8, <4>1, <4>2, SmoothedMean, Zenon
      <4>5. g = Smooth(st.gain, gain, 1, p) /\ l = Smooth(st.loss, loss, 1, p)
        BY <3>2
      <4> QED
        BY <2>8, <4>3, <4>4, <4>5
    <3> QED
      BY <3>1, <3>2
  <2>11. /\ next \in RSIState /\ next.last = z /\ next.gain = g /\ next.loss = l
         /\ next.count = Len(y) - 1 /\ Len(y) > 1
    <3> HIDE DEF g, l
    <3> QED
      BY <1>3, <2>1, <2>3, <2>5, <2>6, <2>10 DEF RSIState
  <2> HIDE DEF next, y, g, l
  <2>12. MatchesPrices(config, next, y)
    BY <1>1, <1>2, <1>3, <2>10, <2>11 DEF MatchesPrices
  <2> QED
    BY <2>11, <2>12 DEF EngineInv, next, y
<1> QED
  BY <1>4, <1>5

\* Whatever its configuration, an engine that is given a price more goes from the state of
\* the prices before to the state of them all: Go's running averages (ema_strategy.go,
\* rsi_strategy.go) are the weighted means of everything they saw.
THEOREM EvaluateMatches ==
    ASSUME NEW config, ConfigOK(config), NEW x \in Seq(Int), NEW z \in Int, NEW st,
           EngineInv(config, st, x), st # NoState => StepIsExact(config, st, z)
    PROVE  EngineInv(config, Evaluate(config, st, z).state, Append(x, z))
<1>1. CASE Refused(config)
  <2>1. Evaluate(config, st, z).state = st
    BY <1>1 DEF Evaluate, Step, Refused
  <2>2. MatchesPrices(config, st, x) => st = NoState
    BY <1>1 DEF MatchesPrices, Refused
  <2>3. MatchesPrices(config, NoState, Append(x, z))
    BY <1>1 DEF MatchesPrices, Refused
  <2> QED
    BY <1>1, <2>1, <2>2, <2>3 DEF EngineInv
<1>2. CASE config.type = "rsi" /\ config.period \in Nat \ {0}
  <2>1. Evaluate(config, st, z) = EvaluateRSI(config, st, z)
    BY <1>2 DEF Evaluate, Refused
  <2> QED
    BY <1>2, <2>1, RSIMatches
<1>3. CASE /\ config.type = "ema_cross" /\ config.fast \in Int /\ config.slow \in Int
           /\ ~Refused(config)
  <2>1. Evaluate(config, st, z) = EvaluateEMA(config, st, z)
    BY <1>3 DEF Evaluate
  <2> QED
    BY <1>3, <2>1, EMAMatches
<1> QED
  BY <1>1, <1>2, <1>3 DEF ConfigOK

\* Denominators are not zero.
LEMMA PowerIsPositive ==
    ASSUME NEW b \in Nat \ {0}, NEW n \in Nat
    PROVE  Power(b, n) \in Nat \ {0}
<1> DEFINE S == {i \in Nat : Power(b, i) \in Nat \ {0}}
<1>1. Power(b, 0) = 1 /\ \A i \in Nat : Power(b, i + 1) = b * Power(b, i)
  BY PowerFacts
<1>2. 0 \in S
  BY <1>1
<1>3. ASSUME NEW i \in Nat, i \in S PROVE i + 1 \in S
  <2>1. PICK p \in Nat \ {0} : p = Power(b, i)
    BY <1>3
  <2>2. b * p \in Nat \ {0}
    OBVIOUS
  <2> QED
    BY <1>1, <2>1, <2>2
<1> HIDE DEF S
<1>4. n \in S
  BY <1>2, <1>3, Induction
<1> QED
  BY <1>4 DEF S

\* The averages of the prices meet where the state's difference is zero.
LEMMA MeetsAtZero ==
    ASSUME NEW config, config.type = "ema_cross", config.fast \in Int, config.slow \in Int,
           ~Refused(config), NEW x \in Seq(Int), x # <<>>, NEW st, EngineInv(config, st, x)
    PROVE  AveragesMeet(config, x) <=> st.diff = 0
<1>1. PICK f \in Nat \ {0}, s \in Nat \ {0} : f = config.fast + 1 /\ s = config.slow + 1
  BY DEF Refused
<1>2. config.type # "rsi" /\ Len(x) - 1 \in Nat
  OBVIOUS
<1>3. /\ IsMean(st.fast, x, 2, f) /\ IsMean(st.slow, x, 2, s)
      /\ st \in EMAState /\ st.diff = st.fast - st.slow
  BY <1>1, <1>2 DEF EngineInv, MatchesPrices
<1>4. PICK a \in Int, b \in Int : a = st.fast /\ b = st.slow /\ st.diff = a - b
  BY <1>3 DEF EMAState
<1>5. PICK p \in Nat \ {0}, q \in Nat \ {0} :
        p = Power(f, Len(x) - 1) /\ q = Power(s, Len(x) - 1)
  BY <1>2, PowerIsPositive
<1>6. AveragesMeet(config, x) <=> (a * p) * q = (b * q) * p
  BY <1>1, <1>3, <1>4, <1>5 DEF AveragesMeet, IsMean
<1>7. (a * p) * q = a * (p * q) /\ (b * q) * p = b * (p * q)
  OBVIOUS
<1>8. PICK r \in Nat \ {0} : r = p * q
  OBVIOUS
<1>9. a * r = b * r <=> a = b
  BY ONLY a \in Int, b \in Int, r \in Nat \ {0}
<1>10. (a * p) * q = a * r /\ (b * q) * p = b * r
  BY <1>7, <1>8
<1>11. st.diff = 0 <=> a = b
  BY <1>4
<1> QED
  BY <1>6, <1>9, <1>10, <1>11

\* An EMA engine buys only as the averages come to differ upwards from not doing so, and
\* sells the other way; while it holds they keep their sides or meet.
LEMMA EMASides ==
    ASSUME NEW config, config.type = "ema_cross", config.fast \in Int, config.slow \in Int,
           ~Refused(config), NEW z \in Int, NEW st \in EMAState
    PROVE  LET step == Evaluate(config, st, z)
           IN /\ step.action = "buy" => st.diff <= 0 /\ step.state.diff > 0
              /\ step.action = "sell" => st.diff >= 0 /\ step.state.diff < 0
              /\ step.action = "hold" /\ st.diff > 0 => step.state.diff >= 0
              /\ step.action = "hold" /\ st.diff < 0 => step.state.diff <= 0
<1>1. Evaluate(config, st, z) = EvaluateEMA(config, st, z)
  BY DEF Evaluate
<1>2. st # NoState /\ st.fast \in Int /\ st.slow \in Int /\ st.diff \in Int
  BY DEF EMAState, NoState
<1> DEFINE f == Ema(st.fast, z, config.fast)
           s == Ema(st.slow, z, config.slow)
           d == f - s
<1>3. d \in Int
  <2>1. f \in Int /\ s \in Int
    BY <1>2 DEF Ema, Smooth, Refused
  <2> HIDE DEF f, s
  <2> QED
    BY <2>1
<1>4. /\ EvaluateEMA(config, st, z).state.diff = d
      /\ EvaluateEMA(config, st, z).action = CASE st.diff <= 0 /\ d > 0 -> "buy"
                                                [] st.diff >= 0 /\ d < 0 -> "sell"
                                                [] OTHER                 -> "hold"
  BY <1>2 DEF EvaluateEMA, Step
<1> HIDE DEF d
<1> QED
  BY <1>1, <1>2, <1>3, <1>4

-----------------------------------------------------------------------------
(* The engines of the service.                                             *)

\* The next division of an average leaves nothing: what the model takes from float64, and
\* what the prices of the checked instance are chosen for.
AveragesAreExact ==
    spc = "evaluate" =>
        \A id \in batch :
            (\A other \in batch : id <= other) /\ runtimeState[id] # NoState
            => StepIsExact(strategies[id].config, runtimeState[id], Price[Event])

\* What every strategy's engine holds, and that one not yet created was given nothing.
MatchInv ==
    /\ \A id \in Known : EngineInv(strategies[id].config, runtimeState[id], Prices(fed[id]))
    /\ \A id \in IDs \ Known : fed[id] = <<>>

\* The prices of events.
LEMMA PricesFacts ==
    ASSUME NEW es \in Seq(Events)
    PROVE  /\ Prices(es) \in Seq(Int) /\ Len(Prices(es)) = Len(es)
           /\ \A e \in Events : Prices(Append(es, e)) = Append(Prices(es), Price[e])
<1>1. \A e \in Events : Price[e] \in Int
  BY EventsAssumption
<1>2. Len(es) \in Nat /\ \A i \in 1..Len(es) : es[i] \in Events
  OBVIOUS
<1>3. Prices(es) \in Seq(Int) /\ Len(Prices(es)) = Len(es)
  BY <1>1, <1>2 DEF Prices
<1>4. ASSUME NEW e \in Events PROVE Prices(Append(es, e)) = Append(Prices(es), Price[e])
  <2> DEFINE p == Prices(Append(es, e))
             q == Append(Prices(es), Price[e])
             n == Len(es) + 1
  <2>1. /\ Len(Append(es, e)) = n /\ Append(es, e)[n] = e
        /\ \A i \in 1..Len(es) : Append(es, e)[i] = es[i]
    BY <1>2
  <2>2. p = [i \in 1..n |-> p[i]] /\ \A i \in 1..n : p[i] = Price[Append(es, e)[i]]
    BY <2>1 DEF Prices
  <2>3. q = [i \in 1..n |-> q[i]] /\ q[n] = Price[e] /\ \A i \in 1..Len(es) : q[i] = Prices(es)[i]
    BY <1>1, <1>3
  <2>4. \A i \in 1..Len(es) : Prices(es)[i] = Price[es[i]]
    BY DEF Prices
  <2> HIDE DEF p, q
  <2>5. ASSUME NEW i \in 1..n PROVE p[i] = q[i]
    <3>1. CASE i = n
      BY <2>1, <2>2, <2>3, <3>1
    <3>2. CASE i # n
      <4>1. i \in 1..Len(es)
        BY <1>2, <3>2
      <4> QED
        BY <2>1, <2>2, <2>3, <2>4, <4>1
    <3> QED
      BY <3>1, <3>2
  <2>6. p = q
    BY <2>2, <2>3, <2>5
  <2> QED
    BY <2>6 DEF p, q
<1> QED
  BY <1>3, <1>4

\* What the evaluation of one strategy does, with what its engine answers.
LEMMA EvaluateAnswer ==
    ASSUME Typing, EvaluateNext
    PROVE  \E id, step :
             /\ id \in batch /\ id \in Known /\ id \in IDs /\ \A other \in batch : id <= other
             /\ step = Evaluate(strategies[id].config, runtimeState[id], Price[Event])
             /\ runtimeState'[id] = step.state
             /\ \A k \in IDs : k # id => /\ runtimeState'[k] = runtimeState[k]
                                         /\ fed'[k] = fed[k]
             /\ fed'[id] = Append(fed[id], Event) /\ fed[id] \in Seq(Events)
             /\ Event \in Events
             /\ signals' = IF step.action = "hold" THEN signals
                           ELSE Append(signals, [strategy |-> id, offset |-> taken,
                                                 action |-> step.action, run |-> restarts,
                                                 after |-> Len(fed[id]) + 1])
             /\ UNCHANGED <<strategies, restarts>>
<1> PICK id \in batch :
      /\ \A other \in batch : id <= other
      /\ LET config == strategies[id].config
             step == Evaluate(config, runtimeState[id], Price[Event])
         IN /\ runtimeState' = [runtimeState EXCEPT ![id] = step.state]
            /\ fed' = [fed EXCEPT ![id] = Append(@, Event)]
            /\ signals' = IF step.action = "hold" THEN signals
                          ELSE Append(signals, [strategy |-> id, offset |-> taken,
                                                action |-> step.action, run |-> restarts,
                                                after |-> Len(fed[id]) + 1])
  BY DEF EvaluateNext
<1> DEFINE step == Evaluate(strategies[id].config, runtimeState[id], Price[Event])
<1>1. id \in Known /\ id \in IDs /\ fed[id] \in Seq(Events) /\ Event \in Events
  BY TypeFacts DEF EvaluateNext
<1>2. /\ runtimeState' = [runtimeState EXCEPT ![id] = step.state]
      /\ fed' = [fed EXCEPT ![id] = Append(@, Event)]
      /\ signals' = IF step.action = "hold" THEN signals
                    ELSE Append(signals, [strategy |-> id, offset |-> taken,
                                          action |-> step.action, run |-> restarts,
                                          after |-> Len(fed[id]) + 1])
  OBVIOUS
<1> HIDE DEF step
<1>3. /\ runtimeState'[id] = step.state /\ fed'[id] = Append(fed[id], Event)
      /\ \A k \in IDs : k # id => runtimeState'[k] = runtimeState[k] /\ fed'[k] = fed[k]
  BY <1>1, <1>2 DEF Typing, Shapes
<1>4. UNCHANGED <<strategies, restarts>>
  BY DEF EvaluateNext
<1> QED
  BY <1>1, <1>2, <1>3, <1>4 DEF step

LEMMA NextMatchInv ==
    AveragesAreExact /\ Typing /\ Typing' /\ MatchInv /\ [Next]_vars => MatchInv'
<1> SUFFICES ASSUME AveragesAreExact, Typing, Typing', MatchInv, [Next]_vars
             PROVE  MatchInv'
  OBVIOUS
\* Steps that run no engine and create nothing.
<1>1. ASSUME UNCHANGED <<fed, runtimeState>>, Known' = Known,
             \A id \in Known : strategies'[id].config = strategies[id].config
      PROVE  MatchInv'
  BY <1>1 DEF MatchInv, Prices
<1>2. ASSUME NEW config \in Configs, NEW active \in BOOLEAN, CreateStrategy(config, active)
      PROVE  MatchInv'
  <2> DEFINE new == Len(strategies) + 1
  <2>1. /\ strategies' = Append(strategies, [config |-> config, active |-> active])
        /\ Len(strategies) < MaxStrategies /\ UNCHANGED <<fed, runtimeState>>
    BY <1>2 DEF CreateStrategy, engineVars
  <2>2. Len(strategies) \in Nat /\ strategies \in Seq(Strategy)
    BY TypeFacts
  <2>3. /\ Len(strategies') = new /\ strategies'[new].config = config
        /\ \A id \in 1..Len(strategies) : strategies'[id] = strategies[id]
    BY <2>1, <2>2
  <2>4. /\ Known' = Known \cup {new} /\ new \in IDs \ Known
        /\ \A id \in Known : strategies'[id] = strategies[id]
    BY <2>1, <2>2, <2>3, StrategyBoundsAssumption DEF Known, IDs
  <2>5. fed[new] = <<>> /\ runtimeState[new] = NoState
    BY <2>4 DEF MatchInv, Typing, TypeOK
  <2>6. Prices(<<>>) = <<>>
    BY DEF Prices
  <2> HIDE DEF new
  <2>7. EngineInv(strategies'[new].config, runtimeState'[new], Prices(fed'[new]))
    BY <2>1, <2>5, <2>6 DEF EngineInv, MatchesPrices
  <2>8. \A id \in Known :
          EngineInv(strategies'[id].config, runtimeState'[id], Prices(fed'[id]))
    BY <2>1, <2>4 DEF MatchInv
  <2>9. \A id \in IDs \ Known' : fed'[id] = <<>>
    BY <2>1, <2>4 DEF MatchInv
  <2>10. \A id \in Known' :
          EngineInv(strategies'[id].config, runtimeState'[id], Prices(fed'[id]))
    BY <2>4, <2>7, <2>8
  <2> QED
    BY <2>9, <2>10 DEF MatchInv, Prices
<1>3. ASSUME NEW id \in Known, NEW active \in BOOLEAN, Toggle(id, active)
      PROVE  MatchInv'
  <2>1. /\ strategies' = [strategies EXCEPT ![id].active = active]
        /\ UNCHANGED <<fed, runtimeState>>
    BY <1>3 DEF Toggle, engineVars
  <2>2. /\ Len(strategies') = Len(strategies)
        /\ \A k \in Known : strategies'[k].config = strategies[k].config
    BY <2>1, TypeFacts DEF Known, Strategy
  <2> QED
    BY <1>1, <2>1, <2>2 DEF Known
<1>4. CASE FetchEvent \/ HandleEvent \/ CommitEvent \/ FetchEventFails \/ UNCHANGED vars
  <2>1. UNCHANGED <<fed, runtimeState, strategies>>
    BY <1>4 DEF FetchEvent, HandleEvent, Handle, CommitEvent, FetchEventFails, vars, engineVars
  <2> QED
    BY <1>1, <2>1 DEF Known
<1>5. CASE EvaluateNext
  <2> PICK id, step :
        /\ id \in batch /\ id \in Known /\ id \in IDs /\ \A other \in batch : id <= other
        /\ step = Evaluate(strategies[id].config, runtimeState[id], Price[Event])
        /\ runtimeState'[id] = step.state
        /\ \A k \in IDs : k # id => runtimeState'[k] = runtimeState[k] /\ fed'[k] = fed[k]
        /\ fed'[id] = Append(fed[id], Event) /\ fed[id] \in Seq(Events)
        /\ Event \in Events
        /\ UNCHANGED <<strategies, restarts>>
    BY <1>5, EvaluateAnswer
  <2> DEFINE config == strategies[id].config
             st == runtimeState[id]
             x == Prices(fed[id])
             z == Price[Event]
  <2>1. ConfigOK(config)
    BY TypeFacts, ConfigsAssumption DEF Strategy, ConfigOK
  <2>2. EngineInv(config, st, x)
    BY DEF MatchInv
  <2>3. st # NoState => StepIsExact(config, st, z)
    BY <1>5 DEF AveragesAreExact, EvaluateNext
  <2>4. x \in Seq(Int) /\ z \in Int /\ Prices(fed'[id]) = Append(x, z)
    BY PricesFacts, EventsAssumption
  <2>5. EngineInv(config, step.state, Append(x, z))
    <3> HIDE DEF config, st, x, z
    <3>1. step = Evaluate(config, st, z)
      BY DEF config, st, z
    <3> QED
      BY <2>1, <2>2, <2>3, <2>4, <3>1, EvaluateMatches
  <2>6. EngineInv(strategies'[id].config, runtimeState'[id], Prices(fed'[id]))
    BY <2>4, <2>5
  <2>7. Known' = Known /\ Known \subseteq IDs
    BY TypeFacts DEF Known
  <2>8. \A k \in Known' : EngineInv(strategies'[k].config, runtimeState'[k], Prices(fed'[k]))
    BY <2>6, <2>7 DEF MatchInv
  <2>9. \A k \in IDs \ Known' : fed'[k] = <<>>
    BY <2>7 DEF MatchInv
  <2> QED
    BY <2>8, <2>9 DEF MatchInv, Prices
<1>6. CASE Restart
  <2>1. Known' = {} /\ fed' = [id \in IDs |-> <<>>]
    BY <1>6 DEF Restart, Known
  <2> QED
    BY <2>1 DEF MatchInv
<1> QED
  BY <1>2, <1>3, <1>4, <1>5, <1>6 DEF Next, Consumer

\* No event is evaluated twice for a strategy, and what its engine holds are the weighted
\* means of the prices of just the events evaluated, however they were repeated and
\* whenever the strategy was toggled, where the divisions leave nothing (service.go,
\* ema_strategy.go, rsi_strategy.go).
THEOREM StatesMatch == Spec /\ []AveragesAreExact => []StateMatchesPrices
<1>1. Init => MatchInv
  BY DEF Init, MatchInv, Known
<1>2. Typing /\ FedOnce /\ MatchInv => StateMatchesPrices
  <2> SUFFICES ASSUME Typing, FedOnce, MatchInv, NEW id \in Known
               PROVE  /\ \A i, j \in 1..Len(fed[id]) : fed[id][i] = fed[id][j] => i = j
                      /\ MatchesPrices(strategies[id].config, runtimeState[id], Prices(fed[id]))
    BY DEF StateMatchesPrices
  <2>1. id \in IDs /\ fed[id] \in Seq(Events)
    BY TypeFacts
  <2>2. 1..Len(fed[id]) = DOMAIN fed[id]
    BY <2>1
  <2>3. \A i, j \in 1..Len(fed[id]) : fed[id][i] = fed[id][j] => i = j
    BY <2>1, <2>2 DEF FedOnce
  <2> QED
    BY <2>3 DEF MatchInv, EngineInv
<1>3. Init => FedOnce
  BY DEF Init, FedOnce
<1> QED
  BY <1>1, <1>2, <1>3, NextMatchInv, NextFedOnce, TypeCorrect, PTL DEF Spec

-----------------------------------------------------------------------------
(* How signals alternate.                                                  *)

\* A signal of this run.
Current(i) == signals[i].run = restarts

\* The last signal of its strategy in this run.
Latest(i) ==
    /\ Current(i)
    /\ \A k \in (i + 1)..Len(signals) : ~ (Current(k) /\ signals[k].strategy = signals[i].strategy)

\* The averages met later than at the first-th of the events es and no later than at the
\* last-th.
Met(config, first, last, es) ==
    \E n \in (first + 1)..last : AveragesMeet(config, Prices(SubSeq(es, 1, n)))

\* They are on the side an action announced.
OnSide(action, st) == IF action = "buy" THEN st.diff > 0 ELSE st.diff < 0

\* Since signal a the averages stayed on its side or met.
Held(a, config, es, st) ==
    config.type = "ema_cross" =>
        /\ ~Refused(config)
        /\ Met(config, a.after, Len(es), es) \/ OnSide(a.action, st)

\* Signals a and b announce opposite sides, or the averages met between them.
Alternate(a, b, config, es) ==
    config.type = "ema_cross" /\ a.action = b.action => Met(config, a.after, b.after - 1, es)

\* Signals i and j of this run follow one another.
Follow(i, j) ==
    /\ i < j /\ Current(i) /\ Current(j) /\ signals[i].strategy = signals[j].strategy
    /\ \A k \in (i + 1)..(j - 1) : ~ (Current(k) /\ signals[k].strategy = signals[i].strategy)

\* Earlier signals are of earlier runs or of strategies there are, and the last one of each
\* strategy holds.
SideInv ==
    \A i \in 1..Len(signals) :
        /\ signals[i].run <= restarts
        /\ Current(i) => /\ signals[i].strategy \in Known
                         /\ signals[i].after <= Len(fed[signals[i].strategy])
        /\ Latest(i) => Held(signals[i], strategies[signals[i].strategy].config,
                             fed[signals[i].strategy], runtimeState[signals[i].strategy])

\* SignalsAlternate, for the signals that follow one another.
AlternateInv ==
    \A i, j \in 1..Len(signals) :
        Follow(i, j) => Alternate(signals[i], signals[j],
                                  strategies[signals[i].strategy].config,
                                  fed[signals[i].strategy])

\* The facts of the type invariant about signals.
LEMMA SignalFacts ==
    ASSUME Typing
    PROVE  /\ signals \in Seq(Signal) /\ Len(signals) \in Nat /\ restarts \in Nat
           /\ \A i \in 1..Len(signals) :
                /\ signals[i].strategy \in IDs /\ signals[i].action \in {"buy", "sell"}
                /\ signals[i].run \in Nat /\ signals[i].after \in Nat \ {0}
<1>1. signals \in Seq(Signal) /\ restarts \in Nat
  BY StrategyBoundsAssumption DEF Typing, Shapes, TypeOK
<1>2. \A s \in Signal : /\ s.strategy \in IDs /\ s.action \in {"buy", "sell"}
                        /\ s.run \in Nat /\ s.after \in Nat \ {0}
  BY StrategyBoundsAssumption DEF Signal
<1> QED
  BY <1>1, <1>2

\* Steps that neither run an engine nor emit keep the sides.
LEMMA QuietSides ==
    ASSUME Typing, SideInv, AlternateInv,
           UNCHANGED <<signals, restarts, fed, runtimeState>>, Known \subseteq Known',
           \A id \in Known : strategies'[id].config = strategies[id].config
    PROVE  SideInv' /\ AlternateInv'
<1>1. \A i \in 1..Len(signals) : (Latest(i) => Current(i))
                                 /\ (Current(i) => signals[i].strategy \in Known)
  BY DEF Latest, SideInv
<1>2. \A i : Current(i)' = Current(i) /\ Latest(i)' = Latest(i)
  BY DEF Current, Latest
<1>3. \A i, j : Follow(i, j)' = Follow(i, j)
  BY DEF Current, Follow
<1>4. \A i, j : Follow(i, j) => Current(i)
  BY DEF Follow
<1>5. SideInv'
  <2> SUFFICES ASSUME NEW i \in 1..Len(signals)
               PROVE
                 /\ signals[i].run <= restarts
                 /\ Current(i) => /\ signals[i].strategy \in Known'
                                  /\ signals[i].after <= Len(fed[signals[i].strategy])
                 /\ Latest(i) => Held(signals[i], strategies'[signals[i].strategy].config,
                                     fed[signals[i].strategy], runtimeState[signals[i].strategy])
    BY <1>2 DEF SideInv
  <2> QED
    BY <1>1 DEF SideInv
<1>6. AlternateInv'
  <2> SUFFICES ASSUME NEW i \in 1..Len(signals), NEW j \in 1..Len(signals), Follow(i, j)
               PROVE  Alternate(signals[i], signals[j], strategies'[signals[i].strategy].config,
                                fed[signals[i].strategy])
    BY <1>3 DEF AlternateInv
  <2> QED
    BY <1>1, <1>4 DEF AlternateInv
<1> QED
  BY <1>5, <1>6

\* A further event leaves what the averages did before it.
LEMMA MetKept ==
    ASSUME NEW es \in Seq(Events), NEW e \in Events, NEW last \in Nat, last <= Len(es),
           NEW first \in Nat, NEW config
    PROVE  Met(config, first, last, Append(es, e)) <=> Met(config, first, last, es)
<1>1. \A n \in (first + 1)..last : SubSeq(Append(es, e), 1, n) = SubSeq(es, 1, n)
  <2> TAKE n \in (first + 1)..last
  <2>1. n \in Nat /\ n <= Len(es)
    OBVIOUS
  <2>2. \A i \in 1..n : Append(es, e)[i] = es[i]
    BY <2>1
  <2> QED
    BY <2>1, <2>2
<1> QED
  BY <1>1 DEF Met

\* Averages on one side stay there or meet, unless a signal says that they changed sides.
LEMMA SidesChange ==
    ASSUME NEW config, ConfigOK(config), config.type = "ema_cross",
           NEW x \in Seq(Int), NEW z \in Int, NEW st, EngineInv(config, st, x)
    PROVE  LET step == Evaluate(config, st, z)
           IN /\ step.action # "hold" =>
                   /\ ~Refused(config) /\ step.action \in {"buy", "sell"}
                   /\ ~ OnSide(step.action, st) /\ OnSide(step.action, step.state)
              /\ step.action = "hold" /\ x # <<>> /\ ~Refused(config) =>
                   \A action \in {"buy", "sell"} :
                      OnSide(action, st) => OnSide(action, step.state) \/ step.state.diff = 0
<1>1. config.fast \in Int /\ config.slow \in Int
  BY DEF ConfigOK
<1>2. CASE Refused(config)
  BY <1>2 DEF Evaluate, Step
<1>3. CASE ~Refused(config) /\ x = <<>>
  <2>1. st = NoState
    BY <1>3 DEF EngineInv, MatchesPrices
  <2>2. Evaluate(config, st, z).action = "hold"
    BY <1>3, <2>1 DEF Evaluate, EvaluateEMA, Step
  <2> QED
    BY <1>3, <2>2
<1>4. CASE ~Refused(config) /\ x # <<>>
  <2>1. st \in EMAState
    BY <1>4 DEF EngineInv
  <2> DEFINE step == Evaluate(config, st, z)
  <2>2. /\ step.action = "buy" => st.diff <= 0 /\ step.state.diff > 0
        /\ step.action = "sell" => st.diff >= 0 /\ step.state.diff < 0
        /\ step.action = "hold" /\ st.diff > 0 => step.state.diff >= 0
        /\ step.action = "hold" /\ st.diff < 0 => step.state.diff <= 0
    BY <1>1, <1>4, <2>1, EMASides
  <2>3. Evaluate(config, st, z) = EvaluateEMA(config, st, z) /\ st # NoState
    BY <1>4, <2>1 DEF Evaluate, EMAState, NoState
  <2>4. step.action \in {"buy", "sell", "hold"}
    BY <2>3 DEF EvaluateEMA, Step
  <2>5. st.diff \in Int /\ step.state.diff \in Int
    <3>1. st.fast \in Int /\ st.slow \in Int /\ st.diff \in Int
      BY <2>1 DEF EMAState
    <3>2. step.state.diff = Ema(st.fast, z, config.fast) - Ema(st.slow, z, config.slow)
      BY <2>3 DEF EvaluateEMA, Step
    <3>3. Ema(st.fast, z, config.fast) \in Int /\ Ema(st.slow, z, config.slow) \in Int
      <4> PICK f \in Nat \ {0}, s \in Nat \ {0} : f = config.fast + 1 /\ s = config.slow + 1
        BY <1>1, <1>4 DEF Refused
      <4>1. ASSUME NEW a \in Int, NEW n \in Nat \ {0} PROVE Smooth(a, z, 2, n) \in Int
        <5>1. PICK v \in Int : v = 2 * z + (n - 2) * a
          OBVIOUS
        <5>2. v \div n \in Int
          OBVIOUS
        <5> QED
          BY <5>1, <5>2 DEF Smooth
      <4> QED
        BY <3>1, <4>1 DEF Ema
    <3> QED
      BY <3>1, <3>2, <3>3
  <2> HIDE DEF step
  <2>6. /\ step.action # "hold" => /\ ~ OnSide(step.action, st)
                                   /\ OnSide(step.action, step.state)
        /\ step.action = "hold" =>
             \A action \in {"buy", "sell"} :
                OnSide(action, st) => OnSide(action, step.state) \/ step.state.diff = 0
    BY <2>2, <2>4, <2>5 DEF OnSide
  <2> QED
    BY <1>4, <2>4, <2>6 DEF step
<1> QED
  BY <1>2, <1>3, <1>4

\* The step that runs an engine: its averages stay on their side, meet, or cross and signal.
LEMMA EvaluateSides ==
    ASSUME AveragesAreExact, Typing, Typing', MatchInv, MatchInv', SideInv, AlternateInv,
           EvaluateNext
    PROVE  SideInv' /\ AlternateInv'
<1> PICK id, step :
      /\ id \in batch /\ id \in Known /\ id \in IDs
      /\ step = Evaluate(strategies[id].config, runtimeState[id], Price[Event])
      /\ runtimeState'[id] = step.state
      /\ \A k \in IDs : k # id => runtimeState'[k] = runtimeState[k] /\ fed'[k] = fed[k]
      /\ fed'[id] = Append(fed[id], Event) /\ fed[id] \in Seq(Events)
      /\ Event \in Events
      /\ signals' = IF step.action = "hold" THEN signals
                    ELSE Append(signals, [strategy |-> id, offset |-> taken,
                                          action |-> step.action, run |-> restarts,
                                          after |-> Len(fed[id]) + 1])
      /\ UNCHANGED <<strategies, restarts>>
  BY EvaluateAnswer
<1> PICK e \in Events, new \in Nat : e = Event /\ new = Len(signals) + 1
  OBVIOUS
<1> DEFINE es == fed[id]
           config == strategies[id].config
           emitted == step.action # "hold"
           ConfigOf(k) == strategies[k].config
<1>0. \A k \in IDs : Len(fed[k]) \in Nat
  BY TypeFacts
<1>1. /\ Len(es) \in Nat /\ Len(fed'[id]) = Len(es) + 1
      /\ SubSeq(fed'[id], 1, Len(es) + 1) = fed'[id]
  OBVIOUS
<1>2. ConfigOK(config)
  BY TypeFacts, ConfigsAssumption DEF Strategy, ConfigOK
<1>3. /\ Prices(es) \in Seq(Int) /\ Price[e] \in Int /\ Len(Prices(es)) = Len(es)
      /\ Prices(fed'[id]) = Append(Prices(es), Price[e])
  BY PricesFacts, EventsAssumption
<1>4. EngineInv(config, runtimeState[id], Prices(es))
  BY DEF MatchInv
<1>5. EngineInv(config, step.state, Prices(fed'[id]))
  <2>1. id \in Known'
    BY DEF Known
  <2> QED
    BY <2>1 DEF MatchInv, Prices
<1>6. config.type = "ema_cross" =>
        /\ emitted =>
             /\ ~Refused(config) /\ step.action \in {"buy", "sell"}
             /\ ~ OnSide(step.action, runtimeState[id]) /\ OnSide(step.action, step.state)
        /\ ~emitted /\ Prices(es) # <<>> /\ ~Refused(config) =>
             \A action \in {"buy", "sell"} :
                OnSide(action, runtimeState[id])
                => OnSide(action, step.state) \/ step.state.diff = 0
  BY <1>2, <1>3, <1>4, SidesChange
\* Averages that are equal after this event met at it.
<1>7. ASSUME config.type = "ema_cross", ~Refused(config), step.state.diff = 0,
             NEW first \in Nat, first <= Len(es)
      PROVE  Met(config, first, Len(fed'[id]), fed'[id])
  <2>1. Prices(fed'[id]) \in Seq(Int) /\ Prices(fed'[id]) # <<>>
    BY <1>3
  <2>2. config.fast \in Int /\ config.slow \in Int
    BY <1>2, <1>7 DEF ConfigOK
  <2>3. AveragesMeet(config, Prices(fed'[id]))
    BY <1>5, <1>7, <2>1, <2>2, MeetsAtZero
  <2>4. PICK n : n = Len(fed'[id])
    OBVIOUS
  <2>5. n \in (first + 1)..n /\ SubSeq(fed'[id], 1, n) = fed'[id]
    BY <1>1, <1>7, <2>4
  <2> QED
    BY <2>3, <2>4, <2>5 DEF Met
\* Earlier signals, and what their averages did, stay.
<1>8. /\ signals \in Seq(Signal) /\ Len(signals) \in Nat /\ restarts \in Nat
      /\ \A i \in 1..Len(signals) :
           /\ signals[i].strategy \in IDs /\ signals[i].action \in {"buy", "sell"}
           /\ signals[i].run \in Nat /\ signals[i].after \in Nat \ {0}
  BY SignalFacts
<1>9. /\ \A i \in 1..Len(signals) : signals'[i] = signals[i]
      /\ Len(signals') = IF emitted THEN new ELSE Len(signals)
      /\ emitted => signals'[new] = [strategy |-> id, offset |-> taken,
                                     action |-> step.action, run |-> restarts,
                                     after |-> Len(fed[id]) + 1]
  BY <1>8
<1>10. Known' = Known /\ \A k : strategies'[k].config = ConfigOf(k)
  BY DEF Known
<1>11. ASSUME NEW i \in 1..Len(signals), Current(i)
       PROVE  /\ signals[i].strategy \in Known
              /\ signals[i].after <= Len(fed[signals[i].strategy])
              /\ signals[i].after <= Len(fed'[signals[i].strategy])
  <2> PICK k \in IDs, after \in Nat : k = signals[i].strategy /\ after = signals[i].after
    BY <1>8
  <2>1. k \in Known /\ after <= Len(fed[k])
    BY <1>11 DEF SideInv
  <2>2. Len(fed[k]) \in Nat
    BY <1>0
  <2>3. CASE k = id
    BY <1>1, <2>1, <2>3
  <2>4. CASE k # id
    BY <2>1, <2>4
  <2> QED
    BY <2>1, <2>3, <2>4
<1>12. \A c : \A k \in IDs, first \in Nat, last \in Nat :
         last <= Len(fed[k]) => (Met(c, first, last, fed'[k]) <=> Met(c, first, last, fed[k]))
  <2> SUFFICES ASSUME NEW c, NEW k \in IDs, NEW first \in Nat, NEW last \in Nat,
                      last <= Len(fed[k])
               PROVE  Met(c, first, last, fed'[k]) <=> Met(c, first, last, fed[k])
    OBVIOUS
  <2>1. CASE k = id
    <3>1. fed[k] \in Seq(Events) /\ fed'[k] = Append(fed[k], e)
      BY <2>1
    <3>2. Met(c, first, last, Append(fed[k], e)) <=> Met(c, first, last, fed[k])
      BY <3>1, MetKept, Zenon
    <3> QED
      BY <3>1, <3>2
  <2>2. CASE k # id
    BY <2>2
  <2> QED
    BY <2>1, <2>2
<1> HIDE DEF emitted, es
<1>13. ASSUME NEW i \in 1..Len(signals)
       PROVE  /\ Current(i)' = Current(i) /\ (Latest(i)' => Latest(i))
              /\ Latest(i)' /\ emitted => signals[i].strategy # id
  <2>1. \A k \in 1..Len(signals) : Current(k)' = Current(k)
    BY <1>9 DEF Current
  <2>2. emitted => Current(new)' /\ signals'[new].strategy = id
    BY <1>9 DEF Current
  <2>3. Len(signals') >= Len(signals) /\ \A k \in (i + 1)..Len(signals) : k \in 1..Len(signals)
    BY <1>8, <1>9
  <2>4. Latest(i)' <=>
          /\ Current(i)'
          /\ \A k \in (i + 1)..Len(signals') :
               ~ (Current(k)' /\ signals'[k].strategy = signals'[i].strategy)
    BY DEF Latest
  <2>5. emitted => new \in (i + 1)..Len(signals')
    BY <1>8, <1>9
  <2>6. Latest(i)' => Latest(i)
    BY <1>9, <2>1, <2>3, <2>4 DEF Latest
  <2>7. Latest(i)' /\ emitted => signals[i].strategy # id
    BY <1>9, <2>2, <2>4, <2>5
  <2> QED
    BY <2>1, <2>6, <2>7
<1>14. ASSUME NEW i \in 1..Len(signals), Latest(i)'
       PROVE  Held(signals[i], ConfigOf(signals[i].strategy), fed'[signals[i].strategy],
                   runtimeState'[signals[i].strategy])
  <2> PICK k, a : k \in IDs /\ k = signals[i].strategy /\ a = signals[i]
    BY <1>8
  <2>1. /\ Latest(i) /\ Current(i) /\ a.after \in Nat \ {0} /\ a.action \in {"buy", "sell"}
        /\ Held(a, ConfigOf(k), fed[k], runtimeState[k])
    BY <1>8, <1>13, <1>14 DEF SideInv, Latest
  <2>2. CASE k # id
    BY <2>1, <2>2
  <2>3. CASE k = id
    <3> SUFFICES ASSUME config.type = "ema_cross"
                 PROVE  /\ ~Refused(config)
                        /\ \/ Met(config, a.after, Len(fed'[id]), fed'[id])
                           \/ OnSide(a.action, step.state)
      BY <2>3 DEF Held
    <3>1. /\ ~Refused(config)
          /\ Met(config, a.after, Len(es), es) \/ OnSide(a.action, runtimeState[id])
      BY <2>1, <2>3 DEF Held, es
    <3>2. ~emitted /\ a.after <= Len(es)
      BY <1>11, <1>13, <1>14, <2>1, <2>3 DEF es
    <3>3. CASE Met(config, a.after, Len(es), es)
      <4> PICK first \in Nat, last \in Nat : first = a.after /\ last = Len(es)
        BY <1>1, <2>1 DEF es
      <4>1. Met(config, first, last, fed[id]) /\ last <= Len(fed[id])
        BY <3>3 DEF es
      <4>2. Met(config, first, last, fed'[id])
        BY <1>12, <4>1
      <4>3. (first + 1)..last \subseteq (first + 1)..Len(fed'[id])
        BY <1>1 DEF es
      <4> QED
        BY <3>1, <4>2, <4>3 DEF Met
    <3>4. CASE OnSide(a.action, runtimeState[id])
      <4>1. Prices(es) # <<>>
        BY <1>1, <1>3, <2>1, <3>2 DEF es
      <4>2. OnSide(a.action, step.state) \/ step.state.diff = 0
        BY <1>6, <2>1, <3>1, <3>2, <3>4, <4>1
      <4> QED
        BY <1>7, <2>1, <3>1, <3>2, <4>2 DEF es
    <3> QED
      BY <3>1, <3>3, <3>4
  <2> QED
    BY <2>2, <2>3
<1>15. emitted => Held(signals'[new], config, fed'[id], step.state)
  BY <1>6, <1>9 DEF Held
<1>16. SideInv'
  <2> SUFFICES ASSUME NEW i \in 1..Len(signals')
               PROVE  /\ signals'[i].run <= restarts'
                      /\ Current(i)' => /\ signals'[i].strategy \in Known'
                                        /\ signals'[i].after <= Len(fed'[signals'[i].strategy])
                      /\ Latest(i)' => Held(signals'[i], ConfigOf(signals'[i].strategy),
                                            fed'[signals'[i].strategy],
                                            runtimeState'[signals'[i].strategy])
    BY <1>10 DEF SideInv
  <2>1. CASE i \in 1..Len(signals)
    BY <1>8, <1>9, <1>10, <1>11, <1>13, <1>14, <2>1 DEF SideInv
  <2>2. CASE i = new /\ emitted
    <3>1. /\ signals'[i].strategy = id /\ signals'[i].run = restarts
          /\ signals'[i].after = Len(fed[id]) + 1
      BY <1>9, <2>2
    <3>2. Len(fed[id]) + 1 <= Len(fed'[id]) /\ restarts <= restarts'
      BY <1>1, <1>8 DEF es
    <3>3. Held(signals'[i], config, fed'[id], runtimeState'[id])
      BY <1>15, <2>2
    <3> QED
      BY <1>10, <3>1, <3>2, <3>3
  <2> QED
    BY <1>8, <1>9, <2>1, <2>2
<1>17. ASSUME NEW i \in 1..Len(signals), NEW j \in 1..Len(signals), Follow(i, j)'
       PROVE  Alternate(signals[i], signals[j], ConfigOf(signals[i].strategy),
                        fed'[signals[i].strategy])
  <2> PICK k, a, b : k \in IDs /\ k = signals[i].strategy /\ a = signals[i] /\ b = signals[j]
    BY <1>8
  <2>1. Follow(i, j)
    BY <1>8, <1>9, <1>13, <1>17 DEF Follow, Current
  <2>2. /\ Alternate(a, b, ConfigOf(k), fed[k]) /\ Current(j) /\ b.strategy = k
        /\ a.after \in Nat /\ b.after \in Nat \ {0}
    BY <1>8, <2>1 DEF AlternateInv, Follow
  <2>3. b.after <= Len(fed[k])
    BY <1>11, <2>2
  <2>4. PICK first \in Nat, last \in Nat :
          first = a.after /\ last = b.after - 1 /\ last <= Len(fed[k])
    <3>1. PICK first \in Nat, after \in Nat \ {0}, len \in Nat :
            first = a.after /\ after = b.after /\ len = Len(fed[k])
      BY <1>0, <2>2
    <3>2. after <= len
      BY <2>3, <3>1
    <3>3. PICK last \in Nat : last = after - 1 /\ last <= len
      BY ONLY <3>2, after \in Nat \ {0}, len \in Nat
    <3> QED
      BY <3>1, <3>3
  <2>5. Met(ConfigOf(k), first, last, fed'[k]) <=> Met(ConfigOf(k), first, last, fed[k])
    BY <1>12, <2>4
  <2> HIDE DEF ConfigOf
  <2> QED
    BY <2>2, <2>4, <2>5 DEF Alternate
<1>18. ASSUME emitted, NEW i \in 1..Len(signals), Follow(i, new)'
       PROVE  Alternate(signals[i], signals'[new], ConfigOf(signals[i].strategy),
                        fed'[signals[i].strategy])
  <2> PICK a, b : a = signals[i] /\ b = signals'[new]
    OBVIOUS
  <2>1. /\ Latest(i) /\ a.strategy = id /\ b.after = Len(es) + 1 /\ b.action = step.action
        /\ a.after \in Nat
    <3>1. /\ i < new /\ Current(i) /\ signals[i].strategy = id
          /\ \A k \in (i + 1)..(new - 1) :
               ~ (Current(k)' /\ signals'[k].strategy = signals[i].strategy)
      BY <1>9, <1>13, <1>18 DEF Follow
    <3>2. \A k \in (i + 1)..Len(signals) : k \in (i + 1)..(new - 1) /\ k \in 1..Len(signals)
      BY <1>8
    <3> QED
      BY <1>8, <1>9, <1>13, <1>18, <3>1, <3>2 DEF Latest, es
  <2>2. Held(a, config, es, runtimeState[id])
    BY <2>1 DEF SideInv, es
  <2> SUFFICES ASSUME config.type = "ema_cross", a.action = step.action
               PROVE  Met(config, a.after, b.after - 1, fed'[id])
    BY <2>1 DEF Alternate
  <2> PICK first \in Nat, last \in Nat : first = a.after /\ last = Len(es)
    BY <1>1, <2>1 DEF es
  <2>3. Met(config, first, last, es)
    BY <1>6, <1>18, <2>2 DEF Held
  <2>4. Met(config, first, last, fed[id]) /\ last <= Len(fed[id])
    BY <2>3 DEF es
  <2>5. Met(config, first, last, fed'[id])
    BY <1>12, <2>4
  <2>6. b.after - 1 = last
    BY <2>1
  <2> QED
    BY <2>5, <2>6
<1>19. AlternateInv'
  <2> SUFFICES ASSUME NEW i \in 1..Len(signals'), NEW j \in 1..Len(signals'), Follow(i, j)'
               PROVE  Alternate(signals'[i], signals'[j], ConfigOf(signals'[i].strategy),
                                fed'[signals'[i].strategy])
    BY <1>10 DEF AlternateInv
  <2>1. i < j
    BY DEF Follow
  <2>2. i \in 1..Len(signals) /\ (j \in 1..Len(signals) \/ (emitted /\ j = new))
    BY <1>8, <1>9, <2>1
  <2> QED
    BY <1>9, <1>17, <1>18, <2>2
<1> QED
  BY <1>16, <1>19

LEMMA NextSideInv ==
    /\ AveragesAreExact /\ Typing /\ Typing' /\ MatchInv /\ MatchInv'
    /\ SideInv /\ AlternateInv /\ [Next]_vars
    => SideInv' /\ AlternateInv'
<1> SUFFICES ASSUME AveragesAreExact, Typing, Typing', MatchInv, MatchInv',
                    SideInv, AlternateInv, [Next]_vars
             PROVE  SideInv' /\ AlternateInv'
  OBVIOUS
<1>1. ASSUME NEW config \in Configs, NEW active \in BOOLEAN, CreateStrategy(config, active)
      PROVE  SideInv' /\ AlternateInv'
  <2>1. /\ strategies' = Append(strategies, [config |-> config, active |-> active])
        /\ UNCHANGED <<signals, restarts, fed, runtimeState>>
    BY <1>1 DEF CreateStrategy, engineVars
  <2>2. Len(strategies) \in Nat /\ strategies \in Seq(Strategy)
    BY TypeFacts
  <2>3. /\ Len(strategies') = Len(strategies) + 1
        /\ \A id \in 1..Len(strategies) : strategies'[id] = strategies[id]
    BY <2>1, <2>2
  <2>4. Known \subseteq Known' /\ \A id \in Known : strategies'[id].config = strategies[id].config
    BY <2>2, <2>3 DEF Known
  <2> QED
    BY <2>1, <2>4, QuietSides
<1>2. ASSUME NEW id \in Known, NEW active \in BOOLEAN, Toggle(id, active)
      PROVE  SideInv' /\ AlternateInv'
  <2>1. /\ strategies' = [strategies EXCEPT ![id].active = active]
        /\ UNCHANGED <<signals, restarts, fed, runtimeState>>
    BY <1>2 DEF Toggle, engineVars
  <2>2. /\ Len(strategies') = Len(strategies)
        /\ \A k \in Known : strategies'[k].config = strategies[k].config
    BY <2>1, TypeFacts DEF Known, Strategy
  <2>3. Known \subseteq Known'
    BY <2>2 DEF Known
  <2> QED
    BY <2>1, <2>2, <2>3, QuietSides
<1>3. CASE FetchEvent \/ HandleEvent \/ CommitEvent \/ FetchEventFails \/ UNCHANGED vars
  <2>1. UNCHANGED <<signals, restarts, fed, runtimeState, strategies>>
    BY <1>3 DEF FetchEvent, HandleEvent, Handle, CommitEvent, FetchEventFails, vars, engineVars
  <2>2. Known \subseteq Known' /\ \A id \in Known : strategies'[id].config = strategies[id].config
    BY <2>1 DEF Known
  <2> QED
    BY <2>1, <2>2, QuietSides
<1>4. CASE EvaluateNext
  BY <1>4, EvaluateSides
\* The signals of the ended run are of no strategy of the new one.
<1>5. CASE Restart
  <2>1. restarts' = restarts + 1 /\ signals' = signals
    BY <1>5 DEF Restart
  <2>2. \A i \in 1..Len(signals') : signals'[i].run <= restarts /\ signals'[i].run \in Nat
    BY <2>1, SignalFacts DEF SideInv
  <2>3. restarts \in Nat
    BY SignalFacts
  <2>4. \A i \in 1..Len(signals') : signals'[i].run <= restarts' /\ ~ Current(i)'
    BY <2>1, <2>2, <2>3 DEF Current
  <2>5. \A i : Latest(i)' => Current(i)'
    BY DEF Latest
  <2>6. \A i, j : Follow(i, j)' => Current(i)'
    BY DEF Follow
  <2> QED
    BY <2>4, <2>5, <2>6 DEF SideInv, AlternateInv
<1> QED
  BY <1>1, <1>2, <1>3, <1>4, <1>5 DEF Next, Consumer

\* Of two successive signals of one EMA strategy in one run of the service one is a buy and
\* the other a sell, unless its averages met exactly between them, through every toggle and
\* every event that came twice (ema_strategy.go's crossing test, service.go).
THEOREM SignalsTakeTurns == Spec /\ []AveragesAreExact => []SignalsAlternate
<1>1. Init => MatchInv /\ SideInv /\ AlternateInv
  BY DEF Init, MatchInv, Known, SideInv, AlternateInv
<1>2. AlternateInv => SignalsAlternate
  BY DEF AlternateInv, SignalsAlternate, Follow, Current, Alternate, Met
<1> QED
  BY <1>1, <1>2, NextMatchInv, NextSideInv, TypeCorrect, PTL DEF Spec

===============================================================================
