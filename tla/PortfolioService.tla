--------------------------- MODULE PortfolioService ---------------------------
(***************************************************************************)
(* The portfolio service: internal/application/portfolio (service,         *)
(* calculator), internal/domain/portfolio.go, the in-memory repositories   *)
(* and the HTTP price update.  One goroutine consumes execution.filled and *)
(* moves positions and money; a price update runs on an HTTP goroutine.    *)
(* Cache and repository hold the same *Portfolio, so both goroutines work  *)
(* on one object without a lock.                                           *)
(*                                                                         *)
(* Quantities are whole units and prices whole multiples of a unit fine    *)
(* enough that every average the bounds allow is exact.                    *)
(***************************************************************************)
EXTENDS Integers, Sequences, FiniteSetsExt

CONSTANTS
    Executions,      \* execution ids on execution.filled
    EventOf,         \* what each execution's event says
    Users, Symbols,
    Blank,           \* the empty string
    NoSymbol,
    Prices,          \* prices a price update may carry
    InitialBalance,  \* the balance of a new portfolio, 10000 in the code
    MatchingKeys,    \* are the event's JSON keys the consumer's field names?
    MaxMessages,     \* bound: messages in the topic, repeats included
    MaxUpdates,      \* bound: price updates
    MaxRestarts      \* bound: restarts of the process

Sides == {"BUY", "SELL"}

ASSUME BlankAssumption == Blank \notin Executions \cup Users
ASSUME SymbolsAssumption == IsFiniteSet(Symbols) /\ NoSymbol \notin Symbols
ASSUME EventAssumption ==
    EventOf \in [Executions -> [user : Users, symbol : Symbols, side : Sides \cup {"other"},
                                qty : Nat, price : Nat, fees : Nat]]
ASSUME MoneyAssumption == Prices \subseteq Nat /\ InitialBalance \in Nat
ASSUME BoundsAssumption == MaxMessages \in Nat /\ MaxUpdates \in Nat /\ MaxRestarts \in Nat

VARIABLES
    log, committed, next,   \* the topic, the group's offset, the consumer's offset
    resumed,      \* where the running process began to read
    pc,           \* where the consumer and the price update are
    local,        \* the float each of them has read or computed and not stored
    rest,         \* quantity the event in hand has still to open
    processed,    \* Service.processedExecutions
    portfolios,   \* the Portfolio objects
    trades,       \* the stored TradeResults
    unbooked,     \* history: profit of units that partial closes took out
    published,    \* executions a portfolio.updated event went out for
    updating,     \* the price update: its user, the symbols left, the position in hand
    updates, restarts

kafkaVars == <<log, committed, next, resumed>>
moneyVars == <<portfolios, trades, unbooked>>
boundVars == <<updates, restarts>>
vars == <<kafkaVars, pc, local, rest, processed, moneyVars, published, updating, boundVars>>

-----------------------------------------------------------------------------
(* Positions and portfolios. *)

NoPosition == [side |-> "none", qty |-> 0, avg |-> 0, upnl |-> 0]
NewPosition(side, qty, price) == [side |-> side, qty |-> qty, avg |-> price, upnl |-> 0]

NoPortfolio ==
    [exists |-> FALSE, positions |-> [s \in Symbols |-> NoPosition],
     realized |-> 0, unrealized |-> 0, total |-> 0, balance |-> 0, count |-> 0]
NewPortfolio == [NoPortfolio EXCEPT !.exists = TRUE, !.balance = InitialBalance]

\* The profit of qty units of the position at a price (CalculateClosedPnL, UpdatePrice).
Profit(pos, qty, price) ==
    IF pos.side = "BUY" THEN (price - pos.avg) * qty ELSE (pos.avg - price) * qty

UpdatePrice(pos, price) == [pos EXCEPT !.upnl = Profit(pos, pos.qty, price)]

RealizePnL(p, pnl, fees) ==
    [p EXCEPT !.realized = @ + pnl - fees,
              !.total    = p.realized + pnl - fees + p.unrealized,
              !.balance  = @ + pnl - fees,
              !.count    = @ + 1]

Init ==
    /\ log = <<>> /\ committed = 0 /\ next = 0 /\ resumed = 0
    /\ pc = [consumer |-> "fetch", http |-> "idle"]
    /\ local = [consumer |-> 0, http |-> 0]
    /\ rest = 0 /\ processed = {}
    /\ portfolios = [u \in Users \cup {Blank} |-> NoPortfolio]
    /\ trades = {} /\ unbooked = [u \in Users \cup {Blank} |-> 0] /\ published = {}
    /\ updating = [user |-> Blank, todo |-> {}, held |-> NoSymbol]
    /\ updates = 0 /\ restarts = 0

-----------------------------------------------------------------------------
(* The consumer of execution.filled. *)

\* json.Unmarshal into ExecutionFilledEvent: the struct has no tags, and keys
\* with an underscore match none of its fields.
Decode(e) ==
    LET event == EventOf[e]
    IN IF MatchingKeys
       THEN [id |-> e, user |-> event.user, symbol |-> event.symbol, side |-> event.side,
             qty |-> event.qty, price |-> event.price, fees |-> event.fees]
       ELSE [id |-> Blank, user |-> Blank, symbol |-> event.symbol, side |-> event.side,
             qty |-> 0, price |-> 0, fees |-> event.fees]

Event == Decode(log[next])
Position == portfolios[Event.user].positions[Event.symbol]

Goes(actor, to) == pc' = [pc EXCEPT ![actor] = to]

Deliver(e) ==
    /\ Len(log) < MaxMessages
    /\ log' = Append(log, e)
    /\ UNCHANGED <<committed, next, resumed, pc, local, rest, processed, moneyVars, published,
                   updating, boundVars>>

Fetch ==
    /\ pc.consumer = "fetch" /\ next < Len(log)
    /\ next' = next + 1 /\ Goes("consumer", "handle")
    /\ UNCHANGED <<log, committed, resumed, local, rest, processed, moneyVars, published,
                   updating, boundVars>>

FetchFails ==
    /\ pc.consumer = "fetch" /\ Goes("consumer", "stopped")
    /\ UNCHANGED <<kafkaVars, local, rest, processed, moneyVars, published, updating, boundVars>>

SkipProcessed ==
    /\ pc.consumer = "handle" /\ Event.id \in processed
    /\ Goes("consumer", "commit")
    /\ UNCHANGED <<kafkaVars, local, rest, processed, moneyVars, published, updating, boundVars>>

\* Slip: the execution is not marked.
AcceptUnmarked ==
    /\ pc.consumer = "handle" /\ Event.id \notin processed
    /\ portfolios' = [portfolios EXCEPT ![Event.user] = IF @.exists THEN @ ELSE NewPortfolio]
    /\ rest' = IF Event.side \in Sides THEN Event.qty ELSE 0
    /\ Goes("consumer", IF rest' > 0 THEN "apply" ELSE "commit")
    /\ UNCHANGED <<kafkaVars, local, processed, trades, unbooked, published, updating, boundVars>>

\* The execution is marked first, the portfolio made when the user has none.  A
\* fill of nothing changes no more; an unknown side is an error (dead letter).
Accept ==
    /\ pc.consumer = "handle" /\ Event.id \notin processed
    /\ processed' = processed \cup {Event.id}
    /\ portfolios' = [portfolios EXCEPT ![Event.user] = IF @.exists THEN @ ELSE NewPortfolio]
    /\ rest' = IF Event.side \in Sides THEN Event.qty ELSE 0
    /\ Goes("consumer", IF rest' > 0 THEN "apply" ELSE "commit")
    /\ UNCHANGED <<kafkaVars, local, trades, unbooked, published, updating, boundVars>>

Puts(position) ==
    portfolios' = [portfolios EXCEPT ![Event.user].positions[Event.symbol] = position]

\* AddPosition: for a symbol without a position, and after a flip.
OpenPosition ==
    /\ pc.consumer = "apply" /\ Position.side = "none"
    /\ Puts(NewPosition(Event.side, rest, Event.price))
    /\ rest' = 0 /\ Goes("consumer", "sum")
    /\ UNCHANGED <<kafkaVars, local, processed, trades, unbooked, published, updating, boundVars>>

\* Slip: the last price becomes the average.
AddUnaveraged ==
    /\ pc.consumer = "apply" /\ Position.side = Event.side
    /\ Puts([Position EXCEPT !.qty = @ + rest, !.avg = Event.price])
    /\ rest' = 0 /\ Goes("consumer", "mark")
    /\ UNCHANGED <<kafkaVars, local, processed, trades, unbooked, published, updating, boundVars>>

AddToPosition ==
    /\ pc.consumer = "apply" /\ Position.side = Event.side
    /\ LET total == Position.qty + rest
       IN Puts([Position EXCEPT
                   !.qty = total,
                   !.avg = (Position.avg * Position.qty + Event.price * rest) \div total])
    /\ rest' = 0 /\ Goes("consumer", "mark")
    /\ UNCHANGED <<kafkaVars, local, processed, trades, unbooked, published, updating, boundVars>>

Opposes == Position.side \in Sides \ {Event.side}

\* A partial close realizes nothing.
ReducePosition ==
    /\ pc.consumer = "apply" /\ Opposes /\ rest < Position.qty
    /\ Puts([Position EXCEPT !.qty = @ - rest])
    /\ unbooked' = [unbooked EXCEPT ![Event.user] = @ + Profit(Position, rest, Event.price)]
    /\ rest' = 0 /\ Goes("consumer", "mark")
    /\ UNCHANGED <<kafkaVars, local, processed, trades, published, updating, boundVars>>

\* A full close realizes the profit net of the fees and stores a trade result.
ClosePosition ==
    /\ pc.consumer = "apply" /\ Opposes /\ rest = Position.qty
    /\ LET pnl == Profit(Position, rest, Event.price)
       IN /\ portfolios' = [portfolios EXCEPT ![Event.user] = RealizePnL(@, pnl, Event.fees)]
          /\ trades' = trades \cup {[execution |-> Event.id, pnl |-> pnl, fees |-> Event.fees]}
    /\ rest' = 0 /\ Goes("consumer", "remove")
    /\ UNCHANGED <<kafkaVars, local, processed, unbooked, published, updating, boundVars>>

\* A flip realizes the profit, without fees and without a trade result.
FlipPosition ==
    /\ pc.consumer = "apply" /\ Opposes /\ rest > Position.qty
    /\ LET pnl == Profit(Position, Position.qty, Event.price)
       IN portfolios' = [portfolios EXCEPT ![Event.user] = RealizePnL(@, pnl, 0)]
    /\ rest' = rest - Position.qty /\ Goes("consumer", "remove")
    /\ UNCHANGED <<kafkaVars, local, processed, trades, unbooked, published, updating, boundVars>>

\* RemovePosition.  A price update that holds the position now holds an object
\* the portfolio no longer reaches.
RemovePosition ==
    /\ pc.consumer = "remove"
    /\ Puts(NoPosition)
    /\ updating' = IF updating.user = Event.user /\ updating.held = Event.symbol
                   THEN [updating EXCEPT !.held = NoSymbol]
                   ELSE updating
    /\ Goes("consumer", "sum")
    /\ UNCHANGED <<kafkaVars, local, rest, processed, trades, unbooked, published, boundVars>>

\* UpdatePrice after an addition or a partial close; the totals are not recalculated.
MarkPosition ==
    /\ pc.consumer = "mark"
    /\ Puts(UpdatePrice(Position, Event.price))
    /\ Goes("consumer", "publish")
    /\ UNCHANGED <<kafkaVars, local, rest, processed, trades, unbooked, published, updating, boundVars>>

\* Update stores the pointer that is stored already.  A failed publication is only logged.
PublishUpdated ==
    /\ pc.consumer = "publish"
    /\ published' \in {published, published \cup {Event.id}}
    /\ Goes("consumer", "commit")
    /\ UNCHANGED <<kafkaVars, local, rest, processed, moneyVars, updating, boundVars>>

Commit ==
    /\ pc.consumer = "commit"
    /\ \/ committed' = next /\ Goes("consumer", "fetch")
       \/ UNCHANGED committed /\ Goes("consumer", "stopped")
    /\ UNCHANGED <<log, next, resumed, local, rest, processed, moneyVars, published, updating,
                   boundVars>>

-----------------------------------------------------------------------------
(* RecalculateTotals, by either goroutine on its user's portfolio. *)

Of(actor) == IF actor = "consumer" THEN Event.user ELSE updating.user

Unrealized(p) == SumFunction([s \in Symbols |-> p.positions[s].upnl])

Keeps == UNCHANGED <<kafkaVars, rest, processed, trades, unbooked, published, updating, boundVars>>

SumPositions(actor) ==
    /\ pc[actor] = "sum" /\ Goes(actor, "unrealized")
    /\ local' = [local EXCEPT ![actor] = Unrealized(portfolios[Of(actor)])]
    /\ UNCHANGED portfolios /\ Keeps

StoreUnrealized(actor) ==
    /\ pc[actor] = "unrealized" /\ Goes(actor, "total")
    /\ portfolios' = [portfolios EXCEPT ![Of(actor)].unrealized = local[actor]]
    /\ UNCHANGED local /\ Keeps

AddTotal(actor) ==
    /\ pc[actor] = "total" /\ Goes(actor, "store")
    /\ LET p == portfolios[Of(actor)]
       IN local' = [local EXCEPT ![actor] = p.realized + p.unrealized]
    /\ UNCHANGED portfolios /\ Keeps

StoreTotal(actor) ==
    /\ pc[actor] = "store"
    /\ portfolios' = [portfolios EXCEPT ![Of(actor)].total = local[actor]]
    /\ local' = [local EXCEPT ![actor] = 0]
    /\ Goes(actor, IF actor = "http" THEN "idle" ELSE IF rest > 0 THEN "apply" ELSE "publish")
    /\ Keeps

RecalculateTotals(actor) ==
    SumPositions(actor) \/ StoreUnrealized(actor) \/ AddTotal(actor) \/ StoreTotal(actor)

-----------------------------------------------------------------------------
(* UpdatePortfolioPrices, for one request at a time. *)

BeginUpdate(u, symbols) ==
    /\ pc.http = "idle" /\ updates < MaxUpdates
    /\ portfolios[u].exists
    /\ updates' = updates + 1
    /\ updating' = [user |-> u, todo |-> symbols, held |-> NoSymbol]
    /\ Goes("http", "prices")
    /\ UNCHANGED <<kafkaVars, local, rest, processed, moneyVars, published, restarts>>

\* The position is looked up and its profit computed from what it says now ...
ReadPosition(s, price) ==
    /\ pc.http = "prices" /\ s \in updating.todo
    /\ LET pos == portfolios[updating.user].positions[s]
       IN IF pos.side = "none"
          THEN /\ updating' = [updating EXCEPT !.todo = @ \ {s}]
               /\ UNCHANGED <<pc, local>>
          ELSE /\ updating' = [updating EXCEPT !.todo = @ \ {s}, !.held = s]
               /\ local' = [local EXCEPT !.http = Profit(pos, pos.qty, price)]
               /\ Goes("http", "mark")
    /\ UNCHANGED <<kafkaVars, rest, processed, moneyVars, published, boundVars>>

\* ... and stored in the object that was looked up.
StoreMark ==
    /\ pc.http = "mark" /\ Goes("http", "prices")
    /\ portfolios' = IF updating.held = NoSymbol THEN portfolios
                     ELSE [portfolios EXCEPT
                              ![updating.user].positions[updating.held].upnl = local.http]
    /\ updating' = [updating EXCEPT !.held = NoSymbol]
    /\ local' = [local EXCEPT !.http = 0]
    /\ UNCHANGED <<kafkaVars, rest, processed, trades, unbooked, published, boundVars>>

PricesDone ==
    /\ pc.http = "prices" /\ updating.todo = {} /\ Goes("http", "sum")
    /\ UNCHANGED <<kafkaVars, local, rest, processed, moneyVars, published, updating, boundVars>>

\* The process ends, also by the runtime's check on maps used by two goroutines;
\* a new one resumes at the committed offset and remembers nothing.
Restart ==
    /\ restarts < MaxRestarts
    /\ restarts' = restarts + 1
    /\ next' = committed /\ resumed' = committed
    /\ pc' = [consumer |-> "fetch", http |-> "idle"] /\ local' = [consumer |-> 0, http |-> 0]
    /\ rest' = 0 /\ processed' = {}
    /\ portfolios' = [u \in Users \cup {Blank} |-> NoPortfolio]
    /\ trades' = {} /\ unbooked' = [u \in Users \cup {Blank} |-> 0]
    /\ updating' = [user |-> Blank, todo |-> {}, held |-> NoSymbol]
    /\ UNCHANGED <<log, committed, published, updates>>

Consumer ==
    \/ Fetch \/ FetchFails \/ SkipProcessed \/ Accept
    \/ OpenPosition \/ AddToPosition \/ ReducePosition \/ ClosePosition \/ FlipPosition
    \/ RemovePosition \/ MarkPosition \/ RecalculateTotals("consumer")
    \/ PublishUpdated \/ Commit

UpdatePortfolioPrices ==
    \/ \E u \in Users, symbols \in SUBSET Symbols \ {{}} : BeginUpdate(u, symbols)
    \/ \E s \in Symbols, price \in Prices : ReadPosition(s, price)
    \/ StoreMark \/ PricesDone \/ RecalculateTotals("http")

Next ==
    \/ \E e \in Executions : Deliver(e)
    \/ Consumer \/ UpdatePortfolioPrices \/ Restart

Spec == Init /\ [][Next]_vars

-----------------------------------------------------------------------------
(* Properties. *)

PositionType == [side : Sides \cup {"none"}, qty : Nat, avg : Nat, upnl : Int]
Portfolio == [exists : BOOLEAN, positions : [Symbols -> PositionType],
              realized : Int, unrealized : Int, total : Int, balance : Int, count : Nat]
Recalculating == {"sum", "unrealized", "total", "store"}

\* Every variable keeps its type, a stored position holds something, and a
\* goroutine that works on a portfolio has one.
TypeOK ==
    /\ log \in Seq(Executions) /\ next \in 0..Len(log)
    /\ committed \in 0..next /\ resumed \in 0..committed
    /\ pc \in [consumer : {"fetch", "handle", "apply", "mark", "remove", "publish", "commit",
                           "stopped"} \cup Recalculating,
               http : {"idle", "prices", "mark"} \cup Recalculating]
    /\ local \in [consumer : Int, http : Int] /\ rest \in Nat
    /\ processed \subseteq Executions \cup {Blank}
    /\ portfolios \in [Users \cup {Blank} -> Portfolio]
    /\ \A u \in Users \cup {Blank}, s \in Symbols :
          LET pos == portfolios[u].positions[s]
          IN pos.side # "none" <=> pos.qty > 0
    /\ trades \subseteq [execution : Executions, pnl : Int, fees : Nat]
    /\ unbooked \in [Users \cup {Blank} -> Int] /\ published \subseteq Executions
    /\ updating \in [user : Users \cup {Blank}, todo : SUBSET Symbols, held : Symbols \cup {NoSymbol}]
    /\ updates \in Nat /\ restarts \in Nat
    /\ pc.consumer \notin {"fetch", "stopped"} => next > committed
    /\ pc.consumer \notin {"fetch", "handle", "stopped", "commit"} => portfolios[Event.user].exists
    /\ pc.http # "idle" => portfolios[updating.user].exists

BetweenMessages == pc.consumer \in {"fetch", "stopped"}

\* The executions this process has taken from the topic.
Taken == {log[i] : i \in (resumed + 1)..next}

Signed(side, qty) == CASE side = "BUY" -> qty [] side = "SELL" -> -qty [] OTHER -> 0

\* The signed quantity of each event, as written and as the consumer decodes it.
SignedQty == [e \in Executions |-> Signed(EventOf[e].side, EventOf[e].qty)]
DecodedQty == [e \in Executions |-> Signed(Decode(e).side, Decode(e).qty)]

\* Between messages the position of a symbol is the sum of the fills the process
\* decoded from the topic, each execution counted once however often it came
\* (handleExecutionFilled, updatePortfolioWithExecution).
PositionsMatchDecodedFills ==
    BetweenMessages =>
        \A u \in Users, s \in Symbols :
            LET pos == portfolios[u].positions[s]
            IN Signed(pos.side, pos.qty) =
                  SumFunctionOnSet(DecodedQty,
                                   {e \in Taken : Decode(e).user = u /\ Decode(e).symbol = s})

\* Between messages the position of a symbol is the sum of the fills that the
\* execution service wrote to the topic and the process took (ExecutionEvent).
PositionsMatchFills ==
    BetweenMessages =>
        \A u \in Users, s \in Symbols :
            LET pos == portfolios[u].positions[s]
            IN Signed(pos.side, pos.qty) =
                  SumFunctionOnSet(SignedQty,
                                   {e \in Taken : EventOf[e].user = u /\ EventOf[e].symbol = s})

DecodedCashFlow == [e \in Executions |-> -DecodedQty[e] * Decode(e).price]
Cost(pos) == Signed(pos.side, pos.qty) * pos.avg

DecodedCash(u) == SumFunctionOnSet(DecodedCashFlow, {e \in Taken : Decode(e).user = u})
CostOfPositions(u) == SumFunction([s \in Symbols |-> Cost(portfolios[u].positions[s])])
FeesCharged(u) ==
    SumFunctionOnSet([t \in trades |-> t.fees], {t \in trades : EventOf[t.execution].user = u})

\* Between messages the books balance: realized profit, the fees of the stored
\* trades and what partial closes left unbooked make up the cash of the decoded
\* fills plus the cost of what is held, and the balance moved by exactly what was realized,
\* whatever price updates overlapped the fills.
MoneyIsConserved ==
    BetweenMessages =>
        \A u \in Users :
            /\ portfolios[u].realized + FeesCharged(u) + unbooked[u] = DecodedCash(u) + CostOfPositions(u)
            /\ portfolios[u].exists =>
                  portfolios[u].balance = InitialBalance + portfolios[u].realized

=============================================================================
