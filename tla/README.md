# Verification of the trading services

TLA+ models of the Go microservices in this repository, checked with TLC on small
instances and, where it matters most, proved with TLAPS for every instance. The
models are translated from the code under `internal/` and `cmd/`; the task
documents under `docs/` are used only for what they claim.

## 1. The system

Ten binaries share one code base. Those that trade form a pipeline over Kafka:

    market data --market.price.updated--> strategy --strategy.signal.generated--> risk
      --risk.order.approved--> order --order.created--> execution --execution.filled--> portfolio

An HTTP gateway, an auth service and a user service stand beside it. Every service
of the pipeline keeps its state in memory (only users are in PostgreSQL) and
consumes its topic with one goroutine, the loop of
`internal/infrastructure/broker/consumer.go`: fetch, handle, publish a failed
message to the dead-letter topic, commit the offset. HTTP requests run on
goroutines of their own and reach the same objects through pointers that the
in-memory repositories hand out.

| Component | State | Operations that change it | Hard because | Correct when |
|---|---|---|---|---|
| Execution service | executions, processed orders, what the exchange holds | consume `order.created`, submit with retries, reconcile fills every 5 s | consumer and reconciler overlap on stored copies; exchange loses replies and fills in parts | status changes only along listed transitions, a unit is counted at most twice, every submission settles, every submitted order is filled |
| Order service | orders, processed decisions | consume approved decisions, POST/DELETE/fill over HTTP, transitions | requests check and assign a status of a shared object without a lock | one order per decision and run, a terminal order moves only by a request that passed its check before, executed quantity within quantity |
| Kafka consumer | offset, processed ids | fetch, handle, dead letter, commit | crashes between the steps, errors after the mark | in order, at least once, one effect per run, never held up |
| Portfolio service | portfolios, positions, trade results, processed executions | consume fills (open, add, reduce, close, flip), price updates over HTTP | price updates and fills write one object; duplicates | positions are the sum of the fills that decode, money is conserved |
| Risk service | policies, snapshots, decisions, processed signals | consume signals, five checks in order, policy CRUD | policy and snapshot are read in separate critical sections before the decision; marked before published; float64 quotients | an approval respects the limits it was judged by, an owner's policy prevails over the default, a signal is decided once per run |
| Strategy service | strategies, engine state per strategy, processed events | consume prices, EMA/RSI engines, create, (de)activate | marked before decoded; state survives deactivation; list copied before the work | averages stand for the prices evaluated, a message gives a strategy one signal, EMA signals alternate, an inactive strategy emits only for the event in hand |
| Market data service | cache with TTL, subscribers with buffers | poll, get, subscribe, unsubscribe | check then act on the cache, full buffers, channels closed beside a broadcast | a fetched price is published once, a client gets a subsequence of the broadcasts, nobody holds up the poller |
| Auth service | refresh sessions, revoked tokens | register, login, refresh, logout, validate | racing refreshes, marks that are pruned by the clock, registration in several statements | a login has one refreshable session, a logged-out token stays refused |
| User service | profile, settings, API keys, audit log in PostgreSQL | updates by separate statements | no transaction across the writes | an answered update is stored whole, a deletion is audited once |
| API gateway | two fixed-window counters | allow | the clock is read before the lock; the IP window is used before the user window refuses | few enough admissions in any span of a window, refusal only when full |

`PROJECT.json` lists every component with its sources, and under `hazards` what is
hard to test in this code, at its line, with the properties that cover it.

## 2. Modules

| Module | Models | Correspondence |
|---|---|---|
| `ExecutionService` | `application/execution`, `domain/execution.go`, its repository | one action per step of `handleOrderCreated`/`submitExecution` (`HandleOrderCreated`, `SubmitAttempt`, `BackoffElapses`, `MarkSubmitted`, `UpdateSubmitted`, `PublishSubmitted`, ...) and of `reconcileExecutions`/`applyFills` (`ListSubmitted`, `ListPartial`, `PollFills`, `SaveFills`, `PublishFilled`, ...). The repository keeps the pointer it was given until an `Update` with a copy replaces it; `Stored` says which of the two a reader sees. `Terminate` and `Restart` are the signal and the next process. |
| `OrderLifecycle` | the abstract order: created once, moves along `CanTransition` | the promise, one variable `life` |
| `OrderService` | `application/order`, `domain/order.go`, its repository, `order_handler.go` | the consumer (`Fetch` .. `Commit`) and a set of HTTP workers, each a pc and its request; `CheckTransition` and `ApplyTransition` are two steps because no lock spans them, and `checked` keeps what the first saw; `PostOrder` stores the decision id the client sends, whatever it is |
| `AtLeastOnce` | the abstract promise of a topic and a group | `sent`, `handled`, `settled` |
| `KafkaConsumer` | `broker/consumer.go` with the handler shape the services share, marked before the work (the portfolio handler, which may fail after it) | `FetchMessage`, `Returns`, `PublishToDLQ`, `CommitMessages`; offsets count fetched messages |
| `PortfolioService` | `application/portfolio`, `domain/portfolio.go`, its repositories, the price update of `portfolio_handler.go` | a branch of `updatePortfolioWithExecution` is an action; `RecalculateTotals` is four reads and writes that either goroutine takes; `Decode` is what `json.Unmarshal` makes of the event |
| `RiskEvaluator` | `application/risk/evaluator.go` | the five checks as operators; a float64 quotient compared with a limit is the product it stands for, with its infinity and NaN at zero and its turned comparison below |
| `RiskService` | `application/risk/service.go`, its repository and cache, `risk_handler.go` | the consumer step by step (`FetchSignal`, `MarkSignal`, `GetByUserAndStrategy`, `GetDefaultPolicy`, `GetSnapshot`, `Decide`, `PublishDecision`, `CommitSignal`) and each policy request as one critical section |
| `SignalToOrder` | the risk service composed with `OrderService` | what one publishes the other's topic delivers; steps interleave, either process restarts |
| `StrategyEngines` | `ema_strategy.go`, `rsi_strategy.go` | `EvaluateEMA`, `EvaluateRSI`: configuration, state and price to state and action; beside them the closed forms they are checked against |
| `StrategyService` | `application/strategy`, its repository, `strategy_handler.go` | `HandleEvent` marks, decodes and copies the active strategies, a set of ids; `EvaluateNext` is one turn of the loop over them, the least id first, which is the order `List` sorts them into |
| `MarketData` | `application/market`, `market_cache.go`, `market_stream.go` | the poller, cached reads and connections, a step per critical section or channel operation |
| `LossyStream` | the abstract stream: a client that joined hears some of what is aired, in order | `status`, `given`, `heard` |
| `AuthService` | `application/auth`, the user and role statements, `auth_handler.go` | requests with a pc; an action is one statement or one critical section of `mu`; the clock moves between any two |
| `UserService` | `application/user`, `user_repository.go`, `user_handler.go` | one action per SQL statement |
| `Accounts` | auth and user service over one database | users that register at one are served by the other |
| `Gateway` | the rate limiter and the token check of `http.go` | `Arrive` reads the clock, `Allow` is the critical section with what follows it |
| `MC*` | instances for TLC | model values, symmetry, small exchanges and fills |
| `*_proofs` | theorems | see section 5. `Accounts_proofs` and `SignalToOrder_proofs` hold the theorems of the auth and of the risk service too: those of a part come first, those of the composition rest on them. `Infrastructure_proofs` holds those of `Gateway` and of `KafkaConsumer`, whose definitions carry the prefix Loop (`LoopInit`, `LoopNext`, `FairLoopSpec`) so that one module can extend both |

In the modules, an operator under a comment that begins with "Slip" is a plausible
bug in the definition that follows it. No specification uses it; putting it in
place of the definition must break the properties that `PROJECT.json` lists
under `mutants`, which is how each property is known to say something.

Abstractions shared by the modules. A topic is one log: the real topics have
three partitions keyed by order id, so orders on different partitions are only
more independent than here. Payloads are ids and small records. `AttemptCount`,
timestamps, reasons, caches that are never read (`executionCache`,
`byExchangeID`) and `Update` calls that store a pointer which is stored already
are left out. Quantities are whole units; prices in `PortfolioService` are whole
multiples of a unit fine enough for every average the bounds allow, so the
floating-point rounding of the code is not modelled. `order_handler.go` and
`risk_handler.go` directly in `internal/transport` are duplicates no main registers.

The exchange is external: `BinanceClient.SubmitOrder` and `GetOrderStatus` are
mocks that always accept and report one fill. The model lets an adapter do what its
interface allows: refuse, place the order and lose the reply, deduplicate by
client order id or not, fill in parts, fail a poll. The order service is modelled
with every operation it exports: in the deployed binaries `TransitionOrder` has no
caller and `UpdateOrderFill` is reached only over HTTP, with `partial_filled`;
the constants `Targets` and `FillStatuses` say what callers pass. In
`PortfolioService` the constant `MatchingKeys` says whether the event's JSON keys are
the consumer's field names: the struct accepts those, while the execution
service writes snake_case keys (run `portfolio_wire`). `PositionsMatchFills` compares the
positions with the fills as they were written and is false without matching keys;
`PositionsMatchDecodedFills` and `MoneyIsConserved` compare them with the fills as
`json.Unmarshal` delivers them, and hold either way.

Of the new modules: amounts and balances of the risk service are whole units, and
its snapshots are keyed by user in the code, by the signal's owner (user and
strategy) in the model. A message no consumer of the pipeline can parse goes the
way of every handler error, which `KafkaConsumer` models; `StrategyService` keeps
an undecodable event of its own because it is marked first. Prices of the
strategies are multiples of a unit that every average within the bounds divides
evenly; configurations an engine refuses (a fast period that is not positive or not below the
slow one, a negative signal period) are an operator (`Refused`) and not in
the instances. In `MarketData` a price is the number of the fetch that brought it
and there is one symbol; the lifetime of a cache entry is abstracted: a lookup may
judge it either way. `ContextDone` is allowed although a hijacked connection never
sees its context end. Passwords and signatures are left out of `AuthService`: an
access token is its user and second, a refresh token is a number.
`ValidateAccessToken` has no caller but the tests. `fed`, `idleAt` and `requests`
(strategies), `checked` (orders), `watch` (risk), `loggedOut` (auth) and `decided` (gateway) are
history variables: properties read them, no guard does except a bound.

## 3. Runs

Passing:

- `execution_safety`: two orders of three units, two messages, an exchange that
  deduplicates. Two orders are what lets the consumer hold one while the
  reconciler fills the other; three units allow two different partial fills.
  Units are counted at most twice (each poll reports all fills again and the cap
  stops the third), a stored partial fill counts exactly one poll, `filled` is
  published at most twice, and a stored execution changes only in the ways
  `VisibleTransitions` lists; the one way out of `filled` is the late `Update`.
- `execution_restart`: one order of two units, one message, no deduplication, a
  SIGTERM and a restart, under fairness: a failed execution used every attempt,
  submissions settle and submitted executions get filled.
- `order_serial`: two orders, repeated and refused decisions, one worker, a restart:
  the service implements `OrderLifecycle`, one order per decision, an announced
  cancellation stands, and the topic is drained.
- `order_concurrent`: one order, two workers. Two are enough for every race the code
  has, because each request reads and writes one order and a third adds no new step
  between the check and the assignment of the first. The order is
  posted, with a decision's id or without. The executed quantity stays within the quantity, and a terminal order
  moves only by a request whose check saw it before it was terminal; that an overlap
  may leave a filled order with a smaller executed quantity is not excluded.
- `consumer_delivery`: three messages over two ids and a poisoned one, two restarts:
  the loop implements `AtLeastOnce`, an id has one effect per run, a message
  without an effect had an error, and the topic is drained.
- `portfolio_accounts`: three messages of six executions (two buys, two sells, an
  empty fill, an unknown side) reach every branch in long and short direction, a
  price update and a restart, for an event whose keys match: positions are the sum of
  the fills, money is conserved.
- `signal_to_order`: two signals of two owners (one with an order, one empty) in two
  messages, so that one may come twice; tight limits in posted and updated policies,
  loose ones in the default; an account that passes, one without money and none;
  two requests, which replace a policy and delete another while a signal is in hand;
  a restart of each process. An approval means that every limit holds on the account
  that was read, a signal is decided once per run, a standing policy of the owner
  prevails, only an uncovered signal is dropped, every order comes from an approved
  signal, and a signal becomes one order per run of the two processes.
- `strategy_signals`: strategies out of an EMA, an RSI and one of another symbol,
  four messages whose prices rise, fall, come back and make the averages meet, one
  undecodable event, a restart, and three requests: two strategies are created and one of
  them toggled, or one is created, deactivated and activated again between prices. More
  of both at once is left to the theorems, which hold for any number. Two events of one
  price may be exchanged (symmetry). Four prices
  are a first state, two crossings and a meeting. The step-by-step averages equal
  their closed form over the prices evaluated, a message gives one signal, signals
  alternate, and a deactivated strategy emits only for the event in hand.
- `market_stream`: a poller, an HTTP read, two connections with a buffer of one, three
  fetches: the second broadcast finds a full buffer, the third a drained one. A price
  is published once, streams implement `LossyStream`, and a round always ends.
- `accounts`: two clients, one email, lifetimes of two seconds on a clock of three,
  five requests, a restart. Two clients race with one token; the clock passes the
  lifetime so that marks are pruned.
- `gateway`: two goroutines of one IP, with the configured token or none, a window of
  three, limits of two and one, six requests on a clock of six, so that two windows
  follow each other and one may be opened in the past by a wait of up to two.

Violation:

- `portfolio_wire`: with the keys the execution service really writes, no fill
  reaches a position (details with quotes under `findings` in `PROJECT.json`).

`TypeOK` (`LoopTypeOK` of the consume loop) is an invariant of every component's module;
it is checked as a run property where no proof shows it more generally and elsewhere holds under the same `.cfg`.

What the code does and its documents do not say. The models show these
(a property is worded around each of the first group):

- a late `Update` puts a filled execution back to submitted, once
  (`docs/tasks/011-execution-service/IMPLEMENTATION.md:372` has it final);
- `applyFills` counts fills again that an earlier poll counted
  (`011-execution-service/README.md:99`);
- overlapping requests move a terminal order
  (`010-order-service/IMPLEMENTATION.md:56`);
- a crash before the commit announces a decision as a second order
  (`010-order-service/IMPLEMENTATION.md:183`): hence "and restart" in
  `OneOrderPerSignalAndRestart`;
- `POST /policies` never sets an id, so each posted policy replaces the one stored
  under the empty id, whoever owns it (`009-risk-service/README.md:9`);
- a signal without any policy is dropped with an error, not rejected
  (`009-risk-service/IMPLEMENTATION.md:168`); no main
  feeds the snapshot cache, so in the deployed binaries every signal is judged on an
  empty account, and no approval updates it: several may exceed a limit together;
- with a negative balance the leverage quotient is negative and passes its limit;
- the gateway admits nearly two limits in the span of a window that straddles two of
  its windows, nearly three when requests wait for the mutex
  (`004-api-gateway/README.md:10` says 100 a minute).

Found while reading, and in the models without a property, since nothing in the code
makes up for them: after a restart the same order reaches the exchange again
(`011-execution-service/IMPLEMENTATION.md:353`); an order posted over HTTP is never
announced (`010-order-service/README.md:77`, `order_handler.go:100`); an order may be
canceled before `order.created` announces it (`order/service.go:141`); a dead letter
whose publication fails is committed and lost (`003-message-broker/README.md:19`,
`consumer.go:54`); a partial close realizes no profit and a flip stores no trade
result (`portfolio/service.go:218-263`). `RecalculateTotals` is four reads and writes:
a price update that has read the unrealized sum, overtaken by a fill that closes the
position and stores its totals, then stores `TotalPnL` of before the close
(`domain/portfolio.go:45`). Strategy signals carry no user, side or quantity, so the
risk service values them at zero; the RSI of a series without losses is 50; strategy
ids start again after a restart; a failed role assignment leaves a user that can log
in and never register again; two logins in one second share one access token, and
the logout of one ends both.

Every bound is a constant named `Max...` or the size of a set in a `.cfg`:
messages, restarts, attempts, requests, fetches, the clock. The runs of the
execution service check deadlock, and find none because its reconciler polls on; the
others do not, since those services may really stop (a consumer ends for good on a
fetch or commit error, and with the bounds spent nothing is left to do).

## 4. Fairness

`FairSpec` assumes that a goroutine with a step to take takes it (weak fairness of
the consumer, the reconciler and a request in progress): Go schedules every
runnable goroutine and the adapter calls return, by an answer or a timeout. The
consumer is owed only the steps that keep it alive: the broker error that ends it may
happen and need not, so no property holds because the consumer is bound to stop. For
`SubmittedGetsFilled` it adds strong fairness of polls and stores (a poll repeated
for ever is answered some time; the loop polls every 5 seconds) and that the
exchange completes orders it accepted. `MarketData` assumes weak
fairness of the rest of a poller's round once a ticker is fetched; that the round
ends must not, and does not, need anything of the clients. Nothing is assumed of
clients, producers, signals or restarts, and the other modules state safety only.

## 5. Proofs

`tlapm` checks the proofs to the last leaf. They hold for all orders, ids, workers,
quantities and bounds, under the named assumptions on the constants (bounds and
quantities are naturals, `NoOrder` is not an order, subsets are subsets, prices and EMA
periods are whole numbers, RSI periods positive ones, there are finitely many decision
ids, statuses are statuses); TLC evaluates those on every run.

- `ExecutionService_proofs`: `TypeCorrect`; `CountingInvHolds`, the invariant that
  ties what an execution counts to its status and to what the goroutines still hold;
  from it `CountedAtMostTwice` and `PartialExact`. The bound of two is not inductive
  by itself: it follows only because an execution that counts once is partially
  filled or was put back by a late update, of which there is one.
  `LifeInvHolds`: what either goroutine holds of an execution is what is stored, except
  for the one late `Update`; from it the action properties `TransitionsAreVisible` and
  `FilledStays`, and `AnnouncedAtMostTwice`, since an announcement needs a fill and only
  that update makes a second one possible. `FailedUsedAll` from `AttemptsInv`, which
  follows the attempts of the order in hand.
- `OrderService_proofs`: `TypeCorrect`. `DecisionMakesOneOrder`, from `DecisionInv`:
  an order exists only under a minted id and its decision is marked, so a second one
  would need an id minted twice or a mark not found. `TerminalMovesByOverlap`, from
  `CheckedInv`: a request that is past its check has seen a status from which its
  transition is legal, and a terminal status has no transition (`FinalIsStuck`), so a
  request that moves a terminal order has seen another one. `ExecutedBounded`, which needs that every
  request in progress carries a validated quantity. For one worker, `SerialInv`
  (what is applied was checked, what is published was canceled) gives
  `SerialCancellationStands` and the refinement `SerialImplementsLifecycle`: each
  step is a `Create`, a `Move`, a `ProcessEnds` or a stutter.
- `PortfolioService_proofs`: `TypeCorrect`, for which `TypeOK` needs `WorkInv` (where the
  consumer works, the fill in hand names a portfolio and a side, and something is left of
  it exactly where it is still to be applied; a user without a portfolio holds nothing).
  `PositionsFollowFills`, from `MarkInv` (what the process took is marked, but for a
  message not looked at) and `QuantityInv`: what is held and what is left of the fill in
  hand add up to the marked fills, where a position that was closed counts for nothing
  before it is removed. `BooksBalance`, from `MoneyInv`, the same for money: a closed
  position is realized before it is removed, what is left of a flip counts at its price;
  and `TradeInv`: a stored trade was marked and is not the fill still being applied, so
  that no fee is counted twice. Price updates and both halves of a race on the totals are
  among the steps that leave the books alone (`QuietSteps`).
  Neither says anything of the producer's keys: with matching keys the fill in hand is the
  fill written; without them every event names the empty execution, user and symbol,
  and `UnreadFillsMoveNothing` shows that it opens an account without a name and books
  nothing for anybody (`UnreadInv`: no position, no trade, no balance moved). That the positions then
  are not the sum of the fills written is what run `portfolio_wire` shows.
  `BooksBalance` assumes that averages are exact (`AveragesAreExact`): the code
  divides float64 numbers, the model whole ones, and the two agree only then. The prices
  of the checked instance are multiples of 60 for that reason.
  The sums are `SumFunctionOnSet` of the community modules, a recursion over subsets:
  the lemmas at the head of the module take a smallest subset for which a sum would be
  wrong, since no induction rule with an operator can be used.
- `SignalToOrder_proofs`, of the risk service: `TypeCorrect`.
  `ApprovalsStayWithinLimits`: a decision is what `EvaluateSignal` says of what was read
  (`DecisionsFollow`), and `EvaluationMeaning` shows that the divided checks decide as
  the inequalities they stand for. `SignalsDecidedOnce` from `OneDecisionInv`: a decision
  has a mark, and the signal in hand past its mark has no decision yet.
  `OwnersPolicyPrevails` and `DropsAreUncovered` from `WatchInv`: a policy that was there
  throughout is still stored until its lookup, and is the one held after it.
  Of the composition: `PipelineImplementsRisk` (each step is one of the risk service or
  leaves it alone), so that those four hold there (`RiskStandsInPipeline`);
  `PipelineImplementsOrder` likewise, where a publication must be a delivery within the
  order service's bound: decisions are published once (`PublishedOnce`), so the topic is
  never longer than there are ids. `OrderStandsInPipeline` then follows from the theorem
  of `OrderService_proofs`, instantiated.
  `OrdersAreApproved` from `OrderInv`: what is on the topic was published, so decided and
  approved, and what the order service holds came from the topic.
  `OrdersAreFew` is a count: the announcements are at most the handled decisions and one
  for each restart of the order service, which can only handle again the message in
  hand; the decisions of a signal that this run of the risk service does not know are at
  most one for each of its restarts (`CountInv`). Neither half is inductive alone.
- `Accounts_proofs`, of the auth service: `TypeCorrect`, with what each place in a
  request must hold. `LogoutIsFinal` from `LateInv`: a logged-out token is marked with its
  expiry until it has expired, so what a validation that began after the logout finds
  unmarked has expired, and is refused when the token is parsed. `RefreshTokensRotate`:
  at most one refreshable session or pending successor per login is inductive,
  because the mark and the lookup are one critical section.
  With the user service on the same database: `AuthStandsInAccounts` (steps of the user
  service leave those invariants), `AccountsTypeCorrect`. `AnsweredUpdatesStand` from
  `UpdateInv`: an update nothing has overlapped is the only one of its user in progress,
  and what it has written so far is what the tables hold. `DeletionsAreAuditedOnce` from
  `AuditInv`: a request that will write the entry of a key is alone in having deleted its
  row, and an id never returns.
- `Infrastructure_proofs`, of the gateway: `TypeCorrect` with the bound on the wait for the mutex, and
  `LimiterInvHolds`, one invariant about a bucket (`BucketInv`) for those of the IPs and
  of the users: the count of a window is no more than what passed since it began, and
  what a span holds is bounded by where it lies beside the current window and by the
  count (`SpanBound`), never more than three limits less one. From it `SpansAreBounded`
  and `RefusalsAreDue`.
  Of the consume loop: `LoopTypeCorrect`; `StaysInStep` for the offsets;
  `AtMostOncePerRun` and `NothingIsDropped` from `MarksInv` (a mark has a reason, an
  effect has a mark); `ImplementsDelivery`, the refinement of `AtLeastOnce`.
- `MarketData_proofs`: `TypeCorrect` with the locking discipline. `PricesPublishedOnce`:
  whoever fetched a price is the only one that holds it for publication.
  `ImplementsLossyStream`, the refinement of `LossyStream` for any clients and buffer
  size: what a client was given is what it has heard, then what its buffer holds, in
  order, and a closed channel is never sent on.
- `StrategyService_proofs`: `TypeCorrect`; `EvaluatedOnce`: what was evaluated for a
  strategy is no more than was taken and marked. `SignalledOnce` from
  `EmittedBehind`: the strategy of a signal of the message in hand is done with that
  message or, in a new run, has no state, and the first price of a state is a hold.
  `EmitsOnlyInHand` from `WaitingWasActive`: a strategy in the batch is active or was
  deactivated while the message was in hand.
  Of the engines, which are functions: `EvaluateMatches`. A price more takes an engine from
  the state of the prices before to the state of them all, where the averages are the
  closed forms of `StrategyEngines` (weighted sums with powers for weights), for any prices,
  periods and length. `Power` and `Total` are recursive functions; that such a function
  has the values its equation says is itself proved (`Recursion`), from the least
  number for which it would fail, since the library's theorems on recursion and induction
  take operators. `WeightedSumGrows` is the algebra of a price more, `SmoothedMean` what
  a division does to it.
  From it `StatesMatch` (that is, `StateMatchesPrices`), with `MatchInv`: every
  engine has the state of exactly the events evaluated for its strategy; and
  `SignalsTakeTurns` (`SignalsAlternate`), with `SideInv`: since the last signal of a
  strategy in this run its averages stayed on the side it announced, or met. Alternation
  alone is not inductive, because it says nothing of the averages between two signals.
  Both suppose `AveragesAreExact`: no division of a step leaves a rest. Without it the
  closed form is false of the model, which divides whole numbers, as it is true of the
  code only up to the rounding of float64. That the checked instance meets the
  hypothesis is `TicksAreExact` in `MCStrategyService`, which TLC evaluates for every
  order of the prices.

Only model-checked: liveness (`SubmissionSettles`, `SubmittedGetsFilled`,
`TopicIsDrained`, `RoundsEnd`), which the prover cannot treat under fairness. Every
invariant and action property of the runs is a theorem.

## 6. What could follow

Every service of the pipeline is modelled, and the auth, user, market and gateway
services. What would say more about the whole is a `TradingPipeline` from the
signal to the position: the executions and the fills behind `SignalToOrder`.

## 7. Not modelled

Configuration, database connection and migrations, logging, tracing and metrics:
start-up and I/O without state of their own. Middleware other than the rate limiter and
the token check keeps no state. WebSocket framing and the encryption of API keys are
pure functions of library calls. `order_handler.go` and `risk_handler.go` directly in
`internal/transport` are registered by no main. Of the portfolio service: its
read-only calculators, `UpdateMargin` and `Delete`, which have no caller, and several
price updates at once. Of the producer: batching and the creation of topics.
