--------------------------- MODULE StrategyEngines ---------------------------
(***************************************************************************)
(* The engines of the strategy service, application/strategy/              *)
(* ema_strategy.go and rsi_strategy.go, as functions of a configuration,   *)
(* a state and a price.  The code computes in float64; here prices are     *)
(* whole multiples of a unit fine enough for the averages of the bounded   *)
(* runs, and quotients are compared multiplied out.                        *)
(***************************************************************************)
EXTENDS Integers, Sequences

NoState == [engine |-> "none"]

\* alpha * x + (1 - alpha) * average, for alpha = num / den: an EMA has alpha
\* 2 / (n + 1), a Wilder average 1 / n.
Smooth(average, x, num, den) == (num * x + (den - num) * average) \div den

Ema(average, price, n) == Smooth(average, price, 2, n + 1)

\* A step gives the next state and the action.
Step(state, action) == [state |-> state, action |-> action]

\* Slip: touching counts as crossing, and the side the averages were on is ignored.
EvaluateEMANoMemory(config, st, price) ==
    IF st = NoState
    THEN Step([engine |-> "ema", fast |-> price, slow |-> price, diff |-> 0], "hold")
    ELSE LET fast == Ema(st.fast, price, config.fast)
             slow == Ema(st.slow, price, config.slow)
             diff == fast - slow
         IN Step([engine |-> "ema", fast |-> fast, slow |-> slow, diff |-> diff],
                 IF diff > 0 THEN "buy" ELSE IF diff < 0 THEN "sell" ELSE "hold")

EvaluateEMA(config, st, price) ==
    IF st = NoState
    THEN Step([engine |-> "ema", fast |-> price, slow |-> price, diff |-> 0], "hold")
    ELSE LET fast == Ema(st.fast, price, config.fast)
             slow == Ema(st.slow, price, config.slow)
             diff == fast - slow
         IN Step([engine |-> "ema", fast |-> fast, slow |-> slow, diff |-> diff],
                 CASE st.diff <= 0 /\ diff > 0 -> "buy"
                   [] st.diff >= 0 /\ diff < 0 -> "sell"
                   [] OTHER                    -> "hold")

Positive(x) == IF x > 0 THEN x ELSE 0

\* The index is 100 * gain / (gain + loss), and 50 when nothing was lost.
Oversold(config, gain, loss) ==
    IF loss > 0 THEN 100 * gain <= config.oversold * (gain + loss) ELSE 50 <= config.oversold

Overbought(config, gain, loss) ==
    IF loss > 0 THEN 100 * gain >= config.overbought * (gain + loss) ELSE 50 >= config.overbought

\* The first price is only kept, the first move starts the averages.
EvaluateRSI(config, st, price) ==
    IF st = NoState
    THEN Step([engine |-> "rsi", last |-> price, gain |-> 0, loss |-> 0, count |-> 0], "hold")
    ELSE LET gain == Positive(price - st.last)
             loss == Positive(st.last - price)
             Average(a, x) == IF st.count = 0 THEN x ELSE Smooth(a, x, 1, config.period)
             g == Average(st.gain, gain)
             l == Average(st.loss, loss)
         IN Step([engine |-> "rsi", last |-> price, gain |-> g, loss |-> l,
                  count |-> st.count + 1],
                 CASE st.count = 0              -> "hold"
                   [] Overbought(config, g, l)  -> "sell"
                   [] Oversold(config, g, l)    -> "buy"
                   [] OTHER                     -> "hold")

\* A configuration the engine refuses leaves the state and emits nothing.
Refused(config) ==
    /\ config.type = "ema_cross"
    /\ config.fast <= 0 \/ config.signal < 0 \/ config.fast >= config.slow

Evaluate(config, st, price) ==
    CASE Refused(config)            -> Step(st, "hold")
      [] config.type = "rsi"        -> EvaluateRSI(config, st, price)
      [] OTHER                      -> EvaluateEMA(config, st, price)

-----------------------------------------------------------------------------
(* What the averages stand for, in closed form. *)

Power(b, n) == LET p[i \in Nat] == IF i = 0 THEN 1 ELSE b * p[i - 1] IN p[n]

Total(w) == LET s[i \in 0..Len(w)] == IF i = 0 THEN 0 ELSE w[i] + s[i - 1] IN s[Len(w)]

\* den^(n-1) times the weighted mean of x[1..n]: the first has the weight the later
\* ones leave, each later one num * (den - num)^(its age).
WeightedSum(x, num, den) ==
    LET n == Len(x)
        Weight(i) == IF i = 1 THEN Power(den - num, n - 1)
                     ELSE num * Power(den - num, n - i) * Power(den, i - 2)
    IN Total([i \in 1..n |-> Weight(i) * x[i]])

IsMean(average, x, num, den) ==
    average * Power(den, Len(x) - 1) = WeightedSum(x, num, den)

Moves(x) == [i \in 1..(Len(x) - 1) |-> x[i + 1] - x[i]]
Gains(x) == [i \in 1..(Len(x) - 1) |-> Positive(Moves(x)[i])]
Losses(x) == [i \in 1..(Len(x) - 1) |-> Positive(-Moves(x)[i])]

\* The state an engine must have after the prices x.
MatchesPrices(config, st, x) ==
    CASE x = <<>> \/ Refused(config) -> st = NoState
      [] config.type = "rsi" /\ x # <<>> ->
            /\ st.last = x[Len(x)] /\ st.count = Len(x) - 1
            /\ Len(x) = 1 => st.gain = 0 /\ st.loss = 0
            /\ Len(x) > 1 => IsMean(st.gain, Gains(x), 1, config.period)
                             /\ IsMean(st.loss, Losses(x), 1, config.period)
      [] OTHER ->
            /\ IsMean(st.fast, x, 2, config.fast + 1)
            /\ IsMean(st.slow, x, 2, config.slow + 1)

\* The divisions of a step leave nothing.
StepIsExact(config, st, price) ==
    LET Exact(average, x, num, den) == (num * x + (den - num) * average) % den = 0
    IN IF config.type = "rsi"
       THEN st.count > 0 => /\ Exact(st.gain, Positive(price - st.last), 1, config.period)
                            /\ Exact(st.loss, Positive(st.last - price), 1, config.period)
       ELSE /\ Exact(st.fast, price, 2, config.fast + 1)
            /\ Exact(st.slow, price, 2, config.slow + 1)

\* The averages of the prices x agree.
AveragesMeet(config, x) ==
    WeightedSum(x, 2, config.fast + 1) * Power(config.slow + 1, Len(x) - 1)
        = WeightedSum(x, 2, config.slow + 1) * Power(config.fast + 1, Len(x) - 1)

=============================================================================
