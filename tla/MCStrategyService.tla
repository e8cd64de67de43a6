------------------------- MODULE MCStrategyService -------------------------
(* Small instances of StrategyService for TLC: prices that rise, fall and come back, *)
(* in a unit that four of them divide evenly.                                         *)
EXTENDS StrategyService, SequencesExt

CONSTANTS base, up, back, again, broken   \* the events, as model values

Unit == 64

\* Base, up, back and up again makes the averages meet exactly at back.
MCPrice == (base :> 4 * Unit) @@ (up :> 8 * Unit) @@ (back :> 3 * Unit)
           @@ (again :> 8 * Unit) @@ (broken :> 0)

MCEvents == DOMAIN MCPrice
MCSymbol == [e \in MCEvents |-> "X"]

\* The two events that differ in their id only may be exchanged.
Twins == Permutations({up, again})

Cross == [type |-> "ema_cross", symbol |-> "X", fast |-> 3, slow |-> 7, signal |-> 9]
Strength == [type |-> "rsi", symbol |-> "X", period |-> 2, oversold |-> 30, overbought |-> 70]
Elsewhere == [type |-> "ema_cross", symbol |-> "Y", fast |-> 3, slow |-> 7, signal |-> 9]
MCConfigs == {Cross, Strength, Elsewhere}

\* A run of MaxMessages events divides evenly throughout: what the theorems about the
\* engines suppose holds here.
ASSUME TicksAreExact ==
    \A config \in MCConfigs, n \in 0..(MaxMessages - 1) :
        \A es \in [1..n -> MCEvents \ Undecodable], e \in MCEvents \ Undecodable :
            LET st == FoldLeft(LAMBDA s, x : Evaluate(config, s, MCPrice[x]).state, NoState, es)
            IN IsInjective(es) /\ (\A i \in 1..n : es[i] # e) /\ st # NoState
               => StepIsExact(config, st, MCPrice[e])

=============================================================================
