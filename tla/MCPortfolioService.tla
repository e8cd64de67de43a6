------------------------- MODULE MCPortfolioService -------------------------
(* PortfolioService for the model checker: one user, one symbol, fills that     *)
(* open, add, reduce, close and flip; prices are multiples of Scale so that the *)
(* averages of the bounded fills are whole numbers.                             *)
EXTENDS PortfolioService

Scale == 60

Fill(side, qty, price) ==
    [user |-> "u", symbol |-> "s", side |-> side, qty |-> qty, price |-> price * Scale, fees |-> 1]

MCEvents ==
    [buy1 |-> Fill("BUY", 1, 1), buy2 |-> Fill("BUY", 2, 3), sell1 |-> Fill("SELL", 1, 2),
     sell3 |-> Fill("SELL", 3, 4), nothing |-> Fill("BUY", 0, 1), unknown |-> Fill("other", 1, 1)]
MCExecutions == DOMAIN MCEvents
MCPrices == {2 * Scale, 5 * Scale}

=============================================================================
