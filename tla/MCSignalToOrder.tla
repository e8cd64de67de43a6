-------------------------- MODULE MCSignalToOrder --------------------------
(* Small instances of the risk service, alone and with the order service.  An empty *)
(* and a small order against loose and tight limits, on accounts with money, in    *)
(* debt, or without a snapshot.                                                    *)
EXTENDS SignalToOrder, TLC

MCOwners == {"default", "o1", "o2"}
MCOwner == [s1 |-> "o1", s2 |-> "o2"]
MCValue == [s1 |-> 2, s2 |-> 0]
MCSignals == DOMAIN MCOwner

Limit(position, leverage, exposure) ==
    [maxPosition |-> position, maxLeverage |-> leverage, minMargin |-> 50, maxLoss |-> -1,
     maxExposure |-> exposure]
Loose == Limit(5, 3, 9)
Tight == Limit(2, 3, 3)
TightOnly == {Tight}

Account(balance, margin, pnl, exposure) ==
    [balance |-> balance, margin |-> margin, pnl |-> pnl, exposure |-> exposure]
SomeSnapshots == {Account(3, 2, 0, 2), EmptySnapshot}

Symmetry == Permutations(DecisionIDs) \cup Permutations(OrderIDs)

=============================================================================
