---------------------------- MODULE RiskEvaluator ----------------------------
(***************************************************************************)
(* The pure part of the risk service, application/risk/evaluator.go: five  *)
(* checks of an order value against the limits of a policy and a snapshot  *)
(* of the portfolio.  The code divides in float64, where x/0 is an         *)
(* infinity and 0/0 a NaN that no comparison exceeds, and where a          *)
(* negative divisor turns a comparison round; amounts are whole units and  *)
(* the quotients are multiplied out with those cases kept.                 *)
(***************************************************************************)
EXTENDS Integers

Amount == Int

\* minMargin is a percentage; maxLoss is negative.
Limits == [maxPosition : Amount, maxLeverage : Amount, minMargin : Amount,
           maxLoss : Amount, maxExposure : Amount]

Snapshot == [balance : Amount, margin : Amount, pnl : Amount, exposure : Amount]

EmptySnapshot == [balance |-> 0, margin |-> 0, pnl |-> 0, exposure |-> 0]

\* a/b > max in float64.
QuotientExceeds(a, b, max) ==
    \/ b > 0 /\ a > max * b
    \/ b < 0 /\ a < max * b
    \/ b = 0 /\ a > 0

\* a/b < min percent in float64, for b # 0: the caller has excluded 0.
QuotientBelow(a, b, min) ==
    \/ b > 0 /\ 100 * a < min * b
    \/ b < 0 /\ 100 * a > min * b

checkPositionSize(limits, value) == ~ value > limits.maxPosition

checkLeverage(limits, snapshot, value) ==
    ~ QuotientExceeds(snapshot.exposure + value, snapshot.balance, limits.maxLeverage)

\* Slip: a balance of zero is not refused.
checkMarginAlways(limits, snapshot) ==
    ~ QuotientBelow(snapshot.margin, snapshot.balance, limits.minMargin)

checkMarginRatio(limits, snapshot) ==
    /\ snapshot.balance # 0
    /\ ~ QuotientBelow(snapshot.margin, snapshot.balance, limits.minMargin)

checkDailyLoss(limits, snapshot) == ~ snapshot.pnl < limits.maxLoss

checkExposure(limits, snapshot, value) == ~ snapshot.exposure + value > limits.maxExposure

\* The five checks in order.  All are pure, so that the code stops at the first that
\* fails shows only in the wording of the rejection, which is left out.
EvaluateSignal(limits, snapshot, value) ==
    /\ checkPositionSize(limits, value)
    /\ checkLeverage(limits, snapshot, value)
    /\ checkMarginRatio(limits, snapshot)
    /\ checkDailyLoss(limits, snapshot)
    /\ checkExposure(limits, snapshot, value)

-----------------------------------------------------------------------------
(* What the limits mean, with nothing divided. *)

\* The order keeps the account within every limit of the policy.
WithinLimits(limits, snapshot, value) ==
    /\ value <= limits.maxPosition
    /\ snapshot.exposure + value <= limits.maxLeverage * snapshot.balance
    /\ 100 * snapshot.margin >= limits.minMargin * snapshot.balance
    /\ snapshot.pnl >= limits.maxLoss
    /\ snapshot.exposure + value <= limits.maxExposure

=============================================================================
