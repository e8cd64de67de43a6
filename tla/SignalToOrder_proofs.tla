------------------------ MODULE SignalToOrder_proofs ------------------------
(***************************************************************************)
(* Theorems about the risk service, and about the risk and the order       *)
(* service composed, for any signals, owners, limits, snapshots and ids.   *)
(* First the risk service by itself; the composition implements it, and    *)
(* the order service, so that the theorems of both hold there as well, and *)
(* adds the invariants that relate the two.                                *)
(***************************************************************************)
EXTENDS SignalToOrder, SequenceTheorems, FiniteSetTheorems, TLAPS

USE OwnersAssumption, MissingAssumption, ValueAssumption, LimitsAssumption,
    SnapshotsAssumption, NoIDAssumption, RiskBoundsAssumption

-----------------------------------------------------------------------------
(* The evaluator. *)

\* Divided in float64 the five checks mean what they mean with nothing divided, as
\* long as there is money; without money none of them lets an order pass.
LEMMA EvaluationMeaning ==
  ASSUME NEW limits \in Limits, NEW snapshot \in Snapshot, NEW value \in Amount
  PROVE  /\ snapshot.balance > 0 =>
              (EvaluateSignal(limits, snapshot, value)
                 <=> WithinLimits(limits, snapshot, value))
         /\ snapshot.balance = 0 => ~ EvaluateSignal(limits, snapshot, value)
         /\ EvaluateSignal(limits, snapshot, value) \in BOOLEAN
<1> USE DEF EvaluateSignal, checkPositionSize, checkLeverage, checkMarginRatio,
            checkDailyLoss, checkExposure
<1>1. /\ snapshot.balance \in Int /\ snapshot.margin \in Int
      /\ snapshot.pnl \in Int /\ snapshot.exposure \in Int /\ value \in Int
      /\ limits.maxPosition \in Int /\ limits.maxLeverage \in Int
      /\ limits.minMargin \in Int /\ limits.maxLoss \in Int
      /\ limits.maxExposure \in Int
  BY DEF Limits, Snapshot, Amount
<1>2. ASSUME snapshot.balance > 0
      PROVE  EvaluateSignal(limits, snapshot, value)
               <=> WithinLimits(limits, snapshot, value)
  <2>1. limits.maxLeverage * snapshot.balance \in Int
        /\ limits.minMargin * snapshot.balance \in Int
    BY <1>1
  <2>2. checkLeverage(limits, snapshot, value) <=>
          snapshot.exposure + value <= limits.maxLeverage * snapshot.balance
    BY <1>1, <1>2, <2>1 DEF QuotientExceeds
  <2>3. checkMarginRatio(limits, snapshot) <=>
          100 * snapshot.margin >= limits.minMargin * snapshot.balance
    BY <1>1, <1>2, <2>1 DEF QuotientBelow
  <2>4. /\ checkPositionSize(limits, value) <=> value <= limits.maxPosition
        /\ checkDailyLoss(limits, snapshot) <=> snapshot.pnl >= limits.maxLoss
        /\ checkExposure(limits, snapshot, value)
             <=> snapshot.exposure + value <= limits.maxExposure
    BY <1>1
  <2> HIDE DEF checkPositionSize, checkLeverage, checkMarginRatio, checkDailyLoss,
               checkExposure
  <2> QED
    BY <2>2, <2>3, <2>4 DEF WithinLimits
<1>3. snapshot.balance = 0 => ~ EvaluateSignal(limits, snapshot, value)
  OBVIOUS
<1>4. EvaluateSignal(limits, snapshot, value) \in BOOLEAN
  OBVIOUS
<1> QED
  BY <1>2, <1>3, <1>4

-----------------------------------------------------------------------------
(* Type correctness. *)

\* A policy found for an owner is a policy and is the owner's.
LEMMA FoundPolicy ==
  ASSUME policies \in [PolicyIDs -> Policy \cup {Missing}], NEW o \in Owners,
         NEW p \in PoliciesOf(policies, o)
  PROVE  p \in Policy /\ p.owner = o
<1>1. PICK id \in PolicyIDs : p = policies[id] /\ policies[id].owner = o
  BY DEF PoliciesOf
<1>2. p # Missing
  BY <1>1 DEF Missing
<1> QED
  BY <1>1, <1>2

LEMMA InitTypeOK == Init => TypeOK
<1> SUFFICES ASSUME Init PROVE TypeOK
  OBVIOUS
<1>1. EmptySnapshot \in Snapshot
  BY DEF EmptySnapshot, Snapshot, Amount
<1>2. InitialPolicies \in [PolicyIDs -> Policy \cup {Missing}]
  BY DEF InitialPolicies, Policy
<1> QED
  BY <1>1, <1>2 DEF Init, TypeOK, Nothing, Decision

\* A step of the repository keeps the types when what it stores has its type.
LEMMA StoreTypeOK ==
  ASSUME TypeOK, NEW stored \in [PolicyIDs -> Policy \cup {Missing}],
         Request, StorePolicies(stored)
  PROVE  TypeOK'
<1>1. watch' \in [own : BOOLEAN, default : BOOLEAN]
  BY DEF StorePolicies, StillStored, TypeOK
<1>2. requests' \in Nat
  BY DEF Request, TypeOK
<1> QED
  BY <1>1, <1>2 DEF StorePolicies, TypeOK, topicVars, decisionVars, outVars

\* Every action keeps TypeOK.
LEMMA NextTypeOK == TypeOK /\ [Next]_vars => TypeOK'
<1> SUFFICES ASSUME TypeOK, [Next]_vars PROVE TypeOK'
  OBVIOUS
<1> USE DEF topicVars, decisionVars, outVars, storeVars
<1>1. ASSUME NEW s \in Signals, DeliverSignal(s) PROVE TypeOK'
  <2>1. signals' \in Seq(Signals) /\ Len(signals') = Len(signals) + 1
    BY <1>1 DEF DeliverSignal, TypeOK
  <2> QED
    BY <1>1, <2>1 DEF DeliverSignal, TypeOK
<1>2. CASE FetchSignal
  BY <1>2 DEF FetchSignal, TypeOK
<1>3. CASE FetchSignalFails
  BY <1>3 DEF FetchSignalFails, TypeOK
<1>4. CASE MarkSignal
  <2>1. Signal \in Signals
    BY <1>4 DEF MarkSignal, TypeOK, Signal
  <2> QED
    BY <1>4, <2>1 DEF MarkSignal, TypeOK
<1>5. ASSUME rpc \in {"own", "default"}, NEW o \in Owners,
             NEW p \in PoliciesOf(policies, o), Hold(p), rpc' = "snapshot",
             UNCHANGED <<topicVars, processedSignals, decisionVars, outVars, storeVars,
                         watch, restarts>>
      PROVE  TypeOK'
  <2>1. p \in Policy
    BY <1>5, FoundPolicy DEF TypeOK
  <2>2. held'.policy \in Policy /\ held'.snapshot = held.snapshot
    BY <1>5, <2>1 DEF Hold, TypeOK, Nothing
  <2> QED
    BY <1>5, <2>2 DEF TypeOK
<1>6. CASE GetByUserAndStrategy
  <2>1. Owner[Signal] \in Owners
    BY <1>6 DEF GetByUserAndStrategy, TypeOK, Signal
  <2>2. CASE PoliciesOf(policies, Owner[Signal]) = {} /\ rpc' = "default" /\ UNCHANGED held
    BY <1>6, <2>2 DEF GetByUserAndStrategy, TypeOK
  <2> QED
    BY <1>6, <1>5, <2>1, <2>2 DEF GetByUserAndStrategy
<1>7. CASE GetDefaultPolicy
  <2>1. CASE rpc' = "commit" /\ UNCHANGED held
    BY <1>7, <2>1 DEF GetDefaultPolicy, TypeOK
  <2> QED
    BY <1>7, <1>5, <2>1 DEF GetDefaultPolicy
<1>8. CASE GetSnapshot
  <2>1. snapshots[Owner[Signal]] \in Snapshot
    BY <1>8 DEF GetSnapshot, TypeOK, Signal
  <2>2. held'.snapshot \in Snapshot /\ held'.policy = held.policy
    BY <1>8, <2>1 DEF GetSnapshot, TypeOK
  <2> QED
    BY <1>8, <2>2 DEF GetSnapshot, TypeOK
<1>9. ASSUME NEW id \in DecisionIDs, Decide(id) PROVE TypeOK'
  <2> DEFINE d == [id |-> id, signal |-> Signal, policy |-> held.policy,
                   snapshot |-> held.snapshot, ownAllAlong |-> watch.own,
                   isApproved |-> EvaluateSignal(held.policy.limits, held.snapshot,
                                                 Value[Signal])]
  <2>1. Signal \in Signals /\ held.policy \in Policy /\ held.snapshot \in Snapshot
        /\ watch.own \in BOOLEAN
    BY <1>9 DEF Decide, TypeOK, Signal
  <2>2. held.policy.limits \in Limits /\ Value[Signal] \in Amount
    BY <2>1 DEF Policy
  <2>3. EvaluateSignal(held.policy.limits, held.snapshot, Value[Signal]) \in BOOLEAN
    BY <2>1, <2>2, EvaluationMeaning
  <2>4. d \in Decision
    BY <2>1, <2>3 DEF Decision
  <2>5. decisions' = decisions \cup {d}
    BY <1>9 DEF Decide
  <2> HIDE DEF d
  <2> QED
    BY <1>9, <2>4, <2>5 DEF Decide, TypeOK
<1>10. CASE PublishDecision
  <2>1. Nothing.policy = Missing /\ Nothing.snapshot \in Snapshot
    BY DEF Nothing, EmptySnapshot, Snapshot, Amount
  <2>2. current \in DecisionIDs
    BY <1>10 DEF PublishDecision, TypeOK
  <2>3. approved' \in Seq(DecisionIDs)
    <3>1. Append(approved, current) \in Seq(DecisionIDs)
      BY <2>2 DEF TypeOK
    <3>2. approved' = Append(approved, current) \/ approved' = approved
      BY <1>10 DEF PublishDecision
    <3> QED
      BY <3>1, <3>2 DEF TypeOK
  <2>4. rejected' \subseteq DecisionIDs
    BY <1>10, <2>2 DEF PublishDecision, TypeOK
  <2> QED
    BY <1>10, <2>1, <2>3, <2>4 DEF PublishDecision, TypeOK
<1>11. CASE CommitSignal
  BY <1>11 DEF CommitSignal, TypeOK
<1>12. ASSUME NEW owner \in Owners, NEW limits \in LimitSets,
              CreatePolicy(owner, limits) \/ UpdatePolicy(owner, limits)
       PROVE  TypeOK'
  <2>1. [owner |-> owner, limits |-> limits] \in Policy
    BY DEF Policy
  <2>2. PICK id \in PolicyIDs :
          StorePolicies([policies EXCEPT ![id] = [owner |-> owner, limits |-> limits]])
    BY <1>12 DEF CreatePolicy, UpdatePolicy, PolicyIDs
  <2>3. [policies EXCEPT ![id] = [owner |-> owner, limits |-> limits]]
          \in [PolicyIDs -> Policy \cup {Missing}]
    BY <2>1 DEF TypeOK
  <2> QED
    BY <1>12, <2>2, <2>3, StoreTypeOK DEF CreatePolicy, UpdatePolicy
<1>13. CASE DeletePolicy
  <2>1. [policies EXCEPT ![DefaultID] = Missing] \in [PolicyIDs -> Policy \cup {Missing}]
    BY DEF TypeOK
  <2> QED
    BY <1>13, <2>1, StoreTypeOK DEF DeletePolicy
<1>14. ASSUME NEW s \in Signals, NEW snapshot \in FedSnapshots,
              UpdateSnapshot(Owner[s], snapshot)
       PROVE  TypeOK'
  BY <1>14 DEF UpdateSnapshot, Request, TypeOK
<1>15. CASE RestartRisk
  <2>1. Nothing.policy = Missing /\ Nothing.snapshot \in Snapshot
        /\ EmptySnapshot \in Snapshot
    BY DEF Nothing, EmptySnapshot, Snapshot, Amount
  <2>2. InitialPolicies \in [PolicyIDs -> Policy \cup {Missing}]
    BY DEF InitialPolicies, Policy
  <2> QED
    BY <1>15, <2>1, <2>2 DEF RestartRisk, TypeOK
<1>16. CASE UNCHANGED vars
  BY <1>16 DEF vars, TypeOK
<1> QED
  BY <1>1, <1>2, <1>3, <1>4, <1>6, <1>7, <1>8, <1>9, <1>10, <1>11, <1>12, <1>13, <1>14,
     <1>15, <1>16 DEF Next, RiskConsumer, RiskRequest

\* The variables of the risk service keep their types.
THEOREM TypeCorrect == Spec => []TypeOK
  BY InitTypeOK, NextTypeOK, PTL DEF Spec

-----------------------------------------------------------------------------
(* What a decision says of the policy and the snapshot it was based on. *)

\* Every decision is the evaluator's, of what is kept with it.
DecisionsFollow ==
  \A d \in decisions :
    d.isApproved = EvaluateSignal(d.policy.limits, d.snapshot, Value[d.signal])

LEMMA InitDecisionsFollow == Init => DecisionsFollow
  BY DEF Init, DecisionsFollow

\* Only Decide adds a decision, and none is ever changed.
LEMMA OnlyDecideDecides ==
  ASSUME [Next]_vars
  PROVE  decisions' = decisions \/ \E id \in DecisionIDs : Decide(id)
<1> USE DEF topicVars, decisionVars, outVars, storeVars
<1>1. CASE RiskRequest
  BY <1>1 DEF RiskRequest, CreatePolicy, UpdatePolicy, DeletePolicy, UpdateSnapshot, StorePolicies
<1>2. CASE RiskConsumer
  BY <1>2 DEF RiskConsumer, FetchSignal, FetchSignalFails, MarkSignal, GetByUserAndStrategy,
              GetDefaultPolicy, GetSnapshot, PublishDecision, CommitSignal
<1> QED
  BY <1>1, <1>2 DEF Next, DeliverSignal, RestartRisk, vars

LEMMA NextDecisionsFollow == DecisionsFollow /\ [Next]_vars => DecisionsFollow'
<1> SUFFICES ASSUME DecisionsFollow, [Next]_vars PROVE DecisionsFollow'
  OBVIOUS
<1>1. CASE decisions' = decisions
  BY <1>1 DEF DecisionsFollow
<1>2. ASSUME NEW id \in DecisionIDs, Decide(id) PROVE DecisionsFollow'
  BY <1>2 DEF Decide, DecisionsFollow
<1> QED
  BY <1>1, <1>2, OnlyDecideDecides

LEMMA FollowIsWithinLimits == TypeOK /\ DecisionsFollow => ApprovedWithinLimits
<1> SUFFICES ASSUME TypeOK, DecisionsFollow, NEW d \in decisions
             PROVE  /\ d.snapshot.balance > 0 =>
                         (d.isApproved <=> WithinLimits(d.policy.limits, d.snapshot,
                                                        Value[d.signal]))
                    /\ d.snapshot.balance = 0 => ~ d.isApproved
  BY DEF ApprovedWithinLimits
<1>1. d.policy.limits \in Limits /\ d.snapshot \in Snapshot /\ Value[d.signal] \in Amount
  BY DEF TypeOK, Decision, Policy
<1>2. d.isApproved = EvaluateSignal(d.policy.limits, d.snapshot, Value[d.signal])
  BY DEF DecisionsFollow
<1> QED
  BY <1>1, <1>2, EvaluationMeaning

\* An order is approved exactly when the account it was judged on stays within every
\* limit of the policy it was judged by, whatever the float divisions do.
THEOREM ApprovalsStayWithinLimits == Spec => []ApprovedWithinLimits
  BY InitTypeOK, NextTypeOK, InitDecisionsFollow, NextDecisionsFollow, FollowIsWithinLimits,
     PTL DEF Spec

-----------------------------------------------------------------------------
(* One decision per signal and run. *)

\* What this run has decided is marked, and the signal on its way to a decision has
\* none yet.
Marked ==
  /\ \A d \in decisions : d.id \in decisionsCache => d.signal \in processedSignals
  /\ rpc \in {"own", "default", "snapshot", "decide"} =>
       /\ Signal \in processedSignals
       /\ \A d \in decisions : d.id \in decisionsCache => d.signal # Signal

OneDecisionInv == Marked /\ OneDecisionPerSignal

LEMMA InitOneDecisionInv == Init => OneDecisionInv
  BY DEF Init, OneDecisionInv, Marked, OneDecisionPerSignal

\* The signal in hand stays in hand while the topic grows.
LEMMA SignalStays ==
  ASSUME TypeOK, NEW s \in Signals, DeliverSignal(s), rpc \notin {"fetch", "stopped"}
  PROVE  Signal' = Signal
<1>1. taken \in 1..Len(signals)
  BY DEF TypeOK
<1> QED
  BY <1>1 DEF DeliverSignal, Signal, TypeOK

LEMMA NextOneDecisionInv == TypeOK /\ OneDecisionInv /\ [Next]_vars => OneDecisionInv'
<1> SUFFICES ASSUME TypeOK, OneDecisionInv, [Next]_vars PROVE OneDecisionInv'
  OBVIOUS
<1> USE DEF OneDecisionInv, Marked, OneDecisionPerSignal, topicVars, decisionVars, outVars,
            storeVars
<1>1. ASSUME NEW s \in Signals, DeliverSignal(s) PROVE OneDecisionInv'
  BY <1>1, SignalStays DEF DeliverSignal
<1>2. CASE FetchSignal
  BY <1>2 DEF FetchSignal
<1>3. CASE MarkSignal
  BY <1>3 DEF MarkSignal, Signal
<1>4. CASE GetByUserAndStrategy
  BY <1>4 DEF GetByUserAndStrategy, Signal
<1>5. CASE GetDefaultPolicy
  BY <1>5 DEF GetDefaultPolicy, Signal
<1>6. CASE GetSnapshot
  BY <1>6 DEF GetSnapshot, Signal
<1>7. ASSUME NEW id \in DecisionIDs, Decide(id) PROVE OneDecisionInv'
  <2>1. PICK d : d.id = id /\ d.signal = Signal /\ decisions' = decisions \cup {d}
    BY <1>7 DEF Decide
  <2>2. Signal \in processedSignals
    BY <1>7 DEF Decide
  <2> QED
    BY <1>7, <2>1, <2>2 DEF Decide
<1>8. CASE PublishDecision
  BY <1>8 DEF PublishDecision
<1>9. CASE CommitSignal \/ FetchSignalFails
  BY <1>9 DEF CommitSignal, FetchSignalFails
<1>10. CASE RiskRequest
  BY <1>10 DEF RiskRequest, CreatePolicy, UpdatePolicy, DeletePolicy, UpdateSnapshot,
               StorePolicies, Signal
<1>11. CASE RestartRisk
  BY <1>11 DEF RestartRisk
<1>12. CASE UNCHANGED vars
  BY <1>12 DEF vars, Signal
<1> QED
  BY <1>1, <1>2, <1>3, <1>4, <1>5, <1>6, <1>7, <1>8, <1>9, <1>10, <1>11, <1>12
  DEF Next, RiskConsumer

\* While the process runs a signal is decided at most once.
THEOREM SignalsDecidedOnce == Spec => []OneDecisionPerSignal
<1>1. OneDecisionInv => OneDecisionPerSignal
  BY DEF OneDecisionInv
<1> QED
  BY <1>1, InitTypeOK, NextTypeOK, InitOneDecisionInv, NextOneDecisionInv, PTL DEF Spec

-----------------------------------------------------------------------------
(* Whose policy judges a signal. *)

\* What is still watched is still stored, until the consumer has read it; then it
\* holds what it has read.
WatchInv ==
  /\ rpc \in {"handle", "own"} => (watch.own => PoliciesOf(policies, Owner[Signal]) # {})
  /\ rpc \in {"handle", "own", "default"} =>
       (watch.default => PoliciesOf(policies, DefaultOwner) # {})
  /\ rpc = "default" => ~ watch.own
  /\ rpc \in {"snapshot", "decide"} => (watch.own => held.policy.owner = Owner[Signal])
  /\ OwnPolicyPrevails

LEMMA InitWatchInv == Init => WatchInv
  BY DEF Init, WatchInv, OwnPolicyPrevails

\* A write of the repository is watched while it can matter.
LEMMA StoreWatchInv ==
  ASSUME TypeOK, WatchInv, NEW stored, StorePolicies(stored)
  PROVE  WatchInv'
<1>1. UNCHANGED <<rpc, held, Signal, decisions>> /\ policies' = stored
  BY DEF StorePolicies, topicVars, decisionVars, Signal
<1>2. CASE rpc \in {"handle", "own", "default", "snapshot"}
  <2>1. watch' = [own |-> watch.own /\ PoliciesOf(stored, Owner[Signal]) # {},
                  default |-> watch.default /\ PoliciesOf(stored, DefaultOwner) # {}]
    BY <1>2 DEF StorePolicies, StillStored
  <2> HIDE DEF PoliciesOf
  <2> QED
    BY <1>1, <1>2, <2>1 DEF WatchInv, OwnPolicyPrevails
<1>3. CASE rpc \notin {"handle", "own", "default", "snapshot"}
  <2>1. watch' = watch
    BY <1>3 DEF StorePolicies, StillStored
  <2> QED
    BY <1>1, <1>3, <2>1 DEF WatchInv, OwnPolicyPrevails
<1> QED
  BY <1>2, <1>3

LEMMA NextWatchInv == TypeOK /\ WatchInv /\ [Next]_vars => WatchInv'
<1> SUFFICES ASSUME TypeOK, WatchInv, [Next]_vars PROVE WatchInv'
  OBVIOUS
<1> USE DEF WatchInv, OwnPolicyPrevails, topicVars, decisionVars, outVars, storeVars
<1>1. ASSUME NEW s \in Signals, DeliverSignal(s) PROVE WatchInv'
  BY <1>1, SignalStays DEF DeliverSignal
<1>2. CASE FetchSignal
  <2>1. Signal' = signals[taken + 1]
    BY <1>2 DEF FetchSignal, Signal
  <2> QED
    BY <1>2, <2>1 DEF FetchSignal
<1>3. CASE MarkSignal
  BY <1>3 DEF MarkSignal, Signal
<1>4. CASE GetByUserAndStrategy
  <2>1. Owner[Signal] \in Owners
    BY <1>4 DEF GetByUserAndStrategy, TypeOK, Signal
  <2>2. ASSUME NEW p \in PoliciesOf(policies, Owner[Signal]), Hold(p)
        PROVE  held'.policy.owner = Owner[Signal]
    BY <2>1, <2>2, FoundPolicy DEF Hold, TypeOK, Nothing
  <2> QED
    BY <1>4, <2>2 DEF GetByUserAndStrategy, Signal
<1>5. CASE GetDefaultPolicy
  BY <1>5 DEF GetDefaultPolicy, Signal
<1>6. CASE GetSnapshot
  BY <1>6 DEF GetSnapshot, Signal, TypeOK
<1>7. ASSUME NEW id \in DecisionIDs, Decide(id) PROVE WatchInv'
  <2>1. PICK d : /\ d.signal = Signal /\ d.policy = held.policy
                 /\ d.ownAllAlong = watch.own
                 /\ decisions' = decisions \cup {d}
    BY <1>7 DEF Decide
  <2> QED
    BY <1>7, <2>1 DEF Decide
<1>8. CASE PublishDecision \/ CommitSignal \/ FetchSignalFails
  BY <1>8 DEF PublishDecision, CommitSignal, FetchSignalFails
<1>9. CASE RiskRequest
  <2>1. ASSUME NEW s \in Signals, NEW snapshot \in FedSnapshots,
               UpdateSnapshot(Owner[s], snapshot)
        PROVE  WatchInv'
    BY <2>1 DEF UpdateSnapshot, Signal
  <2> HIDE DEF WatchInv
  <2> QED
    BY <1>9, <2>1, StoreWatchInv DEF RiskRequest, CreatePolicy, UpdatePolicy, DeletePolicy
<1>10. CASE RestartRisk
  BY <1>10 DEF RestartRisk
<1>11. CASE UNCHANGED vars
  BY <1>11 DEF vars, Signal
<1> QED
  BY <1>1, <1>2, <1>3, <1>4, <1>5, <1>6, <1>7, <1>8, <1>9, <1>10, <1>11
  DEF Next, RiskConsumer

\* A signal whose owner had a policy all the while is judged by one of the owner's.
THEOREM OwnersPolicyPrevails == Spec => []OwnPolicyPrevails
<1>1. WatchInv => OwnPolicyPrevails
  BY DEF WatchInv
<1> QED
  BY <1>1, InitTypeOK, NextTypeOK, InitWatchInv, NextWatchInv, PTL DEF Spec

\* A step that drops a signal for want of a policy found neither, and each was missing.
LEMMA DropIsUncovered ==
  ASSUME WatchInv, [Next]_vars, rpc = "default", rpc' = "commit"
  PROVE  ~ watch.own /\ ~ watch.default
<1> USE DEF topicVars, decisionVars, outVars, storeVars
<1>1. GetDefaultPolicy
  BY DEF Next, RiskConsumer, RiskRequest, DeliverSignal, FetchSignal, FetchSignalFails, MarkSignal,
         GetByUserAndStrategy, GetSnapshot, Decide, PublishDecision, CommitSignal,
         CreatePolicy, UpdatePolicy, DeletePolicy, UpdateSnapshot, StorePolicies, RestartRisk, vars
<1>2. PoliciesOf(policies, DefaultOwner) = {}
  BY <1>1 DEF GetDefaultPolicy
<1> QED
  BY <1>2 DEF WatchInv

\* No signal is dropped undecided unless its owner's policy and the default were both
\* missing at some moment while it was in hand.
THEOREM DropsAreUncovered == Spec => DroppedOnlyUncovered
<1>1. WatchInv /\ [Next]_vars =>
        [rpc = "default" /\ rpc' = "commit" => ~ watch.own /\ ~ watch.default]_vars
  BY DropIsUncovered
<1> QED
  BY <1>1, InitTypeOK, NextTypeOK, InitWatchInv, NextWatchInv, PTL DEF Spec, DroppedOnlyUncovered

-----------------------------------------------------------------------------
(* The composition: a step of it is a step of the risk service, beside which the  *)
(* order service rests, or a step of the order service.                           *)

LEMMA PipelineSteps ==
  ASSUME [PipelineNext]_<<vars, orderVars>>
  PROVE  \/ [Next]_vars /\ UNCHANGED orderVars
         \/ OrderStep
  BY DEF PipelineNext, RiskStep

\* The composition implements the risk service: its theorems hold there.
THEOREM PipelineImplementsRisk == Pipeline => Spec
<1>1. PipelineInit => Init
  BY DEF PipelineInit
<1>2. [PipelineNext]_<<vars, orderVars>> => [Next]_vars
  BY PipelineSteps DEF OrderStep
<1> QED
  BY <1>1, <1>2, PTL DEF Pipeline, Spec

\* So in the composition approvals stay within their limits, a signal is decided once
\* in a run, an owner's own policy prevails and only what nobody covers is dropped.
THEOREM RiskStandsInPipeline ==
  Pipeline => /\ []ApprovedWithinLimits /\ []OneDecisionPerSignal /\ []OwnPolicyPrevails
              /\ DroppedOnlyUncovered
  BY PipelineImplementsRisk, ApprovalsStayWithinLimits, SignalsDecidedOnce,
     OwnersPolicyPrevails, DropsAreUncovered

-----------------------------------------------------------------------------
(* The risk service's topic. *)

\* Each decision is published once at most, and the one in hand was not yet.
PublishedOnce ==
  /\ \A i, j \in DOMAIN approved : approved[i] = approved[j] => i = j
  /\ \A i \in DOMAIN approved : IsApproved(approved[i])
  /\ rpc = "publish" => /\ \E d \in decisions : d.id = current
                        /\ \A i \in DOMAIN approved : approved[i] # current

\* What a step of the risk service does to the topic and to the decisions.
LEMMA TopicSteps ==
  ASSUME TypeOK, [Next]_vars
  PROVE  \/ /\ UNCHANGED <<approved, decisions>> /\ (rpc' = "publish" => UNCHANGED <<rpc, current>>)
            /\ UNCHANGED <<restarts, decisionsCache>>
         \/ /\ UNCHANGED <<approved, decisions>> /\ rpc' = "fetch"
            /\ restarts' = restarts + 1 /\ decisionsCache' = {}
         \/ /\ rpc = "publish" /\ rpc' = "commit" /\ IsApproved(current)
            /\ current \in DecisionIDs /\ approved' = Append(approved, current)
            /\ UNCHANGED <<decisions, restarts, decisionsCache>>
         \/ /\ rpc' = "publish" /\ UNCHANGED <<approved, restarts>>
            /\ \E d : /\ d.id = current' /\ (\A e \in decisions : e.id # d.id)
                      /\ decisions' = decisions \cup {d}
                      /\ decisionsCache' = decisionsCache \cup {d.id}
<1> USE DEF topicVars, decisionVars, outVars, storeVars
<1>1. ASSUME NEW s \in Signals, DeliverSignal(s)
      PROVE  UNCHANGED <<approved, decisions, restarts, decisionsCache, rpc, current>>
  BY <1>1 DEF DeliverSignal
<1>2. CASE FetchSignal \/ FetchSignalFails \/ MarkSignal \/ CommitSignal
  BY <1>2 DEF FetchSignal, FetchSignalFails, MarkSignal, CommitSignal
<1>3. CASE GetByUserAndStrategy \/ GetDefaultPolicy \/ GetSnapshot
  BY <1>3 DEF GetByUserAndStrategy, GetDefaultPolicy, GetSnapshot
<1>4. ASSUME NEW id \in DecisionIDs, Decide(id)
      PROVE  /\ rpc' = "publish" /\ UNCHANGED <<approved, restarts>>
             /\ \E d : /\ d.id = current' /\ (\A e \in decisions : e.id # d.id)
                       /\ decisions' = decisions \cup {d}
                       /\ decisionsCache' = decisionsCache \cup {d.id}
  <2> DEFINE d == [id |-> id, signal |-> Signal, policy |-> held.policy,
                   snapshot |-> held.snapshot, ownAllAlong |-> watch.own,
                   isApproved |-> EvaluateSignal(held.policy.limits, held.snapshot,
                                                 Value[Signal])]
  <2>1. d.id = id
    OBVIOUS
  <2>2. decisions' = decisions \cup {d}
    BY <1>4 DEF Decide
  <2> HIDE DEF d
  <2>3. /\ \A e \in decisions : e.id # id
        /\ decisionsCache' = decisionsCache \cup {id} /\ current' = id
        /\ rpc' = "publish" /\ UNCHANGED <<approved, restarts>>
    BY <1>4 DEF Decide
  <2> QED
    BY <2>1, <2>2, <2>3
<1>5. CASE PublishDecision
  BY <1>5 DEF PublishDecision, TypeOK
<1>6. CASE RiskRequest
  BY <1>6 DEF RiskRequest, CreatePolicy, UpdatePolicy, DeletePolicy, UpdateSnapshot,
              StorePolicies
<1>7. CASE RestartRisk
  BY <1>7 DEF RestartRisk
<1>8. CASE UNCHANGED vars
  BY <1>8 DEF vars
<1> QED
  BY <1>1, <1>2, <1>3, <1>4, <1>5, <1>6, <1>7, <1>8 DEF Next, RiskConsumer

LEMMA NextPublishedOnce == TypeOK /\ PublishedOnce /\ [Next]_vars => PublishedOnce'
<1> SUFFICES ASSUME TypeOK, PublishedOnce, [Next]_vars PROVE PublishedOnce'
  OBVIOUS
<1>1. CASE /\ UNCHANGED <<approved, decisions>>
           /\ rpc' = "publish" => UNCHANGED <<rpc, current>>
  BY <1>1 DEF PublishedOnce, IsApproved
<1>2. CASE /\ rpc = "publish" /\ rpc' = "commit" /\ IsApproved(current)
           /\ current \in DecisionIDs /\ approved' = Append(approved, current)
           /\ UNCHANGED decisions
  <2> DEFINE last == Len(approved) + 1
  <2>1. approved \in Seq(DecisionIDs) /\ current \in DecisionIDs /\ Len(approved) \in Nat
    BY <1>2 DEF TypeOK
  <2>2. /\ Append(approved, current) \in Seq(DecisionIDs)
        /\ Len(Append(approved, current)) = last
        /\ \A i \in 1..Len(approved) : Append(approved, current)[i] = approved[i]
        /\ Append(approved, current)[last] = current
    BY ONLY <2>1, AppendProperties
  <2>3. /\ DOMAIN approved' = DOMAIN approved \cup {last}
        /\ \A i \in DOMAIN approved : approved'[i] = approved[i]
        /\ approved'[last] = current
    <3>1. DOMAIN approved' = 1..last /\ DOMAIN approved = 1..Len(approved)
      BY <1>2, <2>1, <2>2
    <3> QED
      BY <1>2, <2>1, <2>2, <3>1
  <2> HIDE DEF last
  <2> QED
    BY <1>2, <2>3 DEF PublishedOnce, IsApproved
<1>3. ASSUME NEW d, d.id = current', \A e \in decisions : e.id # d.id,
             decisions' = decisions \cup {d}, UNCHANGED approved
      PROVE  PublishedOnce'
  <2>1. \A i \in DOMAIN approved : \E e \in decisions : e.id = approved[i] /\ e.isApproved
    BY DEF PublishedOnce, IsApproved
  <2> QED
    BY <1>3, <2>1 DEF PublishedOnce, IsApproved
<1> QED
  BY <1>1, <1>2, <1>3, TopicSteps

\* The topic only grows, and what was approved stays approved.
LEMMA TopicGrows ==
  ASSUME TypeOK, [Next]_vars
  PROVE  /\ Len(approved) \in Nat /\ Len(approved') \in Nat /\ Len(approved) <= Len(approved')
         /\ \A i \in 1..Len(approved) : approved'[i] = approved[i]
         /\ \A id : IsApproved(id) => \E d \in decisions' : d.id = id /\ d.isApproved
<1>1. approved \in Seq(DecisionIDs) /\ Len(approved) \in Nat
  BY DEF TypeOK
<1>2. decisions \subseteq decisions'
  BY TopicSteps
<1>3. CASE approved' = approved
  BY <1>1, <1>2, <1>3 DEF IsApproved
<1>4. CASE current \in DecisionIDs /\ approved' = Append(approved, current)
  <2>1. /\ Len(Append(approved, current)) = Len(approved) + 1
        /\ \A i \in 1..Len(approved) : Append(approved, current)[i] = approved[i]
    BY ONLY <1>1, <1>4, AppendProperties
  <2> QED
    BY <1>1, <1>2, <1>4, <2>1 DEF IsApproved
<1> QED
  BY <1>3, <1>4, TopicSteps

-----------------------------------------------------------------------------
(* The order service on that topic. *)

\* The consumer handles the message after the committed one, and an order it has not
\* announced yet comes from that message.
OrderInHand ==
  /\ committed \in Nat /\ next \in {committed, committed + 1} /\ next <= Len(approved)
  /\ cpc \in {"fetch", "handle", "announce", "commit", "stopped"}
  /\ cpc = "fetch" => next = committed
  /\ cpc \in {"handle", "announce", "commit"} => next = committed + 1
  /\ orders \in [OrderIDs -> {Order!Absent, Order!NewOrder}]
  /\ source \in [OrderIDs -> DecisionIDs \cup {"none"}]
  /\ cpc = "announce" =>
       fresh \in OrderIDs /\ orders[fresh] = Order!NewOrder /\ source[fresh] = approved[next]

\* An order comes from a message of the topic.
OrdersFromTopic ==
  /\ \A id \in OrderIDs : Order!Exists(id) => \E i \in 1..next : source[id] = approved[i]
  /\ \A e \in createdEvents : \E i \in 1..Len(approved) : e.decision = approved[i]

OrderInv == OrderInHand /\ OrdersFromTopic

\* What a step of the order service does.
LEMMA OrderSteps ==
  ASSUME TypeOK, OrderInHand, OrderStep
  PROVE  /\ UNCHANGED vars
         /\ \/ /\ cpc = "fetch" /\ cpc' = "handle" /\ next' = next + 1 /\ next < Len(approved)
               /\ UNCHANGED <<committed, orders, source, createdEvents, orderRestarts>>
            \/ /\ cpc = "fetch" /\ cpc' = "stopped"
               /\ UNCHANGED <<committed, next, orders, source, createdEvents, orderRestarts>>
            \/ /\ cpc = "handle" /\ cpc' = "commit"
               /\ UNCHANGED <<committed, next, orders, source, createdEvents, orderRestarts>>
            \/ /\ cpc = "handle" /\ cpc' = "announce"
               /\ UNCHANGED <<committed, next, createdEvents, orderRestarts>>
               /\ fresh' \in OrderIDs
               /\ orders' = [orders EXCEPT ![fresh'] = Order!NewOrder]
               /\ source' = [source EXCEPT ![fresh'] = approved[next]]
            \/ /\ cpc = "announce" /\ cpc' = "commit"
               /\ UNCHANGED <<committed, next, orders, source, orderRestarts>>
               /\ \/ UNCHANGED createdEvents
                  \/ createdEvents' =
                       createdEvents \cup {[id |-> fresh, decision |-> approved[next]]}
            \/ /\ cpc = "commit" /\ \/ cpc' = "fetch" /\ committed' = next
                                    \/ cpc' = "stopped" /\ committed' = committed
               /\ UNCHANGED <<next, orders, source, createdEvents, orderRestarts>>
            \/ /\ cpc' = "fetch" /\ next' = committed /\ orderRestarts' = orderRestarts + 1
               /\ orders' = [id \in OrderIDs |-> Order!Absent]
               /\ source' = [id \in OrderIDs |-> "none"]
               /\ UNCHANGED <<committed, createdEvents>>
<1> USE DEF Order!workerVars, Order!eventVars
<1>1. CASE Order!Fetch \/ Order!FetchFails
  BY <1>1 DEF OrderStep, Order!Fetch, Order!FetchFails
<1>2. CASE Order!HandleWithoutOrder
  BY <1>2 DEF OrderStep, Order!HandleWithoutOrder
<1>3. ASSUME NEW id \in OrderIDs, Order!HandleApproved(id)
      PROVE  /\ cpc = "handle" /\ cpc' = "announce"
             /\ UNCHANGED <<committed, next, createdEvents, orderRestarts>>
             /\ fresh' \in OrderIDs
             /\ orders' = [orders EXCEPT ![fresh'] = Order!NewOrder]
             /\ source' = [source EXCEPT ![fresh'] = approved[next]]
  BY <1>3 DEF Order!HandleApproved, Order!Store, Order!Decision
<1>4. CASE Order!PublishCreated
  BY <1>4 DEF OrderStep, Order!PublishCreated, OrderInHand
<1>5. CASE Order!Commit
  BY <1>5 DEF OrderStep, Order!Commit
<1>6. CASE Order!Restart
  BY <1>6 DEF OrderStep, Order!Restart
<1> QED
  BY <1>1, <1>2, <1>3, <1>4, <1>5, <1>6 DEF OrderStep, Order!Consumer

LEMMA InitOrderInv == PipelineInit => OrderInv
<1> SUFFICES ASSUME PipelineInit PROVE OrderInv
  OBVIOUS
<1>1. /\ approved = <<>> /\ committed = 0 /\ next = 0 /\ cpc = "fetch" /\ createdEvents = {}
      /\ orders = [id \in OrderIDs |-> Order!Absent]
      /\ source = [id \in OrderIDs |-> "none"]
  BY DEF PipelineInit, Init, Order!Init
<1>2. OrderInHand
  BY <1>1 DEF OrderInHand
<1>3. \A id \in OrderIDs : ~ Order!Exists(id)
  BY <1>1 DEF Order!Exists, Order!Absent
<1> QED
  BY <1>1, <1>2, <1>3 DEF OrderInv, OrdersFromTopic

LEMMA NextOrderInv ==
  TypeOK /\ OrderInv /\ [PipelineNext]_<<vars, orderVars>> => OrderInv'
<1> SUFFICES ASSUME TypeOK, OrderInv, [PipelineNext]_<<vars, orderVars>> PROVE OrderInv'
  OBVIOUS
<1>0. /\ approved \in Seq(DecisionIDs) /\ Len(approved) \in Nat
      /\ committed \in Nat /\ next \in Nat /\ next <= Len(approved)
      /\ orders \in [OrderIDs -> {Order!Absent, Order!NewOrder}]
      /\ source \in [OrderIDs -> DecisionIDs \cup {"none"}]
  BY DEF TypeOK, OrderInv, OrderInHand
\* The topic grows under the consumer.
<1>1. CASE [Next]_vars /\ UNCHANGED orderVars
  <2>1. UNCHANGED <<committed, next, cpc, fresh, orders, source, createdEvents>>
    BY <1>1 DEF orderVars
  <2>2. /\ Len(approved') \in Nat /\ Len(approved) <= Len(approved')
        /\ \A i \in 1..Len(approved) : approved'[i] = approved[i]
    BY <1>1, TopicGrows
  <2>3. OrderInHand'
    <3>1. cpc = "announce" => approved'[next] = approved[next]
      BY <1>0, <2>2 DEF OrderInv, OrderInHand
    <3> QED
      BY <1>0, <2>1, <2>2, <3>1 DEF OrderInv, OrderInHand
  <2>4. OrdersFromTopic'
    <3>1. \A i \in 1..next : i \in 1..Len(approved)
      BY <1>0
    <3>2. \A i \in 1..Len(approved) : i \in 1..Len(approved')
      BY <1>0, <2>2
    <3> QED
      BY <2>1, <2>2, <3>1, <3>2 DEF OrderInv, OrdersFromTopic, Order!Exists
  <2> QED
    BY <2>3, <2>4 DEF OrderInv
<1>2. CASE OrderStep
  <2>0. approved' = approved
    BY <1>2 DEF OrderStep, vars, outVars
  <2>1. CASE /\ cpc = "fetch" /\ cpc' = "handle" /\ next' = next + 1 /\ next < Len(approved)
             /\ UNCHANGED <<committed, orders, source, createdEvents, orderRestarts>>
    <3>1. \A i \in 1..next : i \in 1..next'
      BY <1>0, <2>1
    <3> QED
      BY <1>0, <2>0, <2>1, <3>1 DEF OrderInv, OrderInHand, OrdersFromTopic, Order!Exists
  <2>2. CASE \/ /\ cpc = "fetch" /\ cpc' = "stopped"
                /\ UNCHANGED <<committed, next, orders, source, createdEvents, orderRestarts>>
             \/ /\ cpc = "handle" /\ cpc' = "commit"
                /\ UNCHANGED <<committed, next, orders, source, createdEvents, orderRestarts>>
             \/ /\ cpc = "commit" /\ \/ cpc' = "fetch" /\ committed' = next
                                     \/ cpc' = "stopped" /\ committed' = committed
                /\ UNCHANGED <<next, orders, source, createdEvents, orderRestarts>>
    BY <1>0, <2>0, <2>2 DEF OrderInv, OrderInHand, OrdersFromTopic, Order!Exists
  <2>3. CASE /\ cpc = "handle" /\ cpc' = "announce"
             /\ UNCHANGED <<committed, next, createdEvents, orderRestarts>>
             /\ fresh' \in OrderIDs
             /\ orders' = [orders EXCEPT ![fresh'] = Order!NewOrder]
             /\ source' = [source EXCEPT ![fresh'] = approved[next]]
    <3>1. next \in 1..Len(approved) /\ next \in 1..next /\ approved[next] \in DecisionIDs
      BY <1>0, <2>3 DEF OrderInv, OrderInHand
    <3> HIDE DEF Order!Absent, Order!NewOrder
    <3>2. /\ orders' \in [OrderIDs -> {Order!Absent, Order!NewOrder}]
          /\ orders'[fresh'] = Order!NewOrder
          /\ \A id \in OrderIDs : id # fresh' => orders'[id] = orders[id]
      BY <1>0, <2>3
    <3>3. /\ source' \in [OrderIDs -> DecisionIDs \cup {"none"}]
          /\ source'[fresh'] = approved[next]
          /\ \A id \in OrderIDs : id # fresh' => source'[id] = source[id]
      BY <1>0, <2>3, <3>1
    <3>4. OrderInHand'
      BY <2>0, <2>3, <3>2, <3>3 DEF OrderInv, OrderInHand
    <3>5. ASSUME NEW id \in OrderIDs, Order!Exists(id)'
          PROVE  \E i \in 1..next : source'[id] = approved[i]
      BY <3>1, <3>2, <3>3, <3>5 DEF OrderInv, OrdersFromTopic, Order!Exists
    <3> QED
      BY <2>0, <2>3, <3>4, <3>5 DEF OrderInv, OrdersFromTopic
  <2>4. CASE /\ cpc = "announce" /\ cpc' = "commit"
             /\ UNCHANGED <<committed, next, orders, source, orderRestarts>>
             /\ \/ UNCHANGED createdEvents
                \/ createdEvents' =
                     createdEvents \cup {[id |-> fresh, decision |-> approved[next]]}
    <3>1. next \in 1..Len(approved)
      BY <1>0, <2>4 DEF OrderInv, OrderInHand
    <3> QED
      BY <2>0, <2>4, <3>1 DEF OrderInv, OrderInHand, OrdersFromTopic, Order!Exists
  <2>5. CASE /\ cpc' = "fetch" /\ next' = committed /\ orderRestarts' = orderRestarts + 1
             /\ orders' = [id \in OrderIDs |-> Order!Absent]
             /\ source' = [id \in OrderIDs |-> "none"]
             /\ UNCHANGED <<committed, createdEvents>>
    <3>1. \A id \in OrderIDs : ~ Order!Exists(id)'
      BY <2>5 DEF Order!Exists, Order!Absent
    <3>2. committed <= Len(approved)
      BY <1>0 DEF OrderInv, OrderInHand
    <3> QED
      BY <1>0, <2>0, <2>5, <3>1, <3>2 DEF OrderInv, OrderInHand, OrdersFromTopic
  <2> QED
    BY <1>2, <2>1, <2>2, <2>3, <2>4, <2>5, OrderSteps DEF OrderInv
<1> QED
  BY <1>1, <1>2, PipelineSteps

\* Every order, and every announcement of one, comes from a decision that approved a
\* signal: across the topic, the two services' marks and restarts of either.
THEOREM OrdersAreApproved == Pipeline => []OrdersComeFromApprovals
<1>1. PipelineInit => TypeOK /\ PublishedOnce /\ OrderInv
  <2>1. Init => PublishedOnce
    BY DEF Init, PublishedOnce
  <2> QED
    BY <2>1, InitTypeOK, InitOrderInv DEF PipelineInit
<1>2. TypeOK /\ PublishedOnce /\ OrderInv /\ [PipelineNext]_<<vars, orderVars>>
        => (TypeOK /\ PublishedOnce /\ OrderInv)'
  <2>1. [PipelineNext]_<<vars, orderVars>> => [Next]_vars
    BY DEF PipelineNext, RiskStep, OrderStep
  <2> QED
    BY <2>1, NextTypeOK, NextPublishedOnce, NextOrderInv
<1>3. TypeOK /\ PublishedOnce /\ OrderInv => OrdersComeFromApprovals
  <2> SUFFICES ASSUME TypeOK, PublishedOnce, OrderInv PROVE OrdersComeFromApprovals
    OBVIOUS
  <2>1. \A i \in 1..Len(approved) : IsApproved(approved[i])
    BY DEF TypeOK, PublishedOnce
  <2>2. \A i \in 1..next : i \in 1..Len(approved)
    BY DEF TypeOK, OrderInv, OrderInHand
  <2> QED
    BY <2>1, <2>2 DEF OrderInv, OrdersFromTopic, OrdersComeFromApprovals
<1> QED
  BY <1>1, <1>2, <1>3, PTL DEF Pipeline

-----------------------------------------------------------------------------
(* How often a signal is announced.  A decision is handled when the order         *)
(* service's consumer is past the message it was published in; an order of a      *)
(* signal is announced while one of its decisions is being handled, and only a    *)
(* restart of the order service takes that back; a signal has one decision for    *)
(* each run of the risk service.                                                  *)

Announced(s) == {e \in createdEvents : e.decision \in DecisionsOn(s)}

HandledAt(i) == i < next \/ (i = next /\ cpc \notin {"handle", "announce"})

Handled(s) == {id \in DecisionsOn(s) : \E i \in 1..Len(approved) : approved[i] = id /\ HandledAt(i)}

CountInv ==
  /\ restarts \in Nat /\ orderRestarts \in Nat
  /\ \A s \in Signals :
       /\ IsFiniteSet(DecisionsOn(s)) /\ IsFiniteSet(Announced(s))
       /\ Cardinality(DecisionsOn(s) \ decisionsCache) <= restarts
       /\ Cardinality(Announced(s)) <= Cardinality(Handled(s)) + orderRestarts

\* A part of a finite set, an element more and an element less.
LEMMA PartCardinality ==
  ASSUME NEW S, IsFiniteSet(S), NEW T, T \subseteq S
  PROVE  /\ IsFiniteSet(T) /\ Cardinality(T) \in Nat /\ Cardinality(S) \in Nat
         /\ Cardinality(T) <= Cardinality(S)
  BY FS_Subset, FS_CardinalityType

LEMMA OneMore ==
  ASSUME NEW S, IsFiniteSet(S), NEW x, NEW T, S \subseteq T, T \subseteq S \cup {x}
  PROVE  /\ IsFiniteSet(T) /\ Cardinality(T) \in Nat /\ Cardinality(S) \in Nat
         /\ Cardinality(T) <= Cardinality(S) + 1
         /\ x \in T \ S => Cardinality(T) = Cardinality(S) + 1
<1>1. IsFiniteSet(S \cup {x}) /\ Cardinality(S \cup {x}) <= Cardinality(S) + 1
  <2>1. Cardinality(S) \in Nat
    BY FS_CardinalityType
  <2>2. /\ IsFiniteSet(S \cup {x})
        /\ Cardinality(S \cup {x}) = IF x \in S THEN Cardinality(S) ELSE Cardinality(S) + 1
    BY FS_AddElement
  <2> QED
    BY <2>1, <2>2
<1>2. IsFiniteSet(T) /\ Cardinality(T) <= Cardinality(S \cup {x})
  BY <1>1, FS_Subset
<1>3. Cardinality(T) \in Nat /\ Cardinality(S) \in Nat /\ Cardinality(S \cup {x}) \in Nat
  BY <1>1, <1>2, FS_CardinalityType
<1>4. x \in T \ S => T = S \cup {x} /\ x \notin S
  OBVIOUS
<1>5. x \notin S => Cardinality(S \cup {x}) = Cardinality(S) + 1
  BY FS_AddElement
<1> QED
  BY <1>1, <1>2, <1>3, <1>4, <1>5

\* In a run of the risk service at most one decision on a signal is added.
LEMMA OneDecisionInRun ==
  ASSUME OneDecisionPerSignal, NEW s, IsFiniteSet(DecisionsOn(s))
  PROVE  Cardinality(DecisionsOn(s)) <= Cardinality(DecisionsOn(s) \ decisionsCache) + 1
<1> DEFINE before == DecisionsOn(s) \ decisionsCache
<1>1. IsFiniteSet(before)
  BY PartCardinality
<1>2. PICK x : DecisionsOn(s) \subseteq before \cup {x}
  <2>1. \A a, b \in DecisionsOn(s) \cap decisionsCache : a = b
    BY DEF OneDecisionPerSignal, DecisionsOn
  <2> QED
    BY <2>1
<1> QED
  BY <1>1, <1>2, OneMore

LEMMA InitCountInv == PipelineInit => CountInv
<1> SUFFICES ASSUME PipelineInit PROVE CountInv
  OBVIOUS
<1>1. decisions = {} /\ createdEvents = {} /\ restarts = 0 /\ orderRestarts = 0
  BY DEF PipelineInit, Init, Order!Init
<1>2. ASSUME NEW s \in Signals PROVE DecisionsOn(s) = {} /\ Announced(s) = {} /\ Handled(s) = {}
  BY <1>1 DEF DecisionsOn, Announced, Handled
<1>3. \A s \in Signals : DecisionsOn(s) \ decisionsCache = {}
  BY <1>2
<1> QED
  BY <1>1, <1>2, <1>3, FS_EmptySet DEF CountInv

\* The risk service handles nothing of the topic, and a decision it makes is new.
LEMMA RiskKeepsHandled ==
  ASSUME TypeOK, PublishedOnce, OrderInv, [Next]_vars, UNCHANGED orderVars, NEW s \in Signals
  PROVE  Handled(s)' = Handled(s) /\ Announced(s)' = Announced(s)
<1>0. /\ UNCHANGED <<createdEvents, next, cpc>>
      /\ Len(approved) \in Nat /\ next \in Nat /\ next <= Len(approved)
  BY DEF orderVars, TypeOK, OrderInv, OrderInHand
<1>1. /\ Len(approved') \in Nat /\ Len(approved) <= Len(approved')
      /\ \A i \in 1..Len(approved) : approved'[i] = approved[i]
  BY TopicGrows
<1>2. \A i : HandledAt(i)' <=> HandledAt(i)
  BY <1>0 DEF HandledAt
<1>3. \A i \in 1..Len(approved') : HandledAt(i) => i \in 1..Len(approved)
  BY <1>0, <1>1 DEF HandledAt
<1>4. \A i \in 1..Len(approved) : i \in 1..Len(approved')
  BY <1>0, <1>1
<1>5. \A id : (\E i \in 1..Len(approved') : approved'[i] = id /\ HandledAt(i)')
                <=> (\E i \in 1..Len(approved) : approved[i] = id /\ HandledAt(i))
  BY <1>1, <1>2, <1>3, <1>4
\* What was published was decided before.
<1>6. ASSUME NEW i \in 1..Len(approved)
      PROVE  approved[i] \in DecisionsOn(s)' <=> approved[i] \in DecisionsOn(s)
  <2>1. CASE UNCHANGED decisions
    BY <2>1 DEF DecisionsOn
  <2>2. ASSUME NEW d, \A e \in decisions : e.id # d.id, decisions' = decisions \cup {d}
        PROVE  approved[i] \in DecisionsOn(s)' <=> approved[i] \in DecisionsOn(s)
    <3>1. DOMAIN approved = 1..Len(approved)
      BY DEF TypeOK
    <3>2. approved[i] # d.id
      BY <2>2, <3>1 DEF PublishedOnce, IsApproved
    <3> QED
      BY <2>2, <3>2 DEF DecisionsOn
  <2> QED
    BY <2>1, <2>2, TopicSteps
<1>7. Handled(s)' = Handled(s)
  <2>1. ASSUME NEW id PROVE id \in Handled(s)' <=> id \in Handled(s)
    BY <1>5, <1>6 DEF Handled
  <2> QED
    BY <2>1
<1>8. Announced(s)' = Announced(s)
  <2>1. ASSUME NEW e \in createdEvents
        PROVE  e.decision \in DecisionsOn(s)' <=> e.decision \in DecisionsOn(s)
    BY <1>6 DEF OrderInv, OrdersFromTopic
  <2> QED
    BY <1>0, <2>1 DEF Announced
<1> QED
  BY <1>7, <1>8

LEMMA RiskKeepsCount ==
  ASSUME TypeOK, PublishedOnce, OrderInv, OneDecisionPerSignal, CountInv,
         [Next]_vars, UNCHANGED orderVars
  PROVE  CountInv'
<1>1. restarts \in Nat /\ restarts' \in {restarts, restarts + 1} /\ orderRestarts' = orderRestarts
  BY TopicSteps DEF CountInv, orderVars
<1>2. ASSUME NEW s \in Signals
      PROVE  /\ IsFiniteSet(DecisionsOn(s))'
             /\ Cardinality(DecisionsOn(s)' \ decisionsCache') <= restarts'
  <2> DEFINE before == DecisionsOn(s) \ decisionsCache
  <2>0. /\ IsFiniteSet(DecisionsOn(s)) /\ Cardinality(before) <= restarts
        /\ IsFiniteSet(before) /\ Cardinality(before) \in Nat
    BY PartCardinality DEF CountInv
  <2>1. CASE UNCHANGED <<decisions, decisionsCache, restarts>>
    BY <2>0, <2>1 DEF DecisionsOn
  <2>2. CASE UNCHANGED decisions /\ decisionsCache' = {} /\ restarts' = restarts + 1
    <3>1. DecisionsOn(s)' = DecisionsOn(s)
      BY <2>2 DEF DecisionsOn
    <3>2. DecisionsOn(s)' \ decisionsCache' = DecisionsOn(s)
      BY <2>2, <3>1
    <3>3. Cardinality(DecisionsOn(s)) <= Cardinality(before) + 1
      BY <2>0, OneDecisionInRun
    <3>4. Cardinality(DecisionsOn(s)) \in Nat
      BY <2>0, FS_CardinalityType
    <3> QED
      BY <1>1, <2>0, <2>2, <3>1, <3>2, <3>3, <3>4
  <2>3. ASSUME NEW d, decisions' = decisions \cup {d}, UNCHANGED restarts,
               decisionsCache' = decisionsCache \cup {d.id}
        PROVE  /\ IsFiniteSet(DecisionsOn(s))'
               /\ Cardinality(DecisionsOn(s)' \ decisionsCache') <= restarts'
    <3>1. /\ DecisionsOn(s) \subseteq DecisionsOn(s)'
          /\ DecisionsOn(s)' \subseteq DecisionsOn(s) \cup {d.id}
      BY <2>3 DEF DecisionsOn
    <3>2. IsFiniteSet(DecisionsOn(s)')
      BY <2>0, <3>1, OneMore
    <3>3. DecisionsOn(s)' \ decisionsCache' \subseteq before
      BY <2>3, <3>1
    <3>4. /\ Cardinality(DecisionsOn(s)' \ decisionsCache') <= Cardinality(before)
          /\ Cardinality(DecisionsOn(s)' \ decisionsCache') \in Nat
      BY <2>0, <3>3, PartCardinality
    <3> QED
      BY <1>1, <2>0, <2>3, <3>2, <3>4
  <2> HIDE DEF before
  <2> QED
    BY <2>1, <2>2, <2>3, TopicSteps
<1>3. \A s \in Signals : Handled(s)' = Handled(s) /\ Announced(s)' = Announced(s)
  BY RiskKeepsHandled
<1>4. restarts' \in Nat /\ orderRestarts' \in Nat
  BY <1>1 DEF CountInv
<1> QED
  BY <1>1, <1>2, <1>3, <1>4 DEF CountInv

LEMMA OrderKeepsCount ==
  ASSUME TypeOK, PublishedOnce, OrderInv, CountInv, OrderStep
  PROVE  CountInv'
<1>0. /\ UNCHANGED <<approved, decisions, decisionsCache, restarts>>
      /\ approved \in Seq(DecisionIDs) /\ Len(approved) \in Nat
      /\ committed \in Nat /\ next \in {committed, committed + 1} /\ next <= Len(approved)
      /\ orderRestarts \in Nat
  BY DEF OrderStep, vars, outVars, decisionVars, TypeOK, OrderInv, OrderInHand, CountInv
<1>1. \A s \in Signals : DecisionsOn(s)' = DecisionsOn(s)
  BY <1>0 DEF DecisionsOn
<1>2. \A s \in Signals : /\ IsFiniteSet(Handled(s)) /\ Cardinality(Handled(s)) \in Nat
                         /\ IsFiniteSet(Announced(s)) /\ Cardinality(Announced(s)) \in Nat
                         /\ Cardinality(Announced(s)) <= Cardinality(Handled(s)) + orderRestarts
  <2>1. \A s \in Signals : Handled(s) \subseteq DecisionsOn(s) /\ IsFiniteSet(DecisionsOn(s))
    BY DEF Handled, CountInv
  <2> QED
    BY <2>1, PartCardinality, FS_CardinalityType DEF CountInv
<1>3. ASSUME orderRestarts' \in Nat,
             \A s \in Signals :
               /\ IsFiniteSet(Announced(s)')
               /\ Cardinality(Announced(s)') <= Cardinality(Handled(s)') + orderRestarts'
      PROVE  CountInv'
  BY <1>0, <1>1, <1>3 DEF CountInv
\* Steps that announce nothing and handle what was announced, or nothing.
<1>4. ASSUME UNCHANGED <<createdEvents, orderRestarts>>,
             \A i \in 1..Len(approved) : HandledAt(i) => HandledAt(i)'
      PROVE  CountInv'
  <2>1. ASSUME NEW s \in Signals
        PROVE  /\ IsFiniteSet(Announced(s)')
               /\ Cardinality(Announced(s)') <= Cardinality(Handled(s)') + orderRestarts'
    <3>1. Announced(s)' = Announced(s)
      BY <1>1, <1>4 DEF Announced
    <3>2. Handled(s) \subseteq Handled(s)' /\ Handled(s)' \subseteq DecisionsOn(s)
      BY <1>0, <1>1, <1>4 DEF Handled
    <3>3. IsFiniteSet(Handled(s)')
      BY <3>2, PartCardinality DEF CountInv
    <3>4. /\ Cardinality(Handled(s)) <= Cardinality(Handled(s)')
          /\ Cardinality(Handled(s)') \in Nat /\ Cardinality(Handled(s)) \in Nat
      BY <3>2, <3>3, PartCardinality
    <3> QED
      BY <1>0, <1>2, <1>4, <3>1, <3>4
  <2> QED
    BY <1>0, <1>3, <1>4, <2>1
\* The announcement of the order in hand: its decision was not handled before.
<1>5. ASSUME cpc = "announce", cpc' = "commit", UNCHANGED <<next, orderRestarts>>,
             createdEvents' = createdEvents \cup {[id |-> fresh, decision |-> approved[next]]}
      PROVE  CountInv'
  <2> DEFINE event == [id |-> fresh, decision |-> approved[next]]
             new == approved[next]
  <2>1. next \in 1..Len(approved) /\ event.decision = new
    BY <1>0, <1>5 DEF OrderInv, OrderInHand
  <2> HIDE DEF event
  <2>2. createdEvents' = createdEvents \cup {event}
    BY <1>5 DEF event
  <2>3. /\ \A i \in 1..Len(approved) : HandledAt(i)' <=> HandledAt(i) \/ i = next
        /\ ~ HandledAt(next)
    BY <1>0, <1>5 DEF HandledAt
  <2>4. \A i \in 1..Len(approved) : approved[i] = new => i = next
    BY <1>0, <2>1 DEF PublishedOnce
  <2>5. ASSUME NEW s \in Signals
        PROVE  /\ IsFiniteSet(Announced(s)')
               /\ Cardinality(Announced(s)') <= Cardinality(Handled(s)') + orderRestarts'
    <3>1. Handled(s) \subseteq Handled(s)' /\ Handled(s)' \subseteq Handled(s) \cup {new}
      BY <1>0, <1>1, <2>3 DEF Handled
    <3>2. /\ IsFiniteSet(Handled(s)') /\ Cardinality(Handled(s)') \in Nat
          /\ new \in Handled(s)' \ Handled(s) =>
               Cardinality(Handled(s)') = Cardinality(Handled(s)) + 1
      BY <1>2, <3>1, OneMore
    <3>3. Cardinality(Handled(s)) <= Cardinality(Handled(s)')
      BY <3>1, <3>2, PartCardinality
    <3>4. /\ Announced(s) \subseteq Announced(s)'
          /\ Announced(s)' \subseteq Announced(s) \cup {event}
          /\ new \notin DecisionsOn(s) => Announced(s)' = Announced(s)
      BY <1>0, <1>1, <2>1, <2>2 DEF Announced
    <3>5. /\ IsFiniteSet(Announced(s)') /\ Cardinality(Announced(s)') \in Nat
          /\ Cardinality(Announced(s)') <= Cardinality(Announced(s)) + 1
      BY <1>2, <3>4, OneMore
    <3>6. CASE new \notin DecisionsOn(s)
      BY <1>0, <1>2, <1>5, <3>2, <3>3, <3>4, <3>5, <3>6
    <3>7. CASE new \in DecisionsOn(s)
      <4>1. new \in Handled(s)'
        BY <1>0, <1>1, <2>1, <2>3, <3>7 DEF Handled
      <4>2. new \notin Handled(s)
        BY <2>3, <2>4 DEF Handled
      <4>3. Cardinality(Handled(s)') = Cardinality(Handled(s)) + 1
        BY <3>2, <4>1, <4>2
      <4> QED
        BY <1>0, <1>2, <1>5, <3>5, <4>3
    <3> QED
      BY <3>6, <3>7
  <2> QED
    BY <1>0, <1>3, <1>5, <2>5
\* A restart takes back the message in hand, and no other.
<1>6. ASSUME cpc' = "fetch", next' = committed, orderRestarts' = orderRestarts + 1,
             UNCHANGED createdEvents
      PROVE  CountInv'
  <2> DEFINE again == approved[committed + 1]
  <2>1. \A i \in 1..Len(approved) : HandledAt(i) => HandledAt(i)' \/ i = committed + 1
    BY <1>0, <1>6 DEF HandledAt
  <2>2. ASSUME NEW s \in Signals
        PROVE  /\ IsFiniteSet(Announced(s)')
               /\ Cardinality(Announced(s)') <= Cardinality(Handled(s)') + orderRestarts'
    <3>1. Announced(s)' = Announced(s)
      BY <1>1, <1>6 DEF Announced
    <3>2. Handled(s)' \subseteq DecisionsOn(s)
      BY <1>1 DEF Handled
    <3>3. Handled(s) \subseteq Handled(s)' \cup {again}
      BY <1>0, <1>1, <2>1 DEF Handled
    <3>4. IsFiniteSet(Handled(s)') /\ Cardinality(Handled(s)') \in Nat
      BY <3>2, PartCardinality DEF CountInv
    <3>5. /\ IsFiniteSet(Handled(s)' \cup {again}) /\ Cardinality(Handled(s)' \cup {again}) \in Nat
          /\ Cardinality(Handled(s)' \cup {again}) <= Cardinality(Handled(s)') + 1
      BY <3>4, OneMore
    <3>6. Cardinality(Handled(s)) <= Cardinality(Handled(s)' \cup {again})
      BY <3>3, <3>5, PartCardinality
    <3> QED
      BY <1>0, <1>2, <1>6, <3>1, <3>4, <3>5, <3>6
  <2> QED
    BY <1>0, <1>3, <1>6, <2>2
<1>7. CASE \/ /\ cpc = "fetch" /\ cpc' = "handle" /\ next' = next + 1 /\ next < Len(approved)
              /\ UNCHANGED <<committed, orders, source, createdEvents, orderRestarts>>
           \/ /\ cpc = "fetch" /\ cpc' = "stopped"
              /\ UNCHANGED <<committed, next, orders, source, createdEvents, orderRestarts>>
           \/ /\ cpc = "handle" /\ cpc' \in {"commit", "announce"}
              /\ UNCHANGED <<next, createdEvents, orderRestarts>>
           \/ /\ cpc = "announce" /\ cpc' = "commit"
              /\ UNCHANGED <<next, createdEvents, orderRestarts>>
           \/ /\ cpc = "commit" /\ cpc' \in {"fetch", "stopped"}
              /\ UNCHANGED <<next, createdEvents, orderRestarts>>
  <2>1. \A i \in 1..Len(approved) : HandledAt(i) => HandledAt(i)'
    BY <1>0, <1>7 DEF HandledAt
  <2> QED
    BY <1>4, <1>7, <2>1
<1> QED
  BY <1>5, <1>6, <1>7, OrderSteps DEF OrderInv

\* A signal is announced as one order at most, and one more for each restart of either
\* service, however often it and its decisions are delivered.
THEOREM OrdersAreFew == Pipeline => []OneOrderPerSignalAndRestart
<1> DEFINE Inv == TypeOK /\ OneDecisionInv /\ PublishedOnce /\ OrderInv /\ CountInv
<1>1. PipelineInit => Inv
  <2>1. Init => PublishedOnce
    BY DEF Init, PublishedOnce
  <2> QED
    BY <2>1, InitTypeOK, InitOneDecisionInv, InitOrderInv, InitCountInv DEF PipelineInit
<1>2. Inv /\ [PipelineNext]_<<vars, orderVars>> => Inv'
  <2> SUFFICES ASSUME Inv, [PipelineNext]_<<vars, orderVars>> PROVE Inv'
    OBVIOUS
  <2>1. [Next]_vars
    BY PipelineSteps DEF OrderStep
  <2>2. TypeOK' /\ OneDecisionInv' /\ PublishedOnce' /\ OrderInv'
    BY <2>1, NextTypeOK, NextOneDecisionInv, NextPublishedOnce, NextOrderInv
  <2>3. CountInv'
    BY PipelineSteps, RiskKeepsCount, OrderKeepsCount DEF OneDecisionInv
  <2> QED
    BY <2>2, <2>3
<1>3. Inv => OneOrderPerSignalAndRestart
  <2> SUFFICES ASSUME Inv, NEW s \in Signals
               PROVE  Cardinality(Announced(s)) <= 1 + restarts + orderRestarts
    BY DEF OneOrderPerSignalAndRestart, Announced
  <2>1. /\ IsFiniteSet(DecisionsOn(s)) /\ IsFiniteSet(Announced(s))
        /\ Cardinality(DecisionsOn(s) \ decisionsCache) <= restarts
        /\ Cardinality(Announced(s)) <= Cardinality(Handled(s)) + orderRestarts
        /\ restarts \in Nat /\ orderRestarts \in Nat
    BY DEF CountInv
  <2>2. Cardinality(DecisionsOn(s)) <= Cardinality(DecisionsOn(s) \ decisionsCache) + 1
    BY <2>1, OneDecisionInRun DEF OneDecisionInv
  <2>3. /\ Cardinality(Handled(s)) <= Cardinality(DecisionsOn(s))
        /\ Cardinality(Handled(s)) \in Nat /\ Cardinality(DecisionsOn(s)) \in Nat
    BY <2>1, PartCardinality DEF Handled
  <2>4. Cardinality(DecisionsOn(s) \ decisionsCache) \in Nat /\ Cardinality(Announced(s)) \in Nat
    BY <2>1, PartCardinality, FS_CardinalityType
  <2> QED
    BY <2>1, <2>2, <2>3, <2>4
<1> HIDE DEF Inv
<1> QED
  BY <1>1, <1>2, <1>3, PTL DEF Pipeline

-----------------------------------------------------------------------------
(* The theorems of the order service in the composition.                   *)

OrderTheorems == INSTANCE OrderService_proofs WITH
    log <- approved, minted <- orderIDs, restarts <- orderRestarts,
    MaxRestarts <- MaxOrderRestarts, MaxMessages <- Cardinality(DecisionIDs),
    Decisions <- DecisionIDs, Invalid <- {}, PostedIDs <- {}, Workers <- {},
    FillStatuses <- {}, Targets <- {}

\* Decisions are published once, so their ids bound the topic, as the order service
\* supposes of its messages.
LEMMA TopicHasRoom ==
  ASSUME TypeOK, PublishedOnce, rpc = "publish", current \in DecisionIDs
  PROVE  Len(approved) < Cardinality(DecisionIDs)
<1> DEFINE others == DecisionIDs \ {current}
<1>1. /\ IsFiniteSet(others) /\ Cardinality(others) = Cardinality(DecisionIDs) - 1
      /\ Cardinality(DecisionIDs) \in Nat
  BY OrderAssumption, FS_RemoveElement, FS_CardinalityType
<1>2. approved \in Seq(DecisionIDs) /\ Len(approved) \in Nat /\ DOMAIN approved = 1..Len(approved)
  BY DEF TypeOK
<1>3. approved \in Injection(1..Len(approved), others)
  <2>1. approved \in [1..Len(approved) -> others]
    BY <1>2 DEF PublishedOnce
  <2> QED
    BY <1>2, <2>1 DEF PublishedOnce, Injection, IsInjective
<1>4. Cardinality(1..Len(approved)) <= Cardinality(others)
  BY <1>1, <1>3, FS_Injection
<1>5. Cardinality(1..Len(approved)) = Len(approved)
  BY <1>2, FS_Interval
<1> QED
  BY <1>1, <1>2, <1>4, <1>5

LEMMA NextImplementsOrder ==
  TypeOK /\ PublishedOnce /\ [PipelineNext]_<<vars, orderVars>> => [Order!Next]_Order!vars
<1> SUFFICES ASSUME TypeOK, PublishedOnce, [PipelineNext]_<<vars, orderVars>>
             PROVE  [Order!Next]_Order!vars
  OBVIOUS
<1> USE DEF Order!vars, Order!consumerVars, Order!workerVars, Order!eventVars, orderVars
<1>1. CASE [Next]_vars /\ UNCHANGED orderVars /\ UNCHANGED approved
  BY <1>1
<1>2. CASE /\ UNCHANGED orderVars /\ rpc = "publish" /\ current \in DecisionIDs
           /\ approved' = Append(approved, current)
  <2>1. Order!Deliver(current)
    BY <1>2, TopicHasRoom DEF Order!Deliver
  <2> QED
    BY <1>2, <2>1 DEF Order!Next
<1>3. CASE OrderStep
  BY <1>3 DEF OrderStep, Order!Next
<1>4. CASE [Next]_vars /\ UNCHANGED orderVars
  BY <1>1, <1>2, <1>4, TopicSteps
<1> QED
  BY <1>3, <1>4, PipelineSteps

\* The composition implements the order service too: what the risk service publishes is
\* what OrderService supposes to be delivered (service.go of both, over
\* risk.order.approved).
THEOREM PipelineImplementsOrder == Pipeline => Order!Spec
<1>1. PipelineInit => Order!Init /\ Init /\ PublishedOnce
  BY DEF PipelineInit, Init, PublishedOnce
<1>2. TypeOK /\ PublishedOnce /\ [PipelineNext]_<<vars, orderVars>> => PublishedOnce'
  <2>1. [PipelineNext]_<<vars, orderVars>> => [Next]_vars
    BY PipelineSteps DEF OrderStep
  <2> QED
    BY <2>1, NextPublishedOnce
<1> QED
  BY <1>1, <1>2, NextImplementsOrder, PipelineImplementsRisk, TypeCorrect, PTL
     DEF Pipeline, Order!Spec

\* The theorems of OrderService are about an instance of their own; its steps are the same.
LEMMA SameOrderNext == [Order!Next]_Order!vars => [OrderTheorems!Next]_OrderTheorems!vars
<1> USE DEF Order!vars, OrderTheorems!vars, Order!consumerVars, OrderTheorems!consumerVars,
            Order!workerVars, OrderTheorems!workerVars, Order!eventVars, OrderTheorems!eventVars
<1> SUFFICES ASSUME Order!Next PROVE OrderTheorems!Next
  OBVIOUS
<1>1. ASSUME NEW d \in DecisionIDs, Order!Deliver(d) PROVE OrderTheorems!Deliver(d)
  BY <1>1 DEF Order!Deliver, OrderTheorems!Deliver
<1>2. CASE Order!Consumer
  <2>1. ASSUME Order!Fetch PROVE OrderTheorems!Fetch
    BY <2>1 DEF Order!Fetch, OrderTheorems!Fetch
  <2>2. ASSUME Order!FetchFails PROVE OrderTheorems!FetchFails
    BY <2>2 DEF Order!FetchFails, OrderTheorems!FetchFails
  <2>3. ASSUME Order!HandleWithoutOrder PROVE OrderTheorems!HandleWithoutOrder
    BY <2>3 DEF Order!HandleWithoutOrder, OrderTheorems!HandleWithoutOrder,
                Order!Decision, OrderTheorems!Decision
  <2>4. ASSUME NEW id \in OrderIDs, Order!HandleApproved(id)
        PROVE  OrderTheorems!HandleApproved(id)
    BY <2>4 DEF Order!HandleApproved, OrderTheorems!HandleApproved,
                Order!Decision, OrderTheorems!Decision, Order!Store, OrderTheorems!Store,
                Order!NewOrder, OrderTheorems!NewOrder
  <2>5. ASSUME Order!PublishCreated PROVE OrderTheorems!PublishCreated
    BY <2>5 DEF Order!PublishCreated, OrderTheorems!PublishCreated
  <2>6. ASSUME Order!Commit PROVE OrderTheorems!Commit
    BY <2>6 DEF Order!Commit, OrderTheorems!Commit
  <2> QED
    BY <1>2, <2>1, <2>2, <2>3, <2>4, <2>5, <2>6
       DEF Order!Consumer, OrderTheorems!Consumer, OrderTheorems!Next
<1>3. ASSUME NEW id \in OrderIDs, NEW d, Order!PostOrder(id, d) PROVE FALSE
  BY <1>3 DEF Order!PostOrder
<1>4. ASSUME Order!Restart PROVE OrderTheorems!Restart
  BY <1>4 DEF Order!Restart, OrderTheorems!Restart, Order!Absent, OrderTheorems!Absent,
              Order!NoRequest, OrderTheorems!NoRequest
<1> QED
  BY <1>1, <1>2, <1>3, <1>4 DEF Order!Next, OrderTheorems!Next

\* So in the composition a decision still becomes one order at most in a run of the order
\* service (processedRiskDecisions in order/service.go).
THEOREM OrderStandsInPipeline == Pipeline => []Order!OneOrderPerDecision
<1>1. /\ {} \cup {} \subseteq OrderTheorems!OrderStatus \ {"none"}
      /\ Cardinality(DecisionIDs) \in Nat /\ MaxOrderRestarts \in Nat
      /\ Quantity \in Nat \ {0} /\ {} \subseteq DecisionIDs /\ {} \subseteq OrderIDs
      /\ NoOrder \notin OrderIDs
  BY OrderAssumption, FS_CardinalityType
<1>2. OrderTheorems!Spec => []OrderTheorems!OneOrderPerDecision
  BY <1>1, OrderTheorems!DecisionMakesOneOrder
<1>3. Order!Init => OrderTheorems!Init
  BY DEF Order!Init, OrderTheorems!Init, Order!Absent, OrderTheorems!Absent,
         Order!NoRequest, OrderTheorems!NoRequest
<1>4. OrderTheorems!OneOrderPerDecision => Order!OneOrderPerDecision
  BY DEF Order!OneOrderPerDecision, OrderTheorems!OneOrderPerDecision,
         Order!Exists, OrderTheorems!Exists
<1> QED
  BY <1>2, <1>3, <1>4, SameOrderNext, PipelineImplementsOrder, PTL
     DEF Order!Spec, OrderTheorems!Spec

=============================================================================
