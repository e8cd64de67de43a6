---------------------------- MODULE RiskService ----------------------------
(***************************************************************************)
(* The risk service: application/risk/service.go, the in-memory policy     *)
(* repository and portfolio cache of infrastructure/                       *)
(* risk_policy_repository.go, transport/http/risk_handler.go and the       *)
(* wiring of cmd/risk-service.  One goroutine consumes signals; requests   *)
(* create, update and delete policies under it, each in one critical       *)
(* section of the repository.  Policies and snapshots are replaced by      *)
(* pointer, never changed in place, so the consumer keeps what it read.    *)
(***************************************************************************)
EXTENDS RiskEvaluator, Sequences

CONSTANTS
    Signals,         \* ids of strategy.signal.generated
    Owners,          \* pairs of user and strategy
    DefaultOwner,    \* the pair ("default", "*")
    Owner,           \* the owner of each signal
    Value,           \* Quantity * Confidence of each signal
    LimitSets,       \* the limits that requests write
    DefaultLimits,   \* those of initializeDefaultPolicies
    FedSnapshots,    \* what may be fed into the portfolio cache (the deployed service: nothing)
    DecisionIDs,     \* ids that uuid.New may mint
    NoID,
    MaxSignals,      \* bound: messages in the topic, repeats included
    MaxRequests,     \* bound: HTTP requests and cache updates in all
    MaxRestarts

ASSUME OwnersAssumption == DefaultOwner \in Owners /\ Owner \in [Signals -> Owners]
ASSUME MissingAssumption == "missing" \notin Owners
ASSUME ValueAssumption == Value \in [Signals -> Amount]
ASSUME LimitsAssumption == LimitSets \subseteq Limits /\ DefaultLimits \in Limits
ASSUME SnapshotsAssumption == FedSnapshots \subseteq Snapshot
ASSUME NoIDAssumption == NoID \notin DecisionIDs
ASSUME RiskBoundsAssumption ==
    MaxSignals \in Nat /\ MaxRequests \in Nat /\ MaxRestarts \in Nat

VARIABLES
    signals, settled, taken,   \* the topic, the group's offset, the consumer's offset
    rpc,                \* where the consumer goroutine is
    held,               \* the policy and the snapshot it has read
    processedSignals,
    policies,           \* the stored policies, by id
    snapshots,          \* PortfolioCache, by owner of the account
    decisions,          \* every decision ever made, with what it was based on
    decisionsCache,     \* the ids of those this run has cached
    current,            \* the decision in hand
    approved,           \* the topic risk.order.approved
    rejected,           \* what went to risk.order.rejected
    watch,              \* history: what was stored all the while the signal was in hand
    requests, restarts

topicVars == <<signals, settled, taken>>
decisionVars == <<decisions, decisionsCache, current>>
outVars == <<approved, rejected>>
storeVars == <<policies, snapshots, requests>>
vars == <<topicVars, rpc, held, processedSignals, decisionVars, outVars, storeVars, watch, restarts>>

-----------------------------------------------------------------------------

\* createPolicy sends no id, so every posted policy is stored under the empty one.
PostedID == "posted"
DefaultID == "default-policy"
PolicyIDs == {PostedID, DefaultID}

Policy == [owner : Owners, limits : Limits]
Missing == [owner |-> "missing"]

InitialPolicies ==
    [id \in PolicyIDs |-> IF id = DefaultID
                          THEN [owner |-> DefaultOwner, limits |-> DefaultLimits]
                          ELSE Missing]

\* The active policies of an owner; the repository returns any of them.
PoliciesOf(stored, owner) == {stored[id] : id \in {i \in PolicyIDs : stored[i].owner = owner}}

Signal == signals[taken]

\* What of the policies for the signal in hand was stored at every moment so far.
StillStored(w, stored) ==
    IF rpc \in {"handle", "own", "default", "snapshot"}
    THEN [own |-> w.own /\ PoliciesOf(stored, Owner[Signal]) # {},
          default |-> w.default /\ PoliciesOf(stored, DefaultOwner) # {}]
    ELSE w

Nothing == [policy |-> Missing, snapshot |-> EmptySnapshot]

Init ==
    /\ signals = <<>> /\ settled = 0 /\ taken = 0
    /\ rpc = "fetch" /\ held = Nothing /\ processedSignals = {}
    /\ policies = InitialPolicies
    /\ snapshots = [o \in Owners |-> EmptySnapshot]
    /\ decisions = {} /\ decisionsCache = {} /\ current = NoID
    /\ approved = <<>> /\ rejected = {}
    /\ watch = [own |-> TRUE, default |-> TRUE]
    /\ requests = 0 /\ restarts = 0

-----------------------------------------------------------------------------
(* The consumer of strategy.signal.generated. *)

DeliverSignal(s) ==
    /\ Len(signals) < MaxSignals
    /\ signals' = Append(signals, s)
    /\ UNCHANGED <<settled, taken, rpc, held, processedSignals, decisionVars, outVars, storeVars,
                   watch, restarts>>

FetchSignal ==
    /\ rpc = "fetch" /\ taken < Len(signals)
    /\ taken' = taken + 1 /\ rpc' = "handle"
    /\ LET owner == Owner[signals[taken + 1]]
       IN watch' = [own |-> PoliciesOf(policies, owner) # {},
                    default |-> PoliciesOf(policies, DefaultOwner) # {}]
    /\ UNCHANGED <<signals, settled, held, processedSignals, decisionVars, outVars, storeVars,
                   restarts>>

FetchSignalFails ==
    /\ rpc = "fetch"
    /\ rpc' = "stopped"
    /\ UNCHANGED <<topicVars, held, processedSignals, decisionVars, outVars, storeVars, watch,
                   restarts>>

\* Slip: a signal is looked up but not marked.
MarkNothing ==
    /\ rpc = "handle"
    /\ rpc' = IF Signal \in processedSignals THEN "commit" ELSE "own"
    /\ UNCHANGED <<topicVars, held, processedSignals, decisionVars, outVars, storeVars, watch,
                   restarts>>

MarkSignal ==
    /\ rpc = "handle"
    /\ processedSignals' = processedSignals \cup {Signal}
    /\ rpc' = IF Signal \in processedSignals THEN "commit" ELSE "own"
    /\ UNCHANGED <<topicVars, held, decisionVars, outVars, storeVars, watch, restarts>>

Hold(p) == held' = [held EXCEPT !.policy = p]

\* Slip: only the policy posted last is looked at.
GetPostedOnly ==
    /\ rpc = "own"
    /\ \/ /\ policies[PostedID].owner = Owner[Signal]
          /\ Hold(policies[PostedID]) /\ rpc' = "snapshot"
       \/ /\ policies[PostedID].owner # Owner[Signal]
          /\ rpc' = "default" /\ UNCHANGED held
    /\ UNCHANGED <<topicVars, processedSignals, decisionVars, outVars, storeVars, watch, restarts>>

GetByUserAndStrategy ==
    /\ rpc = "own"
    /\ LET found == PoliciesOf(policies, Owner[Signal])
       IN \/ \E p \in found : Hold(p) /\ rpc' = "snapshot"
          \/ found = {} /\ rpc' = "default" /\ UNCHANGED held
    /\ UNCHANGED <<topicVars, processedSignals, decisionVars, outVars, storeVars, watch, restarts>>

\* A critical section of its own.  Without a default policy the signal is dropped:
\* the handler returns nil and the message is committed.
GetDefaultPolicy ==
    /\ rpc = "default"
    /\ LET found == PoliciesOf(policies, DefaultOwner)
       IN \/ \E p \in found : Hold(p) /\ rpc' = "snapshot"
          \/ found = {} /\ rpc' = "commit" /\ UNCHANGED held
    /\ UNCHANGED <<topicVars, processedSignals, decisionVars, outVars, storeVars, watch, restarts>>

\* An account that is not in the cache has an empty snapshot.
GetSnapshot ==
    /\ rpc = "snapshot"
    /\ held' = [held EXCEPT !.snapshot = snapshots[Owner[Signal]]]
    /\ rpc' = "decide"
    /\ UNCHANGED <<topicVars, processedSignals, decisionVars, outVars, storeVars, watch, restarts>>

\* The decision gets a fresh id and is cached.
Decide(id) ==
    /\ rpc = "decide" /\ \A d \in decisions : d.id # id
    /\ decisions' = decisions \cup
          {[id |-> id, signal |-> Signal, policy |-> held.policy, snapshot |-> held.snapshot,
            ownAllAlong |-> watch.own,
            isApproved |-> EvaluateSignal(held.policy.limits, held.snapshot, Value[Signal])]}
    /\ decisionsCache' = decisionsCache \cup {id}
    /\ current' = id /\ rpc' = "publish"
    /\ UNCHANGED <<topicVars, held, processedSignals, outVars, storeVars, watch, restarts>>

IsApproved(id) == \E d \in decisions : d.id = id /\ d.isApproved

\* Slip: every decision goes to the topic of the approved ones.
PublishAllApproved ==
    /\ rpc = "publish"
    /\ approved' = Append(approved, current)
    /\ UNCHANGED rejected
    /\ rpc' = "commit" /\ current' = NoID /\ held' = Nothing
    /\ UNCHANGED <<topicVars, processedSignals, decisions, decisionsCache, storeVars, watch,
                   restarts>>

\* The topic follows from the decision; a failed publication is only logged.
PublishDecision ==
    /\ rpc = "publish"
    /\ \/ IsApproved(current) /\ approved' = Append(approved, current) /\ UNCHANGED rejected
       \/ ~ IsApproved(current) /\ rejected' = rejected \cup {current} /\ UNCHANGED approved
       \/ UNCHANGED outVars
    /\ rpc' = "commit" /\ current' = NoID /\ held' = Nothing
    /\ UNCHANGED <<topicVars, processedSignals, decisions, decisionsCache, storeVars, watch,
                   restarts>>

CommitSignal ==
    /\ rpc = "commit"
    /\ \/ settled' = taken /\ rpc' = "fetch"
       \/ rpc' = "stopped" /\ UNCHANGED settled
    /\ UNCHANGED <<signals, taken, held, processedSignals, decisionVars, outVars, storeVars, watch,
                   restarts>>

-----------------------------------------------------------------------------
(* HTTP requests, and what may feed the cache. *)

Request == requests < MaxRequests /\ requests' = requests + 1

\* One of the repository's writes, as the signal in hand sees it.
StorePolicies(stored) ==
    /\ policies' = stored
    /\ watch' = StillStored(watch, stored)
    /\ UNCHANGED <<topicVars, rpc, held, processedSignals, decisionVars, outVars, snapshots,
                   restarts>>

CreatePolicy(owner, limits) ==
    /\ Request
    /\ StorePolicies([policies EXCEPT ![PostedID] = [owner |-> owner, limits |-> limits]])

\* The path names an id, so a policy under the empty one cannot be updated or deleted.
UpdatePolicy(owner, limits) ==
    /\ Request /\ policies[DefaultID] # Missing
    /\ StorePolicies([policies EXCEPT ![DefaultID] = [owner |-> owner, limits |-> limits]])

DeletePolicy ==
    /\ Request
    /\ StorePolicies([policies EXCEPT ![DefaultID] = Missing])

\* PortfolioCache.UpdateSnapshot; nothing calls it, nor InvalidateSnapshot, which is the
\* empty snapshot again.
UpdateSnapshot(owner, snapshot) ==
    /\ Request
    /\ snapshots' = [snapshots EXCEPT ![owner] = snapshot]
    /\ UNCHANGED <<topicVars, rpc, held, processedSignals, decisionVars, outVars, policies, watch,
                   restarts>>

\* The process ends and a new one resumes at the committed offset with the default policy.
RestartRisk ==
    /\ restarts < MaxRestarts
    /\ restarts' = restarts + 1
    /\ taken' = settled /\ rpc' = "fetch" /\ held' = Nothing /\ current' = NoID
    /\ processedSignals' = {} /\ decisionsCache' = {}
    /\ policies' = InitialPolicies
    /\ snapshots' = [o \in Owners |-> EmptySnapshot]
    /\ UNCHANGED <<signals, settled, decisions, outVars, watch, requests>>

RiskConsumer ==
    \/ FetchSignal \/ FetchSignalFails \/ MarkSignal \/ GetByUserAndStrategy
    \/ GetDefaultPolicy \/ GetSnapshot \/ PublishDecision \/ CommitSignal
    \/ \E id \in DecisionIDs : Decide(id)

RiskRequest ==
    \/ \E owner \in Owners, limits \in LimitSets :
          CreatePolicy(owner, limits) \/ UpdatePolicy(owner, limits)
    \/ DeletePolicy
    \/ \E s \in Signals, snapshot \in FedSnapshots : UpdateSnapshot(Owner[s], snapshot)

Next ==
    \/ \E s \in Signals : DeliverSignal(s)
    \/ RiskConsumer
    \/ RiskRequest
    \/ RestartRisk

Spec == Init /\ [][Next]_vars

-----------------------------------------------------------------------------
(* Properties. *)

Decision == [id : DecisionIDs, signal : Signals, policy : Policy, snapshot : Snapshot,
             ownAllAlong : BOOLEAN, isApproved : BOOLEAN]

\* Every variable keeps its type, and the consumer holds what its place in the code needs.
TypeOK ==
    /\ signals \in Seq(Signals) /\ taken \in 0..Len(signals) /\ settled \in 0..taken
    /\ rpc \in {"fetch", "handle", "own", "default", "snapshot", "decide", "publish", "commit",
                "stopped"}
    /\ rpc \notin {"fetch", "stopped"} => taken > settled
    /\ held.policy \in Policy \cup {Missing} /\ held.snapshot \in Snapshot
    /\ rpc \in {"snapshot", "decide"} => held.policy \in Policy
    /\ processedSignals \subseteq Signals
    /\ policies \in [PolicyIDs -> Policy \cup {Missing}]
    /\ snapshots \in [Owners -> Snapshot]
    /\ decisions \subseteq Decision /\ decisionsCache \subseteq DecisionIDs
    /\ IF rpc = "publish" THEN current \in DecisionIDs ELSE current = NoID
    /\ approved \in Seq(DecisionIDs) /\ rejected \subseteq DecisionIDs
    /\ watch \in [own : BOOLEAN, default : BOOLEAN]
    /\ requests \in Nat /\ restarts \in Nat

\* On an account with money an order is approved exactly when the account stays within
\* every limit of the policy it was judged by, whatever requests replace meanwhile; an
\* account without money is never approved (EvaluateSignal, divided in float64).
ApprovedWithinLimits ==
    \A d \in decisions :
        /\ d.snapshot.balance > 0 =>
              (d.isApproved <=> WithinLimits(d.policy.limits, d.snapshot, Value[d.signal]))
        /\ d.snapshot.balance = 0 => ~ d.isApproved

\* While the process runs a signal is decided at most once, however often it is
\* delivered (processedSignals in processStrategySignal).
OneDecisionPerSignal ==
    \A d, e \in decisions :
        d.id \in decisionsCache /\ e.id \in decisionsCache /\ d.signal = e.signal => d.id = e.id

\* A signal whose owner had a policy all the while it was in hand is judged by one of the
\* owner's, never by the default.
OwnPolicyPrevails ==
    \A d \in decisions : d.ownAllAlong => d.policy.owner = Owner[d.signal]

\* A signal is dropped undecided only if requests took away both its owner's policy and
\* the default while it was in hand: each was missing at some moment.
DroppedOnlyUncovered ==
    [][rpc = "default" /\ rpc' = "commit" => ~ watch.own /\ ~ watch.default]_vars

=============================================================================
