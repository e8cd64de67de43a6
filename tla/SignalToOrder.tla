--------------------------- MODULE SignalToOrder ---------------------------
(***************************************************************************)
(* The risk service and the order service composed over the topic          *)
(* risk.order.approved: what one publishes is the log the other consumes.  *)
(* Each process may end and start again by itself.                         *)
(***************************************************************************)
EXTENDS RiskService, FiniteSets

CONSTANTS OrderIDs, NoOrder, Quantity, MaxOrderRestarts   \* of OrderService

\* What OrderService assumes of its constants, its messages being the decisions.
ASSUME OrderAssumption ==
    /\ IsFiniteSet(DecisionIDs) /\ NoOrder \notin OrderIDs
    /\ Quantity \in Nat \ {0} /\ MaxOrderRestarts \in Nat

VARIABLES
    committed, next, cpc, fresh, processed, orders, source, orderIDs, wpc, request,
    checked, orderRestarts, createdEvents, canceledEvents

orderVars == <<committed, next, cpc, fresh, processed, orders, source, orderIDs, wpc, request,
               checked, orderRestarts, createdEvents, canceledEvents>>

\* Nothing is posted over HTTP, and every approved order passes the validation.
Order == INSTANCE OrderService WITH
    log <- approved, minted <- orderIDs, restarts <- orderRestarts,
    MaxRestarts <- MaxOrderRestarts, MaxMessages <- Cardinality(DecisionIDs),
    Decisions <- DecisionIDs, Invalid <- {}, PostedIDs <- {}, Workers <- {},
    FillStatuses <- {}, Targets <- {}

PipelineInit == Init /\ Order!Init

RiskStep == Next /\ UNCHANGED orderVars

OrderStep == (Order!Consumer \/ Order!Restart) /\ UNCHANGED vars

PipelineNext == RiskStep \/ OrderStep

Pipeline == PipelineInit /\ [][PipelineNext]_<<vars, orderVars>>

-----------------------------------------------------------------------------
(* Properties. *)

DecisionsOn(s) == {d.id : d \in {e \in decisions : e.signal = s}}

\* An order, and its announcement, comes from a decision that approved a signal.
OrdersComeFromApprovals ==
    /\ \A id \in OrderIDs : Order!Exists(id) => IsApproved(source[id])
    /\ \A e \in createdEvents : IsApproved(e.decision)

\* However often a signal is delivered, it is announced as at most one order, and one
\* more for each restart of either service: a restart forgets the marks, and only the
\* message in hand, or a repeated one, is handled again.
OneOrderPerSignalAndRestart ==
    \A s \in Signals :
        Cardinality({e \in createdEvents : e.decision \in DecisionsOn(s)})
            <= 1 + restarts + orderRestarts

=============================================================================
