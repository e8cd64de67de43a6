--------------------------- MODULE OrderLifecycle ---------------------------
(***************************************************************************)
(* What the order service promises of an order, seen from outside: it is   *)
(* created once and moves along the order state machine until it reaches a *)
(* terminal status.  Orders live in memory and vanish with the process.    *)
(***************************************************************************)

CONSTANT OrderIDs

VARIABLE life

OrderStatus == {"none", "created", "submitted", "partial_filled", "filled",
                "canceled", "rejected", "closed"}

\* Order.CanTransition; "none" is an order that is not stored.
CanTransition(from, to) ==
    \/ from = "created"        /\ to \in {"submitted", "canceled", "rejected"}
    \/ from = "submitted"      /\ to \in {"filled", "partial_filled", "canceled", "rejected"}
    \/ from = "partial_filled" /\ to \in {"filled", "canceled"}

\* Order.IsFinal.
IsFinal(status) == status \in {"filled", "canceled", "rejected", "closed"}

Init == life = [id \in OrderIDs |-> "none"]

Create(id) ==
    /\ life[id] = "none"
    /\ life' = [life EXCEPT ![id] = "created"]

Move(id, to) ==
    /\ CanTransition(life[id], to)
    /\ life' = [life EXCEPT ![id] = to]

ProcessEnds == life' = [id \in OrderIDs |-> "none"]

Next ==
    \/ \E id \in OrderIDs : Create(id) \/ \E to \in OrderStatus : Move(id, to)
    \/ ProcessEnds

Spec == Init /\ [][Next]_life

=============================================================================
