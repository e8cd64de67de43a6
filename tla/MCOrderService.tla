--------------------------- MODULE MCOrderService ---------------------------
(* Small instances of OrderService for TLC. *)
EXTENDS OrderService, TLC

\* What the exported methods of the service accept.
AnyFill == {"partial_filled", "filled"}
AnyTarget == {"submitted", "filled", "canceled", "rejected"}

=============================================================================
