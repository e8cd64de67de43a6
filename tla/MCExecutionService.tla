------------------------ MODULE MCExecutionService ------------------------
(* Small instances of ExecutionService for TLC. *)
EXTENDS ExecutionService, TLC

Symmetry == Permutations(Orders)

\* An exchange behind a network: it may refuse, and its answer may get lost.
Unreliable == {"accepted", "refused", "lost"}

=============================================================================
