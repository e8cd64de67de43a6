------------------------------ MODULE MCGateway ------------------------------
(* Small instances of Gateway for TLC. *)
EXTENDS Gateway, TLC

CONSTANTS c1, c2, i1

MCSymmetry == Permutations(Clients)
=============================================================================
