----------------------------- MODULE MCAccounts -----------------------------
(* Small instances of Accounts for TLC. *)
EXTENDS Accounts, TLC

CONSTANTS c1, c2

MCSymmetry == Permutations(Clients)
=============================================================================
