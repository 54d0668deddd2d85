----------------------------- MODULE MCAccounts -----------------------------
(* Two processes, as the node and keygen, and three accounts.              *)
EXTENDS Accounts, TLC

CONSTANTS p1, p2, n1, n2

MCProcs == {p1, p2}
MCNames == {n1, n2}
Symmetry == Permutations(MCProcs) \cup Permutations(MCNames)
=============================================================================
