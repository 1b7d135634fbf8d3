---------------------------- MODULE MCTenantGates ----------------------------
(* A small instance of TenantGates.                                        *)
EXTENDS TenantGates, TLC
CONSTANTS c1, c2, c3, t1, t2, t3
Symm == Permutations(Callers) \cup Permutations(Tokens)
=============================================================================
