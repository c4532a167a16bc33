------------------------------ MODULE MCVault ------------------------------
(***************************************************************************)
(* Model values for Vault: two processes, each of which may try to open    *)
(* the path twice at a time.                                               *)
(***************************************************************************)
EXTENDS Vault, TLC

CONSTANTS p1, p2, u1, u2

Symmetry == Permutations({p1, p2}) \union Permutations({u1, u2})
=============================================================================
