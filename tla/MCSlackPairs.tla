---------------------------- MODULE MCSlackPairs ----------------------------
(***************************************************************************)
(* SlackChannel with pairs of values that nothing tells apart: bindings    *)
(* and channels for the consents, requests and events for the serving.     *)
(***************************************************************************)
EXTENDS SlackChannel, TLC

CONSTANTS b1, b2, c1, c2, r1, r2, e1, e2

ConsentSymmetry == Permutations({b1, b2}) \cup Permutations({c1, c2})
    \cup Permutations({r1, r2})
ServingSymmetry == Permutations({r1, r2}) \cup Permutations({e1, e2})
=============================================================================
