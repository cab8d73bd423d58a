----------------------------- MODULE MCCloudSync -----------------------------
(***************************************************************************)
(* Small instances of CloudSync for TLC.                                   *)
(***************************************************************************)
EXTENDS CloudSync, TLC

CONSTANTS d1, d2, a, b

Symmetry == Permutations({d1, d2}) \cup Permutations({a, b})
=============================================================================
