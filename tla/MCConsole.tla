----------------------------- MODULE MCConsole -----------------------------
(***************************************************************************)
(* Instances of Console for TLC.  Sessions are interchangeable; the runs   *)
(* that use the symmetry check no liveness.                                *)
(***************************************************************************)
EXTENDS Console, TLC

Symmetry == Permutations(Sessions)
=============================================================================
