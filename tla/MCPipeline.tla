----------------------------- MODULE MCPipeline -----------------------------
(***************************************************************************)
(* Instances of Pipeline for TLC.  Runs are interchangeable; the runs that *)
(* use the symmetry check no liveness.                                     *)
(***************************************************************************)
EXTENDS Pipeline, TLC

Symmetry == Permutations(Runs)
=============================================================================
