---------------------------- MODULE MCDagsterJob ----------------------------
(***************************************************************************)
(* Instances of DagsterJob for TLC.  Jobs are interchangeable, as are seed *)
(* scripts, and every property checked is a safety property.               *)
(***************************************************************************)
EXTENDS DagsterJob, TLC

Symmetry == Permutations(Runs) \cup Permutations(Seeders)
=============================================================================
