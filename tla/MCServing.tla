------------------------------ MODULE MCServing -----------------------------
(***************************************************************************)
(* Instances of Serving for TLC.                                           *)
(***************************************************************************)
EXTENDS Serving, TLC

\* Every batch, the empty one included.
AnyBatch == SUBSET Entities

Symmetry == Permutations(Loads)
=============================================================================
