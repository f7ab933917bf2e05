---------------------------- MODULE MCConfigFile ----------------------------
(***************************************************************************)
(* Instances of ConfigFile for TLC.  Files, savers and loaders are         *)
(* interchangeable, and every property checked is a safety property.       *)
(***************************************************************************)
EXTENDS ConfigFile, TLC

Symmetry == Permutations(Inodes) \cup Permutations(Savers) \cup Permutations(Loaders)
=============================================================================
