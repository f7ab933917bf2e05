---------------------------- MODULE MCOnlineStore ---------------------------
(***************************************************************************)
(* Instances of OnlineStore for TLC: what the pipeline loads.              *)
(***************************************************************************)
EXTENDS OnlineStore

\* One scored split or another, never nothing.
NonEmptyBatches == SUBSET Entities \ {{}}
=============================================================================
