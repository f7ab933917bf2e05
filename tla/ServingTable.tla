---------------------------- MODULE ServingTable ----------------------------
(***************************************************************************)
(* What store/online.py promises of predictions_online, whoever reads it:  *)
(* the table is only ever replaced, as a whole and in one step, by the     *)
(* rows of a single load.  Rows are named by the load that wrote them.     *)
(***************************************************************************)
CONSTANTS Entities, Loads, NoRow

VARIABLE table      \* table[e]: the load whose row entity e has, or NoRow

Empty == [e \in Entities |-> NoRow]

RowsOf(w, rows) == [e \in Entities |-> IF e \in rows THEN w ELSE NoRow]

Init == table = Empty

\* load_predictions: an empty batch changes nothing, so rows is not empty.
Swap(w, rows) == rows # {} /\ table' = RowsOf(w, rows)

Next == \E w \in Loads, rows \in SUBSET Entities : Swap(w, rows)

Spec == Init /\ [][Next]_table

\* Readers never observe a mix: every row served is of one and the same load.
OneLoadServed ==
  \A d, e \in Entities :
    table[d] # NoRow /\ table[e] # NoRow => table[d] = table[e]
=============================================================================
