---------------------------- MODULE MCDataRules ----------------------------
(***************************************************************************)
(* Bounded families of inputs for DataRules.                               *)
(***************************************************************************)
EXTENDS DataRules

Entities == {"a", "b"}

\* A column clipped at the validator's bound, one that is only filled in, one
\* whose clip is above that bound, and one with neither a clip nor a sound default.
FourColumns ==
  {[clip |-> 180, default |-> 0, dwell |-> TRUE],
   [clip |-> Null, default |-> 0, dwell |-> FALSE],
   [clip |-> 190, default |-> 0, dwell |-> TRUE],
   [clip |-> Null, default |-> -1, dwell |-> TRUE]}

\* Two snapshots and a missing one, each with some of a negative value, a missing
\* one and one above every bound.
WindowRows ==
  {[key |-> e, snapshot |-> cells[1], raw |-> cells[2]] :
     e \in Entities,
     cells \in {<<1, -1>>, <<1, 200>>, <<2, 200>>, <<2, Null>>, <<Null, Null>>}}

\* At most two rows: of two entities, or two snapshots of one.
TwoRowTables ==
  {table \in UNION {kSubset(n, WindowRows) : n \in 0 .. 2} :
     \A r, s \in table : r # s => <<r.key, r.snapshot>> # <<s.key, s.snapshot>>}

Names == {Key, Target, "feat_0", "feat_1"}

\* Every arrangement of a part of the columns.
Arrangements == UNION {SetToAllKPermutations(part) : part \in SUBSET Names}

WithTarget == {f \in Arrangements : Contains(f, Target)}
WithKey == {f \in Arrangements : Contains(f, Key)}

\* The key and the target may be numeric too.
AnyNumeric == {n \in SUBSET Names : {Key, Target} \subseteq n}

UpToFourRows == BoundedSeq([entity : Entities, class : {"x", "y"}], 4)
=============================================================================
