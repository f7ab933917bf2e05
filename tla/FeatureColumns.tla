--------------------------- MODULE FeatureColumns ---------------------------
(***************************************************************************)
(* Which columns a model is fitted on and scored with: the pipeline's and  *)
(* the trainer's choice (train_register_promote, _numeric_features), the   *)
(* alignment of a batch (align_features) and the guard of shaping.py.      *)
(*                                                                         *)
(* A frame is the sequence of its columns, and a column its name and where *)
(* its values come from: the batch itself, or a constant 0.0.              *)
(***************************************************************************)
EXTENDS Sequences, SequencesExt

CONSTANTS
  Key,       \* cfg.entity_key
  Target     \* cfg.target

ColumnsNamed(names) == [i \in DOMAIN names |-> [name |-> names[i], from |-> "batch"]]
NamesOf(frame) == [i \in DOMAIN frame |-> frame[i].name]
HasColumn(frame, name) == \E i \in DOMAIN frame : frame[i].name = name
Column(frame, name) == frame[SelectInSeq(frame, LAMBDA c : c.name = name)]

\* The elements of a sequence that lie in a set, in their order.  (tlapm cannot
\* expand SelectSeq, and does expand a fold.)
Only(seq, set) ==
  FoldLeft(LAMBDA out, e : IF e \in set THEN Append(out, e) ELSE out, <<>>, seq)

Drop(frame, names) == Only(frame, {c \in ToSet(frame) : c.name \notin names})
Select(frame, names) == [i \in DOMAIN names |-> Column(frame, names[i])]

\* The loop that adds the columns a frame lacks.
FillAbsent(frame, names) ==
  FoldLeft(LAMBDA out, name :
             IF HasColumn(out, name) THEN out
             ELSE Append(out, [name |-> name, from |-> "zero"]),
           frame, names)

\* What the pipeline hands to the trainer, the numeric columns the trainer fits
\* on, and the names it records for the batches to come.
TrainingFrame(frame) == Drop(frame, {Key, Target})
NumericFeatures(frame, numeric) ==
  Only(frame, {c \in ToSet(frame) : c.name \in numeric})
FeatureColumnsOf(frame, numeric) ==
  NamesOf(NumericFeatures(TrainingFrame(frame), numeric))

\* Mutant: the columns are filled and filtered, and stay where they are.
AlignInPlace(frame, names) ==
  LET out == FillAbsent(frame, names)
  IN  Only(out, {c \in ToSet(out) : Contains(names, c.name)})
AlignFeatures(frame, names) == Select(FillAbsent(frame, names), names)

\* shaping.apply_canonical_order, then split_features_and_key.
ApplyCanonicalOrder(frame, order, preserve) ==
  LET out  == FillAbsent(frame, order)
      kept == Only(preserve, {c \in ToSet(preserve) :
                                HasColumn(out, c) /\ ~Contains(order, c)})
  IN  Select(out, order \o kept)

SplitFeatures(frame) == Drop(frame, {Key, Target})
=============================================================================
