----------------------------- MODULE DataRules -----------------------------
(***************************************************************************)
(* The functions of the pipeline that keep no state, each called with any  *)
(* input of a bounded family: the reshape, the alignment of a batch, the   *)
(* validation of the training data, the point-in-time check, and the rows  *)
(* load_predictions makes of a scored batch.  The properties compare what  *)
(* a call returned with what it is for, said in another way.               *)
(***************************************************************************)
EXTENDS Reshape, FeatureColumns

CONSTANTS
  WindowTables,  \* the tables a window may have
  FitFrames,     \* column names of training frames: Target is among them
  BatchFrames,   \* column names of batches: Key is among them
  NumericSets,   \* which columns of a training frame are numeric
  Classes,       \* labels that occur, besides a missing one
  RowCounts,     \* how many training rows a class may have
  MinRows,       \* values of cfg.validation.min_rows_per_class
  Dates,         \* parsed dates, as day numbers
  PitWindows,    \* values of cfg.validation.pit_window_days
  ScoredBatches  \* scored batches: sequences of rows [entity, class]

\* A table is a set, so it may have one row for an entity and a snapshot only:
\* two that a default makes equal would become one, and SQL keeps both.
ASSUME RulesAssumption ==
  /\ Windows \in Nat \ {0}
  /\ Null \notin Dates /\ Dates \subseteq Int /\ PitWindows \subseteq Int
  /\ Columns \subseteq [clip : Int \cup {Null}, default : Int, dwell : BOOLEAN]
  /\ Null \notin Int
  /\ \A table \in WindowTables :
       /\ IsFiniteSet(table)
       /\ \A row \in table : row.raw \in Int \cup {Null} /\ Projected(row) # Null
       /\ \A r, s \in table : r.key = s.key /\ r.snapshot = s.snapshot => r = s
  /\ \A names \in FitFrames \cup BatchFrames : names \in Seq(ToSet(names))
  /\ RowCounts \subseteq Nat /\ MinRows \subseteq Int
  /\ \A scored \in ScoredBatches :
       /\ scored \in Seq({scored[i] : i \in DOMAIN scored})
       /\ \A i \in DOMAIN scored :
            scored[i] = [entity |-> scored[i].entity, class |-> scored[i].class]

VARIABLES
  rule,     \* the function that was called, or "none"
  given,    \* what it was called with
  result    \* what it returned

vars == <<rule, given, result>>

Nothing == "nothing"

Init == rule = "none" /\ given = Nothing /\ result = Nothing

Idle == rule = "none"

Call(name, input, output) == rule' = name /\ given' = input /\ result' = output

Return ==
  /\ ~Idle
  /\ rule' = "none" /\ given' = Nothing /\ result' = Nothing

-----------------------------------------------------------------------------
(***************************************************************************)
(* validate_feature_matrix on a reshaped matrix, with its key column or    *)
(* without (split_features_and_key takes it off): what it reports, and of  *)
(* which columns.  Minima and maxima ignore nulls.  The bound of the dwell *)
(* times is its own, whatever spec.clip is.                                *)
(***************************************************************************)
DwellBound == 180

ValuesOf(matrix, column) ==
  {cell.values[column] : cell \in {row.at[w] : row \in matrix, w \in 1 .. Windows}
                                   \ {Null}}

ValidateFeatureMatrix(matrix, keyed) ==
  [key      |-> ~keyed,
   negative |-> {c \in Columns : \E v \in ValuesOf(matrix, c) : v < 0},
   dwell    |-> {c \in Columns :
                   c.dwell /\ \E v \in ValuesOf(matrix, c) : v > DwellBound}]

ReshapeTables ==
  /\ Idle
  /\ \E tables \in [1 .. Windows -> WindowTables], keyed \in BOOLEAN :
       LET matrix == BuildFeatureMatrix(tables)
       IN  Call("reshape", [tables |-> tables, keyed |-> keyed],
                [matrix |-> matrix,
                 violations |-> ValidateFeatureMatrix(matrix, keyed)])

(***************************************************************************)
(* A model is fitted on one frame and scores another; the same batch goes  *)
(* through shaping.py.                                                     *)
(***************************************************************************)
FitAndAlign ==
  /\ Idle
  /\ \E fit \in FitFrames, batch \in BatchFrames, numeric \in NumericSets :
       LET contract == FeatureColumnsOf(ColumnsNamed(fit), numeric)
           frame    == ColumnsNamed(batch)
       IN  Call("align", [contract |-> contract, batch |-> batch],
                [aligned |-> AlignFeatures(frame, contract),
                 shaped  |-> SplitFeatures(
                               ApplyCanonicalOrder(frame, contract, <<Key, Target>>))])

(***************************************************************************)
(* validate_training_data, on data with its target column or without.      *)
(* Naming the classes found, it sorts them, which raises when a missing    *)
(* label is among others.                                                  *)
(***************************************************************************)
Present(rows) == {c \in DOMAIN rows : rows[c] > 0}

TooFew(rows, min) == {c \in Present(rows) : rows[c] < min}

\* Mutant: classes that are expected and absent are forgotten.
Unexpected(rows, labels) == labels # {} /\ ~(Present(rows) \subseteq labels)
ClassMismatch(rows, labels) == labels # {} /\ Present(rows) # labels

Unsortable(rows) == Null \in Present(rows) /\ Cardinality(Present(rows)) > 1

ValidateTrainingData(labelled, rows, labels, min) ==
  CASE ~labelled -> {"target"}
    [] labelled /\ ClassMismatch(rows, labels) /\ Unsortable(rows) -> {"raises"}
    [] labelled /\ ClassMismatch(rows, labels) /\ ~Unsortable(rows) ->
         {"classes"} \cup TooFew(rows, min)
    [] OTHER -> TooFew(rows, min)

ValidateTraining ==
  /\ Idle
  /\ \E labelled \in BOOLEAN, rows \in [Classes \cup {Null} -> RowCounts],
        labels \in SUBSET Classes, min \in MinRows :
       Call("validate", [labelled |-> labelled, rows |-> rows, labels |-> labels,
                         min |-> min],
            ValidateTrainingData(labelled, rows, labels, min))

(***************************************************************************)
(* validate_point_in_time: the rows it reports, none when a date column is *)
(* absent.  A date that does not parse is null, the difference is null,    *)
(* and the filter passes it over.                                          *)
(***************************************************************************)
Distance(d, e) == IF d > e THEN d - e ELSE e - d

Parsed(row) == Null \notin {row.snapshot, row.label}

\* Mutant: the one-sided contract the module docstring warns of.
LabelNotAfter(row, n) == Parsed(row) /\ row.snapshot - row.label > n
OutsideWindow(row, n) == Parsed(row) /\ Distance(row.snapshot, row.label) > n

DatedRows == [snapshot : Dates \cup {Null}, label : Dates \cup {Null}]

PointInTime ==
  /\ Idle
  /\ \E dated \in BOOLEAN, first, second \in DatedRows, n \in PitWindows :
       Call("point_in_time", [dated |-> dated, rows |-> {first, second}, n |-> n],
            {row \in {first, second} : dated /\ OutsideWindow(row, n)})

(***************************************************************************)
(* load_predictions: unique(keep="last") leaves the rows with no later row *)
(* of the same entity.                                                     *)
(***************************************************************************)
FirstOfEntity(scored, i) ==                                       \* mutant
  \A k \in 1 .. i - 1 : scored[k].entity # scored[i].entity
LastOfEntity(scored, i) ==
  \A k \in i + 1 .. Len(scored) : scored[k].entity # scored[i].entity

RowsToLoad(scored) ==
  {scored[i] : i \in {i \in DOMAIN scored : LastOfEntity(scored, i)}}

LoadBatch ==
  /\ Idle
  /\ \E scored \in ScoredBatches : Call("load", scored, RowsToLoad(scored))

-----------------------------------------------------------------------------
Next ==
  \/ ReshapeTables \/ FitAndAlign \/ ValidateTraining \/ PointInTime \/ LoadBatch
  \/ Return

Spec == Init /\ [][Next]_vars

-----------------------------------------------------------------------------
RowsOf(table, e) == {row \in table : row.key = e}

\* Reshape, lines 89-92: an entity present in any window is kept, with one row
\* for each way to combine its rows of the windows: exactly one, as the comment
\* there has it, only when no window has two.  Each cell is that of one of the
\* entity's rows, or empty when the window has none, and the row's snapshot is the
\* one of the first window that gave it a row with a snapshot.
JoinKeepsEntities ==
  rule = "reshape" =>
    LET tables == given.tables
        keys   == {row.key : row \in UNION {tables[w] : w \in 1 .. Windows}}
        Combinations(e) ==
          FoldLeft(LAMBDA n, w : n * Max({1, Cardinality(RowsOf(tables[w], e))}),
                   1, [w \in 1 .. Windows |-> w])
    IN  /\ {row.key : row \in result.matrix} = keys
        /\ \A e \in keys : Cardinality(RowsOf(result.matrix, e)) = Combinations(e)
        /\ \A row \in result.matrix :
             LET Gave(w, s) == \E r \in RowsOf(tables[w], row.key) :
                                 row.at[w] = Projected(r) /\ r.snapshot = s
                 NoRow(w)   == RowsOf(tables[w], row.key) = {} /\ row.at[w] = Null
                 Dateless(w) == NoRow(w) \/ Gave(w, Null)
                 snapshot   == SnapshotOf(row)
             IN  /\ \A w \in 1 .. Windows : NoRow(w) \/ \E r \in RowsOf(tables[w], row.key) :
                                                           row.at[w] = Projected(r)
                 /\ IF snapshot = Null THEN \A w \in 1 .. Windows : Dateless(w)
                    ELSE \E w \in 1 .. Windows :
                           Gave(w, snapshot) /\ \A v \in 1 .. w - 1 : Dateless(v)

\* What validate_feature_matrix says of a reshaped matrix, in terms of the tables:
\* a column is reported as negative exactly when a value of it, or the default it
\* took, is below zero, or its clip is; and as dwell time too long exactly when a
\* value is above 180 and the column has no clip, or one above 180.  The join adds
\* no other value and hides none.
ReshapedIsValid ==
  rule = "reshape" =>
    LET raws == {row.raw : row \in UNION {given.tables[w] : w \in 1 .. Windows}}
        Has(c, Bad(_)) == \E raw \in raws : Bad(IF raw = Null THEN c.default ELSE raw)
    IN  /\ result.violations.key = ~given.keyed
        /\ \A c \in Columns :
             /\ c \in result.violations.negative <=>
                  Has(c, LAMBDA v : v < 0 \/ (c.clip # Null /\ c.clip < 0))
             /\ c \in result.violations.dwell <=>
                  /\ c.dwell /\ (c.clip = Null \/ c.clip > 180)
                  /\ Has(c, LAMBDA v : v > 180)

\* Whatever columns a batch has and in whatever order, the model is scored with
\* the columns it was fitted on, in their order, the batch's own where it has
\* them; and the two guards against skew, align_features and shaping.py, agree.
NoSkew ==
  rule = "align" =>
    /\ NamesOf(result.aligned) = given.contract
    /\ \A i \in DOMAIN result.aligned :
         result.aligned[i].from = "batch" <=> Contains(given.batch, given.contract[i])
    /\ result.shaped = result.aligned

\* Training data is let through exactly when it has a target column, every class
\* that is configured or occurs has the minimum of rows, and at least one, and no
\* other class occurs (when none is configured, any may).
ClassesSupported ==
  rule = "validate" =>
    (result = {} <=>
       /\ given.labelled
       /\ \A c \in given.labels : given.rows[c] >= Max({1, given.min})
       /\ \A c \in DOMAIN given.rows :
            given.rows[c] > 0 => /\ given.rows[c] >= given.min
                                 /\ given.labels = {} \/ c \in given.labels)

\* Where there are dates, a row whose dates parse is reported exactly when its
\* label does not lie within n days before or after its snapshot.
PitSymmetric ==
  rule = "point_in_time" =>
    \A row \in given.rows : Parsed(row) =>
      (row \in result <=>
         given.dated /\ row.label \notin row.snapshot - given.n .. row.snapshot + given.n)

\* The table holds what writing the batch row by row would have left in it: the
\* DynamoDB put_item of the original pipeline, last write wins.
LastWriteWins ==
  rule = "load" =>
    LET entities == {given[i].entity : i \in DOMAIN given}
        written  == FoldLeft(LAMBDA t, row : [t EXCEPT ![row.entity] = row.class],
                             [e \in entities |-> Null], given)
    IN  result = {[entity |-> e, class |-> written[e]] : e \in entities}
=============================================================================
