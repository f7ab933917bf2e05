------------------------------ MODULE Reshape ------------------------------
(***************************************************************************)
(* etl/reshape.py: the per-window tables are projected, then joined by     *)
(* FULL OUTER JOIN ... USING the entity key.                               *)
(*                                                                         *)
(* A table is a set of rows [key, snapshot, raw].  A column's treatment is *)
(* a function of one raw value, so one raw value stands for all the        *)
(* columns of a row: each column of the specification projects it in its   *)
(* own way, and as a category it is one or it is not.  Keys are not null.  *)
(***************************************************************************)
EXTENDS Integers, FiniteSets, SequencesExt

CONSTANTS
  Null,       \* SQL's NULL
  Windows,    \* the number of windows; window 1 is the base of the join
  Columns,    \* the numeric columns of the specification: [clip, default, dwell]
              \* is spec.clip of the column or Null, spec.coalesce_default, and
              \* whether its name contains dwell_time
  Declared    \* the raw value that is the declared category

Coalesce(column, value) == IF value = Null THEN column.default ELSE value

\* Mutant: the comparison is the wrong way round.
ClipUp(column, value) ==
  IF column.clip # Null /\ value < column.clip THEN column.clip ELSE value
Clip(column, value) ==
  IF column.clip # Null /\ value > column.clip THEN column.clip ELSE value

\* _per_window_select: one row of a window's table, projected.
Projected(row) ==
  [snapshot |-> row.snapshot,
   values   |-> [c \in Columns |-> Clip(c, Coalesce(c, row.raw))],
   hot      |-> IF row.raw = Declared THEN 1 ELSE 0]

(***************************************************************************)
(* The join.  A joined row has, for each window, the projected row it took *)
(* from it, or Null: the defaults are filled in before the join, not for   *)
(* the cells the join itself leaves empty.                                 *)
(***************************************************************************)
Alone(row, w) ==
  [key |-> row.key,
   at  |-> [v \in 1 .. Windows |-> IF v = w THEN Projected(row) ELSE Null]]

\* Mutant: the ON base.key = other.key of an earlier version.
MatchesBase(joined, row) == joined.at[1] # Null /\ joined.key = row.key
Matches(joined, row) == joined.key = row.key

FullOuterJoin(left, table, w) ==
  LET pairs == {p \in left \X table : Matches(p[1], p[2])}
  IN  {[p[1] EXCEPT !.at[w] = Projected(p[2])] : p \in pairs}
        \cup {l \in left : \A p \in pairs : p[1] # l}
        \cup {Alone(r, w) : r \in {r \in table : \A p \in pairs : p[2] # r}}

BuildFeatureMatrix(tables) ==
  FoldLeft(LAMBDA left, w : FullOuterJoin(left, tables[w], w),
           {}, [w \in 1 .. Windows |-> w])

\* The row's own snapshot: COALESCE of the snapshots of the windows in their order.
SnapshotOf(row) ==
  LET w == SelectInSeq(row.at, LAMBDA cell : cell # Null /\ cell.snapshot # Null)
  IN  IF w = 0 THEN Null ELSE row.at[w].snapshot
=============================================================================
