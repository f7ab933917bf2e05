-------------------------- MODULE DataRulesProofs --------------------------
(***************************************************************************)
(* What the stateless functions promise for inputs of any size: the two    *)
(* training gates, the reshape over any number of windows, its validation, *)
(* the deduplication of a scored batch, and the alignment of features.     *)
(***************************************************************************)
EXTENDS DataRules, WellFoundedInduction, FiniteSetTheorems,
        FunctionTheorems, SequenceTheorems, TLAPS

-----------------------------------------------------------------------------
(***************************************************************************)
(* Induction and folds.  The library's induction theorems take a predicate *)
(* as a parameter; here a set of numbers takes its place.  FoldLeft visits *)
(* the sets 1 .. k of indices, and FoldExists shows that the function it   *)
(* chooses exists.                                                         *)
(***************************************************************************)
\* Induction over a set of numbers, by its least missing one.
LEMMA NatSetInduction ==
  ASSUME NEW T, 0 \in T, \A k \in Nat : k \in T => k + 1 \in T
  PROVE  \A k \in Nat : k \in T
<1> DEFINE Above == {ss \in Nat \X Nat : ss[1] < ss[2]}
           rest  == {k \in Nat : k \notin T}
<1>1. IsWellFoundedOn(Above, Nat)
  BY NatLessThanWellFounded DEF OpToRel
<1> SUFFICES ASSUME rest # {} PROVE FALSE
  OBVIOUS
<1>2. PICK least \in rest : \A k \in rest : <<k, least>> \notin Above
  <2>1. rest \subseteq Nat
    OBVIOUS
  <2> HIDE DEF Above, rest
  <2> QED BY <1>1, <2>1, WFMin
<1>3. least \in Nat /\ least # 0 /\ least - 1 \in Nat /\ (least - 1) + 1 = least
  BY <1>2
<1>4. least - 1 \notin rest
  <2>1. <<least - 1, least>> \in Above
    BY <1>3
  <2> QED BY <1>2, <2>1
<1> QED BY <1>3, <1>4

\* FoldLeft visits a set of indices from its maximum, and there is one.
LEMMA MaxOf ==
  ASSUME NEW n \in Nat, NEW s \in SUBSET (1 .. n), s # {}
  PROVE  Max(s) \in s /\ \A y \in s : Max(s) >= y
<1> DEFINE T == {k \in Nat :
                   \A r \in SUBSET (1 .. k) :
                     r # {} => \E x \in r : \A y \in r : x >= y}
<1>1. 0 \in T
  <2>1. \A r \in SUBSET (1 .. 0) : r = {}
    OBVIOUS
  <2> QED BY <2>1
<1>2. ASSUME NEW k \in Nat, k \in T PROVE k + 1 \in T
  <2>1. k \in Nat /\ k + 1 \in Nat
    OBVIOUS
  <2>2. ASSUME NEW r \in SUBSET (1 .. k + 1), r # {}
        PROVE  \E x \in r : \A y \in r : x >= y
    <3>1. CASE k + 1 \in r
      BY <2>1, <3>1
    <3>2. CASE k + 1 \notin r
      <4>1. r \in SUBSET (1 .. k)
        BY <2>1, <3>2
      <4> QED BY <1>2, <2>2, <4>1
    <3> QED BY <3>1, <3>2
  <2> QED BY <2>1, <2>2
<1>3. n \in T
  <2> HIDE DEF T
  <2> QED BY <1>1, <1>2, NatSetInduction
<1>4. \E x \in s : \A y \in s : x >= y
  BY <1>3
<1> QED BY <1>4 DEF Max

IsFold(h, base, n, V, step) ==
  /\ h \in [SUBSET (1 .. n) -> V]
  /\ \A s \in SUBSET (1 .. n) :
       h[s] = IF s = {} THEN base ELSE step[Max(s)][h[s \ {Max(s)}]]

\* There is a function that folds a typed step over the subsets of 1 .. n.
LEMMA FoldExists ==
  ASSUME NEW V, NEW base \in V, NEW n \in Nat, NEW step \in [1 .. n -> [V -> V]]
  PROVE  \E h : IsFold(h, base, n, V, step)
<1> DEFINE Folds(h, k) ==
             \A s \in SUBSET (1 .. k) :
               h[s] = IF s = {} THEN base ELSE step[Max(s)][h[s \ {Max(s)}]]
           Foldable(k) == \E h \in [SUBSET (1 .. k) -> V] : Folds(h, k)
           T == {k \in Nat : k <= n => Foldable(k)}
<1>1. 0 \in T
  <2>1. [s \in SUBSET (1 .. 0) |-> base] \in [SUBSET (1 .. 0) -> V]
    OBVIOUS
  <2>2. \A s \in SUBSET (1 .. 0) : s = {}
    OBVIOUS
  <2>3. Folds([s \in SUBSET (1 .. 0) |-> base], 0)
    BY <2>2
  <2> HIDE DEF Folds
  <2> QED BY <2>1, <2>3
<1> HIDE DEF Folds, Foldable
<1>2. ASSUME NEW k \in Nat, k \in T PROVE k + 1 \in T
  <2> SUFFICES ASSUME k + 1 <= n
               PROVE  Foldable(k + 1)
    BY <1>2
  <2>1. PICK h \in [SUBSET (1 .. k) -> V] : Folds(h, k)
    <3>1. k <= n
      OBVIOUS
    <3> QED BY <1>2, <3>1 DEF Foldable
  <2> DEFINE g == [s \in SUBSET (1 .. k + 1) |->
                     IF k + 1 \in s THEN step[k + 1][h[s \ {k + 1}]] ELSE h[s]]
  <2>2. ASSUME NEW s \in SUBSET (1 .. k + 1)
        PROVE  s \ {k + 1} \in SUBSET (1 .. k)
    OBVIOUS
  <2>3. g \in [SUBSET (1 .. k + 1) -> V]
    <3>1. ASSUME NEW s \in SUBSET (1 .. k + 1)
          PROVE  (IF k + 1 \in s THEN step[k + 1][h[s \ {k + 1}]] ELSE h[s]) \in V
      <4>1. CASE k + 1 \in s
        <5>1. step[k + 1] \in [V -> V]
          OBVIOUS
        <5>2. h[s \ {k + 1}] \in V
          BY <2>2
        <5> QED BY <4>1, <5>1, <5>2
      <4>2. CASE k + 1 \notin s
        BY <2>2, <4>2
      <4> QED BY <4>1, <4>2
    <3> QED BY <3>1
  <2>4. ASSUME NEW s \in SUBSET (1 .. k + 1)
        PROVE  g[s] = IF s = {} THEN base ELSE step[Max(s)][g[s \ {Max(s)}]]
    <3>1. CASE k + 1 \in s
      <4>1. Max(s) = k + 1
        <5>1. k + 1 \in Nat /\ s # {}
          BY <3>1
        <5>2. Max(s) \in s /\ Max(s) >= k + 1
          BY <3>1, <5>1, MaxOf
        <5>3. Max(s) \in 1 .. k + 1
          BY <5>2
        <5> QED BY <5>1, <5>2, <5>3
      <4>2. g[s] = step[k + 1][h[s \ {k + 1}]]
        BY <3>1
      <4>3. g[s \ {k + 1}] = h[s \ {k + 1}]
        OBVIOUS
      <4> QED BY <3>1, <4>1, <4>2, <4>3
    <3>2. CASE k + 1 \notin s
      <4>1. s \in SUBSET (1 .. k)
        BY <2>2, <3>2
      <4>2. g[s] = h[s]
        BY <3>2
      <4>3. CASE s = {}
        BY <2>1, <4>1, <4>2, <4>3 DEF Folds
      <4>4. CASE s # {}
        <5>1. h[s] = step[Max(s)][h[s \ {Max(s)}]]
          BY <2>1, <4>1, <4>4 DEF Folds
        <5>2. g[s \ {Max(s)}] = h[s \ {Max(s)}]
          BY <3>2
        <5> QED BY <4>2, <4>4, <5>1, <5>2
      <4> QED BY <4>3, <4>4
    <3> QED BY <3>1, <3>2
  <2>5. Folds(g, k + 1)
    BY <2>4 DEF Folds
  <2> HIDE DEF g
  <2> QED BY <2>3, <2>5 DEF Foldable
<1>3. n \in T
  <2> HIDE DEF T
  <2> QED BY <1>1, <1>2, NatSetInduction
<1>4. Foldable(n)
  BY <1>3
<1> QED BY <1>4 DEF Foldable, Folds, IsFold

\* The prefixes of a sequence, as FoldLeft visits them.
LEMMA PrefixSets ==
  ASSUME NEW n \in Nat, NEW k \in 1 .. n
  PROVE  /\ 1 .. k \in SUBSET (1 .. n) /\ 1 .. k # {} /\ 1 .. 0 = {}
         /\ Max(1 .. k) = k /\ (1 .. k) \ {k} = 1 .. k - 1
<1>1. 1 .. k \in SUBSET (1 .. n) /\ k \in 1 .. k
  OBVIOUS
<1>2. Max(1 .. k) \in 1 .. k /\ Max(1 .. k) >= k
  BY <1>1, MaxOf
<1> QED BY <1>1, <1>2

-----------------------------------------------------------------------------
(***************************************************************************)
(* Calls and returns.  Each property speaks of one function, so it holds   *)
(* if it holds of what a call of that function returns.                    *)
(***************************************************************************)

\* The step is a call of another function, a return, or a stutter.
Elsewhere(name) == rule' # name \/ UNCHANGED vars

\* One statement for each function that a property speaks of.
LEMMA PointInTimeOrElsewhere ==
  ASSUME [Next]_vars PROVE PointInTime \/ Elsewhere("point_in_time")
BY DEF Next, vars, Elsewhere, ReshapeTables, FitAndAlign, ValidateTraining,
       LoadBatch, Return, Call

LEMMA ValidateOrElsewhere ==
  ASSUME [Next]_vars PROVE ValidateTraining \/ Elsewhere("validate")
BY DEF Next, vars, Elsewhere, ReshapeTables, FitAndAlign, PointInTime,
       LoadBatch, Return, Call

-----------------------------------------------------------------------------
(***************************************************************************)
(* validate_point_in_time: the absolute difference the SQL compares is the *)
(* interval the docstring speaks of.                                       *)
(***************************************************************************)
LEMMA DistanceIsWindow ==
  ASSUME NEW d \in Int, NEW e \in Int, NEW n \in Int
  PROVE  Distance(d, e) > n <=> e \notin d - n .. d + n
BY DEF Distance

\* For dates and windows of any size, a row whose dates parse is reported
\* exactly when its label does not lie within the window of its snapshot, and
\* none is where a date column is absent.
THEOREM PitSymmetricHolds == Spec => []PitSymmetric
<1>1. Init => PitSymmetric
  BY DEF Init, PitSymmetric
<1>2. PitSymmetric /\ [Next]_vars => PitSymmetric'
  <2> SUFFICES ASSUME PitSymmetric, [Next]_vars PROVE PitSymmetric'
    OBVIOUS
  <2>1. CASE PointInTime
    <3>1. PICK dated \in BOOLEAN, first, second \in DatedRows, n \in PitWindows :
            /\ given' = [dated |-> dated, rows |-> {first, second}, n |-> n]
            /\ result' = {row \in {first, second} : dated /\ OutsideWindow(row, n)}
      BY <2>1 DEF PointInTime, Call
    <3>2. ASSUME NEW row \in {first, second}, Parsed(row)
          PROVE  row \in result' <=>
                   dated /\ row.label \notin row.snapshot - n .. row.snapshot + n
      <4>1. row.snapshot \in Int /\ row.label \in Int /\ n \in Int
        BY <3>2, RulesAssumption DEF Parsed, DatedRows
      <4>2. row \in result' <=> dated /\ Distance(row.snapshot, row.label) > n
        BY <3>1, <3>2 DEF OutsideWindow
      <4> QED BY <4>1, <4>2, DistanceIsWindow
    <3>3. given'.rows = {first, second} /\ given'.n = n /\ given'.dated = dated
      BY <3>1
    <3> QED BY <3>2, <3>3 DEF PitSymmetric
  <2>2. CASE Elsewhere("point_in_time")
    BY <2>2 DEF Elsewhere, PitSymmetric, vars
  <2> QED BY <2>1, <2>2, PointInTimeOrElsewhere
<1> QED BY <1>1, <1>2, PTL DEF Spec

-----------------------------------------------------------------------------
(***************************************************************************)
(* validate_training_data.                                                 *)
(***************************************************************************)
\* The maximum with 1 asks for one row even where the minimum is 0 or less.
LEMMA AtLeastOne ==
  ASSUME NEW n \in Int, NEW m \in Int
  PROVE  n >= Max({1, m}) <=> n >= 1 /\ n >= m
<1> DEFINE big == IF m > 1 THEN m ELSE 1
<1>1. big \in {1, m} /\ \A y \in {1, m} : big >= y
  OBVIOUS
<1>2. Max({1, m}) \in {1, m} /\ \A y \in {1, m} : Max({1, m}) >= y
  BY <1>1 DEF Max
<1> QED BY <1>2

\* The three cases of the function against the condition it stands for.
LEMMA GateIsExact ==
  ASSUME NEW rows \in [Classes \cup {Null} -> Nat],
         NEW labels \in SUBSET Classes, NEW min \in Int
  PROVE  ValidateTrainingData(TRUE, rows, labels, min) = {} <=>
           /\ \A c \in labels : rows[c] >= Max({1, min})
           /\ \A c \in DOMAIN rows :
                rows[c] > 0 => rows[c] >= min /\ (labels = {} \/ c \in labels)
<1> DEFINE Lets ==
      /\ \A c \in labels : rows[c] >= Max({1, min})
      /\ \A c \in DOMAIN rows :
           rows[c] > 0 => rows[c] >= min /\ (labels = {} \/ c \in labels)
<1>1. \A c \in labels : rows[c] >= Max({1, min}) <=> rows[c] >= 1 /\ rows[c] >= min
  BY AtLeastOne
<1>2. \A c \in DOMAIN rows : rows[c] \in Nat
  OBVIOUS
<1>3. CASE ClassMismatch(rows, labels)
  <2>1. ValidateTrainingData(TRUE, rows, labels, min) # {}
    BY <1>3 DEF ValidateTrainingData
  <2>2. ~Lets
    BY <1>1, <1>2, <1>3 DEF ClassMismatch, Present
  <2> QED BY <2>1, <2>2
<1>4. CASE ~ClassMismatch(rows, labels)
  <2>1. ValidateTrainingData(TRUE, rows, labels, min) = TooFew(rows, min)
    BY <1>4 DEF ValidateTrainingData
  <2>2. TooFew(rows, min) = {} <=> \A c \in Present(rows) : rows[c] >= min
    BY <1>2 DEF TooFew, Present
  <2>3. labels = {} \/ Present(rows) = labels
    BY <1>4 DEF ClassMismatch
  <2>4. Lets <=> \A c \in Present(rows) : rows[c] >= min
    BY <1>1, <1>2, <2>3 DEF Present
  <2> QED BY <2>1, <2>2, <2>4
<1> QED BY <1>3, <1>4

\* For any classes and any counts, data is let through exactly when it has a
\* target column, each class that is configured or occurs has the minimum, and
\* no other class occurs.
THEOREM ClassesSupportedHolds == Spec => []ClassesSupported
<1>1. Init => ClassesSupported
  BY DEF Init, ClassesSupported
<1>2. ClassesSupported /\ [Next]_vars => ClassesSupported'
  <2> SUFFICES ASSUME ClassesSupported, [Next]_vars PROVE ClassesSupported'
    OBVIOUS
  <2>1. CASE ValidateTraining
    <3>1. PICK labelled \in BOOLEAN, rows \in [Classes \cup {Null} -> RowCounts],
               labels \in SUBSET Classes, min \in MinRows :
            /\ given' = [labelled |-> labelled, rows |-> rows, labels |-> labels,
                          min |-> min]
            /\ result' = ValidateTrainingData(labelled, rows, labels, min)
      BY <2>1 DEF ValidateTraining, Call
    <3>2. rows \in [Classes \cup {Null} -> Nat] /\ min \in Int
      BY RulesAssumption
    <3>3. /\ given'.rows = rows /\ given'.labels = labels /\ given'.min = min
          /\ given'.labelled = labelled
      BY <3>1
    <3>4. CASE labelled = TRUE
      <4>1. result' = ValidateTrainingData(TRUE, rows, labels, min)
        BY <3>1, <3>4
      <4>2. given'.labelled
        BY <3>3, <3>4
      <4> QED BY <3>2, <3>3, <4>1, <4>2, GateIsExact DEF ClassesSupported
    <3>5. CASE labelled = FALSE
      <4>1. result' = {"target"}
        BY <3>1, <3>5 DEF ValidateTrainingData
      <4> QED BY <3>3, <3>5, <4>1 DEF ClassesSupported
    <3> QED BY <3>1, <3>4, <3>5
  <2>2. CASE Elsewhere("validate")
    BY <2>2 DEF Elsewhere, ClassesSupported, vars
  <2> QED BY <2>1, <2>2, ValidateOrElsewhere
<1> QED BY <1>1, <1>2, PTL DEF Spec

-----------------------------------------------------------------------------
(***************************************************************************)
(* FULL OUTER JOIN: one step of the chain.                                 *)
(***************************************************************************)
KeysOf(rows) == {row.key : row \in rows}

\* Rows of a matrix: a key, and a cell for each window.
MatrixRows(Keys, Kinds) == [key : Keys, at : [1 .. Windows -> Kinds]]

\* Joining one more window loses no entity and invents none, whatever was
\* joined before and however many rows an entity has.
THEOREM JoinKeepsKeys ==
  ASSUME NEW Keys, NEW Kinds, NEW w \in 1 .. Windows,
         NEW left \in SUBSET MatrixRows(Keys, Kinds),
         NEW table, \A r \in table : r.key \in Keys
  PROVE  KeysOf(FullOuterJoin(left, table, w)) = KeysOf(left) \cup KeysOf(table)
<1> DEFINE pairs   == {p \in left \X table : Matches(p[1], p[2])}
           matched == {[p[1] EXCEPT !.at[w] = Projected(p[2])] : p \in pairs}
           lonely  == {l \in left : \A p \in pairs : p[1] # l}
           new     == {Alone(r, w) : r \in {r \in table : \A p \in pairs : p[2] # r}}
<1> USE DEF MatrixRows
<1>1. FullOuterJoin(left, table, w) = matched \cup lonely \cup new
  BY DEF FullOuterJoin
<1>2. \A p \in pairs : [p[1] EXCEPT !.at[w] = Projected(p[2])].key = p[1].key
  OBVIOUS
<1>3. \A p \in pairs : p[1] \in left /\ p[2] \in table /\ p[1].key = p[2].key
  BY DEF Matches
<1>4. \A r \in table : Alone(r, w).key = r.key
  BY DEF Alone
<1>5. KeysOf(matched) \subseteq KeysOf(left)
  BY <1>2, <1>3 DEF KeysOf
<1>6. KeysOf(lonely) \subseteq KeysOf(left) /\ KeysOf(new) \subseteq KeysOf(table)
  BY <1>4 DEF KeysOf
<1>7. \A l \in left : l.key \in KeysOf(matched) \/ l \in lonely
  BY <1>2 DEF KeysOf
<1>8. \A r \in table : r.key \in KeysOf(matched) \/ r.key \in KeysOf(new)
  <2> SUFFICES ASSUME NEW r \in table
               PROVE  r.key \in KeysOf(matched) \/ r.key \in KeysOf(new)
    OBVIOUS
  <2>1. CASE \A p \in pairs : p[2] # r
    <3>1. Alone(r, w) \in new
      BY <2>1
    <3> QED BY <3>1, <1>4 DEF KeysOf
  <2>2. CASE \E p \in pairs : p[2] = r
    <3>1. PICK p \in pairs : p[2] = r
      BY <2>2
    <3>2. [p[1] EXCEPT !.at[w] = Projected(p[2])] \in matched
      OBVIOUS
    <3>3. [p[1] EXCEPT !.at[w] = Projected(p[2])].key = r.key
      BY <1>2, <1>3, <3>1
    <3> QED BY <3>2, <3>3 DEF KeysOf
  <2> QED BY <2>1, <2>2
<1>9. KeysOf(matched \cup lonely \cup new)
        = KeysOf(matched) \cup KeysOf(lonely) \cup KeysOf(new)
  BY DEF KeysOf
<1> HIDE DEF matched, lonely, new, pairs
<1>10. KeysOf(left) \subseteq KeysOf(matched) \cup KeysOf(lonely)
  BY <1>7 DEF KeysOf
<1>11. KeysOf(table) \subseteq KeysOf(matched) \cup KeysOf(new)
  BY <1>8 DEF KeysOf
<1> QED BY <1>1, <1>5, <1>6, <1>9, <1>10, <1>11

\* In window w the row has the cell of a row of its entity, or none if there is
\* none; in the others what a row of its entity had, or nothing.
Placed(row, left, table, w) ==
  /\ \/ \E l \in left : /\ l.key = row.key
                      /\ \A v \in 1 .. Windows \ {w} : row.at[v] = l.at[v]
     \/ /\ row.key \notin KeysOf(left)
        /\ \A v \in 1 .. Windows \ {w} : row.at[v] = Null
  /\ \/ \E r \in table : r.key = row.key /\ row.at[w] = Projected(r)
     \/ row.key \notin KeysOf(table) /\ row.at[w] = Null

\* Each cell of a joined row is that of a row of the same entity, or empty when
\* its window has none: a step fills in its own window and moves nothing.
THEOREM JoinMovesNothing ==
  ASSUME NEW Keys, NEW Kinds, NEW w \in 1 .. Windows,
         NEW left \in SUBSET MatrixRows(Keys, Kinds),
         \A l \in left : l.at[w] = Null,
         NEW table, \A r \in table : r.key \in Keys,
         NEW row \in FullOuterJoin(left, table, w)
  PROVE  Placed(row, left, table, w)
<1> DEFINE pairs == {p \in left \X table : Matches(p[1], p[2])}
<1> USE DEF MatrixRows
<1>1. \A l \in left, r \in table : l.key = r.key => <<l, r>> \in pairs
  BY DEF Matches
<1>2. \/ \E p \in pairs : row = [p[1] EXCEPT !.at[w] = Projected(p[2])]
      \/ row \in {l \in left : \A p \in pairs : p[1] # l}
      \/ \E r \in table : (\A p \in pairs : p[2] # r) /\ row = Alone(r, w)
  BY DEF FullOuterJoin
<1>3. CASE \E p \in pairs : row = [p[1] EXCEPT !.at[w] = Projected(p[2])]
  <2>1. PICK p \in pairs : row = [p[1] EXCEPT !.at[w] = Projected(p[2])]
    BY <1>3
  <2>2. p[1] \in left /\ p[2] \in table /\ p[1].key = p[2].key
    BY DEF Matches
  <2>3. /\ row.key = p[1].key
        /\ row.at[w] = Projected(p[2])
        /\ \A v \in 1 .. Windows \ {w} : row.at[v] = p[1].at[v]
    BY <2>1, <2>2
  <2> QED BY <2>2, <2>3 DEF Placed
<1>4. CASE row \in {l \in left : \A p \in pairs : p[1] # l}
  <2>1. row \in left /\ row.at[w] = Null
    BY <1>4
  <2>2. \A r \in table : r.key # row.key
    BY <1>1, <1>4
  <2> QED BY <2>1, <2>2 DEF KeysOf, Placed
<1>5. CASE \E r \in table : (\A p \in pairs : p[2] # r) /\ row = Alone(r, w)
  <2>1. PICK r \in table : (\A p \in pairs : p[2] # r) /\ row = Alone(r, w)
    BY <1>5
  <2>2. \A l \in left : l.key # r.key
    BY <1>1, <2>1
  <2>3. /\ row.key = r.key /\ row.at[w] = Projected(r)
        /\ \A v \in 1 .. Windows \ {w} : row.at[v] = Null
    BY <2>1 DEF Alone
  <2> QED BY <2>1, <2>2, <2>3 DEF KeysOf, Placed
<1> QED BY <1>2, <1>3, <1>4, <1>5

\* Each row of left goes on in some row of join, and each row of the table
\* enters one.
Kept(join, left, table, w) ==
  /\ \A l \in left : \E row \in join :
       /\ row.key = l.key
       /\ \A v \in 1 .. Windows \ {w} : row.at[v] = l.at[v]
  /\ \A r \in table : \E row \in join : row.key = r.key /\ row.at[w] = Projected(r)

\* A step of the join loses neither what was joined before nor a row of its
\* window.
THEOREM JoinLosesNothing ==
  ASSUME NEW Keys, NEW Kinds, NEW w \in 1 .. Windows,
         NEW left \in SUBSET MatrixRows(Keys, Kinds),
         NEW table
  PROVE  Kept(FullOuterJoin(left, table, w), left, table, w)
<1> DEFINE pairs == {p \in left \X table : Matches(p[1], p[2])}
           Entered(p) == [p[1] EXCEPT !.at[w] = Projected(p[2])]
           join == FullOuterJoin(left, table, w)
<1> USE DEF MatrixRows
<1>1. /\ \A p \in pairs : Entered(p) \in join
      /\ \A l \in left : (\A p \in pairs : p[1] # l) => l \in join
      /\ \A r \in table : (\A p \in pairs : p[2] # r) => Alone(r, w) \in join
  BY DEF FullOuterJoin
<1>2. ASSUME NEW p \in pairs
      PROVE  /\ Entered(p).key = p[1].key /\ p[1].key = p[2].key
             /\ Entered(p).at[w] = Projected(p[2])
             /\ \A v \in 1 .. Windows \ {w} : Entered(p).at[v] = p[1].at[v]
  BY DEF Matches
<1>3. ASSUME NEW r \in table
      PROVE  Alone(r, w).key = r.key /\ Alone(r, w).at[w] = Projected(r)
  BY DEF Alone
<1> HIDE DEF pairs, Entered, join
<1>4. ASSUME NEW l \in left
      PROVE  \E row \in join :
               /\ row.key = l.key
               /\ \A v \in 1 .. Windows \ {w} : row.at[v] = l.at[v]
  <2>1. CASE \A p \in pairs : p[1] # l
    BY <1>1, <2>1
  <2>2. CASE \E p \in pairs : p[1] = l
    BY <1>1, <1>2, <2>2
  <2> QED BY <2>1, <2>2
<1>5. ASSUME NEW r \in table
      PROVE  \E row \in join : row.key = r.key /\ row.at[w] = Projected(r)
  <2>1. CASE \A p \in pairs : p[2] # r
    BY <1>1, <1>3, <2>1
  <2>2. CASE \E p \in pairs : p[2] = r
    <3>1. PICK p \in pairs : p[2] = r
      BY <2>2
    <3>2. Entered(p) \in join /\ Entered(p).key = r.key /\ Entered(p).at[w] = Projected(r)
      BY <1>1, <1>2, <3>1
    <3> QED BY <3>2
  <2> QED BY <2>1, <2>2
<1> QED BY <1>4, <1>5 DEF Kept, join

-----------------------------------------------------------------------------
(***************************************************************************)
(* The chain of joins. After k windows the matrix has the entities of      *)
(* those windows, their cells and no others; JoinedUpTo says so, and the   *)
(* three theorems above carry it over one step.                            *)
(***************************************************************************)
AllRows(tables) == UNION {tables[w] : w \in 1 .. Windows}
Cells(tables) == {Projected(row) : row \in AllRows(tables)} \cup {Null}
JoinedRows(tables) ==
  MatrixRows(KeysOf(AllRows(tables)), Cells(tables))

\* A step of the join makes rows of the keys and cells there are.
LEMMA JoinTyped ==
  ASSUME NEW tables, NEW w \in 1 .. Windows, NEW left \in SUBSET JoinedRows(tables)
  PROVE  FullOuterJoin(left, tables[w], w) \in SUBSET JoinedRows(tables)
<1> DEFINE K == KeysOf(AllRows(tables))
           C == Cells(tables)
           F == [1 .. Windows -> C]
           pairs == {p \in left \X tables[w] : Matches(p[1], p[2])}
<1>1. ASSUME NEW r \in tables[w] PROVE r.key \in K /\ Projected(r) \in C
  BY DEF KeysOf, AllRows, Cells
<1>2. Null \in C
  BY DEF Cells
<1>3. left \in SUBSET [key : K, at : F]
  BY DEF JoinedRows, MatrixRows
<1> HIDE DEF K, C
<1>4. ASSUME NEW p \in pairs
      PROVE  [p[1] EXCEPT !.at[w] = Projected(p[2])] \in [key : K, at : F]
  <2>1. p[1] \in [key : K, at : F] /\ Projected(p[2]) \in C
    BY <1>1, <1>3
  <2>2. [p[1].at EXCEPT ![w] = Projected(p[2])] \in F
    BY <2>1
  <2> QED BY <2>1, <2>2
<1>5. ASSUME NEW r \in tables[w] PROVE Alone(r, w) \in [key : K, at : F]
  BY <1>1, <1>2, <1>5 DEF Alone
<1> QED BY <1>3, <1>4, <1>5 DEF FullOuterJoin, JoinedRows, MatrixRows, K, C

\* m[k]: the join of the first k windows.
JoinInTurn(m, tables) ==
  /\ m \in [0 .. Windows -> SUBSET JoinedRows(tables)]
  /\ m[0] = {}
  /\ \A k \in 1 .. Windows : m[k] = FullOuterJoin(m[k - 1], tables[k], k)
  /\ BuildFeatureMatrix(tables) = m[Windows]

\* The chain of joins goes through such a sequence of matrices.
LEMMA JoinsUnfold ==
  ASSUME NEW tables PROVE \E m : JoinInTurn(m, tables)
<1> DEFINE n == Windows
           seq == [w \in 1 .. Windows |-> w]
           V == SUBSET JoinedRows(tables)
           Body(g, s) == IF s = {} THEN {}
                         ELSE FullOuterJoin(g[s \ {Max(s)}],
                                            tables[seq[Max(s)]], seq[Max(s)])
           iter == CHOOSE g : g = [s \in SUBSET (1 .. n) |-> Body(g, s)]
           step == [i \in 1 .. n |-> [left \in V |-> FullOuterJoin(left, tables[i], i)]]
<1>1. n \in Nat /\ DOMAIN seq = 1 .. n /\ \A i \in 1 .. n : seq[i] = i
  BY RulesAssumption
<1>2. {} \in V /\ step \in [1 .. n -> [V -> V]]
  <2>1. \A i \in 1 .. n, left \in V : FullOuterJoin(left, tables[i], i) \in V
    BY JoinTyped
  <2> HIDE DEF V
  <2>2. step \in [1 .. n -> [V -> V]]
    BY <2>1
  <2>3. {} \in V
    BY DEF V
  <2> QED BY <2>2, <2>3
<1> HIDE DEF V
<1>3. PICK h : IsFold(h, {}, n, V, step)
  <2> HIDE DEF step, n
  <2> QED BY <1>1, <1>2, FoldExists
<1>4. h = [s \in SUBSET (1 .. n) |-> Body(h, s)]
  <2>1. ASSUME NEW s \in SUBSET (1 .. n) PROVE h[s] = Body(h, s)
    <3>1. CASE s = {}
      BY <1>3, <3>1 DEF IsFold
    <3>2. CASE s # {}
      <4>1. Max(s) \in 1 .. n
        BY <1>1, <3>2, MaxOf
      <4>2. h[s] = step[Max(s)][h[s \ {Max(s)}]]
        BY <1>3, <3>2 DEF IsFold
      <4>3. h[s \ {Max(s)}] \in V
        BY <1>3 DEF IsFold
      <4>4. step[Max(s)][h[s \ {Max(s)}]]
              = FullOuterJoin(h[s \ {Max(s)}], tables[Max(s)], Max(s))
        BY <4>1, <4>3
      <4>5. seq[Max(s)] = Max(s)
        BY <1>1, <4>1
      <4> HIDE DEF seq
      <4> QED BY <3>2, <4>2, <4>4, <4>5
    <3> QED BY <3>1, <3>2
  <2>2. h = [s \in SUBSET (1 .. n) |-> h[s]]
    BY <1>3 DEF IsFold
  <2> HIDE DEF Body
  <2> QED BY <2>1, <2>2
<1>5. iter = [s \in SUBSET (1 .. n) |-> Body(iter, s)]
  <2> HIDE DEF Body
  <2> QED BY <1>4
<1> HIDE DEF iter
<1>6. ASSUME NEW k \in 1 .. n
      PROVE  iter[1 .. k] = FullOuterJoin(iter[1 .. k - 1], tables[k], k)
  <2>1. /\ 1 .. k \in SUBSET (1 .. n) /\ 1 .. k # {}
        /\ Max(1 .. k) = k /\ (1 .. k) \ {k} = 1 .. k - 1
    BY <1>1, PrefixSets
  <2>2. iter[1 .. k] = Body(iter, 1 .. k)
    <3> HIDE DEF Body
    <3> QED BY <1>5, <2>1
  <2>3. seq[k] = k
    BY <1>1
  <2> HIDE DEF seq
  <2> QED BY <2>1, <2>2, <2>3
<1>7. iter[1 .. 0] = {}
  <2>1. 1 .. 0 = {} /\ {} \in SUBSET (1 .. n)
    OBVIOUS
  <2>2. iter[{}] = Body(iter, {})
    <3> HIDE DEF Body
    <3> QED BY <1>5, <2>1
  <2> QED BY <2>1, <2>2
<1> DEFINE m == [k \in 0 .. n |-> iter[1 .. k]]
<1>8. m \in [0 .. n -> V]
  <2> DEFINE T == {k \in Nat : k <= n => iter[1 .. k] \in V}
  <2>1. 0 \in T
    BY <1>2, <1>7
  <2>2. ASSUME NEW k \in Nat, k \in T PROVE k + 1 \in T
    <3> SUFFICES ASSUME k + 1 <= n PROVE iter[1 .. k + 1] \in V
      OBVIOUS
    <3>1. k + 1 \in 1 .. n /\ (k + 1) - 1 = k /\ k <= n
      BY <1>1
    <3>2. iter[1 .. k] \in V
      BY <2>2, <3>1
    <3>3. iter[1 .. k + 1] = FullOuterJoin(iter[1 .. k], tables[k + 1], k + 1)
      BY <1>6, <3>1
    <3> QED BY <3>1, <3>2, <3>3, JoinTyped DEF V
  <2>3. \A k \in Nat : k \in T
    <3> HIDE DEF T
    <3> QED BY <2>1, <2>2, NatSetInduction
  <2> QED BY <1>1, <2>3
<1>9. BuildFeatureMatrix(tables) = iter[1 .. n]
  BY <1>1 DEF BuildFeatureMatrix, FoldLeft, MapThenFoldSet, iter
<1>10. m[0] = {} /\ m[n] = iter[1 .. n]
  BY <1>1, <1>7
<1>11. ASSUME NEW k \in 1 .. n PROVE m[k] = FullOuterJoin(m[k - 1], tables[k], k)
  <2>1. k \in 0 .. n /\ k - 1 \in 0 .. n
    BY <1>1
  <2>2. m[k] = iter[1 .. k] /\ m[k - 1] = iter[1 .. k - 1]
    BY <2>1
  <2> HIDE DEF m
  <2> QED BY <1>6, <2>2
<1> HIDE DEF m
<1>12. JoinInTurn(m, tables)
  BY <1>8, <1>9, <1>10, <1>11 DEF JoinInTurn, V
<1> QED BY <1>12

\* What the matrix is after k windows.
Faithful(tables, row, v) ==
  IF RowsOf(tables[v], row.key) = {} THEN row.at[v] = Null
  ELSE \E r \in RowsOf(tables[v], row.key) : row.at[v] = Projected(r)

KeysUpTo(tables, k) == UNION {KeysOf(tables[v]) : v \in 1 .. k}

JoinedUpTo(matrix, tables, k) ==
  /\ KeysOf(matrix) = KeysUpTo(tables, k)
  /\ \A row \in matrix : \A v \in 1 .. k : Faithful(tables, row, v)
  /\ \A row \in matrix : \A v \in k + 1 .. Windows : row.at[v] = Null
  /\ \A v \in 1 .. k : \A r \in tables[v] :
       \E row \in matrix : row.key = r.key /\ row.at[v] = Projected(r)

\* The invariant of the chain: a step takes in one more window.
LEMMA JoinExtends ==
  ASSUME NEW tables, NEW k \in Nat, k < Windows,
         NEW left \in SUBSET JoinedRows(tables), JoinedUpTo(left, tables, k)
  PROVE  JoinedUpTo(FullOuterJoin(left, tables[k + 1], k + 1), tables, k + 1)
<1> DEFINE w == k + 1
           join == FullOuterJoin(left, tables[w], w)
           K == KeysOf(AllRows(tables))
           C == Cells(tables)
<1>1. /\ w \in 1 .. Windows /\ 1 .. w = 1 .. k \cup {w}
      /\ \A v \in 1 .. k : v \in 1 .. Windows \ {w}
      /\ w \in k + 1 .. Windows
      /\ \A v \in w + 1 .. Windows : v \in 1 .. Windows \ {w} /\ v \in k + 1 .. Windows
  BY RulesAssumption
<1>2. left \in SUBSET MatrixRows(K, C)
  BY DEF JoinedRows
<1>3. \A r \in tables[w] : r.key \in K
  BY <1>1 DEF KeysOf, AllRows
<1>4. \A l \in left : l.at[w] = Null
  BY <1>1 DEF JoinedUpTo
<1> HIDE DEF w, K, C, join
<1>5. KeysOf(join) = KeysUpTo(tables, w)
  <2>1. KeysOf(join) = KeysOf(left) \cup KeysOf(tables[w])
    BY <1>1, <1>2, <1>3, JoinKeepsKeys DEF join
  <2>2. KeysUpTo(tables, w) = KeysUpTo(tables, k) \cup KeysOf(tables[w])
    BY <1>1 DEF KeysUpTo
  <2> QED BY <2>1, <2>2 DEF JoinedUpTo
<1>6. ASSUME NEW row \in join
      PROVE  /\ \A v \in 1 .. w : Faithful(tables, row, v)
             /\ \A v \in w + 1 .. Windows : row.at[v] = Null
  <2>1. Placed(row, left, tables[w], w)
    BY <1>1, <1>2, <1>3, <1>4, JoinMovesNothing DEF join
  <2>2. Faithful(tables, row, w)
    BY <2>1 DEF Placed, Faithful, RowsOf, KeysOf
  <2>3. CASE \E l \in left : /\ l.key = row.key
                             /\ \A v \in 1 .. Windows \ {w} : row.at[v] = l.at[v]
    <3>1. PICK l \in left : /\ l.key = row.key
                            /\ \A v \in 1 .. Windows \ {w} : row.at[v] = l.at[v]
      BY <2>3
    <3>2. ASSUME NEW v \in 1 .. k PROVE Faithful(tables, row, v)
      <4>1. row.at[v] = l.at[v] /\ l.key = row.key
        BY <1>1, <3>1
      <4>2. Faithful(tables, l, v)
        BY DEF JoinedUpTo
      <4> QED BY <4>1, <4>2 DEF Faithful
    <3>3. \A v \in w + 1 .. Windows : row.at[v] = Null
      BY <1>1, <3>1 DEF JoinedUpTo
    <3> QED BY <1>1, <2>2, <3>2, <3>3
  <2>4. CASE /\ row.key \notin KeysOf(left)
             /\ \A v \in 1 .. Windows \ {w} : row.at[v] = Null
    <3>1. \A v \in 1 .. k : RowsOf(tables[v], row.key) = {}
      BY <2>4 DEF JoinedUpTo, KeysUpTo, KeysOf, RowsOf
    <3>2. \A v \in 1 .. k : Faithful(tables, row, v)
      BY <1>1, <2>4, <3>1 DEF Faithful
    <3> QED BY <1>1, <2>2, <2>4, <3>2
  <2> QED BY <2>1, <2>3, <2>4 DEF Placed
<1>7. ASSUME NEW v \in 1 .. w, NEW r \in tables[v]
      PROVE  \E row \in join : row.key = r.key /\ row.at[v] = Projected(r)
  <2>1. Kept(join, left, tables[w], w)
    BY <1>1, <1>2, JoinLosesNothing DEF join
  <2>2. CASE v = w
    BY <2>1, <2>2 DEF Kept
  <2>3. CASE v # w
    <3>1. v \in 1 .. k /\ v \in 1 .. Windows \ {w}
      BY <1>1, <2>3
    <3>2. PICK l \in left : l.key = r.key /\ l.at[v] = Projected(r)
      BY <3>1 DEF JoinedUpTo
    <3> QED BY <2>1, <3>1, <3>2 DEF Kept
  <2> QED BY <2>2, <2>3
<1>8. JoinedUpTo(join, tables, w)
  <2> QED BY <1>5, <1>6, <1>7 DEF JoinedUpTo
<1> QED BY <1>8 DEF w, join

\* So the matrix has what all windows have.
LEMMA MatrixIsJoined ==
  ASSUME NEW tables
  PROVE  /\ BuildFeatureMatrix(tables) \in SUBSET JoinedRows(tables)
         /\ JoinedUpTo(BuildFeatureMatrix(tables), tables, Windows)
<1>1. PICK m : JoinInTurn(m, tables)
  BY JoinsUnfold
<1> DEFINE T == {k \in Nat : k <= Windows => JoinedUpTo(m[k], tables, k)}
<1>2. 0 \in T
  <2>1. m[0] = {} /\ 1 .. 0 = {}
    BY <1>1 DEF JoinInTurn
  <2>2. JoinedUpTo({}, tables, 0)
    BY <2>1 DEF JoinedUpTo, KeysOf, KeysUpTo
  <2> QED BY <2>1, <2>2
<1>3. ASSUME NEW k \in Nat, k \in T PROVE k + 1 \in T
  <2> SUFFICES ASSUME k + 1 <= Windows PROVE JoinedUpTo(m[k + 1], tables, k + 1)
    OBVIOUS
  <2>1. /\ Windows \in Nat /\ k < Windows /\ k + 1 \in 1 .. Windows
        /\ k \in 0 .. Windows /\ (k + 1) - 1 = k
    BY RulesAssumption
  <2>2. JoinedUpTo(m[k], tables, k)
    BY <1>3, <2>1
  <2>3. /\ m[k] \in SUBSET JoinedRows(tables)
        /\ m[k + 1] = FullOuterJoin(m[k], tables[k + 1], k + 1)
    BY <1>1, <2>1 DEF JoinInTurn
  <2> QED BY <2>1, <2>2, <2>3, JoinExtends
<1>4. \A k \in Nat : k \in T
  <2> HIDE DEF T
  <2> QED BY <1>2, <1>3, NatSetInduction
<1>5. JoinedUpTo(m[Windows], tables, Windows) /\ m[Windows] \in SUBSET JoinedRows(tables)
  BY <1>1, <1>4, RulesAssumption DEF JoinInTurn
<1> QED BY <1>1, <1>5 DEF JoinInTurn

-----------------------------------------------------------------------------
(***************************************************************************)
(* validate_feature_matrix on what the reshape returns.                    *)
(***************************************************************************)
\* What is assumed of the tables, for the table of one window.
LEMMA TableAssumption ==
  ASSUME NEW tables \in [1 .. Windows -> WindowTables], NEW w \in 1 .. Windows
  PROVE  /\ IsFiniteSet(tables[w])
         /\ \A r \in tables[w] : r.raw \in Int \cup {Null} /\ Projected(r) # Null
         /\ \A r, s \in tables[w] : r.key = s.key /\ r.snapshot = s.snapshot => r = s
<1>1. tables[w] \in WindowTables
  OBVIOUS
<1> QED BY <1>1, RulesAssumption

\* The cells that the join filled.
CellsOf(matrix) == {row.at[w] : row \in matrix, w \in 1 .. Windows} \ {Null}

\* The cells that the validation looks at are the rows of the windows, projected.
LEMMA CellsAreRows ==
  ASSUME NEW tables \in [1 .. Windows -> WindowTables]
  PROVE  CellsOf(BuildFeatureMatrix(tables)) = {Projected(r) : r \in AllRows(tables)}
<1> DEFINE matrix == BuildFeatureMatrix(tables)
<1>1. JoinedUpTo(matrix, tables, Windows)
  BY MatrixIsJoined
<1> HIDE DEF matrix
<1>2. ASSUME NEW row \in matrix, NEW w \in 1 .. Windows, row.at[w] # Null
      PROVE  row.at[w] \in {Projected(r) : r \in AllRows(tables)}
  <2>1. Faithful(tables, row, w)
    BY <1>1 DEF JoinedUpTo
  <2>2. PICK r \in tables[w] : row.at[w] = Projected(r)
    BY <1>2, <2>1 DEF Faithful, RowsOf
  <2> QED BY <2>2 DEF AllRows
<1>3. ASSUME NEW r \in AllRows(tables) PROVE Projected(r) \in CellsOf(matrix)
  <2>1. PICK w \in 1 .. Windows : r \in tables[w]
    BY DEF AllRows
  <2>2. PICK row \in matrix : row.at[w] = Projected(r)
    BY <1>1, <2>1 DEF JoinedUpTo
  <2>3. Projected(r) # Null
    BY <2>1, TableAssumption
  <2> QED BY <2>2, <2>3 DEF CellsOf
<1>4. CellsOf(matrix) = {Projected(r) : r \in AllRows(tables)}
  BY <1>2, <1>3 DEF CellsOf
<1> QED BY <1>4 DEF matrix

\* So the values of a column are those its treatment makes of the raw ones.
LEMMA ValuesAreTreated ==
  ASSUME NEW tables \in [1 .. Windows -> WindowTables], NEW c \in Columns
  PROVE  ValuesOf(BuildFeatureMatrix(tables), c)
           = {Clip(c, Coalesce(c, r.raw)) : r \in AllRows(tables)}
<1> DEFINE cells == CellsOf(BuildFeatureMatrix(tables))
<1>1. cells = {Projected(r) : r \in AllRows(tables)}
  BY CellsAreRows
<1>2. ValuesOf(BuildFeatureMatrix(tables), c) = {cell.values[c] : cell \in cells}
  BY DEF ValuesOf, CellsOf
<1> HIDE DEF cells
<1>3. \A r \in AllRows(tables) : Projected(r).values[c] = Clip(c, Coalesce(c, r.raw))
  BY DEF Projected
<1> QED BY <1>1, <1>2, <1>3

Raws(tables) == {r.raw : r \in AllRows(tables)}

\* What is to be reported of a column, in terms of the raw values.
BelowZero(tables, c) ==
  \E raw \in Raws(tables) :
    Coalesce(c, raw) < 0 \/ (c.clip # Null /\ c.clip < 0)

TooLong(tables, c) ==
  /\ c.dwell /\ (c.clip = Null \/ c.clip > DwellBound)
  /\ \E raw \in Raws(tables) : Coalesce(c, raw) > DwellBound

\* What ReshapedIsValid says of one call.
Reported(tables, keyed, violations) ==
  /\ violations.key = ~keyed
  /\ \A c \in Columns :
       /\ c \in violations.negative <=> BelowZero(tables, c)
       /\ c \in violations.dwell <=> TooLong(tables, c)

\* A clip can make a value negative, and keeps one below the bound only if it
\* is not above the bound itself.
LEMMA ClippedBounds ==
  ASSUME NEW c \in Columns, NEW v \in Int
  PROVE  /\ Clip(c, v) < 0 <=> v < 0 \/ (c.clip # Null /\ c.clip < 0)
         /\ Clip(c, v) > DwellBound
              <=> v > DwellBound /\ (c.clip = Null \/ c.clip > DwellBound)
<1>1. c.clip \in Int \cup {Null} /\ Null \notin Int
  BY RulesAssumption
<1>2. CASE c.clip = Null
  <2>1. Clip(c, v) = v
    BY <1>2 DEF Clip
  <2> QED BY <1>2, <2>1
<1>3. CASE c.clip # Null
  <2>1. c.clip \in Int /\ Clip(c, v) = IF v > c.clip THEN c.clip ELSE v
    BY <1>1, <1>3 DEF Clip
  <2> QED BY <1>3, <2>1 DEF DwellBound
<1> QED BY <1>2, <1>3

\* The validation reports of each column what its raw values, its default and
\* its clip make of it, and nothing else.
LEMMA ValidationIsExact ==
  ASSUME NEW tables \in [1 .. Windows -> WindowTables], NEW keyed \in BOOLEAN
  PROVE  Reported(tables, keyed,
                  ValidateFeatureMatrix(BuildFeatureMatrix(tables), keyed))
<1> DEFINE values(c) == ValuesOf(BuildFeatureMatrix(tables), c)
           report == ValidateFeatureMatrix(BuildFeatureMatrix(tables), keyed)
<1>1. /\ report.key = ~keyed
      /\ \A c \in Columns :
           /\ c \in report.negative <=> \E v \in values(c) : v < 0
           /\ c \in report.dwell <=> c.dwell /\ \E v \in values(c) : v > DwellBound
  BY DEF ValidateFeatureMatrix
<1>2. \A c \in Columns : values(c) = {Clip(c, Coalesce(c, r.raw)) : r \in AllRows(tables)}
  BY ValuesAreTreated
<1> HIDE DEF values, report
<1>3. ASSUME NEW c \in Columns
      PROVE  /\ c \in report.negative <=> BelowZero(tables, c)
             /\ c \in report.dwell <=> TooLong(tables, c)
  <2>1. values(c) = {Clip(c, Coalesce(c, raw)) : raw \in Raws(tables)}
    BY <1>2 DEF Raws
  <2>2. \A raw \in Raws(tables) : Coalesce(c, raw) \in Int
    <3> SUFFICES ASSUME NEW r \in AllRows(tables) PROVE Coalesce(c, r.raw) \in Int
      BY DEF Raws
    <3>1. r.raw \in Int \cup {Null}
      BY TableAssumption DEF AllRows
    <3>2. c.default \in Int
      BY RulesAssumption
    <3> QED BY <3>1, <3>2 DEF Coalesce
  <2>3. (\E v \in values(c) : v < 0) <=> BelowZero(tables, c)
    <3>1. \A raw \in Raws(tables) : Clip(c, Coalesce(c, raw)) < 0
            <=> Coalesce(c, raw) < 0 \/ (c.clip # Null /\ c.clip < 0)
      BY <2>2, ClippedBounds
    <3> QED BY <2>1, <3>1 DEF BelowZero
  <2>4. (\E v \in values(c) : v > DwellBound)
          <=> /\ c.clip = Null \/ c.clip > DwellBound
              /\ \E raw \in Raws(tables) : Coalesce(c, raw) > DwellBound
    <3>1. \A raw \in Raws(tables) : Clip(c, Coalesce(c, raw)) > DwellBound
            <=> Coalesce(c, raw) > DwellBound /\ (c.clip = Null \/ c.clip > DwellBound)
      BY <2>2, ClippedBounds
    <3> QED BY <2>1, <3>1
  <2>5. c \in report.negative <=> BelowZero(tables, c)
    BY <1>1, <2>3
  <2>6. c \in report.dwell <=> TooLong(tables, c)
    BY <1>1, <2>4 DEF TooLong
  <2> QED BY <2>5, <2>6
<1>4. Reported(tables, keyed, report)
  BY <1>1, <1>3 DEF Reported
<1> QED BY <1>4 DEF report

\* As above, for the reshape.
LEMMA ReshapeOrElsewhere ==
  ASSUME [Next]_vars PROVE ReshapeTables \/ Elsewhere("reshape")
BY DEF Next, vars, Elsewhere, PointInTime, FitAndAlign, ValidateTraining,
       LoadBatch, Return, Call

\* The call of the reshape, and what it leaves behind.
LEMMA ReshapeCalled ==
  ASSUME ReshapeTables
  PROVE  \E tables \in [1 .. Windows -> WindowTables], keyed \in BOOLEAN :
           /\ given'.tables = tables /\ given'.keyed = keyed
           /\ result'.matrix = BuildFeatureMatrix(tables)
           /\ result'.violations
                = ValidateFeatureMatrix(BuildFeatureMatrix(tables), keyed)
<1>1. PICK tables \in [1 .. Windows -> WindowTables], keyed \in BOOLEAN :
        /\ given' = [tables |-> tables, keyed |-> keyed]
        /\ result' = [matrix |-> BuildFeatureMatrix(tables),
                      violations |->
                        ValidateFeatureMatrix(BuildFeatureMatrix(tables), keyed)]
  BY DEF ReshapeTables, Call
<1>2. /\ given'.tables = tables /\ given'.keyed = keyed
      /\ result'.matrix = BuildFeatureMatrix(tables)
      /\ result'.violations = ValidateFeatureMatrix(BuildFeatureMatrix(tables), keyed)
  BY <1>1
<1> QED BY <1>2

\* For any windows, tables and columns, with any clips and defaults: a column is
\* reported as negative exactly when a value, its default or its clip is, and as
\* too long exactly when a value is above 180 and no clip of 180 or less is there.
THEOREM ReshapedIsValidHolds == Spec => []ReshapedIsValid
<1> DEFINE Says == rule = "reshape" =>
                     Reported(given.tables, given.keyed, result.violations)
<1>1. ReshapedIsValid <=> Says
  BY DEF ReshapedIsValid, Reported, BelowZero, TooLong, Raws, AllRows, Coalesce,
         DwellBound
<1>2. Init => Says
  BY DEF Init
<1>3. Says /\ [Next]_vars => Says'
  <2> SUFFICES ASSUME Says, [Next]_vars, rule' = "reshape"
               PROVE  Reported(given'.tables, given'.keyed, result'.violations)
    OBVIOUS
  <2>1. CASE ReshapeTables
    BY <2>1, ReshapeCalled, ValidationIsExact
  <2>2. CASE Elsewhere("reshape")
    BY <2>2 DEF Elsewhere, vars
  <2> QED BY <2>1, <2>2, ReshapeOrElsewhere
<1> HIDE DEF Says
<1> QED BY <1>1, <1>2, <1>3, PTL DEF Spec

-----------------------------------------------------------------------------
(***************************************************************************)
(* How many rows an entity has. The rows of a joined entity are in         *)
(* bijection with the pairs of a row so far and a row of the window,       *)
(* because two rows of one window differ in their snapshot, which the      *)
(* projection keeps.                                                       *)
(***************************************************************************)
\* The rows of one entity after a step, in the three ways the step goes.
LEMMA RowsOfJoin ==
  ASSUME NEW Keys, NEW Kinds, NEW w \in 1 .. Windows, NEW e,
         NEW left \in SUBSET MatrixRows(Keys, Kinds), NEW table
  PROVE  RowsOf(FullOuterJoin(left, table, w), e)
           = IF RowsOf(table, e) = {} THEN RowsOf(left, e)
             ELSE IF RowsOf(left, e) = {} THEN {Alone(r, w) : r \in RowsOf(table, e)}
             ELSE {[p[1] EXCEPT !.at[w] = Projected(p[2])] :
                     p \in RowsOf(left, e) \X RowsOf(table, e)}
<1> DEFINE pairs == {p \in left \X table : Matches(p[1], p[2])}
           Entered(p) == [p[1] EXCEPT !.at[w] = Projected(p[2])]
           join == FullOuterJoin(left, table, w)
           L == RowsOf(left, e)
           R == RowsOf(table, e)
<1> USE DEF MatrixRows
<1>1. \A row : row \in join <=>
        \/ \E p \in pairs : row = Entered(p)
        \/ row \in left /\ \A p \in pairs : p[1] # row
        \/ \E r \in table : (\A p \in pairs : p[2] # r) /\ row = Alone(r, w)
  BY DEF FullOuterJoin
<1>2. ASSUME NEW p \in pairs
      PROVE  Entered(p).key = p[1].key /\ p[1].key = p[2].key /\ p \in left \X table
  BY DEF Matches
<1>3. \A l \in left, r \in table : l.key = r.key => <<l, r>> \in pairs
  BY DEF Matches
<1>4. \A r \in table : Alone(r, w).key = r.key
  BY DEF Alone
<1>5. \A p \in L \X R : p \in pairs /\ p[1] \in L /\ p[2] \in R
  BY <1>3 DEF RowsOf
<1>6. ASSUME NEW p \in pairs, Entered(p).key = e PROVE p \in L \X R
  <2>1. p = <<p[1], p[2]>> /\ p[1] \in left /\ p[2] \in table
    OBVIOUS
  <2>2. p[1] \in L /\ p[2] \in R
    BY <1>2, <1>6, <2>1 DEF RowsOf
  <2> QED BY <2>1, <2>2
<1>12. \A p \in pairs : p[1] \in left /\ p[2] \in table
  OBVIOUS
<1> HIDE DEF pairs, Entered, join
<1>7. \A row : row \in RowsOf(join, e) <=> row \in join /\ row.key = e
  BY DEF RowsOf
<1>8. CASE R = {}
  <2>1. \A p \in pairs : Entered(p).key # e
    BY <1>5, <1>6, <1>8
  <2>2. \A row \in L : \A p \in pairs : p[1] # row
    BY <1>2, <2>1 DEF RowsOf
  <2>3. \A r \in table : r.key # e
    BY <1>8 DEF RowsOf
  <2>4. RowsOf(join, e) = L
    BY <1>1, <1>4, <1>7, <2>1, <2>2, <2>3 DEF RowsOf
  <2> QED BY <1>8, <2>4 DEF join
<1>9. CASE R # {} /\ L = {}
  <2>1. \A p \in pairs : Entered(p).key # e
    BY <1>6, <1>9
  <2>2. \A row \in left : row.key # e
    BY <1>9 DEF RowsOf
  <2>3. \A r \in R : r \in table /\ \A p \in pairs : p[2] # r
    BY <1>2, <2>1 DEF RowsOf
  <2>4. RowsOf(join, e) = {Alone(r, w) : r \in R}
    BY <1>1, <1>4, <1>7, <2>1, <2>2, <2>3 DEF RowsOf
  <2> QED BY <1>9, <2>4 DEF join
<1>10. CASE R # {} /\ L # {}
  <2>1. PICK l0 \in L, r0 \in R : TRUE
    BY <1>10
  <2>2. \A row \in left : row.key = e => \E p \in pairs : p[1] = row
    <3> SUFFICES ASSUME NEW row \in left, row.key = e PROVE \E p \in pairs : p[1] = row
      OBVIOUS
    <3>1. <<row, r0>> \in L \X R
      BY <2>1 DEF RowsOf
    <3> QED BY <1>5, <3>1
  <2>3. \A r \in table : r.key = e => \E p \in pairs : p[2] = r
    <3> SUFFICES ASSUME NEW r \in table, r.key = e PROVE \E p \in pairs : p[2] = r
      OBVIOUS
    <3>1. <<l0, r>> \in L \X R
      BY <2>1 DEF RowsOf
    <3> QED BY <1>5, <3>1
  <2>4. \A p \in L \X R : Entered(p).key = e
    BY <1>2, <1>5 DEF RowsOf
  <2>5. RowsOf(join, e) = {Entered(p) : p \in L \X R}
    <3> HIDE DEF L, R
    <3> QED BY <1>1, <1>4, <1>5, <1>6, <1>7, <2>2, <2>3, <2>4
  <2> QED BY <1>10, <2>5 DEF join, Entered
<1> QED BY <1>8, <1>9, <1>10

\* As many rows as pairs, where a side without rows counts as one.
CountsMultiply(J, L, R) ==
  /\ IsFiniteSet(J)
  /\ R = {} => Cardinality(J) = Cardinality(L)
  /\ R # {} /\ L = {} => Cardinality(J) = Cardinality(R)
  /\ R # {} /\ L # {} => Cardinality(J) = Cardinality(L) * Cardinality(R)
  /\ Cardinality(L) \in Nat /\ Cardinality(R) \in Nat

\* Two rows of an entity in one window stay two when projected.
LEMMA CountOfJoin ==
  ASSUME NEW Keys, NEW Kinds, NEW w \in 1 .. Windows, NEW e,
         NEW left \in SUBSET MatrixRows(Keys, Kinds),
         \A l \in left : l.at[w] = Null,
         NEW table, IsFiniteSet(table),
         \A r, s \in table : r.key = s.key /\ r.snapshot = s.snapshot => r = s,
         IsFiniteSet(RowsOf(left, e))
  PROVE  CountsMultiply(RowsOf(FullOuterJoin(left, table, w), e),
                        RowsOf(left, e), RowsOf(table, e))
<1> DEFINE L == RowsOf(left, e)
           R == RowsOf(table, e)
           J == RowsOf(FullOuterJoin(left, table, w), e)
           Entered(p) == [p[1] EXCEPT !.at[w] = Projected(p[2])]
<1>1. /\ J = IF R = {} THEN L
             ELSE IF L = {} THEN {Alone(r, w) : r \in R}
             ELSE {Entered(p) : p \in L \X R}
  BY RowsOfJoin
<1>2. R \in SUBSET table /\ IsFiniteSet(R) /\ IsFiniteSet(L)
  <2>1. R \in SUBSET table
    BY DEF RowsOf
  <2> HIDE DEF R
  <2> QED BY <2>1, FS_Subset
<1>3. \A r, s \in R : Projected(r) = Projected(s) => r = s
  <2>1. \A r \in R : Projected(r).snapshot = r.snapshot /\ r.key = e /\ r \in table
    BY DEF Projected, RowsOf
  <2> QED BY <2>1
<1>4. Cardinality(L) \in Nat /\ Cardinality(R) \in Nat
  <2> HIDE DEF L, R
  <2> QED BY <1>2, FS_CardinalityType
<1>5. CASE R = {}
  <2>1. J = L
    BY <1>1, <1>5
  <2> HIDE DEF L, R, J
  <2>2. /\ IsFiniteSet(J) /\ Cardinality(J) = Cardinality(L)
        /\ Cardinality(L) \in Nat /\ Cardinality(R) \in Nat /\ R = {}
    BY <1>2, <1>4, <1>5, <2>1
  <2> QED BY <2>2 DEF CountsMultiply, L, R, J
<1>6. CASE R # {} /\ L = {}
  <2> DEFINE F == [r \in R |-> Alone(r, w)]
  <2>1. \A r \in R : Alone(r, w).at[w] = Projected(r)
    BY DEF Alone
  <2>2. J = {Alone(r, w) : r \in R}
    BY <1>1, <1>6
  <2> HIDE DEF J, R
  <2>3. /\ F \in [R -> J]
        /\ \A a, b \in R : F[a] = F[b] => a = b
        /\ \A t \in J : \E r \in R : F[r] = t
    BY <1>3, <2>1, <2>2
  <2>4. F \in Bijection(R, J)
    <3> HIDE DEF F
    <3> QED BY <2>3, Fun_IsBij
  <2>5. IsFiniteSet(J) /\ Cardinality(J) = Cardinality(R)
    BY <1>2, <2>4, FS_Bijection, Fun_ExistsBij
  <2> QED BY <1>4, <1>6, <2>5 DEF CountsMultiply, R, J
<1>7. CASE R # {} /\ L # {}
  <2> DEFINE P == L \X R
             F == [p \in P |-> Entered(p)]
  <2>1. J = {Entered(p) : p \in P}
    BY <1>1, <1>7
  <2>2. ASSUME NEW a \in P, NEW b \in P, Entered(a) = Entered(b) PROVE a = b
    <3>1. /\ a = <<a[1], a[2]>> /\ a[1] \in left /\ a[2] \in R
          /\ b = <<b[1], b[2]>> /\ b[1] \in left /\ b[2] \in R
      BY DEF RowsOf
    <3>2. /\ a[1] = [key |-> a[1].key, at |-> a[1].at]
          /\ b[1] = [key |-> b[1].key, at |-> b[1].at]
          /\ a[1].at \in [1 .. Windows -> Kinds] /\ b[1].at \in [1 .. Windows -> Kinds]
      BY <3>1 DEF MatrixRows
    <3>3. /\ Entered(a) = [key |-> a[1].key,
                            at  |-> [a[1].at EXCEPT ![w] = Projected(a[2])]]
          /\ Entered(b) = [key |-> b[1].key,
                            at  |-> [b[1].at EXCEPT ![w] = Projected(b[2])]]
      BY <3>2
    <3>4. /\ a[1].key = b[1].key
          /\ [a[1].at EXCEPT ![w] = Projected(a[2])]
               = [b[1].at EXCEPT ![w] = Projected(b[2])]
      BY <2>2, <3>3
    <3>5. Projected(a[2]) = Projected(b[2])
      BY <3>2, <3>4
    <3>6. a[1].at = b[1].at
      <4>1. \A v \in 1 .. Windows : a[1].at[v] = b[1].at[v]
        <5>1. a[1].at[w] = b[1].at[w]
          BY <3>1
        <5>2. ASSUME NEW v \in 1 .. Windows, v # w PROVE a[1].at[v] = b[1].at[v]
          <6>1. /\ [a[1].at EXCEPT ![w] = Projected(a[2])][v] = a[1].at[v]
                /\ [b[1].at EXCEPT ![w] = Projected(b[2])][v] = b[1].at[v]
            BY <3>2, <5>2
          <6> QED BY <3>4, <6>1
        <5> QED BY <5>1, <5>2
      <4> DEFINE f == a[1].at
                 g == b[1].at
      <4>2. /\ f \in [1 .. Windows -> Kinds] /\ g \in [1 .. Windows -> Kinds]
            /\ \A v \in 1 .. Windows : f[v] = g[v]
        BY <3>2, <4>1
      <4> HIDE DEF f, g
      <4>3. f = g
        <5>1. f = [v \in 1 .. Windows |-> f[v]] /\ g = [v \in 1 .. Windows |-> g[v]]
          BY <4>2
        <5>2. [v \in 1 .. Windows |-> f[v]] = [v \in 1 .. Windows |-> g[v]]
          BY <4>2
        <5> QED BY <5>1, <5>2
      <4> QED BY <4>3 DEF f, g
    <3> QED BY <1>3, <3>1, <3>2, <3>4, <3>5, <3>6
  <2>3. IsFiniteSet(P) /\ Cardinality(P) = Cardinality(L) * Cardinality(R)
    <3> HIDE DEF L, R
    <3> QED BY <1>2, FS_Product
  <2> HIDE DEF P, J, Entered
  <2>4. /\ F \in [P -> J]
        /\ \A a, b \in P : F[a] = F[b] => a = b
        /\ \A t \in J : \E p \in P : F[p] = t
    BY <2>1, <2>2
  <2>5. F \in Bijection(P, J)
    <3> HIDE DEF F
    <3> QED BY <2>4, Fun_IsBij
  <2>6. IsFiniteSet(J) /\ Cardinality(J) = Cardinality(P)
    BY <2>3, <2>5, FS_Bijection, Fun_ExistsBij
  <2> QED BY <1>4, <1>7, <2>3, <2>6 DEF CountsMultiply, J
<1> QED BY <1>5, <1>6, <1>7

WaysToCombine(tables, e) ==
  FoldLeft(LAMBDA n, w : n * Max({1, Cardinality(RowsOf(tables[w], e))}),
           1, [w \in 1 .. Windows |-> w])

Ways(tables, e, w) == Max({1, Cardinality(RowsOf(tables[w], e))})

\* q[k]: the number of ways to combine the rows of the first k windows.
MultipliedInTurn(q, tables, e) ==
  /\ q \in [0 .. Windows -> Nat]
  /\ q[0] = 1
  /\ \A k \in 1 .. Windows : q[k] = q[k - 1] * Ways(tables, e, k)
  /\ WaysToCombine(tables, e) = q[Windows]

\* The factor a window contributes.
LEMMA WaysAreCounted ==
  ASSUME NEW tables \in [1 .. Windows -> WindowTables], NEW e, NEW w \in 1 .. Windows
  PROVE  LET R == RowsOf(tables[w], e)
         IN  /\ IsFiniteSet(R) /\ Cardinality(R) \in Nat
             /\ Ways(tables, e, w) \in Nat
             /\ Ways(tables, e, w) = IF R = {} THEN 1 ELSE Cardinality(R)
<1> DEFINE R == RowsOf(tables[w], e)
<1>1. IsFiniteSet(tables[w]) /\ R \in SUBSET tables[w]
  BY TableAssumption DEF RowsOf
<1> HIDE DEF R
<1>2. IsFiniteSet(R)
  BY <1>1, FS_Subset
<1>3. Cardinality(R) \in Nat /\ (Cardinality(R) = 0 <=> R = {})
  BY <1>2, FS_CardinalityType, FS_EmptySet
<1> DEFINE c == Cardinality(R)
<1> HIDE DEF c
<1>4. c \in Nat /\ (c = 0 <=> R = {})
  BY <1>3 DEF c
<1>5. Max({1, c}) = IF R = {} THEN 1 ELSE c
  <2>1. \E x \in {1, c} : \A y \in {1, c} : x >= y
    BY <1>4
  <2>2. Max({1, c}) \in {1, c} /\ \A y \in {1, c} : Max({1, c}) >= y
    BY <2>1 DEF Max
  <2> QED BY <1>4, <2>2
<1> QED BY <1>2, <1>4, <1>5 DEF Ways, R, c

\* The product is that of the factors in turn.
LEMMA ProductUnfolds ==
  ASSUME NEW tables \in [1 .. Windows -> WindowTables], NEW e
  PROVE  \E q : MultipliedInTurn(q, tables, e)
<1> DEFINE n == Windows
           seq == [w \in 1 .. Windows |-> w]
           Body(g, s) == IF s = {} THEN 1
                         ELSE g[s \ {Max(s)}]
                                * Max({1, Cardinality(RowsOf(tables[seq[Max(s)]], e))})
           iter == CHOOSE g : g = [s \in SUBSET (1 .. n) |-> Body(g, s)]
           step == [i \in 1 .. n |-> [m \in Nat |-> m * Ways(tables, e, i)]]
<1>1. n \in Nat /\ DOMAIN seq = 1 .. n /\ \A i \in 1 .. n : seq[i] = i
  BY RulesAssumption
<1>2. ASSUME NEW i \in 1 .. n, NEW m \in Nat PROVE m * Ways(tables, e, i) \in Nat
  <2>1. Ways(tables, e, i) \in Nat
    BY WaysAreCounted
  <2> QED BY <2>1
<1>3. PICK h : IsFold(h, 1, n, Nat, step)
  <2>1. step \in [1 .. n -> [Nat -> Nat]]
    BY <1>2
  <2> HIDE DEF step, n
  <2> QED BY <1>1, <2>1, FoldExists
<1>4. h = [s \in SUBSET (1 .. n) |-> Body(h, s)]
  <2>1. ASSUME NEW s \in SUBSET (1 .. n) PROVE h[s] = Body(h, s)
    <3>1. CASE s = {}
      BY <1>3, <3>1 DEF IsFold
    <3>2. CASE s # {}
      <4>1. Max(s) \in 1 .. n
        BY <1>1, <3>2, MaxOf
      <4>2. h[s] = step[Max(s)][h[s \ {Max(s)}]]
        BY <1>3, <3>2 DEF IsFold
      <4>3. h[s \ {Max(s)}] \in Nat
        BY <1>3 DEF IsFold
      <4>4. step[Max(s)][h[s \ {Max(s)}]] = h[s \ {Max(s)}] * Ways(tables, e, Max(s))
        BY <4>1, <4>3
      <4>5. seq[Max(s)] = Max(s)
        BY <1>1, <4>1
      <4> HIDE DEF seq
      <4> QED BY <3>2, <4>2, <4>4, <4>5 DEF Ways
    <3> QED BY <3>1, <3>2
  <2>2. h = [s \in SUBSET (1 .. n) |-> h[s]]
    BY <1>3 DEF IsFold
  <2> HIDE DEF Body
  <2> QED BY <2>1, <2>2
<1>5. iter = [s \in SUBSET (1 .. n) |-> Body(iter, s)]
  <2> HIDE DEF Body
  <2> QED BY <1>4
<1> HIDE DEF iter
<1>6. ASSUME NEW k \in 1 .. n
      PROVE  iter[1 .. k] = iter[1 .. k - 1] * Ways(tables, e, k)
  <2>1. /\ 1 .. k \in SUBSET (1 .. n) /\ 1 .. k # {}
        /\ Max(1 .. k) = k /\ (1 .. k) \ {k} = 1 .. k - 1
    BY <1>1, PrefixSets
  <2>2. iter[1 .. k] = Body(iter, 1 .. k)
    <3> HIDE DEF Body
    <3> QED BY <1>5, <2>1
  <2>3. seq[k] = k
    BY <1>1
  <2> HIDE DEF seq
  <2> QED BY <2>1, <2>2, <2>3 DEF Ways
<1>7. iter[1 .. 0] = 1
  <2>1. 1 .. 0 = {} /\ {} \in SUBSET (1 .. n)
    OBVIOUS
  <2>2. iter[{}] = Body(iter, {})
    <3> HIDE DEF Body
    <3> QED BY <1>5, <2>1
  <2> QED BY <2>1, <2>2
<1> DEFINE q == [k \in 0 .. n |-> iter[1 .. k]]
<1>8. q \in [0 .. n -> Nat]
  <2> DEFINE T == {k \in Nat : k <= n => iter[1 .. k] \in Nat}
  <2>1. 0 \in T
    BY <1>7
  <2>2. ASSUME NEW k \in Nat, k \in T PROVE k + 1 \in T
    <3> SUFFICES ASSUME k + 1 <= n PROVE iter[1 .. k + 1] \in Nat
      OBVIOUS
    <3>1. k + 1 \in 1 .. n /\ (k + 1) - 1 = k /\ k <= n
      BY <1>1
    <3>2. iter[1 .. k] \in Nat
      BY <2>2, <3>1
    <3>3. iter[1 .. k + 1] = iter[1 .. k] * Ways(tables, e, k + 1)
      BY <1>6, <3>1
    <3> QED BY <1>2, <3>1, <3>2, <3>3
  <2>3. \A k \in Nat : k \in T
    <3> HIDE DEF T
    <3> QED BY <2>1, <2>2, NatSetInduction
  <2> QED BY <1>1, <2>3
<1>9. WaysToCombine(tables, e) = iter[1 .. n]
  BY <1>1 DEF WaysToCombine, FoldLeft, MapThenFoldSet, iter
<1>10. q[0] = 1 /\ q[n] = iter[1 .. n]
  BY <1>1, <1>7
<1>11. ASSUME NEW k \in 1 .. n PROVE q[k] = q[k - 1] * Ways(tables, e, k)
  <2>1. k \in 0 .. n /\ k - 1 \in 0 .. n
    BY <1>1
  <2>2. q[k] = iter[1 .. k] /\ q[k - 1] = iter[1 .. k - 1]
    BY <2>1
  <2> HIDE DEF q
  <2> QED BY <1>6, <2>2
<1> HIDE DEF q
<1>12. MultipliedInTurn(q, tables, e)
  BY <1>8, <1>9, <1>10, <1>11 DEF MultipliedInTurn
<1> QED BY <1>12

Counted(matrix, tables, e, k, n) ==
  /\ IsFiniteSet(RowsOf(matrix, e))
  /\ IF e \in KeysUpTo(tables, k) THEN Cardinality(RowsOf(matrix, e)) = n ELSE n = 1

\* One step multiplies the rows of an entity by the factor of its window.
LEMMA CountExtends ==
  ASSUME NEW tables \in [1 .. Windows -> WindowTables], NEW e, NEW k \in Nat, k < Windows,
         NEW left \in SUBSET JoinedRows(tables), JoinedUpTo(left, tables, k),
         NEW n \in Nat, Counted(left, tables, e, k, n)
  PROVE  Counted(FullOuterJoin(left, tables[k + 1], k + 1), tables, e, k + 1,
                 n * Ways(tables, e, k + 1))
<1> DEFINE w == k + 1
           L == RowsOf(left, e)
           R == RowsOf(tables[w], e)
           J == RowsOf(FullOuterJoin(left, tables[w], w), e)
           c == Cardinality(L)
           d == Cardinality(R)
<1>1. w \in 1 .. Windows /\ w \in k + 1 .. Windows /\ 1 .. w = 1 .. k \cup {w}
  BY RulesAssumption
<1>2. left \in SUBSET MatrixRows(KeysOf(AllRows(tables)), Cells(tables))
  BY DEF JoinedRows
<1>3. \A l \in left : l.at[w] = Null
  BY <1>1 DEF JoinedUpTo
<1>4. /\ IsFiniteSet(tables[w])
      /\ \A r, s \in tables[w] : r.key = s.key /\ r.snapshot = s.snapshot => r = s
  BY <1>1, TableAssumption
<1>5. IsFiniteSet(L)
  BY DEF Counted
<1> HIDE DEF w
<1>6. /\ IsFiniteSet(J)
      /\ R = {} => Cardinality(J) = c
      /\ R # {} /\ L = {} => Cardinality(J) = d
      /\ R # {} /\ L # {} => Cardinality(J) = c * d
      /\ c \in Nat /\ d \in Nat
  <2>1. CountsMultiply(J, L, R)
    BY <1>1, <1>2, <1>3, <1>4, <1>5, CountOfJoin
  <2> HIDE DEF J, L, R
  <2> QED BY <2>1 DEF CountsMultiply
<1>7. Ways(tables, e, w) = IF R = {} THEN 1 ELSE d
  BY <1>1, WaysAreCounted
<1>8. e \in KeysUpTo(tables, k) <=> L # {}
  BY DEF JoinedUpTo, KeysOf, RowsOf
<1>9. e \in KeysUpTo(tables, w) <=> L # {} \/ R # {}
  <2>1. KeysUpTo(tables, w) = KeysUpTo(tables, k) \cup KeysOf(tables[w])
    BY <1>1 DEF KeysUpTo
  <2>2. e \in KeysOf(tables[w]) <=> R # {}
    BY DEF KeysOf, RowsOf
  <2> QED BY <1>8, <2>1, <2>2
<1>10. IF L # {} THEN c = n ELSE n = 1
  BY <1>8 DEF Counted
<1> HIDE DEF L, R, J, c, d
<1>11. IF L # {} \/ R # {} THEN Cardinality(J) = n * Ways(tables, e, w)
       ELSE n * Ways(tables, e, w) = 1
  BY <1>6, <1>7, <1>10
<1>12. Counted(FullOuterJoin(left, tables[w], w), tables, e, w, n * Ways(tables, e, w))
  BY <1>6, <1>9, <1>11 DEF Counted, J
<1> QED BY <1>12 DEF w

\* So an entity has as many rows as there are ways to combine its rows.
LEMMA MatrixIsCounted ==
  ASSUME NEW tables \in [1 .. Windows -> WindowTables], NEW e,
         e \in KeysUpTo(tables, Windows)
  PROVE  Cardinality(RowsOf(BuildFeatureMatrix(tables), e)) = WaysToCombine(tables, e)
<1>1. PICK m : JoinInTurn(m, tables)
  BY JoinsUnfold
<1>2. PICK q : MultipliedInTurn(q, tables, e)
  BY ProductUnfolds
<1> DEFINE Good(k) == JoinedUpTo(m[k], tables, k) /\ Counted(m[k], tables, e, k, q[k])
           T == {k \in Nat : k <= Windows => Good(k)}
<1> HIDE DEF Good
<1>3. 0 \in T
  <2>1. m[0] = {} /\ 1 .. 0 = {} /\ q[0] = 1
    BY <1>1, <1>2 DEF JoinInTurn, MultipliedInTurn
  <2>2. JoinedUpTo({}, tables, 0)
    BY <2>1 DEF JoinedUpTo, KeysOf, KeysUpTo
  <2>3. RowsOf({}, e) = {} /\ KeysUpTo(tables, 0) = {}
    BY <2>1 DEF RowsOf, KeysUpTo
  <2>4. Counted({}, tables, e, 0, 1)
    BY <2>3, FS_EmptySet DEF Counted
  <2> QED BY <2>1, <2>2, <2>4 DEF Good
<1>4. ASSUME NEW k \in Nat, k \in T PROVE k + 1 \in T
  <2> SUFFICES ASSUME k + 1 <= Windows PROVE Good(k + 1)
    OBVIOUS
  <2>1. /\ Windows \in Nat /\ k < Windows /\ k + 1 \in 1 .. Windows
        /\ k \in 0 .. Windows /\ (k + 1) - 1 = k
    BY RulesAssumption
  <2>2. JoinedUpTo(m[k], tables, k) /\ Counted(m[k], tables, e, k, q[k])
    BY <1>4, <2>1 DEF Good
  <2>3. /\ m[k] \in SUBSET JoinedRows(tables)
        /\ m[k + 1] = FullOuterJoin(m[k], tables[k + 1], k + 1)
    BY <1>1, <2>1 DEF JoinInTurn
  <2>4. q[k] \in Nat /\ q[k + 1] = q[k] * Ways(tables, e, k + 1)
    BY <1>2, <2>1 DEF MultipliedInTurn
  <2>5. JoinedUpTo(m[k + 1], tables, k + 1)
    BY <2>1, <2>2, <2>3, JoinExtends
  <2>6. Counted(m[k + 1], tables, e, k + 1, q[k + 1])
    BY <2>1, <2>2, <2>3, <2>4, CountExtends
  <2> QED BY <2>5, <2>6 DEF Good
<1>5. \A k \in Nat : k \in T
  <2> HIDE DEF T
  <2> QED BY <1>3, <1>4, NatSetInduction
<1>6. Counted(m[Windows], tables, e, Windows, q[Windows])
  BY <1>5, RulesAssumption DEF Good
<1> QED BY <1>1, <1>2, <1>6 DEF JoinInTurn, MultipliedInTurn, Counted

-----------------------------------------------------------------------------
(***************************************************************************)
(* The snapshot of a row, and the reshape as a whole.                      *)
(***************************************************************************)
\* SelectInSeq takes the least index, and there is one.
LEMMA MinOf ==
  ASSUME NEW n \in Nat, NEW s \in SUBSET (1 .. n), s # {}
  PROVE  Min(s) \in s /\ \A y \in s : Min(s) <= y
<1> DEFINE flipped == {n + 1 - y : y \in s}
           top == Max(flipped)
<1>1. flipped \in SUBSET (1 .. n) /\ flipped # {}
  <2>1. \A y \in s : n + 1 - y \in 1 .. n
    OBVIOUS
  <2> QED BY <2>1
<1>2. top \in flipped /\ \A y \in flipped : top >= y
  <2> HIDE DEF flipped
  <2> QED BY <1>1, MaxOf
<1> HIDE DEF top
<1>3. PICK x \in s : top = n + 1 - x
  BY <1>2
<1>4. ASSUME NEW y \in s PROVE x <= y
  <2>1. n + 1 - y \in flipped /\ x \in Int /\ y \in Int
    OBVIOUS
  <2>2. n + 1 - x >= n + 1 - y
    BY <1>2, <1>3, <2>1
  <2> QED BY <2>1, <2>2
<1>5. \E z \in s : \A y \in s : z <= y
  BY <1>4
<1> QED BY <1>5 DEF Min

NoRowIn(tables, row, w) == RowsOf(tables[w], row.key) = {} /\ row.at[w] = Null

GaveSnapshot(tables, row, w, s) ==
  \E r \in RowsOf(tables[w], row.key) : row.at[w] = Projected(r) /\ r.snapshot = s

GaveNone(tables, row, w) == NoRowIn(tables, row, w) \/ GaveSnapshot(tables, row, w, Null)

SnapshotExplained(tables, row) ==
  IF SnapshotOf(row) = Null THEN \A w \in 1 .. Windows : GaveNone(tables, row, w)
  ELSE \E w \in 1 .. Windows : /\ GaveSnapshot(tables, row, w, SnapshotOf(row))
                               /\ \A v \in 1 .. w - 1 : GaveNone(tables, row, v)

\* The snapshot of a row is that of the first window that gave it one.
LEMMA FirstSnapshot ==
  ASSUME NEW tables \in [1 .. Windows -> WindowTables],
         NEW row \in BuildFeatureMatrix(tables)
  PROVE  SnapshotExplained(tables, row)
<1> DEFINE dated == {w \in 1 .. Windows : row.at[w] # Null /\ row.at[w].snapshot # Null}
           first == Min(dated)
<1>1. \A v \in 1 .. Windows : Faithful(tables, row, v)
  BY MatrixIsJoined DEF JoinedUpTo
<1>2. row.at \in [1 .. Windows -> Cells(tables)]
  BY MatrixIsJoined DEF JoinedRows, MatrixRows
<1>3. ASSUME NEW v \in 1 .. Windows, row.at[v] # Null
      PROVE  GaveSnapshot(tables, row, v, row.at[v].snapshot)
  <2>1. PICK r \in RowsOf(tables[v], row.key) : row.at[v] = Projected(r)
    BY <1>1, <1>3 DEF Faithful
  <2>2. row.at[v].snapshot = r.snapshot
    BY <2>1 DEF Projected
  <2> QED BY <2>1, <2>2 DEF GaveSnapshot
<1>4. ASSUME NEW v \in 1 .. Windows, v \notin dated PROVE GaveNone(tables, row, v)
  <2>1. CASE row.at[v] = Null
    <3>1. \A r \in RowsOf(tables[v], row.key) : Projected(r) # Null
      BY TableAssumption DEF RowsOf
    <3>2. RowsOf(tables[v], row.key) = {}
      BY <1>1, <2>1, <3>1 DEF Faithful
    <3> QED BY <2>1, <3>2 DEF GaveNone, NoRowIn
  <2>2. CASE row.at[v] # Null
    <3>1. row.at[v].snapshot = Null
      BY <1>4, <2>2
    <3>2. GaveSnapshot(tables, row, v, row.at[v].snapshot)
      BY <1>3, <2>2
    <3> QED BY <3>1, <3>2 DEF GaveNone
  <2> QED BY <2>1, <2>2
<1>5. Len(row.at) = Windows
  BY <1>2, RulesAssumption
<1>6. CASE dated = {}
  <2>1. SelectInSeq(row.at, LAMBDA cell : cell # Null /\ cell.snapshot # Null) = 0
    BY <1>5, <1>6 DEF SelectInSeq
  <2>2. SnapshotOf(row) = Null
    BY <2>1 DEF SnapshotOf
  <2> HIDE DEF dated
  <2> QED BY <1>4, <1>6, <2>2 DEF SnapshotExplained
<1>7. CASE dated # {}
  <2>1. first \in dated /\ \A v \in dated : first <= v
    <3>1. Windows \in Nat /\ dated \in SUBSET (1 .. Windows)
      BY RulesAssumption
    <3> HIDE DEF dated
    <3> QED BY <1>7, <3>1, MinOf
  <2>2. SelectInSeq(row.at, LAMBDA cell : cell # Null /\ cell.snapshot # Null) = first
    BY <1>5, <1>7 DEF SelectInSeq
  <2> HIDE DEF first
  <2>3. first \in 1 .. Windows /\ first # 0
    BY <2>1
  <2>4. SnapshotOf(row) = row.at[first].snapshot
    BY <2>2, <2>3 DEF SnapshotOf
  <2>5. row.at[first] # Null /\ row.at[first].snapshot # Null
    BY <2>1
  <2>6. GaveSnapshot(tables, row, first, SnapshotOf(row)) /\ SnapshotOf(row) # Null
    BY <1>3, <2>3, <2>4, <2>5
  <2>7. ASSUME NEW v \in 1 .. first - 1 PROVE GaveNone(tables, row, v)
    <3>1. v \in 1 .. Windows /\ v \notin dated
      BY <2>1, <2>3, RulesAssumption
    <3> QED BY <1>4, <3>1
  <2> QED BY <2>3, <2>6, <2>7 DEF SnapshotExplained
<1> QED BY <1>6, <1>7

\* What JoinKeepsEntities says of one call.
CellExplained(tables, row, w) ==
  \/ NoRowIn(tables, row, w)
  \/ \E r \in RowsOf(tables[w], row.key) : row.at[w] = Projected(r)

Reshaped(tables, matrix) ==
  LET keys == {row.key : row \in UNION {tables[w] : w \in 1 .. Windows}}
  IN  /\ {row.key : row \in matrix} = keys
      /\ \A e \in keys : Cardinality(RowsOf(matrix, e)) = WaysToCombine(tables, e)
      /\ \A row \in matrix : /\ \A w \in 1 .. Windows : CellExplained(tables, row, w)
                             /\ SnapshotExplained(tables, row)

\* The matrix of one call has all that the property asks for.
LEMMA MatrixIsReshaped ==
  ASSUME NEW tables \in [1 .. Windows -> WindowTables]
  PROVE  Reshaped(tables, BuildFeatureMatrix(tables))
<1> DEFINE keys == {row.key : row \in UNION {tables[w] : w \in 1 .. Windows}}
           matrix == BuildFeatureMatrix(tables)
<1>1. keys = KeysUpTo(tables, Windows)
  BY DEF KeysUpTo, KeysOf
<1>2. {row.key : row \in matrix} = KeysUpTo(tables, Windows)
  BY MatrixIsJoined DEF JoinedUpTo, KeysOf
<1>3. \A e \in keys : Cardinality(RowsOf(matrix, e)) = WaysToCombine(tables, e)
  BY <1>1, MatrixIsCounted
<1>4. \A row \in matrix : \A w \in 1 .. Windows : Faithful(tables, row, w)
  BY MatrixIsJoined DEF JoinedUpTo
<1>5. \A row \in matrix : \A w \in 1 .. Windows : CellExplained(tables, row, w)
  BY <1>4 DEF Faithful, CellExplained, NoRowIn
<1>6. \A row \in matrix : SnapshotExplained(tables, row)
  BY FirstSnapshot
<1> HIDE DEF matrix
<1>7. Reshaped(tables, matrix)
  BY <1>1, <1>2, <1>3, <1>5, <1>6 DEF Reshaped
<1> QED BY <1>7 DEF matrix

\* For any windows and tables, those with null snapshots and several rows of an
\* entity included: every entity is kept, with one row for each way to combine
\* its rows, each cell its own, and the first snapshot that its rows have.
THEOREM JoinKeepsEntitiesHolds == Spec => []JoinKeepsEntities
<1> DEFINE Says == rule = "reshape" => Reshaped(given.tables, result.matrix)
<1>1. JoinKeepsEntities <=> Says
  BY DEF JoinKeepsEntities, Reshaped, WaysToCombine, CellExplained, NoRowIn,
         SnapshotExplained, GaveSnapshot, GaveNone
<1>2. Init => Says
  BY DEF Init
<1>3. Says /\ [Next]_vars => Says'
  <2> SUFFICES ASSUME Says, [Next]_vars, rule' = "reshape"
               PROVE  Reshaped(given'.tables, result'.matrix)
    OBVIOUS
  <2>1. CASE ReshapeTables
    BY <2>1, ReshapeCalled, MatrixIsReshaped
  <2>2. CASE Elsewhere("reshape")
    BY <2>2 DEF Elsewhere, vars
  <2> QED BY <2>1, <2>2, ReshapeOrElsewhere
<1> HIDE DEF Says
<1> QED BY <1>1, <1>2, <1>3, PTL DEF Spec

-----------------------------------------------------------------------------
(***************************************************************************)
(* unique(subset=[entity_key], keep="last").                               *)
(***************************************************************************)

\* The row of a batch that is loaded for an entity is the last of its rows, and
\* there is exactly one: no entity is lost, and the primary key is never hit
\* twice by one load.
THEOREM OneRowPerEntity ==
  ASSUME NEW Row, NEW scored \in Seq(Row), NEW i \in DOMAIN scored
  PROVE  \E last \in DOMAIN scored :
           /\ i <= last /\ scored[last].entity = scored[i].entity
           /\ {row \in RowsToLoad(scored) : row.entity = scored[i].entity}
                = {scored[last]}
<1> DEFINE same == {k \in DOMAIN scored : scored[k].entity = scored[i].entity}
           last == Max(same)
<1>1. last \in same /\ \A k \in same : last >= k
  <2>1. Len(scored) \in Nat /\ same \in SUBSET (1 .. Len(scored)) /\ same # {}
    OBVIOUS
  <2> HIDE DEF same
  <2> QED BY <2>1, MaxOf
<1> HIDE DEF last
<1>2. last \in DOMAIN scored /\ i <= last /\ scored[last].entity = scored[i].entity
  BY <1>1
<1>3. LastOfEntity(scored, last)
  BY <1>1, <1>2 DEF LastOfEntity
<1>4. ASSUME NEW k \in same, LastOfEntity(scored, k) PROVE k = last
  BY <1>1, <1>2, <1>4 DEF LastOfEntity
<1>5. {row \in RowsToLoad(scored) : row.entity = scored[i].entity} = {scored[last]}
  <2>1. scored[last] \in RowsToLoad(scored)
    BY <1>2, <1>3 DEF RowsToLoad
  <2>2. ASSUME NEW row \in RowsToLoad(scored), row.entity = scored[i].entity
        PROVE  row = scored[last]
    BY <1>4, <2>2 DEF RowsToLoad
  <2> QED BY <1>2, <2>1, <2>2
<1> QED BY <1>2, <1>5

Written(scored, E) ==
  FoldLeft(LAMBDA t, row : [t EXCEPT ![row.entity] = row.class],
           [e \in E |-> Null], scored)

\* p[k]: the table when the first k rows have been put.
PutInTurn(p, scored, E, C) ==
  /\ p \in [0 .. Len(scored) -> [E -> C]]
  /\ p[0] = [e \in E |-> Null]
  /\ \A k \in 1 .. Len(scored) :
       p[k] = [p[k - 1] EXCEPT ![scored[k].entity] = scored[k].class]
  /\ Written(scored, E) = p[Len(scored)]

\* Putting the rows goes through such a sequence of tables.
LEMMA WritesUnfold ==
  ASSUME NEW E, NEW C, Null \in C, NEW scored,
         scored \in Seq([entity : E, class : C])
  PROVE  \E p : PutInTurn(p, scored, E, C)
<1> DEFINE n == Len(scored)
           base == [e \in E |-> Null]
           Body(g, s) == IF s = {} THEN base
                         ELSE [g[s \ {Max(s)}] EXCEPT
                                 ![scored[Max(s)].entity] = scored[Max(s)].class]
           iter == CHOOSE g : g = [s \in SUBSET (1 .. n) |-> Body(g, s)]
           step == [i \in 1 .. n |-> [t \in [E -> C] |->
                      [t EXCEPT ![scored[i].entity] = scored[i].class]]]
<1>1. n \in Nat /\ DOMAIN scored = 1 .. n
  OBVIOUS
<1>0. ASSUME NEW i \in 1 .. n PROVE scored[i] \in [entity : E, class : C]
  <2> DEFINE Row == [entity : E, class : C]
  <2>1. scored \in Seq(Row)
    OBVIOUS
  <2> HIDE DEF Row
  <2>2. scored[i] \in Row
    BY <2>1
  <2> QED BY <2>2 DEF Row
<1>2. base \in [E -> C] /\ step \in [1 .. n -> [[E -> C] -> [E -> C]]]
  <2>1. ASSUME NEW i \in 1 .. n, NEW t \in [E -> C]
        PROVE  [t EXCEPT ![scored[i].entity] = scored[i].class] \in [E -> C]
    <3>1. scored[i] \in [entity : E, class : C]
      BY <1>0
    <3> QED BY <3>1
  <2>2. base \in [E -> C]
    OBVIOUS
  <2> QED BY <2>1, <2>2
<1>3. PICK h \in [SUBSET (1 .. n) -> [E -> C]] :
        \A s \in SUBSET (1 .. n) :
          h[s] = IF s = {} THEN base ELSE step[Max(s)][h[s \ {Max(s)}]]
  <2> DEFINE V == [E -> C]
  <2>1. n \in Nat /\ base \in V /\ step \in [1 .. n -> [V -> V]]
    BY <1>1, <1>2
  <2> HIDE DEF base, step, n, V
  <2>2. PICK h : IsFold(h, base, n, V, step)
    BY <2>1, FoldExists
  <2> QED BY <2>2 DEF IsFold, V
<1>4. h = [s \in SUBSET (1 .. n) |-> Body(h, s)]
  <2>1. ASSUME NEW s \in SUBSET (1 .. n) PROVE h[s] = Body(h, s)
    <3>1. CASE s = {}
      BY <1>3, <3>1
    <3>2. CASE s # {}
      <4>1. Max(s) \in 1 .. n
        BY <1>1, <3>2, MaxOf
      <4>2. h[s] = step[Max(s)][h[s \ {Max(s)}]]
        BY <1>3, <3>2
      <4>3. h[s \ {Max(s)}] \in [E -> C]
        OBVIOUS
      <4>4. step[Max(s)][h[s \ {Max(s)}]]
              = [h[s \ {Max(s)}] EXCEPT ![scored[Max(s)].entity] = scored[Max(s)].class]
        <5> DEFINE m == Max(s)
                   t == h[s \ {m}]
        <5>1. m \in 1 .. n /\ t \in [E -> C]
          BY <4>1, <4>3
        <5> HIDE DEF m, t
        <5>2. step[m][t] = [t EXCEPT ![scored[m].entity] = scored[m].class]
          BY <5>1
        <5> QED BY <5>2 DEF m, t
      <4> QED BY <3>2, <4>2, <4>4
    <3> QED BY <3>1, <3>2
  <2> HIDE DEF Body
  <2> QED BY <2>1
<1>5. iter = [s \in SUBSET (1 .. n) |-> Body(iter, s)]
  <2> HIDE DEF Body
  <2> QED BY <1>4
<1> HIDE DEF iter
<1>6. \A k \in 1 .. n :
        iter[1 .. k] = [iter[1 .. k - 1] EXCEPT ![scored[k].entity] = scored[k].class]
  <2> SUFFICES ASSUME NEW k \in 1 .. n
               PROVE  iter[1 .. k] = [iter[1 .. k - 1] EXCEPT
                                        ![scored[k].entity] = scored[k].class]
    OBVIOUS
  <2>1. /\ 1 .. k \in SUBSET (1 .. n) /\ 1 .. k # {}
        /\ Max(1 .. k) = k /\ (1 .. k) \ {k} = 1 .. k - 1
    BY <1>1, PrefixSets
  <2>2. iter[1 .. k] = Body(iter, 1 .. k)
    <3> HIDE DEF Body
    <3> QED BY <1>5, <2>1
  <2> HIDE DEF base
  <2> QED BY <2>1, <2>2
<1>7. iter[1 .. 0] = base
  <2>1. 1 .. 0 = {} /\ {} \in SUBSET (1 .. n)
    OBVIOUS
  <2>2. iter[{}] = Body(iter, {})
    <3> HIDE DEF Body
    <3> QED BY <1>5, <2>1
  <2> QED BY <2>1, <2>2
<1> DEFINE p == [k \in 0 .. n |-> iter[1 .. k]]
<1>8. p \in [0 .. n -> [E -> C]]
  <2> DEFINE T == {k \in Nat : k <= n => iter[1 .. k] \in [E -> C]}
  <2>1. 0 \in T
    BY <1>2, <1>7
  <2>2. ASSUME NEW k \in Nat, k \in T PROVE k + 1 \in T
    <3> SUFFICES ASSUME k + 1 <= n PROVE iter[1 .. k + 1] \in [E -> C]
      OBVIOUS
    <3>1. k + 1 \in 1 .. n /\ (k + 1) - 1 = k /\ k <= n
      BY <1>1
    <3>2. iter[1 .. k] \in [E -> C]
      BY <2>2, <3>1
    <3>3. scored[k + 1] \in [entity : E, class : C]
      BY <1>0, <3>1
    <3>4. iter[1 .. k + 1]
            = [iter[1 .. k] EXCEPT ![scored[k + 1].entity] = scored[k + 1].class]
      BY <1>6, <3>1
    <3> QED BY <3>2, <3>3, <3>4
  <2>3. \A k \in Nat : k \in T
    <3> HIDE DEF T
    <3> QED BY <2>1, <2>2, NatSetInduction
  <2> QED BY <1>1, <2>3
<1>9. Written(scored, E) = iter[1 .. n]
  BY <1>1 DEF Written, FoldLeft, MapThenFoldSet, iter
<1>10. p[0] = base /\ p[n] = iter[1 .. n]
  BY <1>1, <1>7
<1>11. \A k \in 1 .. n :
         p[k] = [p[k - 1] EXCEPT ![scored[k].entity] = scored[k].class]
  <2> SUFFICES ASSUME NEW k \in 1 .. n
               PROVE  p[k] = [p[k - 1] EXCEPT ![scored[k].entity] = scored[k].class]
    OBVIOUS
  <2>1. k \in 0 .. n /\ k - 1 \in 0 .. n
    BY <1>1
  <2>2. p[k] = iter[1 .. k] /\ p[k - 1] = iter[1 .. k - 1]
    BY <2>1
  <2> HIDE DEF p
  <2> QED BY <1>6, <2>2
<1>12. /\ p[0] = [e \in E |-> Null]
       /\ \A k \in 1 .. Len(scored) :
            p[k] = [p[k - 1] EXCEPT ![scored[k].entity] = scored[k].class]
       /\ Written(scored, E) = p[Len(scored)]
  <2> HIDE DEF p
  <2>1. p[0] = [e \in E |-> Null]
    BY <1>10
  <2>2. \A k \in 1 .. Len(scored) :
          p[k] = [p[k - 1] EXCEPT ![scored[k].entity] = scored[k].class]
    BY <1>11
  <2>3. Written(scored, E) = p[Len(scored)]
    BY <1>9, <1>10
  <2> QED BY <2>1, <2>2, <2>3
<1>13. p \in [0 .. Len(scored) -> [E -> C]]
  BY <1>8
<1>14. PutInTurn(p, scored, E, C)
  <2> HIDE DEF p
  <2> QED BY <1>12, <1>13 DEF PutInTurn
<1> QED BY <1>14

RowsWritten(scored, E) == {[entity |-> e, class |-> Written(scored, E)[e]] : e \in E}

\* By induction on k, p[k] has for each entity the last row up to k.
LEMMA LastWriteIsLoaded ==
  ASSUME NEW scored, NEW E, NEW C, Null \in C,
         scored \in Seq([entity : E, class : C]),
         E = {scored[i].entity : i \in DOMAIN scored}
  PROVE  RowsToLoad(scored) = RowsWritten(scored, E)
<1> DEFINE n == Len(scored)
           Wrote(e, i) == i \in 1 .. n /\ scored[i].entity = e
<1>1. n \in Nat /\ DOMAIN scored = 1 .. n
  OBVIOUS
<1>2. ASSUME NEW i \in 1 .. n PROVE scored[i] \in [entity : E, class : C]
  <2> DEFINE Row == [entity : E, class : C]
  <2>1. scored \in Seq(Row)
    OBVIOUS
  <2> HIDE DEF Row
  <2>2. scored[i] \in Row
    BY <2>1
  <2> QED BY <2>2 DEF Row
<1>3. PICK p : PutInTurn(p, scored, E, C)
  BY WritesUnfold
<1> DEFINE Settled(k) ==
      \A i \in 1 .. k :
        (\A m \in i + 1 .. k : scored[m].entity # scored[i].entity)
          => p[k][scored[i].entity] = scored[i].class
<1> HIDE DEF Settled
<1>4. \A k \in Nat : k <= n => Settled(k)
  <2> DEFINE T == {j \in Nat : j <= n => Settled(j)}
  <2>1. 0 \in T
    BY DEF Settled
  <2>2. ASSUME NEW k \in Nat, k \in T PROVE k + 1 \in T
    <3> SUFFICES ASSUME k + 1 <= n PROVE Settled(k + 1)
      OBVIOUS
    <3> SUFFICES ASSUME NEW i \in 1 .. k + 1,
                        \A m \in i + 1 .. k + 1 : scored[m].entity # scored[i].entity
                 PROVE  p[k + 1][scored[i].entity] = scored[i].class
      BY DEF Settled
    <3>1. k + 1 \in 1 .. n /\ (k + 1) - 1 = k /\ k <= n /\ k \in 0 .. n
      BY <1>1
    <3>5. Settled(k)
      BY <2>2, <3>1
    <3>6. p[k] \in [E -> C] /\ i \in 1 .. n /\ scored[i].entity \in E
      <4>1. i \in 1 .. n
        BY <1>1, <3>1
      <4>2. p[k] \in [E -> C]
        BY <1>3, <3>1 DEF PutInTurn
      <4>3. scored[i].entity \in E
        BY <4>1, <1>2
      <4> QED BY <4>1, <4>2, <4>3
    <3>2. p[k + 1] = [p[k] EXCEPT ![scored[k + 1].entity] = scored[k + 1].class]
      BY <1>3, <3>1 DEF PutInTurn
    <3>3. CASE i = k + 1
      BY <3>6, <3>2, <3>3
    <3>4. CASE i # k + 1
      <4>1. /\ i \in 1 .. k /\ k + 1 \in i + 1 .. k + 1
            /\ \A m \in i + 1 .. k : m \in i + 1 .. k + 1
        BY <3>4
      <4>2. p[k][scored[i].entity] = scored[i].class
        BY <3>5, <4>1 DEF Settled
      <4>3. scored[k + 1].entity # scored[i].entity
        BY <4>1
      <4> QED BY <3>6, <3>2, <4>2, <4>3
    <3> QED BY <3>3, <3>4
  <2> HIDE DEF T
  <2>3. \A k \in Nat : k \in T
    BY <2>1, <2>2, NatSetInduction
  <2> QED BY <2>3 DEF T
<1>5. ASSUME NEW i \in 1 .. n, LastOfEntity(scored, i)
      PROVE  Written(scored, E)[scored[i].entity] = scored[i].class
  <2>1. Settled(n)
    BY <1>1, <1>4
  <2>2. \A m \in i + 1 .. n : scored[m].entity # scored[i].entity
    BY <1>5 DEF LastOfEntity
  <2>3. p[n][scored[i].entity] = scored[i].class
    BY <2>1, <2>2 DEF Settled
  <2> QED BY <1>3, <2>3 DEF PutInTurn
<1>6. ASSUME NEW e \in E
      PROVE  \E i \in 1 .. n : scored[i].entity = e /\ LastOfEntity(scored, i)
  <2>1. PICK i \in DOMAIN scored : scored[i].entity = e
    OBVIOUS
  <2>2. PICK last \in DOMAIN scored :
          /\ scored[last].entity = e
          /\ {row \in RowsToLoad(scored) : row.entity = e} = {scored[last]}
    <3> DEFINE Row == [entity : E, class : C]
    <3>1. scored \in Seq(Row)
      OBVIOUS
    <3> HIDE DEF Row
    <3> QED BY <2>1, <3>1, OneRowPerEntity
  <2>3. scored[last] \in RowsToLoad(scored)
    BY <2>2
  <2>4. PICK j \in 1 .. n : scored[j] = scored[last] /\ LastOfEntity(scored, j)
    BY <1>1, <2>3 DEF RowsToLoad
  <2> QED BY <2>2, <2>4
<1>7. ASSUME NEW i \in 1 .. n
      PROVE  scored[i] = [entity |-> scored[i].entity, class |-> scored[i].class]
  BY <1>2
<1>8. ASSUME NEW row \in RowsToLoad(scored)
      PROVE  row \in {[entity |-> e, class |-> Written(scored, E)[e]] : e \in E}
  <2>1. PICK i \in 1 .. n : row = scored[i] /\ LastOfEntity(scored, i)
    BY <1>1 DEF RowsToLoad
  <2>2. row = [entity |-> scored[i].entity,
               class  |-> Written(scored, E)[scored[i].entity]]
    BY <1>5, <1>7, <2>1
  <2>3. scored[i].entity \in E
    BY <1>2
  <2> QED BY <2>2, <2>3
<1>9. ASSUME NEW e \in E
      PROVE  [entity |-> e, class |-> Written(scored, E)[e]] \in RowsToLoad(scored)
  <2>1. PICK i \in 1 .. n : scored[i].entity = e /\ LastOfEntity(scored, i)
    BY <1>6
  <2>2. scored[i] = [entity |-> e, class |-> Written(scored, E)[e]]
    BY <1>5, <1>7, <2>1
  <2>3. scored[i] \in RowsToLoad(scored)
    BY <1>1, <2>1 DEF RowsToLoad
  <2> QED BY <2>2, <2>3
<1> QED BY <1>8, <1>9 DEF RowsWritten

\* What LastWriteWins says of one call.
Loaded(scored, rows) ==
  rows = RowsWritten(scored, {scored[i].entity : i \in DOMAIN scored})

\* A batch that a run can score is typed as the lemma asks.
LEMMA BatchIsLoaded ==
  ASSUME NEW scored \in ScoredBatches PROVE Loaded(scored, RowsToLoad(scored))
<1> DEFINE E == {scored[i].entity : i \in DOMAIN scored}
           C == {scored[i].class : i \in DOMAIN scored} \cup {Null}
<1>1. /\ scored \in Seq({scored[i] : i \in DOMAIN scored})
      /\ \A i \in DOMAIN scored :
           scored[i] = [entity |-> scored[i].entity, class |-> scored[i].class]
  BY RulesAssumption
<1>2. \A i \in DOMAIN scored : scored[i] \in [entity : E, class : C]
  BY <1>1
<1>3. scored \in Seq([entity : E, class : C])
  <2> DEFINE Row == [entity : E, class : C]
             Rows == {scored[i] : i \in DOMAIN scored}
  <2>1. scored \in Seq(Rows) /\ Rows \subseteq Row
    BY <1>1, <1>2
  <2> HIDE DEF Row, Rows
  <2>2. scored \in Seq(Row)
    BY <2>1
  <2> QED BY <2>2 DEF Row
<1>4. RowsToLoad(scored) = RowsWritten(scored, E)
  <2>1. Null \in C /\ E = {scored[i].entity : i \in DOMAIN scored}
    OBVIOUS
  <2> HIDE DEF E, C
  <2> QED BY <1>3, <2>1, LastWriteIsLoaded
<1> QED BY <1>4 DEF Loaded

\* For batches of any length, the table holds what writing the batch row by row
\* would have left in it.
THEOREM LastWriteWinsHolds == Spec => []LastWriteWins
<1>1. LastWriteWins <=> (rule = "load" => Loaded(given, result))
  BY DEF LastWriteWins, Loaded, RowsWritten, Written
<1>2. Init => (rule = "load" => Loaded(given, result))
  BY DEF Init
<1>3. (rule = "load" => Loaded(given, result)) /\ [Next]_vars
        => (rule = "load" => Loaded(given, result))'
  <2> SUFFICES ASSUME rule = "load" => Loaded(given, result), [Next]_vars, rule' = "load"
               PROVE  Loaded(given', result')
    OBVIOUS
  <2>1. CASE LoadBatch
    <3>1. PICK scored \in ScoredBatches : given' = scored /\ result' = RowsToLoad(scored)
      BY <2>1 DEF LoadBatch, Call
    <3> QED BY <3>1, BatchIsLoaded
  <2>2. CASE UNCHANGED vars
    BY <2>2 DEF vars
  <2> QED BY <2>1, <2>2 DEF Next, ReshapeTables, FitAndAlign, ValidateTraining,
                            PointInTime, Return, Call
<1> QED BY <1>1, <1>2, <1>3, PTL DEF Spec

-----------------------------------------------------------------------------
(***************************************************************************)
(* The alignment of a batch: what is kept of a sequence, the columns that  *)
(* a frame lacks, and the column of a name.                                *)
(***************************************************************************)
\* p[k]: what is kept of the first k elements.
KeptInTurn(p, seq, set) ==
  /\ p \in [0 .. Len(seq) -> Seq(set)]
  /\ p[0] = <<>>
  /\ \A k \in 1 .. Len(seq) :
       p[k] = IF seq[k] \in set THEN Append(p[k - 1], seq[k]) ELSE p[k - 1]
  /\ Only(seq, set) = p[Len(seq)]

\* Filtering goes through such a sequence of sequences.
LEMMA OnlyUnfolds ==
  ASSUME NEW E, NEW seq \in Seq(E), NEW set
  PROVE  \E p : KeptInTurn(p, seq, set)
<1> DEFINE n == Len(seq)
           V == Seq(set)
           Body(g, s) == IF s = {} THEN <<>>
                         ELSE IF seq[Max(s)] \in set
                              THEN Append(g[s \ {Max(s)}], seq[Max(s)])
                              ELSE g[s \ {Max(s)}]
           iter == CHOOSE g : g = [s \in SUBSET (1 .. n) |-> Body(g, s)]
           step == [i \in 1 .. n |-> [t \in V |->
                      IF seq[i] \in set THEN Append(t, seq[i]) ELSE t]]
<1>1. n \in Nat /\ DOMAIN seq = 1 .. n
  OBVIOUS
<1>2. <<>> \in V /\ step \in [1 .. n -> [V -> V]]
  OBVIOUS
<1>3. PICK h : IsFold(h, <<>>, n, V, step)
  <2> HIDE DEF step, n, V
  <2> QED BY <1>1, <1>2, FoldExists
<1>4. h = [s \in SUBSET (1 .. n) |-> Body(h, s)]
  <2>0. /\ h \in [SUBSET (1 .. n) -> V]
        /\ \A s \in SUBSET (1 .. n) :
             h[s] = IF s = {} THEN <<>> ELSE step[Max(s)][h[s \ {Max(s)}]]
    <3> HIDE DEF step, n, V
    <3> QED BY <1>3 DEF IsFold
  <2>1. ASSUME NEW s \in SUBSET (1 .. n) PROVE h[s] = Body(h, s)
    <3>1. CASE s = {}
      BY <2>0, <3>1
    <3>2. CASE s # {}
      <4> DEFINE m == Max(s)
                 t == h[s \ {m}]
      <4>1. m \in 1 .. n
        BY <1>1, <3>2, MaxOf
      <4>2. h[s] = step[m][t]
        BY <2>0, <3>2
      <4>3. t \in V
        BY <2>0
      <4>4. Body(h, s) = IF seq[m] \in set THEN Append(t, seq[m]) ELSE t
        BY <3>2
      <4> HIDE DEF m, t, Body
      <4>5. step[m][t] = IF seq[m] \in set THEN Append(t, seq[m]) ELSE t
        BY <4>1, <4>3
      <4> QED BY <4>2, <4>4, <4>5
    <3> QED BY <3>1, <3>2
  <2> HIDE DEF Body
  <2> QED BY <2>0, <2>1
<1>5. iter = [s \in SUBSET (1 .. n) |-> Body(iter, s)]
  <2> HIDE DEF Body
  <2> QED BY <1>4
<1> HIDE DEF iter
<1>6. ASSUME NEW k \in 1 .. n
      PROVE  iter[1 .. k] = IF seq[k] \in set THEN Append(iter[1 .. k - 1], seq[k])
                            ELSE iter[1 .. k - 1]
  <2>1. /\ 1 .. k \in SUBSET (1 .. n) /\ 1 .. k # {}
        /\ Max(1 .. k) = k /\ (1 .. k) \ {k} = 1 .. k - 1
    BY <1>1, PrefixSets
  <2>2. iter[1 .. k] = Body(iter, 1 .. k)
    <3> HIDE DEF Body
    <3> QED BY <1>5, <2>1
  <2> QED BY <2>1, <2>2
<1>7. iter[1 .. 0] = <<>>
  <2>1. 1 .. 0 = {} /\ {} \in SUBSET (1 .. n)
    OBVIOUS
  <2>2. iter[{}] = Body(iter, {})
    <3> HIDE DEF Body
    <3> QED BY <1>5, <2>1
  <2> QED BY <2>1, <2>2
<1>8. \A k \in Nat : k <= n => iter[1 .. k] \in V
  <2> DEFINE T == {k \in Nat : k <= n => iter[1 .. k] \in V}
  <2>1. 0 \in T
    BY <1>2, <1>7
  <2>2. ASSUME NEW k \in Nat, k \in T PROVE k + 1 \in T
    <3> SUFFICES ASSUME k + 1 <= n PROVE iter[1 .. k + 1] \in V
      OBVIOUS
    <3>1. k + 1 \in 1 .. n /\ (k + 1) - 1 = k /\ k <= n
      BY <1>1
    <3>2. iter[1 .. k] \in V
      BY <2>2, <3>1
    <3>3. iter[1 .. k + 1] = IF seq[k + 1] \in set
                             THEN Append(iter[1 .. k], seq[k + 1]) ELSE iter[1 .. k]
      BY <1>6, <3>1
    <3> QED BY <3>2, <3>3
  <2> HIDE DEF T
  <2>3. \A k \in Nat : k \in T
    BY <2>1, <2>2, NatSetInduction
  <2> QED BY <2>3 DEF T
<1>9. Only(seq, set) = iter[1 .. n]
  BY <1>1 DEF Only, FoldLeft, MapThenFoldSet, iter
<1> DEFINE p == [k \in 0 .. n |-> iter[1 .. k]]
<1>10. p \in [0 .. n -> V] /\ p[0] = <<>> /\ Only(seq, set) = p[n]
  BY <1>1, <1>7, <1>8, <1>9
<1>11. ASSUME NEW k \in 1 .. n
       PROVE  p[k] = IF seq[k] \in set THEN Append(p[k - 1], seq[k]) ELSE p[k - 1]
  <2>1. p[k] = iter[1 .. k] /\ p[k - 1] = iter[1 .. k - 1]
    BY <1>1
  <2> HIDE DEF p
  <2> QED BY <1>6, <2>1
<1>12. KeptInTurn(p, seq, set)
  <2> HIDE DEF p
  <2> QED BY <1>10, <1>11 DEF KeptInTurn
<1> QED BY <1>12

\* What is kept lies in the set.
LEMMA OnlyKeepsMembers ==
  ASSUME NEW E, NEW seq \in Seq(E), NEW set
  PROVE  Only(seq, set) \in Seq(set)
<1>1. PICK p : KeptInTurn(p, seq, set)
  BY OnlyUnfolds
<1>2. Len(seq) \in 0 .. Len(seq)
  OBVIOUS
<1> QED BY <1>1, <1>2 DEF KeptInTurn

\* If the set holds the first m elements and no other, they are what is kept.
LEMMA OnlyPrefix ==
  ASSUME NEW E, NEW seq \in Seq(E), NEW set, NEW m \in 0 .. Len(seq),
         \A i \in 1 .. Len(seq) : seq[i] \in set <=> i <= m
  PROVE  Only(seq, set) = [i \in 1 .. m |-> seq[i]]
<1> DEFINE n == Len(seq)
           upto(k) == IF k <= m THEN k ELSE m
           Shown(q, k) == q = [i \in 1 .. upto(k) |-> seq[i]]
<1>1. PICK p : KeptInTurn(p, seq, set)
  BY OnlyUnfolds
<1>2. n \in Nat /\ m \in Nat /\ m <= n
  OBVIOUS
<1>3. \A k \in Nat : k <= n => Shown(p[k], k)
  <2> DEFINE T == {k \in Nat : k <= n => Shown(p[k], k)}
  <2>1. 0 \in T
    BY <1>1, <1>2 DEF KeptInTurn
  <2>2. ASSUME NEW k \in Nat, k \in T PROVE k + 1 \in T
    <3> SUFFICES ASSUME k + 1 <= n PROVE Shown(p[k + 1], k + 1)
      OBVIOUS
    <3>1. k + 1 \in 1 .. n /\ (k + 1) - 1 = k /\ k <= n /\ k \in 0 .. n
      BY <1>2
    <3>2. Shown(p[k], k) /\ p[k] \in Seq(set)
      BY <1>1, <2>2, <3>1 DEF KeptInTurn
    <3>3. p[k + 1] = IF seq[k + 1] \in set THEN Append(p[k], seq[k + 1]) ELSE p[k]
      BY <1>1, <3>1 DEF KeptInTurn
    <3>4. CASE k + 1 <= m
      <4>1. p[k + 1] = Append(p[k], seq[k + 1]) /\ upto(k + 1) = k + 1 /\ upto(k) = k
        BY <1>2, <3>1, <3>3, <3>4
      <4>2. p[k] = [i \in 1 .. k |-> seq[i]] /\ Len(p[k]) = k
        BY <3>2, <4>1
      <4>3. Append(p[k], seq[k + 1]) = [i \in 1 .. k + 1 |-> seq[i]]
        BY <3>2, <4>2
      <4> QED BY <4>1, <4>3
    <3>5. CASE ~(k + 1 <= m)
      <4>1. p[k + 1] = p[k] /\ upto(k + 1) = m /\ upto(k) = m
        BY <1>2, <3>1, <3>3, <3>5
      <4> QED BY <3>2, <4>1
    <3> QED BY <3>4, <3>5
  <2> HIDE DEF T
  <2>3. \A k \in Nat : k \in T
    BY <2>1, <2>2, NatSetInduction
  <2> QED BY <2>3 DEF T
<1>4. Shown(p[n], n) /\ upto(n) = m
  BY <1>2, <1>3
<1> QED BY <1>1, <1>4 DEF KeptInTurn

\* The columns that a frame can have, of the names in N.
Cols(N) == [name : N, from : {"batch", "zero"}]

Zero(name) == [name |-> name, from |-> "zero"]

\* q[k]: the frame when the first k names have been looked for.
FilledInTurn(q, frame, names, N) ==
  /\ q \in [0 .. Len(names) -> Seq(Cols(N))]
  /\ q[0] = frame
  /\ \A k \in 1 .. Len(names) :
       q[k] = IF HasColumn(q[k - 1], names[k]) THEN q[k - 1]
              ELSE Append(q[k - 1], Zero(names[k]))
  /\ FillAbsent(frame, names) = q[Len(names)]

\* The loop of align_features goes through such a sequence of frames.
LEMMA FillUnfolds ==
  ASSUME NEW N, NEW names \in Seq(N), NEW frame \in Seq(Cols(N))
  PROVE  \E q : FilledInTurn(q, frame, names, N)
<1> DEFINE n == Len(names)
           V == Seq(Cols(N))
           Fill(t, name) == IF HasColumn(t, name) THEN t ELSE Append(t, Zero(name))
           Body(g, s) == IF s = {} THEN frame ELSE Fill(g[s \ {Max(s)}], names[Max(s)])
           iter == CHOOSE g : g = [s \in SUBSET (1 .. n) |-> Body(g, s)]
           step == [i \in 1 .. n |-> [t \in V |-> Fill(t, names[i])]]
<1>1. n \in Nat /\ DOMAIN names = 1 .. n
  OBVIOUS
<1>0. ASSUME NEW t \in V, NEW i \in 1 .. n PROVE Fill(t, names[i]) \in V
  <2>1. Zero(names[i]) \in Cols(N)
    <3>1. names[i] \in N
      OBVIOUS
    <3> QED BY <3>1 DEF Zero, Cols
  <2> QED BY <2>1
<1> HIDE DEF Fill
<1>2. frame \in V /\ step \in [1 .. n -> [V -> V]]
  <2> HIDE DEF V
  <2> QED BY <1>0 DEF V
<1>3. PICK h : IsFold(h, frame, n, V, step)
  <2> HIDE DEF step, n, V
  <2> QED BY <1>1, <1>2, FoldExists
<1>4. h = [s \in SUBSET (1 .. n) |-> Body(h, s)]
  <2>0. /\ h \in [SUBSET (1 .. n) -> V]
        /\ \A s \in SUBSET (1 .. n) :
             h[s] = IF s = {} THEN frame ELSE step[Max(s)][h[s \ {Max(s)}]]
    <3> HIDE DEF step, n, V
    <3> QED BY <1>3 DEF IsFold
  <2>1. ASSUME NEW s \in SUBSET (1 .. n) PROVE h[s] = Body(h, s)
    <3>1. CASE s = {}
      BY <2>0, <3>1
    <3>2. CASE s # {}
      <4> DEFINE m == Max(s)
                 t == h[s \ {m}]
      <4>1. m \in 1 .. n
        BY <1>1, <3>2, MaxOf
      <4>2. h[s] = step[m][t]
        BY <2>0, <3>2
      <4>3. t \in V
        BY <2>0
      <4>4. Body(h, s) = Fill(t, names[m])
        BY <3>2
      <4> HIDE DEF m, t, Body
      <4>5. step[m][t] = Fill(t, names[m])
        BY <4>1, <4>3
      <4> QED BY <4>2, <4>4, <4>5
    <3> QED BY <3>1, <3>2
  <2> HIDE DEF Body
  <2> QED BY <2>0, <2>1
<1>5. iter = [s \in SUBSET (1 .. n) |-> Body(iter, s)]
  <2> HIDE DEF Body
  <2> QED BY <1>4
<1> HIDE DEF iter
<1>6. ASSUME NEW k \in 1 .. n
      PROVE  iter[1 .. k] = Fill(iter[1 .. k - 1], names[k])
  <2>1. /\ 1 .. k \in SUBSET (1 .. n) /\ 1 .. k # {}
        /\ Max(1 .. k) = k /\ (1 .. k) \ {k} = 1 .. k - 1
    BY <1>1, PrefixSets
  <2>2. iter[1 .. k] = Body(iter, 1 .. k)
    <3> HIDE DEF Body
    <3> QED BY <1>5, <2>1
  <2> QED BY <2>1, <2>2
<1>7. iter[1 .. 0] = frame
  <2>1. 1 .. 0 = {} /\ {} \in SUBSET (1 .. n)
    OBVIOUS
  <2>2. iter[{}] = Body(iter, {})
    <3> HIDE DEF Body
    <3> QED BY <1>5, <2>1
  <2> QED BY <2>1, <2>2
<1>8. \A k \in Nat : k <= n => iter[1 .. k] \in V
  <2> DEFINE T == {k \in Nat : k <= n => iter[1 .. k] \in V}
  <2>1. 0 \in T
    BY <1>2, <1>7
  <2>2. ASSUME NEW k \in Nat, k \in T PROVE k + 1 \in T
    <3> SUFFICES ASSUME k + 1 <= n PROVE iter[1 .. k + 1] \in V
      OBVIOUS
    <3>1. k + 1 \in 1 .. n /\ (k + 1) - 1 = k /\ k <= n
      BY <1>1
    <3>2. iter[1 .. k] \in V
      BY <2>2, <3>1
    <3>3. iter[1 .. k + 1] = Fill(iter[1 .. k], names[k + 1])
      BY <1>6, <3>1
    <3> HIDE DEF V
    <3> QED BY <1>0, <3>1, <3>2, <3>3
  <2> HIDE DEF T
  <2>3. \A k \in Nat : k \in T
    BY <2>1, <2>2, NatSetInduction
  <2> QED BY <2>3 DEF T
<1>9. FillAbsent(frame, names) = iter[1 .. n]
  BY <1>1 DEF FillAbsent, FoldLeft, MapThenFoldSet, iter, Fill, Zero
<1> DEFINE q == [k \in 0 .. n |-> iter[1 .. k]]
<1>10. q \in [0 .. n -> V] /\ q[0] = frame /\ FillAbsent(frame, names) = q[n]
  BY <1>1, <1>7, <1>8, <1>9
<1>11. ASSUME NEW k \in 1 .. n PROVE q[k] = Fill(q[k - 1], names[k])
  <2>1. q[k] = iter[1 .. k] /\ q[k - 1] = iter[1 .. k - 1]
    BY <1>1
  <2> HIDE DEF q
  <2> QED BY <1>6, <2>1
<1>12. FilledInTurn(q, frame, names, N)
  <2> HIDE DEF q
  <2> QED BY <1>10, <1>11 DEF FilledInTurn, Fill
<1> QED BY <1>12

\* A frame has all the names, and its own columns are those of the batch.
Filled(out, batch, names, N) ==
  /\ out \in Seq(Cols(N))
  /\ \A i \in DOMAIN names : HasColumn(out, names[i])
  /\ \A i \in DOMAIN out : out[i].from = "batch" <=> Contains(batch, out[i].name)

\* By induction over the names.
LEMMA AbsentAreFilled ==
  ASSUME NEW N, NEW names \in Seq(N), NEW batch \in Seq(N)
  PROVE  Filled(FillAbsent(ColumnsNamed(batch), names), batch, names, N)
<1> DEFINE n == Len(names)
           frame == ColumnsNamed(batch)
           Own(out) == \A i \in DOMAIN out :
                         out[i].from = "batch" <=> Contains(batch, out[i].name)
           Has(out, k) == \A j \in 1 .. k : HasColumn(out, names[j])
           BatchHas(name) == Contains(batch, name)
<1>1. n \in Nat /\ DOMAIN names = 1 .. n
  OBVIOUS
<1>2. /\ frame \in Seq(Cols(N)) /\ Own(frame)
      /\ \A name : BatchHas(name) => HasColumn(frame, name)
  <2>1. /\ frame = [i \in 1 .. Len(batch) |-> [name |-> batch[i], from |-> "batch"]]
        /\ Len(batch) \in Nat
    BY DEF ColumnsNamed
  <2>2. frame \in Seq(Cols(N))
    <3>1. ASSUME NEW i \in 1 .. Len(batch)
          PROVE  [name |-> batch[i], from |-> "batch"] \in Cols(N)
      <4>1. batch[i] \in N
        OBVIOUS
      <4> QED BY <4>1 DEF Cols
    <3> QED BY <2>1, <3>1
  <2>3. Own(frame)
    BY <2>1 DEF Contains
  <2>4. ASSUME NEW name, BatchHas(name) PROVE HasColumn(frame, name)
    <3>1. PICK i \in 1 .. Len(batch) : batch[i] = name
      BY <2>4 DEF Contains
    <3>2. i \in DOMAIN frame /\ frame[i].name = name
      BY <2>1, <3>1
    <3> HIDE DEF frame
    <3> QED BY <3>2 DEF HasColumn
  <2> QED BY <2>2, <2>3, <2>4
<1> HIDE DEF frame
<1>3. PICK q : FilledInTurn(q, frame, names, N)
  BY <1>2, FillUnfolds
<1> DEFINE Good(k) == /\ Own(q[k]) /\ Has(q[k], k)
                      /\ \A name : BatchHas(name) => HasColumn(q[k], name)
<1> HIDE DEF BatchHas
<1>4. \A k \in Nat : k <= n => Good(k)
  <2> DEFINE T == {k \in Nat : k <= n => Good(k)}
  <2>1. 0 \in T
    BY <1>2, <1>3 DEF FilledInTurn
  <2>2. ASSUME NEW k \in Nat, k \in T PROVE k + 1 \in T
    <3> SUFFICES ASSUME k + 1 <= n PROVE Good(k + 1)
      OBVIOUS
    <3>1. k + 1 \in 1 .. n /\ (k + 1) - 1 = k /\ k <= n /\ k \in 0 .. n
      BY <1>1
    <3>2. Good(k) /\ q[k] \in Seq(Cols(N))
      BY <1>3, <2>2, <3>1 DEF FilledInTurn
    <3>3. q[k + 1] = IF HasColumn(q[k], names[k + 1]) THEN q[k]
                     ELSE Append(q[k], Zero(names[k + 1]))
      BY <1>3, <3>1 DEF FilledInTurn
    <3>4. ASSUME NEW j \in 1 .. k + 1 PROVE j \in 1 .. k \/ j = k + 1
      BY <3>1
    <3>5. CASE HasColumn(q[k], names[k + 1])
      BY <3>2, <3>3, <3>4, <3>5
    <3>6. CASE ~HasColumn(q[k], names[k + 1])
      <4> DEFINE t == q[k]
                 u == q[k + 1]
                 m == Len(t)
      <4>1. /\ m \in Nat /\ DOMAIN t = 1 .. m /\ DOMAIN u = 1 .. m + 1
            /\ \A i \in 1 .. m : u[i] = t[i]
            /\ u[m + 1] = Zero(names[k + 1])
        BY <3>2, <3>3, <3>6
      <4>2. \A name : HasColumn(t, name) => HasColumn(u, name)
        <5> HIDE DEF t, u, m
        <5> QED BY <4>1 DEF HasColumn
      <4>3. HasColumn(u, names[k + 1])
        <5> HIDE DEF t, u, m
        <5> QED BY <4>1 DEF HasColumn, Zero
      <4>4. ~BatchHas(names[k + 1])
        BY <3>2, <3>6
      <4>5. Own(u)
        <5>1. ASSUME NEW i \in 1 .. m + 1
              PROVE  u[i].from = "batch" <=> Contains(batch, u[i].name)
          <6>1. CASE i = m + 1
            <7> HIDE DEF t, u, m
            <7> QED BY <4>1, <4>4, <6>1 DEF Zero, BatchHas
          <6>2. CASE i # m + 1
            <7>1. i \in 1 .. m
              BY <4>1, <6>2
            <7>2. Own(t)
              BY <3>2
            <7> HIDE DEF t, u, m
            <7> QED BY <4>1, <7>1, <7>2
          <6> QED BY <6>1, <6>2
        <5> QED BY <4>1, <5>1
      <4>6. Has(u, k + 1)
        <5>1. Has(t, k)
          BY <3>2
        <5> HIDE DEF t, u, m
        <5> QED BY <3>4, <4>2, <4>3, <5>1
      <4>7. \A name : BatchHas(name) => HasColumn(u, name)
        <5>1. \A name : BatchHas(name) => HasColumn(t, name)
          BY <3>2
        <5> HIDE DEF t, u, m
        <5> QED BY <4>2, <5>1
      <4> QED BY <4>5, <4>6, <4>7
    <3> QED BY <3>5, <3>6
  <2> HIDE DEF T
  <2>3. \A k \in Nat : k \in T
    BY <2>1, <2>2, NatSetInduction
  <2> QED BY <2>3 DEF T
<1>5. Good(n) /\ q[n] \in Seq(Cols(N)) /\ FillAbsent(frame, names) = q[n]
  BY <1>1, <1>3, <1>4 DEF FilledInTurn
<1> QED BY <1>1, <1>5 DEF Filled, frame

\* The column of a name that a frame has is one of its columns, of that name.
LEMMA ColumnFound ==
  ASSUME NEW C, NEW frame \in Seq(C), NEW name, HasColumn(frame, name)
  PROVE  /\ Column(frame, name).name = name
         /\ \E i \in DOMAIN frame : Column(frame, name) = frame[i]
<1> DEFINE found == {i \in 1 .. Len(frame) : frame[i].name = name}
<1>1. Len(frame) \in Nat /\ DOMAIN frame = 1 .. Len(frame)
  OBVIOUS
<1>2. found # {}
  BY <1>1 DEF HasColumn
<1>3. Min(found) \in found
  <2> DEFINE T == {k \in Nat : \A j \in 0 .. k : j \notin found}
  <2> SUFFICES ASSUME \A x \in found : \E y \in found : ~(x <= y)
               PROVE  FALSE
    BY DEF Min
  <2>1. 0 \in T
    BY <1>1
  <2>2. ASSUME NEW k \in Nat, k \in T PROVE k + 1 \in T
    <3>1. \A y \in found : y >= k + 1
      BY <1>1, <2>2
    <3>2. k + 1 \notin found
      BY <1>1, <3>1
    <3> HIDE DEF found
    <3> QED BY <2>2, <3>2
  <2>3. \A k \in Nat : k \in T
    <3> HIDE DEF T
    <3> QED BY <2>1, <2>2, NatSetInduction
  <2>4. ASSUME NEW k \in Nat PROVE k \notin found
    <3>1. k \in T /\ k \in 0 .. k
      <4> HIDE DEF T
      <4> QED BY <2>3
    <3> HIDE DEF found
    <3> QED BY <3>1
  <2> QED BY <1>1, <1>2, <2>4
<1>4. Column(frame, name) = frame[Min(found)]
  BY <1>2 DEF Column, SelectInSeq
<1> QED BY <1>1, <1>3, <1>4

\* What the trainer fits on has neither the key nor the target.
LEMMA ContractIsFeatures ==
  ASSUME NEW fit \in FitFrames, NEW numeric
  PROVE  FeatureColumnsOf(ColumnsNamed(fit), numeric)
           \in Seq(ToSet(fit) \ {Key, Target})
<1> DEFINE frame == ColumnsNamed(fit)
           own   == {c \in ToSet(frame) : c.name \notin {Key, Target}}
           kept  == Only(frame, own)
           nums  == {c \in ToSet(kept) : c.name \in numeric}
           chosen == Only(kept, nums)
<1>1. fit \in Seq(ToSet(fit))
  BY RulesAssumption
<1>2. /\ frame = [i \in 1 .. Len(fit) |-> [name |-> fit[i], from |-> "batch"]]
      /\ Len(fit) \in Nat
  BY <1>1 DEF ColumnsNamed
<1>3. frame \in Seq(ToSet(frame)) /\ \A c \in ToSet(frame) : c.name \in ToSet(fit)
  <2>1. /\ DOMAIN frame = 1 .. Len(fit)
        /\ \A i \in 1 .. Len(fit) : frame[i].name = fit[i]
        /\ DOMAIN fit = 1 .. Len(fit)
    BY <1>1, <1>2
  <2>2. \A i \in 1 .. Len(fit) : frame[i] \in ToSet(frame)
    <3> HIDE DEF frame
    <3> QED BY <2>1 DEF ToSet
  <2>3. frame = [i \in 1 .. Len(fit) |-> frame[i]]
    BY <1>2
  <2> HIDE DEF frame
  <2>4. frame \in Seq(ToSet(frame))
    BY <1>2, <2>2, <2>3
  <2>5. \A c \in ToSet(frame) : c.name \in ToSet(fit)
    BY <2>1 DEF ToSet
  <2> QED BY <2>4, <2>5
<1> HIDE DEF frame
<1>4. kept \in Seq(own)
  <2> HIDE DEF own
  <2> QED BY <1>3, OnlyKeepsMembers
<1>5. chosen \in Seq(nums)
  <2> HIDE DEF own, kept, nums
  <2> QED BY <1>4, OnlyKeepsMembers
<1>6. ToSet(kept) \subseteq own
  <2> HIDE DEF own, kept
  <2> QED BY <1>4 DEF ToSet
<1>7. \A c \in nums : c.name \in ToSet(fit) \ {Key, Target}
  <2> HIDE DEF kept
  <2> QED BY <1>3, <1>6
<1>8. NamesOf(chosen) \in Seq(ToSet(fit) \ {Key, Target})
  <2> HIDE DEF nums, chosen
  <2>1. /\ Len(chosen) \in Nat /\ NamesOf(chosen) = [i \in 1 .. Len(chosen) |-> chosen[i].name]
        /\ \A i \in 1 .. Len(chosen) : chosen[i] \in nums
    BY <1>5 DEF NamesOf
  <2> QED BY <1>7, <2>1
<1>9. FeatureColumnsOf(frame, numeric) = NamesOf(chosen)
  BY DEF FeatureColumnsOf, NumericFeatures, TrainingFrame, Drop
<1> QED BY <1>8, <1>9 DEF frame

\* Selecting names that a frame has.
Selected(s, out, names) ==
  /\ s = [i \in 1 .. Len(names) |-> s[i]] /\ Len(s) = Len(names)
  /\ \A i \in 1 .. Len(names) :
       /\ s[i] = Column(out, names[i]) /\ s[i].name = names[i]
       /\ \E j \in DOMAIN out : s[i] = out[j]

\* A frame that has the names is projected to them.
LEMMA SelectFinds ==
  ASSUME NEW C, NEW out \in Seq(C), NEW N, NEW names \in Seq(N),
         \A i \in DOMAIN names : HasColumn(out, names[i])
  PROVE  Selected(Select(out, names), out, names) /\ Select(out, names) \in Seq(C)
<1>1. /\ Len(names) \in Nat /\ DOMAIN names = 1 .. Len(names)
      /\ Select(out, names) = [i \in 1 .. Len(names) |-> Column(out, names[i])]
  BY DEF Select
<1>2. ASSUME NEW i \in 1 .. Len(names)
      PROVE  /\ Column(out, names[i]).name = names[i]
             /\ \E j \in DOMAIN out : Column(out, names[i]) = out[j]
  BY <1>1, ColumnFound
<1>3. ASSUME NEW i \in 1 .. Len(names) PROVE Column(out, names[i]) \in C
  BY <1>2
<1> QED BY <1>1, <1>2, <1>3 DEF Selected

\* shaping.py selects more and drops it again.
LEMMA GuardsAgree ==
  ASSUME NEW N, NEW names \in Seq(N \ {Key, Target}), NEW batch \in Seq(N)
  PROVE  SplitFeatures(ApplyCanonicalOrder(ColumnsNamed(batch), names, <<Key, Target>>))
           = AlignFeatures(ColumnsNamed(batch), names)
<1> DEFINE out  == FillAbsent(ColumnsNamed(batch), names)
           more == {c \in ToSet(<<Key, Target>>) :
                      HasColumn(out, c) /\ ~Contains(names, c)}
           kept == Only(<<Key, Target>>, more)
           both == names \o kept
           all  == Select(out, both)
           feats == {c \in ToSet(all) : c.name \notin {Key, Target}}
           m == Len(names)
           M == N \cup {Key, Target}
<1>1. Filled(out, batch, names, N)
  <2>1. names \in Seq(N)
    OBVIOUS
  <2> QED BY <2>1, AbsentAreFilled
<1> HIDE DEF out
<1>2. kept \in Seq(more)
  <2>1. <<Key, Target>> \in Seq({Key, Target})
    OBVIOUS
  <2> HIDE DEF more
  <2> QED BY <2>1, OnlyKeepsMembers
<1>3. more \subseteq {Key, Target} /\ \A c \in more : HasColumn(out, c)
  BY DEF ToSet
<1> HIDE DEF more, kept
<1>4. /\ both \in Seq(M) /\ m \in Nat /\ m <= Len(both)
      /\ \A i \in 1 .. m : both[i] = names[i] /\ both[i] \notin {Key, Target}
      /\ \A i \in 1 .. Len(both) : i > m => both[i] \in more
  <2>1. /\ Len(kept) \in Nat /\ m \in Nat /\ Len(both) = m + Len(kept)
        /\ both \in Seq(M)
        /\ \A i \in 1 .. m + Len(kept) :
             both[i] = IF i <= m THEN names[i] ELSE kept[i - m]
    <3>1. names \in Seq(M) /\ kept \in Seq(M)
      BY <1>2, <1>3
    <3> HIDE DEF M
    <3> QED BY <3>1, ConcatProperties
  <2>2. \A i \in 1 .. m : names[i] \in N \ {Key, Target}
    OBVIOUS
  <2>3. \A i \in 1 .. Len(kept) : kept[i] \in more
    BY <1>2
  <2>4. ASSUME NEW i \in 1 .. m + Len(kept)
        PROVE  /\ i <= m => both[i] = names[i]
               /\ i > m => both[i] \in more
    <3>1. i > m => i - m \in 1 .. Len(kept) /\ ~(i <= m)
      BY <2>1
    <3> HIDE DEF both, m
    <3> QED BY <2>1, <2>3, <3>1
  <2> HIDE DEF m, both
  <2> QED BY <2>1, <2>2, <2>4
<1>5. \A i \in DOMAIN both : HasColumn(out, both[i])
  <2>1. DOMAIN both = 1 .. Len(both) /\ DOMAIN names = 1 .. m
    BY <1>4
  <2>2. ASSUME NEW i \in 1 .. Len(both) PROVE HasColumn(out, both[i])
    <3>1. CASE i <= m
      <4>1. i \in 1 .. m
        BY <1>4, <3>1
      <4> HIDE DEF both
      <4> QED BY <1>1, <1>4, <2>1, <4>1 DEF Filled
    <3>2. CASE ~(i <= m)
      <4>1. i > m
        BY <1>4, <3>2
      <4> HIDE DEF both, m
      <4> QED BY <1>3, <1>4, <4>1
    <3> QED BY <3>1, <3>2
  <2> QED BY <2>1, <2>2
<1>6. Selected(all, out, both) /\ all \in Seq(Cols(N))
  <2>1. out \in Seq(Cols(N)) /\ both \in Seq(M)
    BY <1>1, <1>4 DEF Filled
  <2> HIDE DEF both, M
  <2> QED BY <1>5, <2>1, SelectFinds
<1> HIDE DEF both, all
<1>7. \A i \in 1 .. Len(all) : all[i] \in feats <=> i <= m
  <2> SUFFICES ASSUME NEW i \in 1 .. Len(all) PROVE all[i] \in feats <=> i <= m
    OBVIOUS
  <2>1. i \in 1 .. Len(both) /\ all[i].name = both[i] /\ all[i] \in ToSet(all)
    BY <1>6 DEF Selected, ToSet
  <2>2. CASE i <= m
    <3>1. i \in 1 .. m
      BY <1>4, <2>1, <2>2
    <3> HIDE DEF m
    <3> QED BY <1>4, <2>1, <2>2, <3>1
  <2>3. CASE ~(i <= m)
    <3>1. i > m
      BY <1>4, <2>1, <2>3
    <3> HIDE DEF m
    <3> QED BY <1>3, <1>4, <2>1, <2>3, <3>1
  <2> QED BY <2>2, <2>3
<1>8. Only(all, feats) = [i \in 1 .. m |-> all[i]]
  <2>1. m \in 0 .. Len(all)
    BY <1>4, <1>6 DEF Selected
  <2> HIDE DEF feats, m
  <2> QED BY <1>6, <1>7, <2>1, OnlyPrefix
<1>9. [i \in 1 .. m |-> all[i]] = Select(out, names)
  <2>1. Select(out, names) = [i \in 1 .. m |-> Column(out, names[i])]
    BY DEF Select
  <2>2. \A i \in 1 .. m : all[i] = Column(out, names[i])
    <3>1. \A i \in 1 .. m : i \in 1 .. Len(both)
      BY <1>4
    <3> HIDE DEF m
    <3> QED BY <1>4, <1>6, <3>1 DEF Selected
  <2> QED BY <2>1, <2>2
<1>10. SplitFeatures(ApplyCanonicalOrder(ColumnsNamed(batch), names, <<Key, Target>>))
         = Only(all, feats)
  BY DEF SplitFeatures, Drop, ApplyCanonicalOrder, out, all, both, kept, more
<1>11. AlignFeatures(ColumnsNamed(batch), names) = Select(out, names)
  BY DEF AlignFeatures, out
<1> QED BY <1>8, <1>9, <1>10, <1>11

\* What NoSkew says of one call.
Aligned(call, answer) ==
  /\ NamesOf(answer.aligned) = call.contract
  /\ \A i \in DOMAIN answer.aligned :
       answer.aligned[i].from = "batch" <=> Contains(call.batch, call.contract[i])
  /\ answer.shaped = answer.aligned

\* What align_features returns, for any batch and any contract without the key
\* and the target.
LEMMA BatchIsAligned ==
  ASSUME NEW N, NEW names \in Seq(N \ {Key, Target}), NEW batch \in Seq(N)
  PROVE  Aligned([contract |-> names, batch |-> batch],
                 [aligned |-> AlignFeatures(ColumnsNamed(batch), names),
                  shaped  |-> SplitFeatures(ApplyCanonicalOrder(
                                ColumnsNamed(batch), names, <<Key, Target>>))])
<1> DEFINE out == FillAbsent(ColumnsNamed(batch), names)
           aligned == AlignFeatures(ColumnsNamed(batch), names)
<1>1. names \in Seq(N)
  OBVIOUS
<1>2. Filled(out, batch, names, N)
  BY <1>1, AbsentAreFilled
<1>3. aligned = Select(out, names)
  BY DEF AlignFeatures
<1> HIDE DEF out, aligned
<1>4. Selected(aligned, out, names)
  BY <1>1, <1>2, <1>3, SelectFinds DEF Filled
<1>5. /\ Len(names) \in Nat /\ DOMAIN aligned = 1 .. Len(names)
      /\ names = [i \in 1 .. Len(names) |-> names[i]]
  BY <1>1, <1>4 DEF Selected
<1>6. NamesOf(aligned) = names
  <2>1. NamesOf(aligned) = [i \in 1 .. Len(names) |-> aligned[i].name]
    BY <1>5 DEF NamesOf
  <2> QED BY <1>4, <1>5, <2>1 DEF Selected
<1>7. ASSUME NEW i \in DOMAIN aligned
      PROVE  aligned[i].from = "batch" <=> Contains(batch, names[i])
  BY <1>2, <1>4, <1>5 DEF Selected, Filled
<1>8. SplitFeatures(ApplyCanonicalOrder(ColumnsNamed(batch), names, <<Key, Target>>))
        = aligned
  BY GuardsAgree DEF aligned
<1> QED BY <1>6, <1>7, <1>8 DEF Aligned, aligned

\* As for the other functions above.
LEMMA FitOrElsewhere ==
  ASSUME [Next]_vars PROVE FitAndAlign \/ Elsewhere("align")
BY DEF Next, vars, Elsewhere, ReshapeTables, ValidateTraining, PointInTime,
       LoadBatch, Return, Call

\* For frames of any columns, a model is scored with the columns it was fitted
\* on, in their order, the batch's own where it has them, and shaping.py would
\* have given it the same.
THEOREM NoSkewHolds == Spec => []NoSkew
<1>1. NoSkew <=> (rule = "align" => Aligned(given, result))
  BY DEF NoSkew, Aligned
<1>2. Init => (rule = "align" => Aligned(given, result))
  BY DEF Init
<1>3. (rule = "align" => Aligned(given, result)) /\ [Next]_vars
        => (rule = "align" => Aligned(given, result))'
  <2> SUFFICES ASSUME rule = "align" => Aligned(given, result),
                      [Next]_vars, rule' = "align"
               PROVE  Aligned(given', result')
    BY DEF Aligned
  <2>1. CASE FitAndAlign
    <3>1. PICK fit \in FitFrames, batch \in BatchFrames, numeric \in NumericSets :
            LET contract == FeatureColumnsOf(ColumnsNamed(fit), numeric)
                frame    == ColumnsNamed(batch)
            IN  Call("align", [contract |-> contract, batch |-> batch],
                     [aligned |-> AlignFeatures(frame, contract),
                      shaped  |-> SplitFeatures(
                                    ApplyCanonicalOrder(frame, contract, <<Key, Target>>))])
      BY <2>1 DEF FitAndAlign
    <3> DEFINE contract == FeatureColumnsOf(ColumnsNamed(fit), numeric)
               N == ToSet(fit) \cup ToSet(batch)
    <3>2. contract \in Seq(N \ {Key, Target}) /\ batch \in Seq(N)
      <4>1. contract \in Seq(ToSet(fit) \ {Key, Target})
        BY ContractIsFeatures
      <4>2. ToSet(fit) \ {Key, Target} \subseteq N \ {Key, Target} /\ ToSet(batch) \subseteq N
        OBVIOUS
      <4>3. batch \in Seq(ToSet(batch))
        BY RulesAssumption
      <4> HIDE DEF contract, N
      <4> QED BY <4>1, <4>2, <4>3
    <3>3. /\ given' = [contract |-> contract, batch |-> batch]
          /\ result' = [aligned |-> AlignFeatures(ColumnsNamed(batch), contract),
                        shaped  |-> SplitFeatures(ApplyCanonicalOrder(
                                      ColumnsNamed(batch), contract, <<Key, Target>>))]
      BY <3>1 DEF Call
    <3> HIDE DEF contract, N
    <3> QED BY <3>2, <3>3, BatchIsAligned
  <2>2. CASE Elsewhere("align")
    BY <2>2 DEF Elsewhere, vars
  <2> QED BY <2>1, <2>2, FitOrElsewhere
<1> QED BY <1>1, <1>2, <1>3, PTL DEF Spec
=============================================================================
