-------------------------- MODULE OnlineStoreProofs -------------------------
(***************************************************************************)
(* Proofs about OnlineStore for any number of loads, readers and entities. *)
(* AllOrNothing and NeverWiped hold on both databases; the swap promised   *)
(* by ServingTable is implemented where one transaction writes at a time   *)
(* (SQLite) or any two batches overlap, and so a summary is plausible.     *)
(***************************************************************************)
EXTENDS OnlineStore, FiniteSetTheorems, TLAPS

-----------------------------------------------------------------------------
LEMMA InitTypeOK == Init => TypeOK
  BY StoreAssumption DEF Init, TypeOK, Empty, Stages, Begun

LEMMA ReleaseType ==
  ASSUME TypeOK, NEW w \in Loads, Release(w)
  PROVE  /\ snapshot' \in [Loads -> [Entities -> Loads \cup {NoRow}]]
         /\ claimed' \in [Loads -> SUBSET Entities]
         /\ inserted' \in [Loads -> SUBSET Entities]
  BY DEF TypeOK, Release, Empty

\* Every step keeps the shape of the state.
LEMMA TypeOKStep == TypeOK /\ [Next]_vars => TypeOK'
<1> SUFFICES ASSUME TypeOK, [Next]_vars PROVE TypeOK'
  OBVIOUS
<1> USE StoreAssumption DEF TypeOK, Goto, request, transaction, readers,
        Stages, Begun
<1>1. ASSUME NEW w \in Loads, StartLoad(w) PROVE TypeOK'
  <2>1. PICK rows \in Batches : /\ batch' = [batch EXCEPT ![w] = rows]
                                /\ Goto(w, AfterScoring(rows))
    BY <1>1 DEF StartLoad
  <2>2. rows \in SUBSET Entities /\ AfterScoring(rows) \in {"count", "ready"}
    BY DEF AfterScoring
  <2> QED
    BY <1>1, <2>1, <2>2 DEF StartLoad
<1>2. ASSUME NEW w \in Loads, StartDelete(w) PROVE TypeOK'
  BY <1>2 DEF StartDelete
<1>3. ASSUME NEW w \in Loads, FinishDelete(w) PROVE TypeOK'
  <2>1. ToDelete(w) \in SUBSET Entities
    BY DEF ToDelete, Found
  <2> QED
    BY <1>3, <2>1 DEF FinishDelete
<1>4. ASSUME NEW w \in Loads, InsertRow(w) PROVE TypeOK'
  BY <1>4 DEF InsertRow, Remaining
<1>5. ASSUME NEW w \in Loads, Rollback(w) PROVE TypeOK'
  BY <1>5, ReleaseType DEF Rollback
<1>6. ASSUME NEW w \in Loads, Commit(w) PROVE TypeOK'
  BY <1>6, ReleaseType DEF Commit, CommittedRow
<1>7. ASSUME NEW w \in Loads, CountRows(w) PROVE TypeOK'
  BY <1>7 DEF CountRows
<1>8. ASSUME NEW w \in Loads, CountVersions(w) PROVE TypeOK'
  BY <1>8 DEF CountVersions, VersionProblems
<1>9. ASSUME NEW q \in Readers, Summarize(q) PROVE TypeOK'
  <2>1. Cardinality(Live) \in Nat
    BY FS_Subset, FS_CardinalityType DEF Live
  <2>2. ServedModels \in SUBSET Models
    BY DEF ServedModels, Live
  <2>3. answer[q] \in [total : Nat, versions : SUBSET Models, counted : Nat]
    BY DEF TypeOK
  <2>4. CASE SummaryTotal(q)
    BY <2>1, <2>4 DEF SummaryTotal
  <2>5. CASE SummaryVersions(q)
    BY <2>2, <2>3, <2>5 DEF SummaryVersions
  <2>6. CASE SummaryClasses(q)
    BY <2>1, <2>3, <2>6 DEF SummaryClasses
  <2>7. CASE SummaryAgain(q)
    BY <2>7 DEF SummaryAgain
  <2> QED
    BY <1>9, <2>4, <2>5, <2>6, <2>7 DEF Summarize
<1>10. CASE UNCHANGED vars
  BY <1>10 DEF vars
<1> QED
  BY <1>1, <1>2, <1>3, <1>4, <1>5, <1>6, <1>7, <1>8, <1>9, <1>10
     DEF Next, Progress, DuplicateKey, Deadlock, Fail

\* The state keeps its shape, on either database.
THEOREM TypeCorrect == Spec => []TypeOK
  BY InitTypeOK, TypeOKStep, PTL DEF Spec

-----------------------------------------------------------------------------
(***************************************************************************)
(* AllOrNothing is not inductive: that a commit takes a load's rows away   *)
(* all together depends on what its DELETE saw and claimed.                *)
(***************************************************************************)
\* A table t serves load w whole or not at all.
Whole(w, t) == \A d, e \in Entities : t[d] = w => (t[e] = w <=> e \in batch[w])

Uncommitted == {"new", "ready", "deleting", "inserting"}

\* Only a transaction in progress holds keys, of rows it may touch.
Locks ==
  /\ \A w \in Loads : stage[w] # "inserting" => claimed[w] = {} /\ inserted[w] = {}
  /\ \A w \in Loads : inserted[w] \subseteq batch[w]
  /\ \A u, w \in Loads : \A e \in Entities :
       HeldBy(u, e) /\ HeldBy(w, e) => u = w
  /\ \A w \in Loads : \A e \in claimed[w] : table[e] # NoRow
  /\ \A w \in Loads : \A e \in inserted[w] : table[e] = NoRow \/ e \in claimed[w]

\* Before it commits, nothing of a load is visible or in a snapshot; a load
\* that swaps has rows.
Unseen ==
  \A w \in Loads :
    /\ stage[w] # "new" => batch[w] \in Batches
    /\ stage[w] \in {"ready", "deleting", "inserting"} => batch[w] # {}
    /\ stage[w] \in Uncommitted =>
         \A e \in Entities : table[e] # w /\ \A u \in Loads : snapshot[u][e] # w

\* Committed rows, the rows a DELETE saw, and those it claimed, are those of
\* whole loads.
WholeLoads ==
  \A w \in Loads :
    /\ Whole(w, table)
    /\ \A u \in Loads :
         /\ Whole(w, snapshot[u])
         /\ \A d, e \in Entities :
              table[d] = w /\ table[e] = w /\ d \in claimed[u] => e \in claimed[u]

IInv == TypeOK /\ Locks /\ Unseen /\ WholeLoads

LEMMA InitIInv == Init => IInv
<1> SUFFICES ASSUME Init PROVE IInv
  OBVIOUS
<1>1. TypeOK
  BY InitTypeOK
<1>2. Locks
  BY DEF Init, Locks, HeldBy
<1>3. Unseen
  BY StoreAssumption DEF Init, Unseen, Empty
<1>4. WholeLoads
  BY StoreAssumption DEF Init, WholeLoads, Whole, Empty
<1> QED
  BY <1>1, <1>2, <1>3, <1>4 DEF IInv

LEMMA StartLoadIInv ==
  ASSUME IInv, TypeOK', NEW w \in Loads, StartLoad(w)
  PROVE  IInv'
<1>1. PICK rows \in Batches :
        /\ stage[w] = "new"
        /\ batch' = [batch EXCEPT ![w] = rows]
        /\ stage' = [stage EXCEPT ![w] = IF rows = {} THEN "count" ELSE "ready"]
        /\ UNCHANGED <<table, snapshot, claimed, inserted>>
  BY DEF StartLoad, AfterScoring, Goto, transaction
<1> USE <1>1 DEF IInv, TypeOK
<1>2. Locks'
  BY DEF Locks, HeldBy
<1>3. Unseen'
  BY DEF Unseen, Uncommitted
<1>4. WholeLoads'
  BY DEF WholeLoads, Whole, Unseen, Uncommitted
<1> QED
  BY <1>2, <1>3, <1>4

LEMMA StartDeleteIInv ==
  ASSUME IInv, TypeOK', NEW w \in Loads, StartDelete(w)
  PROVE  IInv'
<1> USE DEF IInv, TypeOK, StartDelete, Goto, request
<1>1. Locks'
  BY DEF Locks, HeldBy
<1>2. Unseen'
  BY DEF Unseen, Uncommitted
<1>3. WholeLoads'
  BY DEF WholeLoads, Whole
<1> QED
  BY <1>1, <1>2, <1>3

LEMMA FinishDeleteIInv ==
  ASSUME IInv, TypeOK', NEW w \in Loads, FinishDelete(w)
  PROVE  IInv'
<1> USE DEF IInv, TypeOK, FinishDelete, Goto, request, ToDelete, Found
<1>1. \A u \in Loads \ {w} : \A e \in Found(w) : ~HeldBy(u, e)
  <2> SUFFICES ASSUME NEW u \in Loads \ {w}, NEW e \in Found(w), HeldBy(u, e)
               PROVE  FALSE
    OBVIOUS
  <2>1. e \in Entities /\ table[e] # NoRow
    OBVIOUS
  <2>2. e \in claimed[u]
    BY <2>1 DEF HeldBy, Locks
  <2> QED
    BY <2>2 DEF DeleteWaitsFor
<1>2. Locks'
  BY <1>1 DEF Locks, HeldBy
<1>3. Unseen'
  BY DEF Unseen, Uncommitted
<1>4. WholeLoads'
  BY DEF WholeLoads, Whole
<1> QED
  BY <1>2, <1>3, <1>4

LEMMA InsertRowIInv ==
  ASSUME IInv, TypeOK', NEW w \in Loads, InsertRow(w)
  PROVE  IInv'
<1> USE DEF IInv, TypeOK, InsertRow, request
<1>1. Locks'
  BY DEF Locks, HeldBy, InsertWaitsFor, Remaining
<1>2. Unseen'
  BY DEF Unseen, Uncommitted
<1>3. WholeLoads'
  BY DEF WholeLoads, Whole
<1> QED
  BY <1>1, <1>2, <1>3

LEMMA RollbackIInv ==
  ASSUME IInv, TypeOK', NEW w \in Loads, Rollback(w), stage[w] # "new"
  PROVE  IInv'
<1> USE StoreAssumption DEF IInv, TypeOK, Rollback, Release, Goto, request, Empty
<1>1. Locks'
  BY DEF Locks, HeldBy
<1>2. Unseen'
  BY DEF Unseen, Uncommitted
<1>3. WholeLoads'
  BY DEF WholeLoads, Whole
<1> QED
  BY <1>1, <1>2, <1>3

LEMMA CommitIInv ==
  ASSUME IInv, TypeOK', NEW w \in Loads, Commit(w)
  PROVE  IInv'
<1>1. inserted[w] = batch[w]
  <2>1. inserted[w] \subseteq batch[w] /\ batch[w] \ inserted[w] = {}
    BY DEF IInv, Locks, Commit, ReadyToCommit, Remaining
  <2> QED
    BY <2>1
<1> USE StoreAssumption DEF IInv, TypeOK, Commit, Release, Goto, request, Empty,
        ReadyToCommit
<1>2. \A e \in Entities :
        /\ e \in inserted[w] => table'[e] = w
        /\ e \in claimed[w] \ inserted[w] => table'[e] = NoRow
        /\ ~HeldBy(w, e) => table'[e] = table[e]
  <2> SUFFICES ASSUME NEW e \in Entities
               PROVE  /\ e \in inserted[w] => table'[e] = w
                      /\ e \in claimed[w] \ inserted[w] => table'[e] = NoRow
                      /\ ~HeldBy(w, e) => table'[e] = table[e]
    OBVIOUS
  <2>1. table'[e] = CommittedRow(w, e)
    OBVIOUS
  <2> HIDE DEF Commit
  <2>2. CASE e \in inserted[w]
    BY <2>1, <2>2 DEF CommittedRow, HeldBy
  <2>3. CASE e \in claimed[w] \ inserted[w]
    BY <2>1, <2>3 DEF CommittedRow, HeldBy
  <2>4. CASE ~HeldBy(w, e)
    BY <2>1, <2>4 DEF CommittedRow, HeldBy
  <2> QED
    BY <2>2, <2>3, <2>4 DEF HeldBy
<1>3. \A u \in Loads \ {w} : \A e \in Entities : HeldBy(u, e) => table'[e] = table[e]
  BY <1>2 DEF Locks
<1>4. Locks'
  <2>1. \A u \in Loads \ {w} : claimed'[u] = claimed[u] /\ inserted'[u] = inserted[u]
    OBVIOUS
  <2>2. claimed'[w] = {} /\ inserted'[w] = {}
    OBVIOUS
  <2> QED
    BY <1>3, <2>1, <2>2 DEF Locks, HeldBy
<1>5. Unseen'
  BY <1>2 DEF Unseen, Uncommitted, HeldBy
<1>6. ASSUME NEW x \in Loads \ {w}, NEW d \in Entities, table'[d] = x
      PROVE  /\ table[d] = x
             /\ \A e \in Entities : table[e] = x => table'[e] = x
  <2>1. table[d] = x /\ ~HeldBy(w, d)
    BY <1>2, <1>6 DEF HeldBy
  <2>2. ASSUME NEW e \in Entities, table[e] = x PROVE ~HeldBy(w, e)
    BY <2>1, <2>2 DEF WholeLoads, HeldBy, Locks
  <2> QED
    BY <1>2, <2>1, <2>2
<1>7. ASSUME NEW x \in Loads PROVE Whole(x, table)'
  <2>1. CASE x = w
    BY <1>1, <1>2, <2>1 DEF Whole, Unseen, Uncommitted, HeldBy
  <2>2. CASE x # w
    BY <1>2, <1>6, <2>2 DEF Whole, WholeLoads, HeldBy
  <2> QED
    BY <2>1, <2>2
<1>8. ASSUME NEW x \in Loads, NEW u \in Loads PROVE Whole(x, snapshot[u])'
  BY DEF Whole, WholeLoads
<1>9. ASSUME NEW x \in Loads, NEW u \in Loads, NEW d \in Entities, NEW e \in Entities,
             table'[d] = x, table'[e] = x, d \in claimed'[u]
      PROVE  e \in claimed'[u]
  <2>1. u # w /\ claimed'[u] = claimed[u] /\ table'[d] = table[d]
    BY <1>3, <1>9 DEF HeldBy
  <2>2. x # w
    BY <1>9, <2>1 DEF Unseen, Uncommitted
  <2>3. table[e] = x
    BY <1>6, <1>9, <2>2
  <2> QED
    BY <1>9, <2>1, <2>3 DEF WholeLoads
<1>10. WholeLoads'
  BY <1>7, <1>8, <1>9 DEF WholeLoads
<1> QED
  BY <1>4, <1>5, <1>10

\* Every step keeps the inductive invariant.
LEMMA IInvStep == IInv /\ [Next]_vars => IInv'
<1> SUFFICES ASSUME IInv, [Next]_vars PROVE IInv'
  OBVIOUS
<1>1. TypeOK'
  BY TypeOKStep DEF IInv
<1>2. ASSUME NEW w \in Loads, Rollback(w), stage[w] # "new" PROVE IInv'
  BY <1>1, <1>2, RollbackIInv
<1>3. ASSUME UNCHANGED <<table, batch, snapshot, claimed, inserted>>,
             \/ stage' = stage
             \/ \E w \in Loads :
                  /\ stage[w] \in {"count", "versions"}
                  /\ \/ Goto(w, "versions")
                     \/ Goto(w, "done")
      PROVE  IInv'
  <2> USE <1>1, <1>3 DEF IInv, TypeOK, Goto
  <2>1. Locks'
    BY DEF Locks, HeldBy
  <2>2. Unseen'
    BY DEF Unseen, Uncommitted
  <2>3. WholeLoads'
    BY DEF WholeLoads, Whole
  <2> QED
    BY <2>1, <2>2, <2>3
<1>4. ASSUME NEW w \in Loads, CountRows(w) \/ CountVersions(w) PROVE IInv'
  BY <1>3, <1>4 DEF CountRows, CountVersions, request, transaction
<1>5. ASSUME NEW q \in Readers, Summarize(q) PROVE IInv'
  BY <1>3, <1>5 DEF Summarize, SummaryTotal, SummaryVersions, SummaryClasses,
                    SummaryAgain, request, transaction
<1>6. CASE UNCHANGED vars
  BY <1>3, <1>6 DEF vars, request, transaction
<1> QED
  BY <1>1, <1>2, <1>4, <1>5, <1>6, StartLoadIInv, StartDeleteIInv,
     FinishDeleteIInv, InsertRowIInv, CommitIInv
     DEF Next, Progress, DuplicateKey, Deadlock, WaitsFor, Fail, Begun

\* The inductive invariant holds in every reachable state.
THEOREM Inductive == Spec => []IInv
  BY InitIInv, IInvStep, PTL DEF Spec

LEMMA WholeIsAllOrNothing == IInv => AllOrNothing
<1> SUFFICES ASSUME IInv, NEW w \in Loads, NEW d \in Entities, table[d] = w
             PROVE  {e \in Entities : table[e] = w} = batch[w]
  BY DEF AllOrNothing
<1>1. batch[w] \subseteq Entities
  BY DEF IInv, TypeOK
<1>2. \A e \in Entities : table[e] = w <=> e \in batch[w]
  BY DEF IInv, WholeLoads, Whole
<1> QED
  BY <1>1, <1>2

\* Readers never see part of a load, whatever the database and the batches.
THEOREM ServedWhole == Spec => []AllOrNothing
  BY WholeIsAllOrNothing, Inductive, PTL

-----------------------------------------------------------------------------
\* Only a commit changes the table.
LEMMA TableChange ==
  ASSUME [Next]_vars, table' # table
  PROVE  \E w \in Loads : Commit(w)
  BY DEF Next, Progress, StartLoad, StartDelete, FinishDelete, InsertRow,
         DuplicateKey, Deadlock, Fail, Rollback, CountRows, CountVersions,
         Summarize, SummaryTotal, SummaryVersions, SummaryClasses,
         SummaryAgain, vars

\* A commit puts in the load's batch, which is not empty.
LEMMA CommitServes ==
  ASSUME IInv, NEW w \in Loads, Commit(w)
  PROVE  /\ inserted[w] = batch[w] /\ batch[w] # {} /\ batch[w] \subseteq Entities
         /\ batch[w] \in Batches
         /\ \A e \in batch[w] : table'[e] = w
<1>1. /\ inserted[w] \subseteq batch[w] /\ batch[w] \ inserted[w] = {}
      /\ batch[w] # {} /\ batch[w] \in Batches
      /\ batch[w] \subseteq Entities
  BY DEF IInv, TypeOK, Locks, Unseen, Commit, ReadyToCommit, Remaining
<1>2. inserted[w] = batch[w]
  BY <1>1
<1>3. ASSUME NEW e \in batch[w] PROVE table'[e] = w
  <2>1. table'[e] = CommittedRow(w, e) /\ e \in inserted[w]
    BY <1>1, <1>2, <1>3 DEF Commit
  <2> QED
    BY <2>1 DEF CommittedRow
<1> QED
  BY <1>1, <1>2, <1>3

\* Once there are rows there are rows.
LEMMA RowsStay ==
  ASSUME IInv, [Next]_vars, Live # {}
  PROVE  Live' # {}
<1>1. CASE table' = table
  BY <1>1 DEF Live
<1>2. ASSUME NEW w \in Loads, Commit(w) PROVE Live' # {}
  <2>1. PICK e \in batch[w] : e \in Entities /\ table'[e] = w
    BY <1>2, CommitServes
  <2> QED
    BY <2>1, StoreAssumption DEF Live
<1> QED
  BY <1>1, <1>2, TableChange

\* Nothing that happens leaves a table that served predictions without rows.
THEOREM NeverWipedHolds == Spec => NeverWiped
<1>1. IInv /\ [Next]_vars => [Live # {} => Live' # {}]_vars
  BY RowsStay
<1> QED
  BY <1>1, Inductive, PTL DEF Spec, NeverWiped

-----------------------------------------------------------------------------
(***************************************************************************)
(* The swap.  Two reasons make a commit replace the whole table: either no *)
(* other transaction was writing, so the DELETE found every row; or a row  *)
(* of another load that it missed would have collided with the INSERT.     *)
(***************************************************************************)
Exclusive == Backend = "sqlite" \/ Serialized

Overlapping == \A a, b \in Batches : a # {} /\ b # {} => a \cap b # {}

\* With one writer at a time a transaction has seen, then deleted, every row.
OneWriter ==
  /\ \A u, w \in Loads : InTransaction(u) /\ InTransaction(w) => u = w
  /\ Serialized => \A u, w \in Loads : stage[u] \in Begun /\ stage[w] \in Begun => u = w
  /\ \A w \in Loads : stage[w] = "deleting" => snapshot[w] = table
  /\ \A w \in Loads : stage[w] = "inserting" => claimed[w] = Live

LEMMA OneWriterStep ==
  ASSUME Exclusive, IInv, OneWriter, [Next]_vars
  PROVE  OneWriter'
<1> USE DEF IInv, TypeOK, OneWriter, Goto, request, transaction, InTransaction,
        Begun
<1>1. ASSUME NEW w \in Loads, StartLoad(w) PROVE OneWriter'
  <2>1. PICK label \in {"count", "ready"} :
          stage' = [stage EXCEPT ![w] = label]
    BY <1>1 DEF StartLoad, AfterScoring
  <2> QED
    BY <1>1, <2>1 DEF StartLoad, Live
<1>2. ASSUME NEW w \in Loads, StartDelete(w) PROVE OneWriter'
  <2>1. \A u \in Loads \ {w} : ~InTransaction(u)
    BY <1>2 DEF StartDelete, MayWrite, Exclusive
  <2> QED
    BY <1>2, <2>1 DEF StartDelete, Live
<1>3. ASSUME NEW w \in Loads, FinishDelete(w) PROVE OneWriter'
  <2>1. Found(w) = Live
    BY <1>3 DEF FinishDelete, Found, Live
  <2> QED
    BY <1>3, <2>1 DEF FinishDelete, ToDelete, Live
<1>4. ASSUME NEW w \in Loads, InsertRow(w) PROVE OneWriter'
  BY <1>4 DEF InsertRow, Live
<1>5. ASSUME NEW w \in Loads, Rollback(w) PROVE OneWriter'
  BY <1>5 DEF Rollback, Release, Live
<1>6. ASSUME NEW w \in Loads, Commit(w) PROVE OneWriter'
  <2>1. stage[w] = "inserting" /\ stage' = [stage EXCEPT ![w] = "count"]
    BY <1>6 DEF Commit, ReadyToCommit
  <2>2. \A u \in Loads : stage'[u] \notin {"deleting", "inserting"}
    BY <2>1
  <2> QED
    BY <2>1, <2>2
<1>7. ASSUME NEW w \in Loads, CountRows(w) \/ CountVersions(w) PROVE OneWriter'
  <2>1. /\ stage[w] \in {"count", "versions"}
        /\ stage' \in {[stage EXCEPT ![w] = "versions"], [stage EXCEPT ![w] = "done"]}
        /\ UNCHANGED <<table, claimed, snapshot>>
    BY <1>7 DEF CountRows, CountVersions
  <2> QED
    BY <2>1 DEF Live
<1>8. ASSUME NEW q \in Readers, Summarize(q) PROVE OneWriter'
  BY <1>8 DEF Summarize, SummaryTotal, SummaryVersions, SummaryClasses,
              SummaryAgain, Live
<1>9. CASE UNCHANGED vars
  BY <1>9 DEF vars, Live
<1> QED
  BY <1>1, <1>2, <1>3, <1>4, <1>5, <1>6, <1>7, <1>8, <1>9
     DEF Next, Progress, DuplicateKey, Deadlock, Fail

LEMMA InitOneWriter == Init => OneWriter
  BY DEF Init, OneWriter, InTransaction, Begun

THEOREM ExclusiveInductive ==
  ASSUME Exclusive
  PROVE  Spec => []OneWriter
<1>1. IInv /\ OneWriter /\ [Next]_vars => OneWriter'
  BY OneWriterStep
<1> QED
  BY InitOneWriter, <1>1, Inductive, PTL DEF Spec

\* The only writer's commit replaces every row.
LEMMA ExclusiveCommit ==
  ASSUME IInv, OneWriter, NEW w \in Loads, Commit(w)
  PROVE  table' = Promised!RowsOf(w, batch[w])
<1>1. inserted[w] = batch[w] /\ claimed[w] = Live
  BY CommitServes DEF OneWriter, Commit, ReadyToCommit
<1>2. ASSUME NEW e \in Entities
      PROVE  CommittedRow(w, e) = IF e \in batch[w] THEN w ELSE NoRow
  BY <1>1 DEF CommittedRow, Live
<1> QED
  BY <1>2 DEF Commit, Promised!RowsOf

\* A row the DELETE missed would share a key with the batch.
LEMMA OverlappingCommit ==
  ASSUME IInv, IInv', Overlapping, NEW w \in Loads, Commit(w)
  PROVE  table' = Promised!RowsOf(w, batch[w])
<1>1. /\ batch[w] # {} /\ batch[w] \in Batches /\ batch[w] \subseteq Entities
      /\ \A e \in batch[w] : table'[e] = w
  BY CommitServes
<1>2. table' \in [Entities -> Loads \cup {NoRow}] /\ batch' = batch
  BY DEF IInv, TypeOK, Commit, request
<1>3. ASSUME NEW e \in Entities, e \notin batch[w] PROVE table'[e] = NoRow
  <2> SUFFICES ASSUME NEW x \in Loads, table'[e] = x PROVE FALSE
    BY <1>2
  <2>1. \A d \in Entities : table'[d] = x <=> d \in batch[x]
    BY <1>2 DEF IInv, WholeLoads, Whole
  <2>2. batch[x] # {} /\ batch[x] \in Batches
    <3>1. stage'[x] # "new"
      BY DEF IInv, Unseen, Uncommitted
    <3> QED
      BY <1>2, <2>1, <3>1 DEF IInv, Unseen
  <2>3. PICK d \in batch[w] : d \in batch[x]
    BY <1>1, <2>2 DEF Overlapping
  <2>4. x = w
    BY <1>1, <2>1, <2>3
  <2> QED
    BY <1>3, <2>1, <2>4
<1> QED
  BY <1>1, <1>2, <1>3 DEF Promised!RowsOf

LEMMA StepSwaps ==
  ASSUME IInv, [Next]_vars, (Exclusive /\ OneWriter) \/ Overlapping
  PROVE  [Promised!Next]_table
<1> SUFFICES ASSUME NEW w \in Loads, Commit(w) PROVE Promised!Next
  BY TableChange
<1>1. table' = Promised!RowsOf(w, batch[w])
  BY ExclusiveCommit, OverlappingCommit, IInvStep
<1>2. batch[w] # {} /\ batch[w] \in SUBSET Entities
  BY CommitServes
<1> QED
  BY <1>1, <1>2 DEF Promised!Next, Promised!Swap

\* The store implements the swap it promises: on SQLite for any batches, and on
\* Postgres for batches that pairwise overlap.
THEOREM Implements ==
  ASSUME Exclusive \/ Overlapping
  PROVE  Spec => AtomicSwap
<1>1. Init => Promised!Init
  BY DEF Init, Promised!Init, Empty, Promised!Empty
<1>2. CASE Exclusive
  <2>1. IInv /\ OneWriter /\ [Next]_vars => [Promised!Next]_table
    BY <1>2, StepSwaps
  <2> QED
    BY <1>1, <1>2, <2>1, Inductive, ExclusiveInductive, PTL
       DEF Spec, AtomicSwap, Promised!Spec
<1>3. CASE Overlapping
  <2>1. IInv /\ [Next]_vars => [Promised!Next]_table
    BY <1>3, StepSwaps
  <2> QED
    BY <1>1, <2>1, Inductive, PTL DEF Spec, AtomicSwap, Promised!Spec
<1> QED
  BY <1>2, <1>3

\* What ServingTable allows never shows rows of two loads.
THEOREM OneLoadServedHolds == AtomicSwap => []Promised!OneLoadServed
<1>1. Promised!Init => Promised!OneLoadServed
  BY DEF Promised!Init, Promised!Empty, Promised!OneLoadServed
<1>2. Promised!OneLoadServed /\ [Promised!Next]_table => Promised!OneLoadServed'
  BY DEF Promised!Next, Promised!Swap, Promised!RowsOf, Promised!OneLoadServed
<1> QED
  BY <1>1, <1>2, PTL DEF AtomicSwap, Promised!Spec

\* The docstring's uniform model_version, under the same conditions.
THEOREM UniformVersionHolds ==
  ASSUME Exclusive \/ Overlapping
  PROVE  Spec => []UniformVersion
<1>1. Promised!OneLoadServed => UniformVersion
  BY DEF Promised!OneLoadServed, UniformVersion, Live
<1> QED
  BY <1>1, Implements, OneLoadServedHolds, PTL

-----------------------------------------------------------------------------
(***************************************************************************)
(* summary.  Its statements see different tables, but all of them uniform, *)
(* and none of them empty once one was not.                                *)
(***************************************************************************)
AnswerHolds(q) ==
  /\ asking[q] # "total" /\ answer[q].total > 0 => Live # {}
  /\ asking[q] \in {"classes", "returned"} =>
       /\ Cardinality(answer[q].versions) <= 1
       /\ answer[q].total > 0 => answer[q].versions # {}
  /\ asking[q] = "returned" /\ answer[q].total > 0 => answer[q].counted > 0

\* How many rows and versions a statement counts.
LEMMA RowsCounted ==
  ASSUME IInv
  PROVE  /\ Cardinality(Live) \in Nat
         /\ Cardinality(Live) > 0 <=> Live # {}
         /\ ServedModels = {} <=> Live = {}
<1>1. IsFiniteSet(Live)
  BY StoreAssumption, FS_Subset DEF Live
<1>2. Cardinality(Live) \in Nat /\ (Cardinality(Live) = 0 <=> Live = {})
  BY <1>1, FS_CardinalityType, FS_EmptySet
<1>3. ServedModels = {} <=> Live = {}
  BY DEF ServedModels
<1> QED
  BY <1>2, <1>3

LEMMA OneVersionCounted ==
  ASSUME UniformVersion
  PROVE  Cardinality(ServedModels) <= 1
<1>1. CASE Live = {}
  <2>1. ServedModels = {}
    BY <1>1 DEF ServedModels
  <2> QED
    BY <2>1, FS_EmptySet
<1>2. ASSUME NEW e \in Live PROVE Cardinality(ServedModels) <= 1
  <2>1. ServedModels = {model[table[e]]}
    BY <1>2 DEF ServedModels, UniformVersion
  <2>2. Cardinality({model[table[e]]}) = 1
    BY FS_Singleton
  <2> QED
    BY <2>1, <2>2
<1> QED
  BY <1>1, <1>2

LEMMA AnswerStep ==
  ASSUME IInv, UniformVersion, [Next]_vars, NEW q \in Readers, AnswerHolds(q)
  PROVE  AnswerHolds(q)'
<1> USE DEF AnswerHolds
<1>1. /\ asking \in [Readers -> {"total", "versions", "classes", "returned"}]
      /\ answer \in [Readers -> [total : Nat, versions : SUBSET Models, counted : Nat]]
  BY DEF IInv, TypeOK
<1>2. Live # {} => Live' # {}
  BY RowsStay
<1>3. CASE asking'[q] = asking[q] /\ answer'[q] = answer[q]
  BY <1>2, <1>3
<1>4. CASE SummaryTotal(q)
  <2>1. Live' = Live
    BY <1>4 DEF SummaryTotal, Live
  <2>2. answer'[q].total = Cardinality(Live) /\ asking'[q] = "versions"
    BY <1>1, <1>4 DEF SummaryTotal
  <2> QED
    BY <2>1, <2>2, RowsCounted
<1>5. CASE SummaryVersions(q)
  <2>1. Live' = Live
    BY <1>5 DEF SummaryVersions, Live
  <2>2. /\ answer'[q].total = answer[q].total /\ asking'[q] = "classes"
        /\ answer'[q].versions = ServedModels /\ asking[q] = "versions"
    BY <1>1, <1>5 DEF SummaryVersions
  <2> QED
    BY <2>1, <2>2, RowsCounted, OneVersionCounted
<1>6. CASE SummaryClasses(q)
  <2>1. Live' = Live
    BY <1>6 DEF SummaryClasses, Live
  <2>2. /\ answer'[q].total = answer[q].total /\ asking'[q] = "returned"
        /\ answer'[q].versions = answer[q].versions /\ asking[q] = "classes"
        /\ answer'[q].counted = Cardinality(Live)
    BY <1>1, <1>6 DEF SummaryClasses
  <2> QED
    BY <2>1, <2>2, RowsCounted
<1>7. CASE SummaryAgain(q)
  BY <1>1, <1>7 DEF SummaryAgain
<1>8. ASSUME NEW p \in Readers \ {q}, Summarize(p)
      PROVE  asking'[q] = asking[q] /\ answer'[q] = answer[q]
  BY <1>1, <1>8 DEF Summarize, SummaryTotal, SummaryVersions, SummaryClasses, SummaryAgain
<1>9. (\E p \in Readers : Summarize(p)) \/ UNCHANGED readers
  BY DEF Next, Progress, StartLoad, StartDelete, FinishDelete, InsertRow, Commit,
     DuplicateKey, Deadlock, Fail, Rollback, CountRows, CountVersions, vars
<1> QED
  BY <1>3, <1>4, <1>5, <1>6, <1>7, <1>8, <1>9 DEF Summarize, readers

\* Where the swap is what it promises, a summary names at most one version, and
\* having counted rows it finds a version and a class mix, for any number of
\* loads and readers.
THEOREM SummaryPlausibleHolds ==
  ASSUME Exclusive \/ Overlapping
  PROVE  Spec => []SummaryPlausible
<1> DEFINE Answers == \A q \in Readers : AnswerHolds(q)
<1>1. Init => Answers
  BY DEF Init, AnswerHolds
<1>2. IInv /\ UniformVersion /\ Answers /\ [Next]_vars => Answers'
  BY AnswerStep
<1>3. Answers => SummaryPlausible
  BY DEF AnswerHolds, SummaryPlausible
<1> QED
  BY <1>1, <1>2, <1>3, Inductive, UniformVersionHolds, PTL DEF Spec

-----------------------------------------------------------------------------
(***************************************************************************)
(* check_consistency.  Any load's check sees a mix its own commit made, so *)
(* the load that committed last reports the mix that stays.                *)
(***************************************************************************)
MixNoticed ==
  Mixed => \E w \in Loads :
    /\ \E e \in Entities : table[e] = w
    /\ stage[w] \in {"count", "versions", "failed"} \/ "mixed" \in problems[w]

LEMMA MixNoticedStep ==
  ASSUME IInv, MixNoticed, [Next]_vars
  PROVE  MixNoticed'
<1>0. TypeOK /\ TypeOK'
  BY TypeOKStep DEF IInv
<1>1. ASSUME NEW w \in Loads, Commit(w) PROVE MixNoticed'
  <2>1. PICK e \in batch[w] : e \in Entities /\ table'[e] = w
    BY <1>1, CommitServes
  <2>2. stage'[w] = "count"
    BY <1>0, <1>1 DEF Commit, Goto, TypeOK
  <2> QED
    BY <2>1, <2>2 DEF MixNoticed
<1>2. CASE table' = table
  <2>1. model' = model
    BY DEF Next, Progress, StartLoad, StartDelete, FinishDelete, InsertRow,
           Commit, DuplicateKey, Deadlock, Fail, Rollback, CountRows,
           CountVersions, Summarize, SummaryTotal, SummaryVersions,
           SummaryClasses, SummaryAgain, vars, request
  <2>2. Mixed' = Mixed
    BY <1>2, <2>1 DEF Mixed, ServedModels, Live
  <2> SUFFICES ASSUME Mixed PROVE MixNoticed'
    BY <2>2 DEF MixNoticed
  <2>3. PICK u \in Loads :
          /\ \E e \in Entities : table'[e] = u
          /\ stage[u] \in {"count", "versions", "failed"} \/ "mixed" \in problems[u]
    BY <1>2 DEF MixNoticed
  <2>4. stage[u] \notin Uncommitted
    BY <1>2, <2>3 DEF IInv, Unseen
  <2>5. \/ stage'[u] \in {"count", "versions", "failed"}
        \/ "mixed" \in problems'[u]
    <3> USE <1>0, <2>3, <2>4 DEF TypeOK, Goto, Uncommitted
    <3>1. ASSUME NEW w \in Loads, CountRows(w) PROVE <2>5!1 \/ <2>5!2
      BY <3>1 DEF CountRows
    <3>2. ASSUME NEW w \in Loads, CountVersions(w) PROVE <2>5!1 \/ <2>5!2
      BY <3>2 DEF CountVersions, VersionProblems
    <3>3. ASSUME NEW w \in Loads, Rollback(w) PROVE <2>5!1 \/ <2>5!2
      BY <3>3 DEF Rollback
    <3>4. ASSUME NEW w \in Loads,
                 \/ StartLoad(w) \/ StartDelete(w) \/ FinishDelete(w)
                 \/ InsertRow(w) \/ Commit(w)
          PROVE  <2>5!1 \/ <2>5!2
      BY <3>4 DEF StartLoad, StartDelete, FinishDelete, InsertRow, Commit,
                  ReadyToCommit
    <3>5. ASSUME NEW q \in Readers, Summarize(q) PROVE <2>5!1 \/ <2>5!2
      BY <3>5 DEF Summarize, SummaryTotal, SummaryVersions, SummaryClasses,
                  SummaryAgain
    <3>6. CASE UNCHANGED vars
      BY <3>6 DEF vars
    <3> QED
      BY <3>1, <3>2, <3>3, <3>4, <3>5, <3>6
         DEF Next, Progress, DuplicateKey, Deadlock, Fail
  <2> QED
    BY <2>3, <2>5 DEF MixNoticed
<1> QED
  BY <1>1, <1>2, TableChange

\* A mix that stays is reported, unless a process died before its check.
THEOREM MixReportedHolds == Spec => []MixReported
<1>1. Init => MixNoticed
  <2> SUFFICES ASSUME Init, Mixed PROVE FALSE
    BY DEF MixNoticed
  <2>1. ServedModels = {}
    BY DEF Init, Empty, ServedModels, Live
  <2> QED
    BY <2>1, FS_EmptySet DEF Mixed
<1>2. IInv /\ MixNoticed /\ [Next]_vars => MixNoticed'
  BY MixNoticedStep
<1>3. MixNoticed => MixReported
  BY DEF MixNoticed, MixReported, Begun
<1> QED
  BY <1>1, <1>2, <1>3, Inductive, PTL DEF Spec

\* While a load that runs alone is checking, the table is its own.
OwnTable ==
  \A w \in Loads : stage[w] \in {"count", "versions"} =>
    \A e \in Entities : table[e] = IF e \in batch[w] THEN w ELSE NoRow

LEMMA OwnTableStep ==
  ASSUME Serialized, {} \notin Batches, IInv, OneWriter, OwnTable, [Next]_vars
  PROVE  OwnTable'
<1> USE DEF IInv, TypeOK, OwnTable, Goto, request, transaction, Begun
<1>1. ASSUME NEW w \in Loads, StartLoad(w) PROVE OwnTable'
  <2>1. PICK rows \in Batches :
          stage[w] = "new" /\ stage' = [stage EXCEPT ![w] = "ready"]
          /\ batch' = [batch EXCEPT ![w] = rows]
    BY <1>1 DEF StartLoad, AfterScoring
  <2> QED
    BY <1>1, <2>1 DEF StartLoad
<1>2. ASSUME NEW w \in Loads, StartDelete(w) \/ FinishDelete(w) \/ InsertRow(w)
      PROVE  OwnTable'
  <2>1. /\ \/ stage' = stage
           \/ stage' = [stage EXCEPT ![w] = "deleting"]
           \/ stage' = [stage EXCEPT ![w] = "inserting"]
        /\ UNCHANGED <<table, batch>>
    BY <1>2 DEF StartDelete, FinishDelete, InsertRow
  <2> QED
    BY <2>1
<1>3. ASSUME NEW w \in Loads, Rollback(w) PROVE OwnTable'
  BY <1>3 DEF Rollback
<1>4. ASSUME NEW w \in Loads, Commit(w) PROVE OwnTable'
  <2>1. table' = Promised!RowsOf(w, batch[w])
    BY <1>4, ExclusiveCommit
  <2>2. \A e \in Entities : table'[e] = IF e \in batch[w] THEN w ELSE NoRow
    BY <2>1 DEF Promised!RowsOf
  <2>3. \A u \in Loads \ {w} : stage[u] \notin Begun
    BY <1>4 DEF OneWriter, Commit, ReadyToCommit
  <2>4. stage' = [stage EXCEPT ![w] = "count"] /\ batch' = batch
    BY <1>4 DEF Commit
  <2> QED
    BY <2>2, <2>3, <2>4
<1>5. ASSUME NEW w \in Loads, CountRows(w) \/ CountVersions(w) PROVE OwnTable'
  <2>1. /\ stage[w] \in {"count", "versions"}
        /\ stage' \in {[stage EXCEPT ![w] = "versions"], [stage EXCEPT ![w] = "done"]}
        /\ UNCHANGED <<table, batch>>
    BY <1>5 DEF CountRows, CountVersions
  <2> QED
    BY <2>1
<1>6. ASSUME NEW q \in Readers, Summarize(q) PROVE OwnTable'
  BY <1>6 DEF Summarize, SummaryTotal, SummaryVersions, SummaryClasses, SummaryAgain
<1>7. CASE UNCHANGED vars
  BY <1>7 DEF vars
<1> QED
  BY <1>1, <1>2, <1>3, <1>4, <1>5, <1>6, <1>7
     DEF Next, Progress, DuplicateKey, Deadlock, Fail

\* Loads one at a time and none of them empty: a check that finds nothing
\* wrong vouches that the table is exactly the asking run's rows.
THEOREM CheckVouchesHolds ==
  ASSUME Serialized, {} \notin Batches
  PROVE  Spec => CheckVouches
<1>1. Init => OwnTable
  BY DEF Init, OwnTable
<1>2. Exclusive
  BY DEF Exclusive
<1>3. IInv /\ OneWriter /\ OwnTable /\ [Next]_vars => OwnTable'
  BY OwnTableStep
<1>4. IInv /\ OwnTable /\ [Next]_vars =>
        [\A w \in Loads :
           stage[w] = "versions" /\ stage'[w] = "done" /\ problems'[w] = {} =>
             \A e \in Entities : table[e] = IF e \in batch[w] THEN w ELSE NoRow]_vars
  BY DEF OwnTable
<1> QED
  BY <1>1, <1>2, <1>3, <1>4, Inductive, ExclusiveInductive, PTL
     DEF Spec, CheckVouches
=============================================================================
