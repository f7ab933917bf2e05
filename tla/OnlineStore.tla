----------------------------- MODULE OnlineStore ----------------------------
(***************************************************************************)
(* OnlineStore of store/online.py on its two databases: load_predictions   *)
(* followed by check_consistency, by any number of processes, while others *)
(* call summary.                                                           *)
(*                                                                         *)
(* Each SQL statement is a step, and each inserted row: the database, not  *)
(* the code, decides what a statement sees and waits for.  SQLite admits   *)
(* one writing transaction at a time.  Postgres runs them together at READ *)
(* COMMITTED, the default make_engine leaves: DELETE works on the rows     *)
(* committed when it starts, waits for those another transaction deletes,  *)
(* and does not see rows committed meanwhile; INSERT waits for a key       *)
(* another transaction holds and fails on one that is live.                *)
(***************************************************************************)
EXTENDS Naturals, FiniteSets

CONSTANTS
  Entities,    \* entity keys
  Loads,       \* calls of load_predictions, one per pipeline run
  NoRow,       \* no row under a key
  Batches,     \* the entity sets a run may have scored (one row per entity)
  Models,      \* model versions
  Backend,     \* "sqlite" or "postgres"
  Serialized,  \* environment: a load starts when no other is under way
  Readers      \* callers of summary

ASSUME StoreAssumption ==
  /\ NoRow \notin Loads /\ IsFiniteSet(Entities)
  /\ Batches \subseteq SUBSET Entities
  /\ Backend \in {"sqlite", "postgres"}
  /\ Serialized \in BOOLEAN
  /\ Models # {}

VARIABLES
  table,     \* the committed rows: table[e] is the load that wrote e, or NoRow
  stage,     \* stage[w]: how far load w is
  batch,     \* batch[w]: the entities w loads
  model,     \* model[w]: the model_version w stamps on every row
  snapshot,  \* snapshot[w]: the committed rows when w's DELETE started
  claimed,   \* claimed[w]: keys whose committed row w has deleted
  inserted,  \* inserted[w]: keys w has inserted and not committed
  problems,  \* problems[w]: what check_consistency found for w
  asking,    \* asking[q]: the statement of summary q executes next
  answer     \* answer[q]: the statements' results so far

transaction == <<snapshot, claimed, inserted>>
request     == <<batch, model>>
readers     == <<asking, answer>>
vars == <<table, stage, request, transaction, problems, readers>>

Empty == [e \in Entities |-> NoRow]
Live  == {e \in Entities : table[e] # NoRow}

Goto(w, label) == stage' = [stage EXCEPT ![w] = label]

Begun == {"ready", "deleting", "inserting", "count", "versions"}
InTransaction(w) == stage[w] \in {"deleting", "inserting"}

-----------------------------------------------------------------------------
Init ==
  /\ table = Empty
  /\ stage = [w \in Loads |-> "new"]
  /\ batch = [w \in Loads |-> {}]
  /\ model \in [Loads -> Models]
  /\ snapshot = [w \in Loads |-> Empty]
  /\ claimed = [w \in Loads |-> {}]
  /\ inserted = [w \in Loads |-> {}]
  /\ problems = [w \in Loads |-> {}]
  /\ asking = [q \in Readers |-> "total"]
  /\ answer = [q \in Readers |-> [total |-> 0, versions |-> {}, counted |-> 0]]

(***************************************************************************)
(* load_predictions: an empty batch goes straight to check_consistency.    *)
(***************************************************************************)
WipesOnEmpty(rows) == "ready"                                     \* mutant
AfterScoring(rows) == IF rows = {} THEN "count" ELSE "ready"

StartLoad(w) ==
  /\ stage[w] = "new"
  /\ Serialized => \A u \in Loads : stage[u] \notin Begun
  /\ \E rows \in Batches :
       /\ batch' = [batch EXCEPT ![w] = rows]
       /\ Goto(w, AfterScoring(rows))
  /\ UNCHANGED <<table, model, transaction, problems, readers>>

(***************************************************************************)
(* engine.begin() and the DELETE of every row.                             *)
(***************************************************************************)
MayWrite(w) ==
  Backend = "sqlite" => \A u \in Loads \ {w} : ~InTransaction(u)

StartDelete(w) ==
  /\ stage[w] = "ready"
  /\ MayWrite(w)
  /\ snapshot' = [snapshot EXCEPT ![w] = table]
  /\ Goto(w, "deleting")
  /\ UNCHANGED <<table, request, claimed, inserted, problems, readers>>

\* Rows the DELETE still finds: in its snapshot, and not replaced since.
Found(w) == {e \in Entities : snapshot[w][e] # NoRow /\ table[e] = snapshot[w][e]}

HeldBy(u, e) == e \in claimed[u] \cup inserted[u]

DeleteWaitsFor(w, u) == u # w /\ Found(w) \cap claimed[u] # {}

DeletesOwnKeys(w) == Found(w) \cap batch[w]                       \* mutant
ToDelete(w) == Found(w)

FinishDelete(w) ==
  /\ stage[w] = "deleting"
  /\ \A u \in Loads : ~DeleteWaitsFor(w, u)
  /\ claimed' = [claimed EXCEPT ![w] = ToDelete(w)]
  /\ Goto(w, "inserting")
  /\ UNCHANGED <<table, request, snapshot, inserted, problems, readers>>

(***************************************************************************)
(* The INSERT.  Rows go in in the order polars' unique left them, which is *)
(* any order.                                                              *)
(***************************************************************************)
Remaining(w) == batch[w] \ inserted[w]

InsertWaitsFor(w, u, e) == u # w /\ HeldBy(u, e)

InsertRow(w) ==
  /\ stage[w] = "inserting"
  /\ \E e \in Remaining(w) :
       /\ \A u \in Loads : ~InsertWaitsFor(w, u, e)
       /\ table[e] = NoRow \/ e \in claimed[w]
       /\ inserted' = [inserted EXCEPT ![w] = @ \cup {e}]
  /\ UNCHANGED <<table, stage, request, snapshot, claimed, problems, readers>>

\* Mutant: the transaction ends but its connection keeps the locks.
ReleaseNothing(w) == UNCHANGED transaction

\* The transaction is over: its locks are released.
Release(w) ==
  /\ snapshot' = [snapshot EXCEPT ![w] = Empty]
  /\ claimed' = [claimed EXCEPT ![w] = {}]
  /\ inserted' = [inserted EXCEPT ![w] = {}]

Rollback(w) ==
  /\ Release(w)
  /\ Goto(w, "failed")
  /\ UNCHANGED <<table, request, problems, readers>>

\* IntegrityError: a key is taken by a row this transaction did not delete.
DuplicateKey(w) ==
  /\ stage[w] = "inserting"
  /\ \E e \in Remaining(w) :
       table[e] # NoRow /\ \A u \in Loads : ~HeldBy(u, e)
  /\ Rollback(w)

\* Postgres ends a circular wait by failing one of the transactions in it.
WaitsFor(w, u) ==
  \/ stage[w] = "deleting" /\ DeleteWaitsFor(w, u)
  \/ stage[w] = "inserting" /\ \E e \in Remaining(w) : InsertWaitsFor(w, u, e)

Deadlock(w) ==
  /\ \E circle \in SUBSET Loads :
       w \in circle /\ \A u \in circle : \E x \in circle : WaitsFor(u, x)
  /\ Rollback(w)

(***************************************************************************)
(* The commit: the new rows appear and the deleted ones disappear at once. *)
(***************************************************************************)
\* Mutants: the insert is committed row by row; the delete on its own.
CommitEarly(w) == stage[w] = "inserting" /\ inserted[w] # {}
CommitDelete(w) == stage[w] = "inserting"
ReadyToCommit(w) == stage[w] = "inserting" /\ Remaining(w) = {}

ModelAsRow(w, e) == IF e \in inserted[w] THEN model[w] ELSE table[e]   \* mutant
CommittedRow(w, e) ==
  CASE e \in inserted[w] -> w
    [] e \in claimed[w] \ inserted[w] -> NoRow
    [] OTHER -> table[e]

Commit(w) ==
  /\ ReadyToCommit(w)
  /\ table' = [e \in Entities |-> CommittedRow(w, e)]
  /\ Release(w)
  /\ Goto(w, "count")
  /\ UNCHANGED <<request, problems, readers>>

(***************************************************************************)
(* check_consistency, statement by statement.                              *)
(***************************************************************************)
ServedModels == {model[table[e]] : e \in Live}

Mixed == Cardinality(ServedModels) > 1

\* Mutant: off by one.
MoreThanTwo == IF Cardinality(ServedModels) > 2 THEN {"mixed"} ELSE {}
VersionProblems == IF Mixed THEN {"mixed"} ELSE {}

CountRows(w) ==
  /\ stage[w] = "count"
  /\ problems' = [problems EXCEPT ![w] = IF Live = {} THEN {"empty"} ELSE {}]
  /\ Goto(w, "versions")
  /\ UNCHANGED <<table, request, transaction, readers>>

CountVersions(w) ==
  /\ stage[w] = "versions"
  /\ problems' = [problems EXCEPT ![w] = @ \cup VersionProblems]
  /\ Goto(w, "done")
  /\ UNCHANGED <<table, request, transaction, readers>>

(***************************************************************************)
(* A statement fails (SQLite's lock timeout, the database is unreachable)  *)
(* or the process dies: an open transaction is rolled back.                *)
(***************************************************************************)
Fail(w) == stage[w] \in Begun /\ Rollback(w)

(***************************************************************************)
(* summary(): its statements share a connection, not a snapshot.  (The     *)
(* last one, max(scored_at), is left out.)                                 *)
(***************************************************************************)
SummaryTotal(q) ==
  /\ asking[q] = "total"
  /\ answer' = [answer EXCEPT ![q] =
                  [total |-> Cardinality(Live), versions |-> {}, counted |-> 0]]
  /\ asking' = [asking EXCEPT ![q] = "versions"]
  /\ UNCHANGED <<table, stage, request, transaction, problems>>

SummaryVersions(q) ==
  /\ asking[q] = "versions"
  /\ answer' = [answer EXCEPT ![q].versions = ServedModels]
  /\ asking' = [asking EXCEPT ![q] = "classes"]
  /\ UNCHANGED <<table, stage, request, transaction, problems>>

SummaryClasses(q) ==
  /\ asking[q] = "classes"
  /\ answer' = [answer EXCEPT ![q].counted = Cardinality(Live)]
  /\ asking' = [asking EXCEPT ![q] = "returned"]
  /\ UNCHANGED <<table, stage, request, transaction, problems>>

SummaryAgain(q) ==
  /\ asking[q] = "returned"
  /\ asking' = [asking EXCEPT ![q] = "total"]
  /\ UNCHANGED <<table, stage, request, transaction, problems, answer>>

-----------------------------------------------------------------------------
Progress(w) ==
  \/ StartDelete(w) \/ FinishDelete(w) \/ InsertRow(w) \/ Commit(w)
  \/ DuplicateKey(w) \/ Deadlock(w) \/ CountRows(w) \/ CountVersions(w)

Summarize(q) ==
  SummaryTotal(q) \/ SummaryVersions(q) \/ SummaryClasses(q) \/ SummaryAgain(q)

Next ==
  \/ \E w \in Loads : StartLoad(w) \/ Progress(w) \/ Fail(w)
  \/ \E q \in Readers : Summarize(q)

Spec == Init /\ [][Next]_vars

\* A load under way is scheduled, and the database ends circular waits; no
\* load has to start, and nothing has to fail otherwise.
FairSpec == Spec /\ \A w \in Loads : WF_vars(Progress(w))

-----------------------------------------------------------------------------
Stages == Begun \cup {"new", "done", "failed"}

\* The shape of the state.
TypeOK ==
  /\ table \in [Entities -> Loads \cup {NoRow}]
  /\ stage \in [Loads -> Stages]
  /\ batch \in [Loads -> SUBSET Entities]
  /\ model \in [Loads -> Models]
  /\ snapshot \in [Loads -> [Entities -> Loads \cup {NoRow}]]
  /\ claimed \in [Loads -> SUBSET Entities]
  /\ inserted \in [Loads -> SUBSET Entities]
  /\ problems \in [Loads -> SUBSET {"empty", "mixed"}]
  /\ asking \in [Readers -> {"total", "versions", "classes", "returned"}]
  /\ answer \in [Readers -> [total : Nat, versions : SUBSET Models, counted : Nat]]

\* The module docstring's promise: the committed table never mixes the rows of
\* two model versions.
UniformVersion == \A d, e \in Live : model[table[d]] = model[table[e]]

\* A load is served whole or not at all, even next to another load's rows.
AllOrNothing ==
  \A w \in Loads :
    LET served == {e \in Entities : table[e] = w}
    IN  served = {} \/ served = batch[w]

\* Once something is served, no load, failure or empty batch leaves the table
\* without rows.
NeverWiped == [][Live # {} => Live' # {}]_vars

\* The swap as the docstring describes it: the committed table goes from one
\* load's rows to another's in one step.
Promised == INSTANCE ServingTable
AtomicSwap == Promised!Spec

\* A mix that stays is reported by some load's check, unless a process died
\* between its commit and its check.
MixReported ==
  (\A w \in Loads : stage[w] \notin Begun) /\ Mixed =>
    \E w \in Loads :
      \/ "mixed" \in problems[w]
      \/ stage[w] = "failed" /\ \E e \in Entities : table[e] = w

\* When check_consistency finds nothing wrong the table holds exactly the rows
\* of the run that asked, as the docstring says it asserts.
CheckVouches ==
  [][\A w \in Loads :
       stage[w] = "versions" /\ stage'[w] = "done" /\ problems'[w] = {} =>
         \A e \in Entities : table[e] = IF e \in batch[w] THEN w ELSE NoRow]_vars

\* However loads interleave with its statements, a summary names at most one
\* version, and having counted rows it finds a version and a class mix.
SummaryPlausible ==
  \A q \in Readers : asking[q] = "returned" =>
    /\ Cardinality(answer[q].versions) <= 1
    /\ answer[q].total > 0 => answer[q].versions # {} /\ answer[q].counted > 0

\* Every load that starts ends: blocked ones are let in, or fail.
LoadsEnd == \A w \in Loads : stage[w] \in Begun ~> stage[w] \notin Begun
=============================================================================
