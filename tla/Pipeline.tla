------------------------------ MODULE Pipeline ------------------------------
(***************************************************************************)
(* run_pipeline from start to finish, by several processes: what           *)
(* ChampionRegistry leaves as one step, "load", is here the loading of the *)
(* champion (three calls to MLflow), scoring, the swap into the store and  *)
(* its check.  The store is the one ServingTable promises, so its contents *)
(* are one record: which run's rows they are and where they come from.     *)
(***************************************************************************)
EXTENDS ChampionRegistry

CONSTANT Nothing     \* an empty store, no result, no human choice

ASSUME FiniteRuns == IsFiniteSet(Runs)

\* An empty store is not a stamped one.
ASSUME NothingIsNoRow == Nothing \notin [stamp : Nat, model : Nat, columns : Nat]

VARIABLES
  retrain,   \* retrain[r]: what decide_retrain answered
  moved,     \* moved[r]: what register_and_maybe_promote returned
  alias,     \* alias[r]: the version load_champion resolved the alias to
  model,     \* model[r]: the version whose predictor load_model fetched
  rows,      \* rows[r]: load_predictions loaded rows, and did not return 0
  served,    \* the store: Nothing, or the rows' stamp, model and columns
  result,    \* result[r]: the PipelineResult of r's last run, or Nothing
  flipped,   \* history: a human moved the alias since the last swap
  found      \* history, found[r]: what the store held when r began

work  == <<retrain, moved, alias, model, rows>>
pvars == <<vars, work, served, result, flipped, found>>

PInit ==
  /\ Init
  /\ retrain = [r \in Runs |-> FALSE]
  /\ moved = [r \in Runs |-> FALSE]
  /\ alias = [r \in Runs |-> NoVersion]
  /\ model = [r \in Runs |-> NoVersion]
  /\ rows = [r \in Runs |-> FALSE]
  /\ served = Nothing
  /\ result = [r \in Runs |-> Nothing]
  /\ flipped = FALSE
  /\ found = [r \in Runs |-> Nothing]

-----------------------------------------------------------------------------
(***************************************************************************)
(* RunContext.build, and the two matrices read from the offline store.     *)
(***************************************************************************)
BeginRun(r) ==
  /\ Idle(r)
  /\ MayStart
  /\ RoomForAnother
  /\ \E flag \in ManualFlags : manual' = [manual EXCEPT ![r] = flag]
  /\ result' = [result EXCEPT ![r] = Nothing]
  /\ found' = [found EXCEPT ![r] = served]
  /\ Goto(r, "validate")
  /\ UNCHANGED <<registry, today, f1, mine, seen, judged, work, served, flipped>>

\* validate_training_data found nothing; if it does, EndEarly is what happens.
Validate(r) ==
  /\ pc[r] = "validate"
  /\ Goto(r, "decide")
  /\ UNCHANGED <<registry, today, locals, judged, work, served, result, flipped, found>>

Decide(r) ==
  /\ DecideRetrain(r)
  /\ retrain' = [retrain EXCEPT ![r] = RetrainDue]
  /\ UNCHANGED <<moved, alias, model, rows, served, result, flipped, found>>

\* Mutant: register_model timed out and is retried, though it had succeeded.
RegisterAgain(r) ==
  /\ \/ Train(r) \/ ReadIncumbent(r)
     \/ /\ pc[r] = "register"
        /\ versions' = versions \o <<[f1 |-> f1[r], day |-> today],
                                     [f1 |-> f1[r], day |-> today]>>
        /\ mine' = [mine EXCEPT ![r] = Len(versions) + 2]
        /\ Goto(r, "incumbent")
        /\ UNCHANGED <<champion, today, manual, f1, seen, judged>>
  /\ UNCHANGED <<work, served, result, flipped, found>>

Challenge(r) ==
  /\ Train(r) \/ RegisterModel(r) \/ ReadIncumbent(r)
  /\ UNCHANGED <<work, served, result, flipped, found>>

Gate(r) ==
  /\ \/ Promote(r) /\ moved' = [moved EXCEPT ![r] = TRUE]
     \/ KeepIncumbent(r) /\ moved' = [moved EXCEPT ![r] = FALSE]
  /\ UNCHANGED <<retrain, alias, model, rows, served, result, flipped, found>>

(***************************************************************************)
(* load_champion: the alias is resolved, then resolved again by the model  *)
(* URI models:/name@champion; the columns are those of the first answer.   *)
(***************************************************************************)
ResolveAlias(r) ==
  /\ pc[r] = "load"
  /\ champion # NoVersion
  /\ alias' = [alias EXCEPT ![r] = champion]
  /\ Goto(r, "fetch")
  /\ UNCHANGED <<registry, today, locals, judged, retrain, moved, model, rows,
                 served, result, flipped, found>>

NewestModel(r) == Len(versions)                                   \* mutant
Fetched(r) == champion

LoadModel(r) ==
  /\ pc[r] = "fetch"
  /\ model' = [model EXCEPT ![r] = Fetched(r)]
  /\ Goto(r, "swap")
  /\ UNCHANGED <<registry, today, locals, judged, retrain, moved, alias, rows,
                 served, result, flipped, found>>

(***************************************************************************)
(* score_batch and load_predictions: the store holds what was scored.  A   *)
(* score split without rows is scored to none, unless the predictor raises *)
(* (EndEarly), and loading none changes nothing.                           *)
(***************************************************************************)
\* Mutant: the rows are stamped with the version the run registered.
StampedMine(r) == [stamp |-> mine[r], model |-> model[r], columns |-> alias[r]]
Scored(r) == [stamp |-> alias[r], model |-> model[r], columns |-> alias[r]]

LoadRows(r) ==
  /\ served' = Scored(r)
  /\ flipped' = FALSE
  /\ rows' = [rows EXCEPT ![r] = TRUE]

\* Mutant: an empty batch replaces what is served, like any other.
EmptyBatchWipes(r) ==
  /\ served' = Nothing
  /\ rows' = [rows EXCEPT ![r] = FALSE]
  /\ UNCHANGED flipped

LoadNothing(r) ==
  /\ rows' = [rows EXCEPT ![r] = FALSE]
  /\ UNCHANGED <<served, flipped>>

Swap(r) ==
  /\ pc[r] = "swap"
  /\ LoadRows(r) \/ LoadNothing(r)
  /\ Goto(r, "check")
  /\ UNCHANGED <<registry, today, locals, judged, retrain, moved, alias, model,
                 result, found>>

(***************************************************************************)
(* check_consistency (a swap is atomic, so the one problem it can find is  *)
(* an empty table), and the result.  promoted is retrain, line 111, and    *)
(* the version is that of the model loaded, whether it scored rows or not. *)
(***************************************************************************)
Clear(r) ==
  /\ retrain' = [retrain EXCEPT ![r] = FALSE]
  /\ moved' = [moved EXCEPT ![r] = FALSE]
  /\ alias' = [alias EXCEPT ![r] = NoVersion]
  /\ model' = [model EXCEPT ![r] = NoVersion]
  /\ rows' = [rows EXCEPT ![r] = FALSE]
  /\ found' = [found EXCEPT ![r] = Nothing]

Return(r) ==
  /\ pc[r] = "check"
  /\ result' = [result EXCEPT ![r] =
                  [retrained |-> retrain[r], promoted |-> retrain[r],
                   moved |-> moved[r], version |-> alias[r], rows |-> rows[r],
                   problems |-> served = Nothing]]
  /\ EndRun(r)
  /\ Clear(r)
  /\ UNCHANGED <<served, flipped>>

(***************************************************************************)
(* The run ends before it returns a result: the matrices are missing or    *)
(* invalid (DataValidationError), load_champion answers None               *)
(* (ChampionUnavailableError), a call raises, the process dies.            *)
(***************************************************************************)
EndEarly(r) ==
  /\ Fail(r)
  /\ Clear(r)
  /\ UNCHANGED <<served, result, flipped>>

-----------------------------------------------------------------------------
HumanFlips ==
  /\ FlipAlias
  /\ flipped' = TRUE
  /\ UNCHANGED <<work, served, result, found>>

DayPasses == NextDay /\ UNCHANGED <<work, served, result, flipped, found>>

RunStep(r) ==
  \/ Validate(r) \/ Decide(r) \/ Challenge(r) \/ Gate(r)
  \/ ResolveAlias(r) \/ LoadModel(r) \/ Swap(r) \/ Return(r)

PNext ==
  \/ \E r \in Runs : BeginRun(r) \/ RunStep(r) \/ EndEarly(r)
  \/ HumanFlips \/ DayPasses

PSpec == PInit /\ [][PNext]_pvars

-----------------------------------------------------------------------------
(***************************************************************************)
(* The pipeline does to the registry what ChampionRegistry allows: a run   *)
(* not yet past validation has not begun there, and one that scores is at  *)
(* "load".  The bound is wider because its place in the code is earlier.   *)
(***************************************************************************)
RegistryPc ==
  [r \in Runs |-> CASE pc[r] = "validate" -> "idle"
                    [] pc[r] \in {"fetch", "swap", "check"} -> "load"
                    [] OTHER -> pc[r]]

RegistryManual == [r \in Runs |-> pc[r] # "validate" /\ manual[r]]

InRegistry ==
  INSTANCE ChampionRegistry WITH
    pc <- RegistryPc, manual <- RegistryManual,
    MaxVersions <- MaxVersions + Cardinality(Runs)

RegistryRefined == InRegistry!Spec

Sources == [stamp : VersionIds, model : VersionIds, columns : VersionIds]

\* The shape of the state the pipeline adds.
PTypeOK ==
  /\ pc \in [Runs -> Labels \cup {"validate", "fetch", "swap", "check"}]
  /\ retrain \in [Runs -> BOOLEAN] /\ moved \in [Runs -> BOOLEAN]
  /\ alias \in [Runs -> VersionIds \cup {NoVersion}]
  /\ model \in [Runs -> VersionIds \cup {NoVersion}]
  /\ rows \in [Runs -> BOOLEAN]
  /\ served = Nothing \/ served \in Sources
  /\ \A r \in Runs : result[r] = Nothing \/ result[r].version \in VersionIds
  /\ flipped \in BOOLEAN

\* load_champion finds the alias both times it resolves it, however runs and
\* crashes interleave: ChampionUnavailableError is never raised.
NeverUnavailable ==
  \A r \in Runs : pc[r] \in {"load", "fetch"} => champion # NoVersion

\* log_model_run, lines 34-35: what is served was predicted by the model whose
\* training columns the batch was aligned to, and is stamped with its version.
LockStep ==
  served # Nothing => served.model = served.columns /\ served.stamp = served.model

\* A run that returns a result names the champion.  If it scored rows, the store
\* serves the champion's and no problem is reported; if it scored none, the store
\* is as the run found it, whatever it trained and promoted meanwhile.
ResultTellsStore ==
  [][\A r \in Runs : pc[r] = "check" /\ result'[r] # Nothing =>
       /\ result'[r].version = champion'
       /\ IF result'[r].rows
          THEN served'.model = champion' /\ ~result'[r].problems
          ELSE served' = found[r]]_pvars

\* Unless a human moved the alias in between, a swap never replaces the
\* predictions of a model by those of a model with a lower macro_f1.
ServedNeverWorse ==
  [][Nothing \notin {served, served'} /\ served' # served /\ ~flipped =>
       versions[served'.model].f1 >= versions[served.model].f1]_pvars

\* A result says "promoted" exactly when the run moved the alias.
PromotedTruth ==
  \A r \in Runs : result[r] # Nothing => result[r].promoted = result[r].moved
=============================================================================
