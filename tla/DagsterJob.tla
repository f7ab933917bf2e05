----------------------------- MODULE DagsterJob -----------------------------
(***************************************************************************)
(* daily_pipeline, the Dagster job of dagster_defs: one process per asset, *)
(* in the order of the asset graph (a chain), and the asset checks beside  *)
(* them.  The checks report and block nothing.  Each asset builds its own  *)
(* RunContext: the configuration is read again, and the run date is        *)
(* resolved again, today when RUN_DATE is not set.                         *)
(*                                                                         *)
(* The decision, the training and the promotion are ChampionRegistry's;    *)
(* its "load" is here the get_champion that ends model_version.            *)
(***************************************************************************)
EXTENDS ChampionRegistry, OfflineStore

CONSTANTS
  Pinned,     \* RUN_DATE is set (to day 0)
  Nothing     \* an empty store, an asset not materialized

ASSUME JobAssumption == Pinned \in BOOLEAN /\ Partitions = 0 .. MaxDay

\* "Not there" is no split.
ASSUME NothingIsNoSplit == Nothing \notin {"train", "score"}

VARIABLES
  partition,  \* partition[j]: the run_date raw_inputs resolved
  trained,    \* trained[j]: the partition whose train split j trained on, if
              \* that is still as valid as it was then, or Nothing
  version,    \* version[j]: the value of the asset model_version
  scored,     \* scored[j]: the batch j scores, and the model that scored it
  check,      \* check[j]: the outcome of training_data_valid
  served      \* the store: Nothing, or the stamp, the model and the batch of
              \* its rows

job     == <<partition, trained, version, scored, check>>
dvars   == <<vars, offline, job, served>>

RunDate == IF Pinned THEN 0 ELSE today

NoBatch == [day |-> 0, split |-> Nothing, model |-> NoVersion]

DInit ==
  /\ Init
  /\ FilesInit
  /\ partition = [j \in Runs |-> 0]
  /\ trained = [j \in Runs |-> Nothing]
  /\ version = [j \in Runs |-> NoVersion]
  /\ scored = [j \in Runs |-> NoBatch]
  /\ check = [j \in Runs |-> "pending"]
  /\ served = Nothing

-----------------------------------------------------------------------------
(***************************************************************************)
(* The seed scripts, started at any time and for any date.                 *)
(***************************************************************************)
StillAsValid(j) ==
  trained[j] # Nothing /\ trainFile'[trained[j]] = trainFile[trained[j]]

Seeding ==
  /\ \E s \in Seeders : Seed(s) \/ \E d \in SeedDates : OpenTrain(s, d)
  /\ trained' = [j \in Runs |-> IF StillAsValid(j) THEN trained[j] ELSE Nothing]
  /\ UNCHANGED <<vars, partition, version, scored, check, served>>

(***************************************************************************)
(* raw_inputs and feature_matrix; drift_report answers DriftShare.         *)
(***************************************************************************)
RawInputs(j) ==
  /\ Idle(j)
  /\ MayStart
  /\ RoomForAnother
  /\ partition' = [partition EXCEPT ![j] = RunDate]
  /\ check' = [check EXCEPT ![j] = "pending"]
  /\ Goto(j, "matrix")
  /\ UNCHANGED <<registry, today, locals, judged, offline, trained, version,
                 scored, served>>

FeatureMatrix(j) ==
  /\ pc[j] = "matrix"
  /\ HasTrain(RunDate)
  /\ Goto(j, "decide")
  /\ UNCHANGED <<registry, today, locals, judged, offline, job, served>>

TrainDecision(j) ==
  DecideRetrain(j) /\ UNCHANGED <<offline, job, served>>

(***************************************************************************)
(* model_version: train_register_promote when decided, then get_champion;  *)
(* what train_register_promote worked with is gone when it has returned.   *)
(***************************************************************************)
TrainModel(j) ==
  /\ pc[j] = "train"
  /\ TrainReadable(RunDate)
  /\ trained' = [trained EXCEPT ![j] = RunDate]
  /\ \E flag \in ManualFlags : manual' = [manual EXCEPT ![j] = flag]
  /\ \E score \in Scores : f1' = [f1 EXCEPT ![j] = score]
  /\ Goto(j, "register")
  /\ UNCHANGED <<registry, today, mine, seen, judged, offline, partition,
                 version, scored, check, served>>

RegisterAndMaybePromote(j) ==
  /\ RegisterModel(j) \/ ReadIncumbent(j) \/ Promote(j) \/ KeepIncumbent(j)
  /\ UNCHANGED <<offline, job, served>>

ForgetLocals(j) ==
  /\ manual' = [manual EXCEPT ![j] = FALSE]
  /\ f1' = [f1 EXCEPT ![j] = 0]
  /\ mine' = [mine EXCEPT ![j] = NoVersion]
  /\ seen' = [seen EXCEPT ![j] = NoVersion]

ModelVersion(j) ==
  /\ pc[j] = "load"
  /\ version' = [version EXCEPT ![j] = champion]
  /\ ForgetLocals(j)
  /\ Goto(j, "batch")
  /\ UNCHANGED <<registry, today, judged, offline, partition, trained, scored,
                 check, served>>

(***************************************************************************)
(* batch_predictions: the score split if its file exists, else the train   *)
(* split; it is read; then score_with_champion, which loads the champion   *)
(* as it is by now, resolving the alias twice as Pipeline shows.           *)
(***************************************************************************)
\* Mutant: a score split that cannot be read counts as absent.
ReadableSplit(d) == IF ScoreReadable(d) THEN "score" ELSE "train"
SplitOf(d) == IF HasScore(d) THEN "score" ELSE "train"

ChooseBatch(j) ==
  /\ pc[j] = "batch"
  /\ scored' = [scored EXCEPT ![j].day = RunDate, ![j].split = SplitOf(RunDate)]
  /\ Goto(j, "read")
  /\ UNCHANGED <<registry, today, locals, judged, offline, partition, trained,
                 version, check, served>>

Readable(batch) ==
  IF batch.split = "score" THEN ScoreReadable(batch.day) ELSE TrainReadable(batch.day)

ReadBatch(j) ==
  /\ pc[j] = "read"
  /\ Readable(scored[j])
  /\ Goto(j, "alias")
  /\ UNCHANGED <<registry, today, locals, judged, offline, job, served>>

ResolveAlias(j) ==
  /\ pc[j] = "alias"
  /\ champion # NoVersion
  /\ Goto(j, "fetch")
  /\ UNCHANGED <<registry, today, locals, judged, offline, job, served>>

LoadModel(j) ==
  /\ pc[j] = "fetch"
  /\ scored' = [scored EXCEPT ![j].model = champion]
  /\ Goto(j, "store")
  /\ UNCHANGED <<registry, today, locals, judged, offline, partition, trained,
                 version, check, served>>

(***************************************************************************)
(* load_online_store stamps the rows with the asset model_version; the     *)
(* version that scored them was dropped, line 93.  An empty batch changes  *)
(* nothing.                                                                *)
(***************************************************************************)
Stamp(j) == version[j]

\* Mutant: the asset does not wait for batch_predictions.
ReadyWithoutBatch(j) == pc[j] \in {"batch", "read", "alias", "fetch", "store"}
ReadyToLoad(j) == pc[j] = "store"

LoadOnlineStore(j) ==
  /\ ReadyToLoad(j)
  /\ \/ served' = [stamp |-> Stamp(j), model |-> scored[j].model,
                   day |-> scored[j].day, split |-> scored[j].split]
     \/ UNCHANGED served
  /\ Goto(j, "checks")
  /\ UNCHANGED <<registry, today, locals, judged, offline, job>>

(***************************************************************************)
(* training_data_valid runs once model_version is there, at any time       *)
(* before the job ends.  (Of the other checks raw_inputs_present repeats   *)
(* the test of feature_matrix, feature_matrix_valid is about values, and   *)
(* online_store_consistent finds nothing after an atomic swap.)            *)
(***************************************************************************)
\* Mutant: the check is satisfied when there is any data.
AnyTrainingData(d) == HasTrain(d)
TrainingDataOk(d) == trainFile[d] = "good"

TrainingDataValid(j) ==
  /\ pc[j] \in {"batch", "read", "alias", "fetch", "store", "checks"}
  /\ check[j] = "pending"
  /\ TrainReadable(RunDate)
  /\ check' = [check EXCEPT ![j] =
                 IF TrainingDataOk(RunDate) THEN "passed" ELSE "failed"]
  /\ UNCHANGED <<vars, offline, partition, trained, version, scored, served>>

(***************************************************************************)
(* The job ends when its assets and checks have run, or when one raises or *)
(* its process dies.  A new job materializes every asset again.            *)
(***************************************************************************)
EndJob(j) ==
  /\ EndRun(j)
  /\ trained' = [trained EXCEPT ![j] = Nothing]
  /\ version' = [version EXCEPT ![j] = NoVersion]
  /\ scored' = [scored EXCEPT ![j] = NoBatch]
  /\ partition' = [partition EXCEPT ![j] = 0]
  /\ check' = [check EXCEPT ![j] = "pending"]
  /\ UNCHANGED <<offline, served>>

FinishJob(j) ==
  /\ pc[j] = "checks"
  /\ check[j] # "pending"
  /\ EndJob(j)

FailJob(j) == ~Idle(j) /\ EndJob(j)

HumanFlips == FlipAlias /\ UNCHANGED <<offline, job, served>>
DayPasses == NextDay /\ UNCHANGED <<offline, job, served>>

DNext ==
  \/ Seeding \/ HumanFlips \/ DayPasses
  \/ \E j \in Runs :
       \/ RawInputs(j) \/ FeatureMatrix(j) \/ TrainDecision(j)
       \/ TrainModel(j) \/ RegisterAndMaybePromote(j)
       \/ ModelVersion(j) \/ ChooseBatch(j) \/ ReadBatch(j)
       \/ ResolveAlias(j) \/ LoadModel(j)
       \/ LoadOnlineStore(j) \/ TrainingDataValid(j)
       \/ FinishJob(j) \/ FailJob(j)

DSpec == DInit /\ [][DNext]_dvars

-----------------------------------------------------------------------------
Rows == [stamp : VersionIds \cup {NoVersion}, model : VersionIds,
         day : Partitions, split : {"train", "score"}]

\* The shape of the state the job adds.
DTypeOK ==
  /\ FilesTypeOK
  /\ version \in [Runs -> VersionIds \cup {NoVersion}]
  /\ trained \in [Runs -> Partitions \cup {Nothing}]
  /\ served = Nothing \/ served \in Rows

\* assets.py stamps rows with "none" when model_version found no champion; a
\* batch is never served under it, whatever other jobs do.
NoneNeverServed == served # Nothing => served.stamp # NoVersion

\* What is served carries the version of the model that predicted it.
StampMatchesModel == served # Nothing => served.stamp = served.model

\* batch_predictions chooses by what is there when it runs, not by what its job
\* was started for.  The batch chosen is never behind one another job has chosen,
\* or one that is served: not of an earlier day and, for the same day, not the
\* train split where the score split has been scored, however often it is seeded.
NotBehind(batch, other) ==
  \/ other.day < batch.day
  \/ other.day = batch.day /\ (other.split = "score" => batch.split = "score")

ChoicesMoveForward ==
  [][\A j \in Runs : scored[j].split = Nothing /\ scored'[j].split # Nothing =>
       /\ \A k \in Runs : scored[k].split # Nothing => NotBehind(scored'[j], scored[k])
       /\ served # Nothing => NotBehind(scored'[j], served)]_dvars

\* A job that trained on data that is still invalid does not end well unnoticed:
\* a check of its own has failed, unless midnight has passed since it began.
InvalidTrainingReported ==
  \A j \in Runs :
    pc[j] = "checks" /\ partition[j] = RunDate
      /\ trained[j] # Nothing /\ trainFile[trained[j]] = "bad" =>
        check[j] # "passed"
=============================================================================
