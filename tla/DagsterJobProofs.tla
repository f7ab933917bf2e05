-------------------------- MODULE DagsterJobProofs --------------------------
(***************************************************************************)
(* Proofs about DagsterJob for every set of jobs, scores, margin, bound    *)
(* and range of days, with RUN_DATE set or not, and for any concurrent     *)
(* jobs, seed scripts and humans: the shape of its state, that nothing is  *)
(* served under "none", that the batches chosen only move forward, and     *)
(* what a job's own check says of the data it trained on.                  *)
(***************************************************************************)
EXTENDS DagsterJob, ChampionRegistryProofs

Scoring   == {"batch", "read", "alias", "fetch", "store"}
JobLabels == Labels \cup Scoring \cup {"matrix", "checks"}
Batches   == [day : Partitions, split : {"train", "score", Nothing},
              model : VersionIds \cup {NoVersion}]
SeedSteps == [day : Partitions, step : {"train", "between", "score"}]

(***************************************************************************)
(* What the registry, the seed script and the batch are; the partitions    *)
(* are the days, so the run date, pinned or not, is one of them.           *)
(***************************************************************************)
RegistryTypes ==
  /\ versions \in Seq([f1 : Scores, day : Nat])
  /\ champion \in VersionIds \cup {NoVersion}
  /\ today \in 0 .. MaxDay
  /\ pc \in [Runs -> JobLabels]
  /\ manual \in [Runs -> BOOLEAN]
  /\ f1 \in [Runs -> Scores \cup {0}]
  /\ mine \in [Runs -> VersionIds \cup {NoVersion}]
  /\ seen \in [Runs -> VersionIds \cup {NoVersion}]

JobTypes ==
  /\ DTypeOK
  /\ seeder \in [Seeders -> {Waiting, Ended} \cup SeedSteps]
  /\ partition \in [Runs -> Partitions]
  /\ scored \in [Runs -> Batches]
  /\ check \in [Runs -> {"pending", "passed", "failed"}]

(***************************************************************************)
(* DTypeOK is not inductive: the rows a job writes name the model it       *)
(* scored with, and the version it stamps them with is what get_champion   *)
(* answered at the end of model_version.  Both exist because the alias,    *)
(* once set, is never removed, and a job that skips training, or whose     *)
(* challenger loses, has read that it is set.                              *)
(***************************************************************************)
AliasStays ==
  \A j \in Runs :
    /\ pc[j] = "gate" /\ seen[j] # NoVersion => champion # NoVersion
    /\ pc[j] \in {"load", "checks"} \cup Scoring => champion # NoVersion

Stamped ==
  \A j \in Runs :
    /\ pc[j] \in Scoring => version[j] \in VersionIds
    /\ pc[j] \in Scoring \ {"batch"} => scored[j].split \in {"train", "score"}
    /\ pc[j] = "store" => scored[j].model \in VersionIds

NoneServed == served # Nothing => served.stamp \in VersionIds

DInv == RegistryTypes /\ JobTypes /\ Carried /\ AliasStays /\ Stamped /\ NoneServed

LEMMA DayIsPartition ==
  ASSUME today \in 0 .. MaxDay
  PROVE  RunDate \in Partitions /\ (Pinned => RunDate = 0)
  BY RegistryAssumption, JobAssumption DEF RunDate

LEMMA InitDInv == DInit => DInv
<1> SUFFICES ASSUME DInit PROVE DInv
  OBVIOUS
<1> USE DEF DInit, Init, FilesInit, NoVersion
<1>1. Len(versions) = 0 /\ VersionIds = {} /\ 0 \in Partitions
  BY RegistryAssumption, JobAssumption DEF VersionIds
<1>2. RegistryTypes
  BY <1>1, RegistryAssumption DEF RegistryTypes, JobLabels, Labels
<1>3. JobTypes
  BY <1>1 DEF JobTypes, DTypeOK, FilesTypeOK, Batches, NoBatch, Running
<1>4. Carried /\ AliasStays /\ Stamped /\ NoneServed
  BY DEF Carried, AliasStays, Stamped, NoneServed, Scoring
<1> QED
  BY <1>2, <1>3, <1>4 DEF DInv

-----------------------------------------------------------------------------
(***************************************************************************)
(* The seed scripts leave the registry and the jobs alone.                 *)
(***************************************************************************)
\* What any step of a seed script does to the files: it takes none away.
LEMMA FilesStay ==
  ASSUME DInv, Seeding
  PROVE  /\ FilesTypeOK'
         /\ seeder' \in [Seeders -> {Waiting, Ended} \cup SeedSteps]
         /\ \A d \in Partitions : HasTrain(d) => trainFile'[d] # "none"
         /\ \A d \in Partitions : HasScore(d) => scoreFile'[d] # "none"
<1>1. /\ trainFile \in [Partitions -> {"none", "half"} \cup Whole]
      /\ scoreFile \in [Partitions -> {"none", "half", "whole"}]
      /\ seeder \in [Seeders -> {Waiting, Ended} \cup SeedSteps]
      /\ \A s \in Seeders : Running(s) =>
           /\ seeder[s].day \in Partitions
           /\ HasTrain(seeder[s].day)
           /\ seeder[s].step = "score" => HasScore(seeder[s].day)
  BY DEF DInv, JobTypes, DTypeOK, FilesTypeOK
<1>2. PICK s \in Seeders : Seed(s) \/ \E d \in Partitions : OpenTrain(s, d)
  BY SeedAssumption DEF Seeding
<1>3. ASSUME /\ trainFile' \in [Partitions -> {"none", "half"} \cup Whole]
             /\ scoreFile' \in [Partitions -> {"none", "half", "whole"}]
             /\ \A d \in Partitions : HasTrain(d) => trainFile'[d] # "none"
             /\ \A d \in Partitions : HasScore(d) => scoreFile'[d] # "none"
             /\ \/ seeder' = [seeder EXCEPT ![s] = Ended]
                \/ /\ seeder'[s] \in SeedSteps
                   /\ trainFile'[seeder'[s].day] # "none"
                   /\ seeder'[s].step = "score" => scoreFile'[seeder'[s].day] # "none"
                   /\ seeder' = [seeder EXCEPT ![s] = seeder'[s]]
      PROVE  /\ FilesTypeOK'
             /\ seeder' \in [Seeders -> {Waiting, Ended} \cup SeedSteps]
  <2>1. seeder' \in [Seeders -> {Waiting, Ended} \cup SeedSteps]
    BY <1>1, <1>3
  <2>2. ASSUME NEW t \in Seeders, Running(t)'
        PROVE  /\ seeder'[t].day \in Partitions
               /\ trainFile'[seeder'[t].day] # "none"
               /\ seeder'[t].step = "score" => scoreFile'[seeder'[t].day] # "none"
    <3>1. CASE t = s
      BY <1>1, <1>3, <2>2, <3>1 DEF Running, SeedSteps
    <3>2. CASE t # s
      <4>1. seeder'[t] = seeder[t] /\ Running(t)
        BY <1>1, <1>3, <2>2, <3>2 DEF Running
      <4> QED
        BY <1>1, <1>3, <4>1
    <3> QED
      BY <3>1, <3>2
  <2> QED
    BY <1>3, <2>1, <2>2 DEF FilesTypeOK, HasTrain, HasScore
<1>4. CASE \E d \in Partitions : OpenTrain(s, d)
  BY <1>1, <1>3, <1>4 DEF OpenTrain, HasTrain, HasScore, SeedSteps
<1>5. ASSUME Running(s) PROVE seeder[s] \in SeedSteps
  BY <1>1, <1>5 DEF Running
<1>6. CASE WriteTrain(s)
  <2>1. PICK content \in Whole \cup {"half"} :
          trainFile' = [trainFile EXCEPT ![seeder[s].day] = content]
    BY <1>6 DEF WriteTrain
  <2>2. seeder' = [seeder EXCEPT ![s] = [seeder[s] EXCEPT !.step = "between"]]
          /\ UNCHANGED scoreFile /\ seeder[s] \in SeedSteps /\ Running(s)
    BY <1>5, <1>6 DEF WriteTrain, At, NextStep
  <2>3. seeder'[s] \in SeedSteps /\ seeder'[s].day = seeder[s].day
          /\ seeder'[s].step = "between"
    BY <1>1, <2>2 DEF SeedSteps
  <2> QED
    BY <1>1, <1>3, <2>1, <2>2, <2>3 DEF HasTrain, HasScore, Whole
<1>7. CASE OpenScore(s)
  <2>1. /\ seeder' = [seeder EXCEPT ![s] = [seeder[s] EXCEPT !.step = "score"]]
        /\ scoreFile' = [scoreFile EXCEPT ![seeder[s].day] = "half"]
        /\ UNCHANGED trainFile /\ seeder[s] \in SeedSteps /\ Running(s)
    BY <1>5, <1>7 DEF OpenScore, At, NextStep
  <2>2. seeder'[s] \in SeedSteps /\ seeder'[s].day = seeder[s].day
    BY <1>1, <2>1 DEF SeedSteps
  <2> QED
    BY <1>1, <1>3, <2>1, <2>2 DEF HasTrain, HasScore
<1>8. CASE WriteScore(s) \/ SeederDies(s)
  <2>1. /\ seeder' = [seeder EXCEPT ![s] = Ended] /\ UNCHANGED trainFile
        /\ \/ UNCHANGED scoreFile
           \/ \E content \in {"half", "whole"} :
                scoreFile' = [scoreFile EXCEPT ![seeder[s].day] = content]
    BY <1>8 DEF WriteScore, SeederDies, Stops
  <2> QED
    BY <1>1, <1>3, <2>1 DEF HasTrain, HasScore
<1> QED
  BY <1>2, <1>4, <1>6, <1>7, <1>8, <1>3 DEF Seed

\* A step that leaves the files alone.
LEMMA FilesSame ==
  ASSUME FilesTypeOK, UNCHANGED <<trainFile, scoreFile, seeder>>
  PROVE  FilesTypeOK'
  BY DEF FilesTypeOK, Running, HasTrain, HasScore

LEMMA SeedStep ==
  ASSUME DInv, Seeding
  PROVE  DInv'
<1> USE DEF DInv, JobTypes, DTypeOK
<1>1. UNCHANGED <<vars, partition, version, scored, check, served>>
  BY DEF Seeding
<1>2. RegistryTypes' /\ Carried' /\ AliasStays' /\ Stamped' /\ NoneServed'
  BY <1>1 DEF RegistryTypes, Carried, AliasStays, Stamped, NoneServed, VersionIds,
              vars, registry, locals
<1>3. /\ partition' \in [Runs -> Partitions] /\ scored' \in [Runs -> Batches']
      /\ check' \in [Runs -> {"pending", "passed", "failed"}]
      /\ version' \in [Runs -> VersionIds' \cup {NoVersion}]
      /\ served' = Nothing \/ served' \in Rows'
  BY <1>1 DEF Batches, Rows, VersionIds, vars, registry
<1>4. trained' \in [Runs -> Partitions \cup {Nothing}]
  BY DEF Seeding
<1> QED
  BY <1>2, <1>3, <1>4, FilesStay

\* A new version only adds an id, so whatever names versions still does.
LEMMA RegisterStep ==
  ASSUME DInv, NEW r \in Runs, RegisterModel(r), UNCHANGED <<offline, job, served>>
  PROVE  DInv'
<1> DEFINE e == [f1 |-> f1[r], day |-> today]
<1>1. e \in [f1 : Scores, day : Nat] /\ versions' = Append(versions, e)
  BY RegistryAssumption DEF RegisterModel, DInv, RegistryTypes, Carried
<1>2. /\ versions' \in Seq([f1 : Scores, day : Nat])
      /\ Len(versions) \in Nat
      /\ VersionIds' = VersionIds \cup {Len(versions) + 1}
      /\ \A v \in VersionIds : versions'[v] = versions[v]
      /\ versions'[Len(versions) + 1] = e
  <2> HIDE DEF e
  <2> QED BY <1>1, IdsGrow DEF DInv, RegistryTypes
<1>3. /\ mine' = [mine EXCEPT ![r] = Len(versions) + 1]
      /\ pc' = [pc EXCEPT ![r] = "incumbent"] /\ pc[r] = "register"
      /\ UNCHANGED <<champion, today, manual, f1, seen>>
      /\ UNCHANGED <<trainFile, scoreFile, seeder, partition, trained, version,
                     scored, check, served>>
  BY DEF RegisterModel, Goto, offline, job
<1>4. RegistryTypes'
  BY <1>2, <1>3 DEF DInv, RegistryTypes, JobLabels, Labels
<1>5. JobTypes'
  <2>1. FilesTypeOK'
    BY <1>3, FilesSame DEF DInv, JobTypes, DTypeOK
  <2> QED
    BY <1>2, <1>3, <2>1 DEF DInv, JobTypes, DTypeOK, Rows, Batches
<1>6. Carried'
  <2>1. mine'[r] = Len(versions) + 1 /\ mine'[r] \in VersionIds'
          /\ versions'[mine'[r]].f1 = f1'[r]
    BY <1>2, <1>3 DEF DInv, RegistryTypes
  <2>2. \A s \in Runs \ {r} : pc'[s] = pc[s] /\ mine'[s] = mine[s]
    BY <1>3 DEF DInv, RegistryTypes
  <2>3. pc'[r] = "incumbent"
    BY <1>3 DEF DInv, RegistryTypes
  <2> QED
    BY <1>2, <1>3, <2>1, <2>2, <2>3 DEF DInv, Carried
<1>7. AliasStays' /\ Stamped' /\ NoneServed'
  BY <1>2, <1>3 DEF DInv, AliasStays, Stamped, NoneServed, RegistryTypes, Scoring
<1> QED
  BY <1>4, <1>5, <1>6, <1>7 DEF DInv

LEMMA DInvStep == DInv /\ [DNext]_dvars => DInv'
<1> SUFFICES ASSUME DInv, [DNext]_dvars PROVE DInv'
  OBVIOUS
<1>1. RunDate \in Partitions
  BY DayIsPartition DEF DInv, RegistryTypes
<1>2. CASE Seeding
  BY <1>2, SeedStep
<1>0. UNCHANGED <<trainFile, scoreFile, seeder>> => FilesTypeOK'
  BY FilesSame DEF DInv, JobTypes, DTypeOK
<1> USE RegistryAssumption, <1>0, <1>1
    DEF DInv, RegistryTypes, JobTypes, DTypeOK, Carried, AliasStays,
        Stamped, NoneServed, Labels, JobLabels, Scoring, Rows, Batches, NoVersion,
        Goto, registry, locals, offline, job, VersionIds
<1>3. ASSUME NEW j \in Runs, RawInputs(j) \/ FeatureMatrix(j) PROVE DInv'
  <2>1. /\ pc[j] \in {"idle", "matrix"}
        /\ \/ pc' = [pc EXCEPT ![j] = "matrix"]
           \/ pc' = [pc EXCEPT ![j] = "decide"]
        /\ \/ partition' = [partition EXCEPT ![j] = RunDate]
           \/ UNCHANGED partition
        /\ \/ check' = [check EXCEPT ![j] = "pending"]
           \/ UNCHANGED check
        /\ UNCHANGED <<versions, champion, today, manual, f1, mine, seen, trainFile,
                       scoreFile, seeder, trained, version, scored, served>>
    BY <1>3 DEF RawInputs, FeatureMatrix, Idle
  <2>2. RegistryTypes'
    BY <2>1
  <2>3. JobTypes'
    <3>1. partition' \in [Runs -> Partitions]
      <4>1. partition \in [Runs -> Partitions]
        OBVIOUS
      <4> HIDE DEF DInv, RegistryTypes, JobTypes, DTypeOK, Carried,
                   AliasStays, Stamped, NoneServed
      <4> QED
        BY <2>1, <4>1
    <3>2. check' \in [Runs -> {"pending", "passed", "failed"}]
      BY <2>1
    <3> QED
      BY <2>1, <3>1, <3>2
  <2>4. Carried' /\ AliasStays' /\ Stamped' /\ NoneServed'
    BY <2>1
  <2> QED
    BY <2>2, <2>3, <2>4
<1>4. ASSUME NEW j \in Runs, TrainDecision(j) PROVE DInv'
  BY <1>4 DEF TrainDecision, DecideRetrain, RetrainDue
<1>5. ASSUME NEW j \in Runs, TrainModel(j) PROVE DInv'
  BY <1>5 DEF TrainModel
<1>6. ASSUME NEW j \in Runs, RegisterAndMaybePromote(j) PROVE DInv'
  <2>1. CASE RegisterModel(j)
    BY <1>6, <2>1, RegisterStep DEF RegisterAndMaybePromote
  <2>2. CASE ReadIncumbent(j)
    BY <1>6, <2>2 DEF RegisterAndMaybePromote, ReadIncumbent
  <2>3. CASE Promote(j)
    <3>1. /\ mine[j] \in VersionIds /\ pc[j] = "gate" /\ champion' = mine[j]
          /\ pc' = [pc EXCEPT ![j] = "load"]
          /\ UNCHANGED <<versions, today, manual, f1, mine, seen, trainFile,
                         scoreFile, seeder, partition, trained, version, scored,
                         check, served>>
      BY <1>6, <2>3 DEF RegisterAndMaybePromote, Promote, Challenger, RegisterModel,
                        ReadIncumbent, KeepIncumbent
    <3> QED
      BY <3>1
  <2>4. CASE KeepIncumbent(j)
    BY <1>6, <2>4 DEF RegisterAndMaybePromote, KeepIncumbent, Wins, ColdStart
  <2> QED
    BY <1>6, <2>1, <2>2, <2>3, <2>4 DEF RegisterAndMaybePromote
<1>7. ASSUME NEW j \in Runs, ModelVersion(j) PROVE DInv'
  BY <1>7 DEF ModelVersion, ForgetLocals
<1>8. ASSUME NEW j \in Runs, ChooseBatch(j) PROVE DInv'
  <2>1. /\ pc[j] = "batch" /\ pc' = [pc EXCEPT ![j] = "read"]
        /\ scored' = [scored EXCEPT ![j].day = RunDate, ![j].split = SplitOf(RunDate)]
        /\ SplitOf(RunDate) \in {"train", "score"}
        /\ UNCHANGED <<versions, champion, today, manual, f1, mine, seen, trainFile,
                       scoreFile, seeder, partition, trained, version, check, served>>
    BY <1>8 DEF ChooseBatch, SplitOf
  <2>2. RegistryTypes'
    BY <2>1
  <2>3. scored' \in [Runs -> Batches]
    <3>1. scored[j] \in Batches
      OBVIOUS
    <3>2. scored' = [scored EXCEPT ![j] =
                      [scored[j] EXCEPT !.day = RunDate, !.split = SplitOf(RunDate)]]
      BY <2>1
    <3>3. [scored[j] EXCEPT !.day = RunDate, !.split = SplitOf(RunDate)] \in Batches
      BY <2>1, <3>1
    <3> QED
      BY <3>2, <3>3
  <2>4. JobTypes'
    BY <2>1, <2>3
  <2>5. Carried' /\ AliasStays' /\ NoneServed'
    BY <2>1
  <2>6. Stamped'
    BY <2>1
  <2> QED
    BY <2>2, <2>4, <2>5, <2>6
<1>9. ASSUME NEW j \in Runs, ReadBatch(j) \/ ResolveAlias(j) PROVE DInv'
  <2>1. /\ pc[j] \in {"read", "alias"}
        /\ \/ pc' = [pc EXCEPT ![j] = "alias"]
           \/ pc' = [pc EXCEPT ![j] = "fetch"]
        /\ UNCHANGED <<versions, champion, today, manual, f1, mine, seen, trainFile,
                       scoreFile, seeder, partition, trained, version, scored,
                       check, served>>
    BY <1>9 DEF ReadBatch, ResolveAlias
  <2>2. RegistryTypes' /\ JobTypes'
    BY <2>1
  <2>3. Carried' /\ AliasStays' /\ Stamped' /\ NoneServed'
    BY <2>1
  <2> QED
    BY <2>2, <2>3
<1>10. ASSUME NEW j \in Runs, LoadModel(j) PROVE DInv'
  <2>1. /\ pc[j] = "fetch" /\ pc' = [pc EXCEPT ![j] = "store"]
        /\ scored' = [scored EXCEPT ![j].model = champion]
        /\ UNCHANGED <<versions, champion, today, manual, f1, mine, seen, trainFile,
                       scoreFile, seeder, partition, trained, version, check, served>>
    BY <1>10 DEF LoadModel
  <2>2. RegistryTypes'
    BY <2>1
  <2>3. scored' \in [Runs -> Batches]
    <3>1. scored' = [scored EXCEPT ![j] = [scored[j] EXCEPT !.model = champion]]
      BY <2>1
    <3>2. scored[j] \in Batches /\ champion \in VersionIds \cup {NoVersion}
      OBVIOUS
    <3>3. [scored[j] EXCEPT !.model = champion] \in Batches
      BY <3>2
    <3> QED
      BY <3>1, <3>3
  <2>4. JobTypes'
    BY <2>1, <2>3
  <2>5. Carried' /\ AliasStays' /\ NoneServed'
    BY <2>1
  <2>6. Stamped'
    <3>1. champion \in VersionIds /\ scored'[j].model = champion
      BY <2>1
    <3>2. \A k \in Runs \ {j} : scored'[k] = scored[k] /\ pc'[k] = pc[k]
      BY <2>1
    <3> QED
      BY <2>1, <3>1, <3>2
  <2> QED
    BY <2>2, <2>4, <2>5, <2>6
<1>11. ASSUME NEW j \in Runs, LoadOnlineStore(j) PROVE DInv'
  BY <1>11 DEF LoadOnlineStore, ReadyToLoad, Stamp
<1>12. ASSUME NEW j \in Runs, TrainingDataValid(j) PROVE DInv'
  BY <1>12 DEF TrainingDataValid, vars
<1>13. ASSUME NEW j \in Runs, EndJob(j) PROVE DInv'
  BY <1>13, JobAssumption DEF EndJob, EndRun, NoBatch
<1>14. CASE HumanFlips
  <2>1. /\ champion' \in VersionIds
        /\ UNCHANGED <<versions, today, pc, manual, f1, mine, seen, trainFile,
                       scoreFile, seeder, partition, trained, version, scored,
                       check, served>>
    BY <1>14 DEF HumanFlips, FlipAlias
  <2>2. RegistryTypes' /\ JobTypes'
    BY <2>1
  <2>3. Carried' /\ AliasStays' /\ Stamped' /\ NoneServed'
    BY <2>1
  <2> QED
    BY <2>2, <2>3
<1>15. CASE DayPasses
  <2>1. /\ today' \in 0 .. MaxDay
        /\ UNCHANGED <<versions, champion, pc, manual, f1, mine, seen, trainFile,
                       scoreFile, seeder, partition, trained, version, scored,
                       check, served>>
    BY <1>15 DEF DayPasses, NextDay
  <2>2. RegistryTypes' /\ JobTypes'
    BY <2>1
  <2>3. Carried' /\ AliasStays' /\ Stamped' /\ NoneServed'
    BY <2>1
  <2> QED
    BY <2>2, <2>3
<1>16. CASE UNCHANGED dvars
  BY <1>16 DEF dvars, vars
<1> QED
  BY <1>2, <1>3, <1>4, <1>5, <1>6, <1>7, <1>8, <1>9, <1>10, <1>11, <1>12, <1>13,
     <1>14, <1>15, <1>16 DEF DNext, FinishJob, FailJob

THEOREM DInductive == DSpec => []DInv
  BY InitDInv, DInvStep, PTL DEF DSpec

\* Files, versions and rows keep their shape, for any concurrent jobs and
\* seedings: what is served was predicted by a registered model.
THEOREM DTypeCorrect == DSpec => []DTypeOK
<1>1. DInv => DTypeOK
  BY DEF DInv, JobTypes
<1> QED
  BY <1>1, DInductive, PTL

\* A batch is never served under "none", for any concurrent jobs and humans.
THEOREM NoneNeverServedHolds == DSpec => []NoneNeverServed
<1>1. DInv => NoneNeverServed
  BY DEF DInv, NoneServed, NoneNeverServed, VersionIds, NoVersion
<1> QED
  BY <1>1, DInductive, PTL

-----------------------------------------------------------------------------
(***************************************************************************)
(* The run date never goes back, RUN_DATE set or not, and no file is ever  *)
(* removed.  So a batch that has been chosen or is served is of no later   *)
(* day than the next choice, and its score split, once there, stays.       *)
(***************************************************************************)
NoLaterThanNow(batch) ==
  batch.day <= RunDate /\ (batch.split = "score" => HasScore(batch.day))

Chosen ==
  /\ \A j \in Runs : scored[j].split # Nothing => NoLaterThanNow(scored[j])
  /\ served # Nothing => NoLaterThanNow(served)

LEMMA DaysAreNumbers ==
  ASSUME NEW d \in Partitions
  PROVE  d \in Int
  BY JobAssumption, RegistryAssumption

\* What time and the seed scripts change: the run date and the files.
LEMMA TimeGoesOn ==
  ASSUME DInv, [DNext]_dvars
  PROVE  /\ RunDate \in Partitions /\ RunDate' \in Partitions
         /\ RunDate <= RunDate'
         /\ \A d \in Partitions : HasScore(d) => scoreFile'[d] # "none"
<1>1. RunDate \in Partitions /\ RunDate' \in Partitions
  <2>1. (today \in 0 .. MaxDay) /\ (today' \in 0 .. MaxDay)
    BY DInvStep DEF DInv, RegistryTypes
  <2> QED
    BY <2>1, RegistryAssumption, JobAssumption DEF RunDate
<1>2. today' = today \/ DayPasses
  BY DEF DNext, Seeding, HumanFlips, FlipAlias, RawInputs, FeatureMatrix,
     TrainDecision, DecideRetrain, TrainModel, RegisterAndMaybePromote, RegisterModel,
     ReadIncumbent, Promote, KeepIncumbent, ModelVersion, ChooseBatch, ReadBatch,
     ResolveAlias, LoadModel, LoadOnlineStore, TrainingDataValid, FinishJob, FailJob,
     EndJob, EndRun, registry, dvars, vars
<1>3. RunDate <= RunDate'
  <2>1. today \in Int
    BY RegistryAssumption DEF DInv, RegistryTypes
  <2> QED
    BY <1>2, <2>1 DEF RunDate, DayPasses, NextDay
<1>4. UNCHANGED offline \/ Seeding
  BY DEF DNext, DayPasses, HumanFlips, RawInputs, FeatureMatrix, TrainDecision,
     TrainModel, RegisterAndMaybePromote, ModelVersion, ChooseBatch, ReadBatch,
     ResolveAlias, LoadModel, LoadOnlineStore, TrainingDataValid, FinishJob, FailJob,
     EndJob, dvars
<1>5. \A d \in Partitions : HasScore(d) => scoreFile'[d] # "none"
  BY <1>4, FilesStay DEF offline, HasScore
<1> QED
  BY <1>1, <1>3, <1>5

\* A batch that was not too new stays so.
LEMMA NoLaterStays ==
  ASSUME DInv, [DNext]_dvars, NEW batch, batch.day \in Partitions,
         NoLaterThanNow(batch)
  PROVE  /\ batch.day <= RunDate'
         /\ batch.split = "score" => scoreFile'[batch.day] # "none"
<1>1. RunDate \in Int /\ RunDate' \in Int /\ batch.day \in Int
  BY TimeGoesOn, DaysAreNumbers
<1> QED
  BY <1>1, TimeGoesOn DEF NoLaterThanNow

\* What a step does to the batches of the jobs, and to the one served.
LEMMA BatchSteps ==
  ASSUME DInv, [DNext]_dvars
  PROVE  /\ \A j \in Runs :
              \/ scored'[j].split = Nothing
              \/ scored'[j].day = scored[j].day /\ scored'[j].split = scored[j].split
              \/ scored'[j].day = RunDate /\ scored'[j].split = SplitOf(RunDate)
         /\ \/ UNCHANGED served
            \/ \E j \in Runs : /\ scored[j].split \in {"train", "score"}
                               /\ served'.day = scored[j].day
                               /\ served'.split = scored[j].split
<1>1. scored \in [Runs -> Batches] /\ \A j \in Runs : scored[j] \in Batches
  BY DEF DInv, JobTypes
<1>2. \/ UNCHANGED scored
      \/ \E k \in Runs : ChooseBatch(k) \/ LoadModel(k) \/ EndJob(k)
  BY DEF DNext, Seeding, HumanFlips, DayPasses, RawInputs, FeatureMatrix,
     TrainDecision, TrainModel, RegisterAndMaybePromote, ModelVersion, ReadBatch,
     ResolveAlias, LoadOnlineStore, TrainingDataValid, FinishJob, FailJob, dvars, job
<1>3. ASSUME NEW j \in Runs
      PROVE  \/ scored'[j].split = Nothing
             \/ scored'[j].day = scored[j].day /\ scored'[j].split = scored[j].split
             \/ scored'[j].day = RunDate /\ scored'[j].split = SplitOf(RunDate)
  <2>1. CASE UNCHANGED scored
    BY <2>1
  <2>2. ASSUME NEW k \in Runs, k # j, ChooseBatch(k) \/ LoadModel(k) \/ EndJob(k)
        PROVE  scored'[j] = scored[j]
    BY <1>1, <2>2 DEF ChooseBatch, LoadModel, EndJob
  <2>3. CASE ChooseBatch(j)
    BY <1>1, <2>3 DEF ChooseBatch, Batches
  <2>4. CASE LoadModel(j)
    BY <1>1, <2>4 DEF LoadModel, Batches
  <2>5. CASE EndJob(j)
    BY <1>1, <2>5 DEF EndJob, NoBatch
  <2> QED
    BY <1>2, <2>1, <2>2, <2>3, <2>4, <2>5
<1>4. UNCHANGED served \/ \E j \in Runs : LoadOnlineStore(j)
  BY DEF DNext, Seeding, HumanFlips, DayPasses, RawInputs, FeatureMatrix,
     TrainDecision, TrainModel, RegisterAndMaybePromote, ModelVersion, ChooseBatch,
     ReadBatch, ResolveAlias, LoadModel, TrainingDataValid, FinishJob, FailJob,
     EndJob, dvars
<1>5. ASSUME NEW j \in Runs, LoadOnlineStore(j), served' # served
      PROVE  /\ scored[j].split \in {"train", "score"}
             /\ served'.day = scored[j].day
             /\ served'.split = scored[j].split
  BY <1>5 DEF LoadOnlineStore, ReadyToLoad, DInv, Stamped, Scoring
<1> QED
  BY <1>3, <1>4, <1>5

LEMMA ChosenStep ==
  ASSUME DInv, Chosen, [DNext]_dvars
  PROVE  Chosen'
<1>1. /\ \A j \in Runs : scored[j].day \in Partitions
      /\ served # Nothing => served.day \in Partitions
  BY DEF DInv, JobTypes, DTypeOK, Batches, Rows
<1>2. RunDate \in Int /\ RunDate' \in Int /\ RunDate \in Partitions
  BY TimeGoesOn, DaysAreNumbers
<1>3. ASSUME NEW j \in Runs, scored'[j].split # Nothing
      PROVE  NoLaterThanNow(scored[j])'
  <2>1. CASE scored'[j].day = scored[j].day /\ scored'[j].split = scored[j].split
    BY <1>1, <1>3, <2>1, NoLaterStays DEF Chosen, NoLaterThanNow, HasScore
  <2>2. CASE scored'[j].day = RunDate /\ scored'[j].split = SplitOf(RunDate)
    <3>1. SplitOf(RunDate) = "score" => scoreFile'[RunDate] # "none"
      BY <1>2, TimeGoesOn DEF SplitOf
    <3>2. scored'[j].day <= RunDate'
      BY <1>2, <2>2, TimeGoesOn
    <3>3. scored'[j].split = "score" => scoreFile'[scored'[j].day] # "none"
      BY <2>2, <3>1
    <3> QED
      BY <3>2, <3>3 DEF NoLaterThanNow, HasScore
  <2> QED
    BY <1>3, <2>1, <2>2, BatchSteps
<1>4. ASSUME served' # Nothing PROVE NoLaterThanNow(served)'
  <2>1. CASE UNCHANGED served
    BY <1>1, <1>4, <2>1, NoLaterStays DEF Chosen, NoLaterThanNow, HasScore
  <2>2. ASSUME NEW j \in Runs, scored[j].split \in {"train", "score"},
               served'.day = scored[j].day, served'.split = scored[j].split,
               scored[j].split # Nothing
        PROVE  NoLaterThanNow(served)'
    <3>1. /\ scored[j].day <= RunDate'
          /\ scored[j].split = "score" => scoreFile'[scored[j].day] # "none"
      BY <1>1, <2>2, NoLaterStays DEF Chosen
    <3> QED
      BY <2>2, <3>1 DEF NoLaterThanNow, HasScore
  <2> QED
    BY <2>1, <2>2, BatchSteps, NothingIsNoSplit
<1> QED
  BY <1>3, <1>4 DEF Chosen

\* The batch a job chooses is never behind one that another has chosen or that
\* is served, whatever jobs, seed scripts, midnights and crashes come between.
THEOREM ChoicesMove == DSpec => ChoicesMoveForward
<1>1. ASSUME DInv, Chosen, [DNext]_dvars, NEW j \in Runs,
             scored[j].split = Nothing, scored'[j].split # Nothing
      PROVE  /\ \A k \in Runs :
                  scored[k].split # Nothing => NotBehind(scored'[j], scored[k])
             /\ served # Nothing => NotBehind(scored'[j], served)
  <2>1. scored'[j].day = RunDate /\ scored'[j].split = SplitOf(RunDate)
    BY <1>1, BatchSteps
  <2>2. RunDate \in Int /\ \A k \in Runs : scored[k].day \in Int
    BY <1>1, TimeGoesOn, DaysAreNumbers DEF DInv, JobTypes, Batches
  <2>3. served # Nothing => served.day \in Int
    BY <1>1, DaysAreNumbers DEF DInv, JobTypes, DTypeOK, Rows
  <2>4. ASSUME NEW batch, batch.day \in Int, NoLaterThanNow(batch)
        PROVE  NotBehind(scored'[j], batch)
    <3>1. CASE batch.day < RunDate
      BY <2>1, <3>1 DEF NotBehind
    <3>2. CASE batch.day = RunDate
      BY <2>1, <2>4, <3>2 DEF NotBehind, NoLaterThanNow, SplitOf
    <3> QED
      BY <2>2, <2>4, <3>1, <3>2 DEF NoLaterThanNow
  <2> QED
    BY <1>1, <2>2, <2>3, <2>4 DEF Chosen
<1>2. DInit => Chosen
  BY DEF DInit, Chosen, NoBatch
<1>3. DInv /\ Chosen /\ [DNext]_dvars => Chosen'
  BY ChosenStep
<1>4. DInv /\ Chosen /\ [DNext]_dvars =>
        [\A j \in Runs : scored[j].split = Nothing /\ scored'[j].split # Nothing =>
           /\ \A k \in Runs :
                scored[k].split # Nothing => NotBehind(scored'[j], scored[k])
           /\ served # Nothing => NotBehind(scored'[j], served)]_dvars
  BY <1>1
<1> QED
  BY <1>2, <1>3, <1>4, DInductive, PTL DEF DSpec, ChoicesMoveForward

-----------------------------------------------------------------------------
(***************************************************************************)
(* The check that runs beside a job reads the train split of the run date  *)
(* it resolves itself.  If midnight has not passed since the job began,    *)
(* that is the split the job trained on; and a split that has been written *)
(* again since counts as one the job did not train on.                     *)
(***************************************************************************)
Days ==
  \A j \in Runs :
    /\ partition[j] <= RunDate
    /\ trained[j] # Nothing => partition[j] <= trained[j] /\ trained[j] <= RunDate
    /\ check[j] # "pending" => pc[j] \in Scoring \cup {"checks"}
    /\ pc[j] = "idle" => trained[j] = Nothing

Checked ==
  \A j \in Runs :
    trained[j] # Nothing =>
      /\ trainFile[trained[j]] \in Whole
      /\ partition[j] = RunDate /\ check[j] = "passed" =>
           trainFile[trained[j]] = "good"

LEMMA CheckedStep ==
  ASSUME DInv, Days, Checked, [DNext]_dvars
  PROVE  Days' /\ Checked'
<1>1. /\ partition \in [Runs -> Partitions]
      /\ trained \in [Runs -> Partitions \cup {Nothing}]
      /\ check \in [Runs -> {"pending", "passed", "failed"}]
      /\ pc \in [Runs -> JobLabels]
      /\ trainFile \in [Partitions -> {"none", "half"} \cup Whole]
  BY DEF DInv, RegistryTypes, JobTypes, DTypeOK, FilesTypeOK
<1>2. /\ RunDate \in Partitions /\ RunDate' \in Partitions /\ RunDate <= RunDate'
      /\ RunDate \in Int /\ RunDate' \in Int
      /\ \A j \in Runs : /\ partition[j] \in Int
                         /\ trained[j] # Nothing => trained[j] \in Int
  BY <1>1, TimeGoesOn, DaysAreNumbers
\* Most steps change neither what a job trained on nor what its check said, or
\* forget the first.
<1>3. ASSUME UNCHANGED partition,
             \A j \in Runs : \/ trained'[j] = Nothing
                             \/ /\ trained'[j] = trained[j]
                                /\ trainFile'[trained[j]] = trainFile[trained[j]],
             \A j \in Runs : pc'[j] = "idle" => trained'[j] = Nothing,
             \A j \in Runs : check'[j] # "pending" =>
                               /\ check'[j] = check[j]
                               /\ pc'[j] \in Scoring \cup {"checks"}
      PROVE  Days' /\ Checked'
  <2>1. Days'
    BY <1>2, <1>3 DEF Days
  <2>2. ASSUME NEW j \in Runs, trained'[j] # Nothing,
               partition'[j] = RunDate', check'[j] = "passed"
        PROVE  trainFile'[trained'[j]] = "good"
    <3>1. partition[j] = RunDate /\ check[j] = "passed" /\ trained[j] # Nothing
      BY <1>2, <1>3, <2>2 DEF Days
    <3> QED
      BY <1>3, <2>2, <3>1 DEF Checked
  <2> QED
    BY <1>3, <2>1, <2>2 DEF Checked
<1>4. CASE Seeding
  <2>1. /\ trained' = [j \in Runs |-> IF StillAsValid(j) THEN trained[j] ELSE Nothing]
        /\ UNCHANGED <<pc, partition, check>>
    BY <1>4 DEF Seeding, vars
  <2> QED
    BY <1>3, <2>1 DEF StillAsValid, Days
<1>5. ASSUME NEW j \in Runs, RawInputs(j) PROVE Days' /\ Checked'
  <2>1. /\ pc[j] = "idle"
        /\ partition' = [partition EXCEPT ![j] = RunDate]
        /\ check' = [check EXCEPT ![j] = "pending"]
        /\ pc' = [pc EXCEPT ![j] = "matrix"]
        /\ UNCHANGED <<trained, trainFile, today>>
    BY <1>5 DEF RawInputs, Idle, Goto, offline
  <2>2. trained[j] = Nothing
    BY <2>1 DEF Days
  <2> QED
    BY <1>1, <1>2, <2>1, <2>2 DEF Days, Checked, RunDate
<1>6. ASSUME NEW j \in Runs, TrainModel(j) PROVE Days' /\ Checked'
  <2>1. /\ pc[j] = "train" /\ pc' = [pc EXCEPT ![j] = "register"]
        /\ trained' = [trained EXCEPT ![j] = RunDate]
        /\ trainFile[RunDate] \in Whole
        /\ UNCHANGED <<trainFile, partition, check, today>>
    BY <1>6 DEF TrainModel, TrainReadable, Goto, offline, registry
  <2>2. check[j] = "pending"
    BY <1>1, <2>1 DEF Days, Scoring
  <2>3. RunDate' = RunDate
    BY <2>1 DEF RunDate
  <2> QED
    BY <1>1, <1>2, <2>1, <2>2, <2>3 DEF Days, Checked
<1>7. ASSUME NEW j \in Runs, TrainingDataValid(j) PROVE Days' /\ Checked'
  <2>1. /\ pc[j] \in Scoring \cup {"checks"}
        /\ check' = [check EXCEPT ![j] = IF trainFile[RunDate] = "good" THEN "passed"
                                                                        ELSE "failed"]
        /\ UNCHANGED <<trainFile, pc, partition, trained, today>>
    BY <1>7 DEF TrainingDataValid, TrainingDataOk, Scoring, offline, vars
  <2>2. RunDate' = RunDate
    BY <2>1 DEF RunDate
  <2>3. Days'
    BY <1>1, <2>1, <2>2 DEF Days
  <2>4. ASSUME NEW k \in Runs, trained'[k] # Nothing
        PROVE  /\ trainFile'[trained'[k]] \in Whole
               /\ partition'[k] = RunDate' /\ check'[k] = "passed" =>
                    trainFile'[trained'[k]] = "good"
    <3>1. CASE k = j
      BY <1>1, <1>2, <2>1, <2>2, <2>4, <3>1 DEF Days, Checked
    <3>2. CASE k # j
      BY <1>1, <2>1, <2>2, <2>4, <3>2 DEF Checked
    <3> QED
      BY <3>1, <3>2
  <2> QED
    BY <2>3, <2>4 DEF Checked
<1>8. ASSUME NEW j \in Runs, EndJob(j) PROVE Days' /\ Checked'
  <2>1. /\ pc' = [pc EXCEPT ![j] = "idle"]
        /\ trained' = [trained EXCEPT ![j] = Nothing]
        /\ partition' = [partition EXCEPT ![j] = 0]
        /\ check' = [check EXCEPT ![j] = "pending"]
        /\ UNCHANGED <<trainFile, today>>
    BY <1>8 DEF EndJob, EndRun, Goto, registry, offline
  <2>2. 0 <= RunDate /\ RunDate' = RunDate
    BY <1>2, <2>1, JobAssumption, RegistryAssumption DEF RunDate
  <2> QED
    BY <1>1, <1>2, <2>1, <2>2 DEF Days, Checked
\* What is left moves jobs forward and touches none of this.
<1>9. ASSUME UNCHANGED <<trainFile, partition, trained, check>>,
             \A j \in Runs : pc'[j] = "idle" => pc[j] = "idle",
             \A j \in Runs : pc[j] \in Scoring \cup {"checks"} =>
                               pc'[j] \in Scoring \cup {"checks"}
      PROVE  Days' /\ Checked'
  BY <1>3, <1>9 DEF Days
<1>10. ASSUME NEW j \in Runs,
              \/ FeatureMatrix(j) \/ TrainDecision(j) \/ RegisterAndMaybePromote(j)
              \/ ModelVersion(j) \/ ChooseBatch(j) \/ ReadBatch(j) \/ ResolveAlias(j)
              \/ LoadModel(j) \/ LoadOnlineStore(j)
       PROVE  Days' /\ Checked'
  <2>1. /\ UNCHANGED <<trainFile, partition, trained, check>>
        /\ \/ pc[j] \in {"matrix", "decide", "register", "incumbent", "gate"}
              /\ \E to \in JobLabels \ {"idle"} : pc' = [pc EXCEPT ![j] = to]
           \/ \E to \in Scoring \cup {"checks"} : pc' = [pc EXCEPT ![j] = to]
    BY <1>10 DEF FeatureMatrix, TrainDecision, DecideRetrain, RegisterAndMaybePromote,
       RegisterModel, ReadIncumbent, Promote, KeepIncumbent, ModelVersion, ChooseBatch,
       ReadBatch, ResolveAlias, LoadModel, LoadOnlineStore, ReadyToLoad, Goto, offline,
       job, JobLabels, Labels, Scoring
  <2> QED
    BY <1>1, <1>9, <2>1 DEF Scoring
<1>11. CASE HumanFlips \/ DayPasses \/ UNCHANGED dvars
  BY <1>9, <1>11 DEF HumanFlips, DayPasses, FlipAlias, NextDay, dvars, vars, offline,
                     job
<1> QED
  BY <1>4, <1>5, <1>6, <1>7, <1>8, <1>10, <1>11 DEF DNext, FinishJob, FailJob

\* A job that trained on data that is still invalid when it ends has a failed check
\* of its own, unless midnight has passed since it began, however many seed scripts
\* and other jobs interleave.
THEOREM TrainingReported == DSpec => []InvalidTrainingReported
<1>1. DInit => Days /\ Checked
  BY RegistryAssumption DEF DInit, Init, Days, Checked, RunDate
<1>2. DInv /\ Days /\ Checked /\ [DNext]_dvars => Days' /\ Checked'
  BY CheckedStep
<1>3. Checked => InvalidTrainingReported
  BY DEF Checked, InvalidTrainingReported
<1> QED
  BY <1>1, <1>2, <1>3, DInductive, PTL DEF DSpec
=============================================================================
