-------------------------- MODULE ChampionRegistry --------------------------
(***************************************************************************)
(* The MLflow model registry and the part of a pipeline run that decides   *)
(* to retrain, trains, registers a version and promotes it to the          *)
(* "champion" alias (ml/registry.py, pipeline.decide_retrain,              *)
(* pipeline.train_register_promote).                                       *)
(*                                                                         *)
(* A run is an operating-system process: automl-run, the Dagster job, or   *)
(* the child the dashboard spawns.  Nothing in the code keeps two of them  *)
(* apart, and every call to the MLflow server is a step of its own, so     *)
(* reading the incumbent and moving the alias are two steps.               *)
(*                                                                         *)
(* What a run does once train_decision is over (load the champion, score,  *)
(* swap) is one step here, Finish; module Pipeline refines it.             *)
(***************************************************************************)
EXTENDS Integers, Sequences, FiniteSets

CONSTANTS
  Runs,            \* the processes that execute the pipeline
  Scores,          \* the macro-F1 values a training can report, scaled
  Margin,          \* cfg.promotion.margin, on the same scale
  ManualFlags,     \* values of cfg.promotion.require_manual_promotion
  MaxModelAgeDays, \* cfg.retrain.max_model_age_days
  DriftShare,      \* the drift share handed to decide_retrain (0 today)
  DriftThreshold,  \* cfg.retrain.drift_threshold, on DriftShare's scale
  Serialized,      \* environment: one run, or one alias flip, at a time
  MaxVersions,     \* bound: versions ever registered
  MaxDay           \* bound: days that pass

ASSUME RegistryAssumption ==
  /\ Scores \subseteq Int
  /\ Margin \in Int
  /\ ManualFlags \subseteq BOOLEAN
  /\ MaxModelAgeDays \in Int
  /\ DriftShare \in Int /\ DriftThreshold \in Int
  /\ Serialized \in BOOLEAN
  /\ MaxVersions \in Nat /\ MaxDay \in Nat

NoVersion == 0     \* get_champion's None, and "not registered yet"

VARIABLES
  versions,   \* registered versions in order: their macro_f1 and birthday
  champion,   \* the version under the champion alias, or NoVersion
  today,      \* the day
  pc,         \* pc[r]: where run r is
  manual,     \* manual[r]: the flag in the configuration r loaded
  f1,         \* f1[r]: the macro_f1 of r's challenger
  mine,       \* mine[r]: the version r registered
  seen,       \* seen[r]: the incumbent r read, as the gate will use it
  judged      \* history: versions the gate decided on since the last flip

registry == <<versions, champion>>
locals   == <<manual, f1, mine, seen>>
vars     == <<registry, today, pc, locals, judged>>

VersionIds == 1 .. Len(versions)
Idle(r)    == pc[r] = "idle"
AllIdle    == \A r \in Runs : Idle(r)
MayStart   == Serialized => AllIdle

Goto(r, label) == pc' = [pc EXCEPT ![r] = label]

\* Bound: leaves room for one version of every run in progress.
RoomForAnother ==
  Len(versions) + Cardinality({r \in Runs : ~Idle(r)}) < MaxVersions

-----------------------------------------------------------------------------
Init ==
  /\ versions = <<>>
  /\ champion = NoVersion
  /\ today = 0
  /\ pc = [r \in Runs |-> "idle"]
  /\ manual = [r \in Runs |-> FALSE]
  /\ f1 = [r \in Runs |-> 0]
  /\ mine = [r \in Runs |-> NoVersion]
  /\ seen = [r \in Runs |-> NoVersion]
  /\ judged = {}

(***************************************************************************)
(* RunContext.build: the process starts and loads its configuration.       *)
(***************************************************************************)
Begin(r) ==
  /\ Idle(r)
  /\ MayStart
  /\ RoomForAnother
  /\ \E flag \in ManualFlags : manual' = [manual EXCEPT ![r] = flag]
  /\ Goto(r, "decide")
  /\ UNCHANGED <<registry, today, f1, mine, seen, judged>>

(***************************************************************************)
(* decide_retrain.  get_champion's two reads are one step: what the alias  *)
(* resolves to never changes once registered.                              *)
(***************************************************************************)
AgeDays(v) == today - versions[v].day

\* Mutant: the cold-start case is forgotten.
RetrainWithoutColdStart ==
  /\ champion # NoVersion
  /\ AgeDays(champion) > MaxModelAgeDays \/ DriftShare > DriftThreshold

RetrainDue ==
  \/ champion = NoVersion
  \/ AgeDays(champion) > MaxModelAgeDays
  \/ DriftShare > DriftThreshold

DecideRetrain(r) ==
  /\ pc[r] = "decide"
  /\ Goto(r, IF RetrainDue THEN "train" ELSE "load")
  /\ UNCHANGED <<registry, today, locals, judged>>

(***************************************************************************)
(* The trainer and log_model_run: a fitted model with its macro_f1, logged *)
(* as an MLflow run that no registered version refers to yet.              *)
(***************************************************************************)
Train(r) ==
  /\ pc[r] = "train"
  /\ \E score \in Scores : f1' = [f1 EXCEPT ![r] = score]
  /\ Goto(r, "register")
  /\ UNCHANGED <<registry, today, manual, mine, seen, judged>>

(***************************************************************************)
(* register_and_maybe_promote, call by call: register_model, get_champion, *)
(* then the gate and, when the challenger wins, the alias.                 *)
(***************************************************************************)
RegisterModel(r) ==
  /\ pc[r] = "register"
  /\ versions' = Append(versions, [f1 |-> f1[r], day |-> today])
  /\ mine' = [mine EXCEPT ![r] = Len(versions) + 1]
  /\ Goto(r, "incumbent")
  /\ UNCHANGED <<champion, today, manual, f1, seen, judged>>

\* Mutant: an outage of the registry is taken for "no champion".
OutageReadsAsColdStart(r) ==
  /\ pc[r] = "incumbent"
  /\ \E answer \in {champion, NoVersion} : seen' = [seen EXCEPT ![r] = answer]
  /\ Goto(r, "gate")
  /\ UNCHANGED <<registry, today, manual, f1, mine, judged>>

ReadIncumbent(r) ==
  /\ pc[r] = "incumbent"
  /\ seen' = [seen EXCEPT ![r] = champion]
  /\ Goto(r, "gate")
  /\ UNCHANGED <<registry, today, manual, f1, mine, judged>>

ColdStart(r) == seen[r] = NoVersion

\* The challenger's score against the incumbent that was read.
BeatsOnMarginAlone(r) == f1[r] + Margin > versions[seen[r]].f1     \* mutant
BeatsIncumbent(r) == f1[r] > versions[seen[r]].f1 + Margin

\* Mutant: require_manual_promotion is never looked at.
WinsUnattended(r) == ~ColdStart(r) => BeatsIncumbent(r)
\* Mutant: the flag holds back the first version too.
WaitsForHuman(r) == ~manual[r] /\ (~ColdStart(r) => BeatsIncumbent(r))
Wins(r) == ~ColdStart(r) => ~manual[r] /\ BeatsIncumbent(r)

Judge(r) ==
  judged' = IF ColdStart(r) \/ ~manual[r] THEN judged \cup {mine[r]} ELSE judged

NewestVersion(r) == Len(versions)                                 \* mutant
Challenger(r) == mine[r]

Promote(r) ==
  /\ pc[r] = "gate"
  /\ Wins(r)
  /\ champion' = Challenger(r)
  /\ Judge(r)
  /\ Goto(r, "load")
  /\ UNCHANGED <<versions, today, locals>>

KeepIncumbent(r) ==
  /\ pc[r] = "gate"
  /\ ~Wins(r)
  /\ Judge(r)
  /\ Goto(r, "load")
  /\ UNCHANGED <<registry, today, locals>>

(***************************************************************************)
(* The run ends: normally, or at any earlier point because a call raised   *)
(* (the registry is unreachable, training fails) or the process was killed.*)
(* MLflow keeps what was already written.                                  *)
(***************************************************************************)
EndRun(r) ==
  /\ Goto(r, "idle")
  /\ manual' = [manual EXCEPT ![r] = FALSE]
  /\ f1' = [f1 EXCEPT ![r] = 0]
  /\ mine' = [mine EXCEPT ![r] = NoVersion]
  /\ seen' = [seen EXCEPT ![r] = NoVersion]
  /\ UNCHANGED <<registry, today, judged>>

Finish(r) == pc[r] = "load" /\ EndRun(r)
Fail(r)   == ~Idle(r) /\ EndRun(r)

(***************************************************************************)
(* The environment: a human flips the alias in the MLflow UI; days pass.   *)
(***************************************************************************)
FlipAlias ==
  /\ MayStart
  /\ champion' \in VersionIds
  /\ judged' = {}
  /\ UNCHANGED <<versions, today, pc, locals>>

NextDay ==
  /\ today < MaxDay
  /\ today' = today + 1
  /\ UNCHANGED <<registry, pc, locals, judged>>

Step(r) ==
  \/ DecideRetrain(r) \/ Train(r) \/ RegisterModel(r) \/ ReadIncumbent(r)
  \/ Promote(r) \/ KeepIncumbent(r) \/ Finish(r)

Next ==
  \/ \E r \in Runs : Begin(r) \/ Step(r) \/ Fail(r)
  \/ FlipAlias \/ NextDay

Spec == Init /\ [][Next]_vars

-----------------------------------------------------------------------------
Labels == {"idle", "decide", "train", "register", "incumbent", "gate", "load"}

\* The shape of the state: the alias, and what runs remember, name versions
\* that are registered.
TypeOK ==
  /\ versions \in Seq([f1 : Scores, day : Nat])
  /\ champion \in VersionIds \cup {NoVersion}
  /\ today \in Nat
  /\ pc \in [Runs -> Labels]
  /\ manual \in [Runs -> BOOLEAN]
  /\ f1 \in [Runs -> Scores \cup {0}]
  /\ mine \in [Runs -> VersionIds \cup {NoVersion}]
  /\ seen \in [Runs -> VersionIds \cup {NoVersion}]
  /\ judged \subseteq VersionIds

\* After train_decision there is a model to score with, whatever other runs
\* did meanwhile and wherever earlier ones crashed: run_pipeline's
\* ChampionUnavailableError is never raised.
ScoringHasChampion ==
  \A r \in Runs : pc[r] = "load" => champion # NoVersion

\* The alias stays within the margin of the best: no version the gate has
\* decided on since a human last chose beats the champion by more.
ChampionWithinMargin ==
  champion # NoVersion =>
    \A v \in judged : versions[v].f1 <= versions[champion].f1 + Margin

MovesAlias(r) == pc[r] = "gate" /\ pc'[r] # "gate" /\ champion' # champion

\* registry.py, lines 5-6: the alias moves only to a version that beats by
\* the margin the version it is taken from.  Only cold start is exempt.
PromotionWins ==
  [][\A r \in Runs : MovesAlias(r) /\ champion # NoVersion =>
        versions[champion'].f1 > versions[champion].f1 + Margin]_vars

\* With require_manual_promotion a run never takes the alias from a version:
\* it sets the alias only where there was none.
ManualGate ==
  [][\A r \in Runs : MovesAlias(r) /\ manual[r] => champion = NoVersion]_vars

\* A run promotes the model whose score the gate judged, also when other runs
\* registered versions in between.
OwnChallenger ==
  [][\A r \in Runs : MovesAlias(r) => versions[champion'].f1 = f1[r]]_vars
=============================================================================
