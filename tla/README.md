# TLA+ models of buyer-stage-prediction

This directory holds TLA+ modules of the tabular AutoML template in this
repository, the TLC configurations that check them on small instances, and
TLAPS proofs of the properties that matter most. Paths below are relative to
the repository root.

- [1. The system](#1-the-system)
- [2. Modules and code](#2-modules-and-code)
- [3. The runs](#3-the-runs)
- [4. Where code and documentation disagree](#4-where-code-and-documentation-disagree)
- [5. What is proved](#5-what-is-proved)
- [6. Not modelled, and the plan](#6-not-modelled-and-the-plan)

Check a run with `tlc -config pipeline_serial.cfg MCPipeline`, a proof with
`tlapm PipelineProofs.tla`.

## 1. The system

A daily batch retrains a classifier when its policy says so, promotes the new
model if it beats the current one, scores every entity and swaps the
predictions into a serving table. Four kinds of process do this or watch it:
`automl-run`, the Dagster job, the dashboard (which spawns `automl-run`), and
the serving API. They share three stores and nothing else: the MLflow registry,
the serving database and files under `data/`. **No lock, lease or run queue
keeps two of them apart**; that is what most of the models are about.

| Component | State it keeps | Operations | Talks to |
|---|---|---|---|
| registry and promotion (`ml/registry.py`) | versions, the `champion` alias (in MLflow) | `log_model_run`, `register_and_maybe_promote`, `get_champion`, `load_champion` | MLflow server, call by call |
| online store (`store/online.py`, `store/models.py`) | `predictions_online` | `ensure_schema`, `load_predictions`, `check_consistency`, `get_prediction`, `active_model_versions`, `summary` | SQLite or Postgres |
| pipeline (`pipeline.py`, `runtime.py`, `cli.py`) | one run's locals, `PipelineResult` | `decide_retrain`, `train_register_promote`, `run_pipeline` | registry, scoring, stores |
| Dagster job (`dagster_defs/`) | asset values, check results | seven assets, four checks, schedule, sensors | the same step functions, one process per asset |
| offline store (`store/offline.py`) | partitions of parquet files | `write_matrix`, `read_matrix`, `has_matrix` | written by the seed script, read by the pipeline and the job |
| dashboard runs (`dashboard/app.py`, `service.py`) | session state, cache, child processes, log files | launch, seed, poll, parse, cached reads | child processes, all stores |
| dashboard configuration (`service.py`) | the active `pipeline.yaml` and its `.tmp` | `save_config`, `load_config_raw` | every run reads the file |
| serving API (`api/main.py`) | the store its lifespan opened | `/predict`, `/model/active`, `/healthz` | online store |
| validation, scoring, reshape, shaping | none (pure) | called by the pipeline, the job and the training query | |
| schedules, sensors, drift, notifications | none | stopped, without a caller, or output only | |

What is hard here:

- **check-then-act on the registry**: the incumbent is read, then the alias is
  moved; the alias is resolved twice when a model is loaded; Dagster reads the
  version to stamp before the model that scores is loaded;
- **the swap**: one transaction, but on Postgres at READ COMMITTED, where two
  such transactions do not exclude each other;
- **opening the store**: `ensure_schema` looks for the table and creates it,
  in every process that starts;
- **files that are there and cannot be read**: `has_matrix` asks for the name;
- **checks after the fact**: `check_consistency` and `training_data_valid` run
  when the state they speak of may have changed;
- **crashes**: MLflow keeps what a dead run wrote; the database rolls back; the
  temporary configuration file stays;
- **polling**: the page asks three times per execution whether its child lives;
- **the clock**: run dates change at midnight, run ids have one-second names.

What makes each component correct is stated next to its run in section 3, and
`PROJECT.json` lists each hazard with its line and its properties.

## 2. Modules and code

`ServingTable` is an abstract specification; the others follow the code.

```
ServingTable      <--implements--   OnlineStore  <--implements--  Serving
ChampionRegistry  <--implements--   Pipeline     (extends it, store = one record)
ChampionRegistry, OfflineStore  <--extended by--  DagsterJob
Reshape, FeatureColumns         <--extended by--  DataRules
Console, ConfigFile               (the dashboard; on their own)
MCxxx                             (TLC instances: symmetry, families of inputs)
xxxProofs                         (theorems)
```

**ChampionRegistry** has one action per call a run makes to MLflow: `Begin`,
`DecideRetrain`, `Train` (the trainer and `log_model_run`), `RegisterModel`,
`ReadIncumbent`, then `Promote` or `KeepIncumbent`; `Finish` stands for the
rest of the run. `Fail` can end a run at any point: a call raised or the process
died. `FlipAlias` is the human in the MLflow UI and `NextDay` the clock. A
score is a small integer, `macro_f1` scaled, because the gate only compares and
adds. The two reads inside `get_champion` are one step: what a version's run
recorded never changes. `judged` is a history variable.

**ServingTable** is what `store/online.py` promises: a table that is replaced
as a whole in one step. **OnlineStore** is the code on its databases. Each SQL
statement and each inserted row is a step; a DELETE has a start (its snapshot)
and an end (after it has waited). A row is named by the load that wrote it,
which fixes its `model_version`. SQLite is `MayWrite`, one writing transaction
at a time; Postgres is `Found`, `HeldBy`, `WaitsFor`, `Deadlock`. These are
models of the databases as the code uses them, marked external in the map.

**Serving** extends `OnlineStore` by those who open it: loads, the dashboard's
summaries (a new `OnlineStore` each) and API processes (one each, in the
lifespan). `LookForTable`, `CreateTable` and `CreateFails` are `ensure_schema`;
`Predict` is `GET /predict` and `Stop` the end of an API process, which may come
up again. A load whose CREATE TABLE fails is lost. The history variables are
who was refused, and the entities whose last lookup found a row.

**Pipeline** is `run_pipeline` over both: it extends `ChampionRegistry`, reuses
its actions, and splits `Finish` into `ResolveAlias`, `LoadModel`, `Swap` and
`Return`. The store is one record, as `ServingTable` allows. `Swap` is `LoadRows`
or, for a batch without rows, `LoadNothing`, after which `Return` still gives a
result. `RegistryRefined` maps it back: validation has not begun for the registry, and everything from
`load` on is `load`. The bound on versions is the one constant that differs.

**OfflineStore** has the two files of a partition. `write_parquet` is two
steps, so a file is absent, half written or whole, and the name exists from
the first step on. A seed script writes train, then score, and may die between
any two steps. Several scripts run, for the same date if they like, while jobs
read: what two writes of one file leave may be unreadable, the state "half".

**DagsterJob** is the chain of assets, each with a `RunContext` of its own, so
each resolves the run date again (`RunDate`): without `RUN_DATE` that is today,
and a job across midnight trains on one day and scores another. Choosing the
batch (`has_matrix`) and reading it are two steps, and so are the two
resolutions of the alias. `LoadOnlineStore` stores the batch or, if it has no
rows, nothing. `TrainingDataValid` runs at any time after `ModelVersion` and
blocks nothing. Of a training split only its validity matters; a job's note of
what it trained on is dropped when that validity may have changed.

**Reshape**, **FeatureColumns** and **DataRules** are the pure functions:
`Reshape` the projection of a window (default, clip, one-hot), the chain of FULL
OUTER JOINs and the row's snapshot; `FeatureColumns` the columns of a frame from
`train_register_promote` through `_numeric_features` to `align_features`, and
the guard of `shaping.py` beside it; `DataRules` adds the three validators and
the deduplication of `load_predictions`, and calls each function with every
input of a bounded family. A row has one raw value, and each column of
`Columns` treats it in its own way: with or without a clip (`spec.clip`), with
its default (`spec.coalesce_default`), named `dwell_time` or not. The
validator's bound of 180 is a number of its own (`DwellBound`), and its branches
for a missing entity key, target or date column are there (`keyed`, `labelled`,
`dated`). Numbers stand for floats: they are only compared. In
`FeatureColumns` a value is where it comes from, the batch or the constant 0.0.

**Console** is one browser page per session. An execution of `app.py` is
`DrawButtons` (or `Launch`), `DrawStatus`, `DrawTabs`, `LastPoll`, since the
child can exit between any two of them. The cache is shared by all sessions. A
cached value is a count of swaps, which is all a comparison of ages needs, and
whether the read worked: an outage is cached as a number is. A cached read is
one step, so a cache fill that is interrupted by a clear is not modelled. When
two processes write one log file, its last summary line is that of the process
that printed last.

**ConfigFile** separates names from files, because an open file follows no
rename: `OpenTmp`, `WriteTmp` and `Replace` are the three calls of a save.

Environment assumptions are constants, so that a run can switch them:
`Serialized` (one run, load or save at a time: how the system is used when a
single scheduler starts it; for the registry it also says that humans do not
move the alias during a run), `Pinned` (`RUN_DATE` is set), `OnePerSecond`,
`Patient` (users wait for the page). Bounds are `SeedDates` (the days that are
seeded), `MaxVersions`, `MaxDay`,
`MaxLaunches`, `MaxSecond`; each appears in a guard and in the sets it
bounds (`VersionIds`, `Partitions`, `Ids`).

## 3. The runs

Passing runs, and what they show:

| Run | Properties | Shows |
|---|---|---|
| `store_sqlite` | `TypeOK` `SummaryPlausible` `RefusedOnce` `AtomicSwap` `NeverWiped` `StaysFound` | SQLite, from a database without a table: concurrent opening and loads, empty batches among them, implement `ServingTable`; what a summary and a lookup can rely on |
| `store_postgres` | `AllOrNothing` `MixReported` `NeverWiped` `LoadsEnd` | Postgres: what holds for any batches that are not empty, and that no load waits for ever |
| `pipeline_serial` | `PTypeOK` `LockStep` `ChampionWithinMargin` `ResultTellsStore` `ServedNeverWorse` `PromotionWins` `ManualGate` | one run at a time: the promotion rule, the manual gate, and that the champion never falls more than the margin behind a version judged since a human chose; model, columns and stamp belong together, and a result tells what is served, also after an empty batch |
| `pipeline_concurrent` | `NeverUnavailable` `OwnChallenger` `RegistryRefined` | what survives concurrency, crashes and a human in the MLflow UI: the pipeline implements `ChampionRegistry`, `ChampionUnavailableError` is unreachable, what a run promotes has the score its gate judged |
| `dagster_concurrent` | `DTypeOK` `InvalidTrainingReported` `NoneNeverServed` `ChoicesMoveForward` | two jobs, two seed scripts that overlap and die, a human, and midnight between any two assets: what is still true of the batches chosen and of the check when a job mixes two days |
| `console_sessions` | `TypeOK` `FreshNumbers` `OwnSummary` `FinishedHasSummary` `EnabledMeansIdle` | two impatient sessions over one cache, and a store that is at times unavailable |
| `config_serial` | `TypeOK` `NeverCorrupt` `LoadsWhole` `AtomicSave` | one save at a time, failing anywhere, next to loaders |
| `data_rules` | `JoinKeepsEntities` `ReshapedIsValid` `NoSkew` `ClassesSupported` `PitSymmetric` `LastWriteWins` | each pure function against what it is for, said in another way |

The four runs that expect a violation are in section 4.

**Bounds.** Two runs (jobs, sessions) are what a race needs; `pipeline_serial`
has two so that the second starts from what a dead or finished first one left.
Three scores with a margin of 1 give a challenger that loses, ties within the
margin and wins; three versions give a promotion, a human choice and a
promotion after it. `MaxModelAgeDays = 0` and one day let a champion become
stale. `pipeline_concurrent` has two versions: one for each run, or two of one.
In `dagster_concurrent` one score leaves the alias to cold starts and the
human, whom its properties are exposed to; none of them compares scores; two
scripts are what overlapping writes need, and two partitions are the days
before and after midnight. Only the first is seeded (`SeedDates`): with both, TLC
has some 27 million states, and the theorems are for all days. `dagster_stamp`
has two scores and promotes. Two entities give equal, disjoint and nested batches. On Postgres
three loads let two overlap while a third has been served; `store_sqlite` has
two loads, a summary and an API process, since its writers exclude each other,
and its properties are proved for any number.

`data_rules` takes three windows where the default is five: with the third, a
table is joined to rows with and without a cell of the base and of the window
before. Window tables have up to two rows, of two entities or two snapshots of
one, null among them, with a negative, a missing and a too large value. The
numeric columns are one clipped at 180, one clipped above it, one without a clip
and one with a negative default. Feature columns are every arrangement of any of
four names, training frames with the target and batches
with the key, and any of the features numeric. Two classes and the missing
label have 0 to 2 rows; dates lie up to four days apart, or are missing, with
windows of 0 to 2 days; batches have up to four rows over two entities.

Two launches, each a run or a seeding, are the least for one log or one cache
to be shared. Five files are one save, two names and two loaders, with one
fresh.

**Deadlock.** The `store_*` configurations switch the deadlock check off: a
`Load` is one call, so the system ends when all calls have ended. All others
check it.

**Fairness.** Only two runs use any. `store_postgres`: a load under way is
scheduled and the database ends circular waits (Postgres's deadlock detection);
nothing has to start. `console_missed_end`: Streamlit finishes an execution and
its sleep, and a child ends (its training has a time budget); users owe nothing.

**Symmetry** is used in safety runs only.

Every property of a passing run is also run against a mutant, an operator in
the module marked as such, that a plausible bug would have produced; TLC finds
each violated.

## 4. Where code and documentation disagree

Each of these runs has one property, taken from a docstring, a comment or the
architecture document, and TLC finds a behaviour of the code that violates it.

| Run | The claim | The behaviour |
|---|---|---|
| `store_postgres_mix` | "readers never observe a half-loaded mix" (`store/online.py:4-5`) | disjoint batches on Postgres both commit |
| `pipeline_promoted` | `promoted` is what the promotion returned (`pipeline.py:58`) | it is `retrain` (`pipeline.py:111`) |
| `dagster_stamp` | the "serving champion version" (`assets.py:69`) | a promotion before the batch is scored |
| `console_missed_end` | refreshed "now that this run wrote them" (`app.py:136`) | the run ends between two polls |

The following hold only under the environment assumption of the run that
checks them. Switch its constant and TLC gives the interleaving:

| Property | Run, and the constant to switch | The behaviour |
|---|---|---|
| `PromotionWins`, `ChampionWithinMargin` ("ONLY if it beats the incumbent", `ml/registry.py:5-6`) | `pipeline_serial`, `Serialized = FALSE` | two runs read the same incumbent; the worse writes last |
| `ManualGate` (the alias is left "for a human to flip", `ml/registry.py:113`) | `pipeline_serial`, `Serialized = FALSE` | two cold starts; the flag is looked at after line 109 |
| `LockStep` ("train and serve in lock-step", `ml/registry.py:34-35`) | `pipeline_serial`, `Serialized = FALSE` | a promotion between the two resolutions of the alias |
| `OwnSummary` (a "per-run log file", `service.py:120`) | `console_sessions`, `OnePerSecond = FALSE` | two launches in one second |
| `NeverCorrupt` ("atomically write", `service.py:62`) | `config_serial`, `Serialized = FALSE` | two saves share one temporary name |

`Serialized` keeps humans out of a run as well as other runs. Nothing in the
code does: a human who moves the alias between the two resolutions, or after the
incumbent was read, does what the second run of the first and third rows does.

Others were met while reading and need no exploration: `training_data_valid` is
said to gate training (`docs/ARCHITECTURE.md:125`) and is a non-blocking check
that runs after the promotion; the four statements of `summary`, a "serving
snapshot" (`store/online.py:101`), share no snapshot; the history said to be
"Most-recent-first" (`service.py:190`) lists every `seed-` log first. And:

- `ensure_schema` is "idempotent" (`store/models.py:42`), and two processes on
  a fresh database can both look before either creates; the second raises, and
  a run that raises there has lost its batch (`RefusedOnce` is what remains);
- "ttl preserves DDB eviction semantics" (`store/models.py:19`), and no
  statement reads the column: nothing is evicted;
- "collapse to exactly one row per entity" (`etl/reshape.py:34`) and "an entity
  present in ANY window yields exactly one row" (`etl/reshape.py:90-91`): an
  entity with two snapshots in a window gets two rows, and with two in each of
  two windows four; `JoinKeepsEntities` says how many, one for each way to
  combine its rows, and TLC's tables have such entities;
- `spec.clip` is configured and the validator compares with a literal 180
  (`schemas/feature_schema.py:48`), "the original clip" (line 44): with a clip
  above 180 a clipped matrix is reported (`ReshapedIsValid` says when);
- an empty batch is a no-op (`store/online.py:40-41`), and the run then returns a
  result and a notification that name the champion with `rows_scored` 0
  (`pipeline.py:102-116`) while the rows of an older version stay served
  (`ResultTellsStore` says what is there);
- only a "does-not-exist" error is said to be a cold start
  (`ml/registry.py:79`), and `_alias_missing` takes any message that has "not
  found" in it for one (lines 72-73): `ReadIncumbent` has the registry's two
  answers and no wordings, so an outage that is worded that way is not in it;
- `batch_predictions` scores "the run's matrix" (`dagster_defs/assets.py:82`):
  across midnight it is another day's than the job trained on, and while a day
  is seeded for the first time it is the train split, because the score split
  is not there yet. `ChoicesMoveForward` is what remains: no batch is behind one
  already chosen or served;
- the reshape fills in defaults before it joins (`etl/reshape.py:63`), so the
  cells of an entity a window lacks stay null, and the validator's minima and
  maxima pass over nulls (`ReshapedIsValid` says exactly what it reports);
- with a missing label among the classes, the message of a class mismatch
  sorts null with strings and raises a `TypeError`
  (`schemas/feature_schema.py:63`) where a report is due;
- "Assert every joined row obeys" the window (`schemas/feature_schema.py:82`):
  a row whose date does not parse is passed over (`PitSymmetric` is stated for
  those that do);
- an older run that commits late replaces a newer run's rows: `scored_at` is
  stored and never compared.

## 5. What is proved

TLC checks the instances above; TLAPS proves, for every value of the constants
that satisfies the modules' ASSUMEs:

**ChampionRegistryProofs.** `IInv` adds to `TypeOK` that a run past the
incumbent's reading names a registered version with its own score, and that a
run past the decision not to train, or past its gate, has seen a champion:
`ScoringHasChampion` is not inductive without it, because nothing else says that
the alias, once set, stays. From it follow `TypeCorrect`, `ChampionAvailable`
and `PromotesOwnChallenger`, with any concurrency. Under `Serialized`,
`SerialInv` adds that at most one run is active and that what it read is still
the champion; `SerialPromotionWins`, `SerialManualGate` and
`SerialWithinMargin` (which needs `Margin >= 0`) follow.

**OnlineStoreProofs.** The inductive invariant says which keys a transaction may
hold at each stage (no two hold one key; what is inserted is free or deleted by
the same load) and that a served load is served whole. It gives `ServedWhole`
and `NeverWipedHolds` on both databases. `Implements` shows that every step maps
to a step or a stutter of `ServingTable` if writers exclude each other (SQLite,
or one load at a time) or any two batches overlap; `UniformVersionHolds`
follows by `OneLoadServedHolds`. `SummaryPlausibleHolds` adds that what a summary
has read so far was served when it read it: a table that serves something never
becomes empty, so a count above zero is followed by a version and classes.
`CheckVouchesHolds` assumes one load at a time and no empty batch, which is when
the claim is true; no run checks it.

**ServingProofs.** `StoreRefined`: a step of `Serving` is one of `OnlineStore`
or leaves the store alone, so all of the above holds for it
(`ServedSummaryPlausible`, `ServedAtomically`). `RefusedOnceHolds`
rests on: whoever was refused did so because the table exists, and is not at
its CREATE TABLE again. `StaysFoundHolds` uses that served loads are whole, on
either database: where a row is missing, the load of any row there is did not
score it.

**PipelineProofs.** For any concurrent runs, failures and human choices:
`PTypeCorrect`; `NeverUnavailableHolds`, from `IInv`'s argument carried over the
steps that load, score and swap; and `Refines`, that `Pipeline` implements
`ChampionRegistry`. The last needs two more invariants: a run that has not
passed validation holds nothing yet (`Fresh`), and versions and the runs that
may still register one fit the bound (`RoomKept`, which counts: `Runs` is
finite). With it, what is proved of `ChampionRegistry` holds of the pipeline's
registry.

With one run at a time, `SInv` adds that what a run has read of the alias is
still true when it uses it (`ReadTrue`), and that between human choices the
champion is at least as good as what is served (`ChampionAhead`): neither
`LockStep` nor `ServedNeverWorse` says anything of a run under way, so neither
is inductive. It also says what a run leaves in the store: its own rows, or what
it found. `SerialLockStep`, `SerialResultTells` and `SerialNeverWorse` follow; the last needs `Margin >= 0`, without which the gate
promotes a worse model.

**DagsterJobProofs.** For any jobs, seed scripts and partitions, and without an
assumption on the date: `DTypeCorrect` and `NoneNeverServedHolds`. `DInv` says
that the alias stays for a job past its gate, that such a job's version is one,
and that the model about to be stored is one. `ChoicesMove` rests on `Chosen`:
every batch that is being scored or served is of a day not after today, and if
it is a score split, that file is still there; since days and files only come,
the next choice is not behind it. `TrainingReported` needs `Days` (no job has
dates from the future) and `Checked`: a split a job has trained on stays as
valid as it was for as long as the job is said to have trained on it.

**ConsoleProofs.** For any sessions, launches and seconds: `CTypeCorrect` and
`ButtonsTell`. The type of a reading depends on the number of swaps, so `CInv`
counts them: there is one for each child that wrote rows. `PollsHold` says that
a child found over by the poll that drew the buttons stays over. When no two
processes start in one second, `SecondInv` gives each of them a log of its own
and says that a page that shows an end has cleared the cache for it, after
which nothing older is cached, whoever fills it. It contains `OwnSummary`,
`FinishedHasSummary` and `FreshNumbers`, which follow as `SummaryIsOwn`,
`FinishedShowsSummary` and `NumbersFresh`. The numbers are fresh by `OwnSecond`
too: the cache is cleared once for each run_id, and two runs of one run_id
would share that one clear.

**ConfigFileProofs.** `TypeCorrect`, with any saves at a time, says among other
things that the two names never name one file. With one save at a time:
`NeverCorruptHolds`, `LoadsWholeHolds`, `AtomicSaveHolds`. The strengthening
says that the file about to be renamed has been written and that no loader has
the temporary file open.

**DataRulesProofs.** All six properties of `data_rules`, for inputs of any
size: `PitSymmetricHolds`, `ClassesSupportedHolds`, `JoinKeepsEntitiesHolds`,
`ReshapedIsValidHolds`, `NoSkewHolds`, `LastWriteWinsHolds`. They speak of
what loops compute, so they need induction, and the library's induction
theorems take a predicate, which no installed prover can instantiate. Two
lemmas replace them: `NatSetInduction` has a set of numbers in the place of the
predicate (its least missing number gives a contradiction), and `FoldExists`
shows that the function `FoldLeft` chooses exists, which makes the fold equal
to its last step applied to the fold of the rest (`OnlyUnfolds`, `FillUnfolds`,
`WritesUnfold` and, for the reshape, the same over its windows). Each theorem
is then an induction over the loop: `JoinKeepsKeys`, `JoinMovesNothing` and
`JoinLosesNothing` are the steps of the reshape; the number of rows is a
product of what each window contributes; `Filled` is what the loop of
`align_features` keeps true (the columns looked for so far are there, and a
column is the batch's own exactly if the batch had one of that name). No
theorem needs the names in a frame to be distinct. `OneRowPerEntity` says of
any batch that the last row of each entity, and no other, is loaded.
`RulesAssumption` is what the inputs must satisfy: numbers are integers, tables
are finite, and a window's table has one row for an entity and a snapshot, for
a table is a set and SQL would keep two equal rows. Clips and defaults are any
numbers, and a snapshot may be null.

**The assumptions.** Besides the ASSUMEs of the modules, which give constants
their kinds and keep "nothing" and null apart from everything else, theorems assume what the table in section 4 lists,
`Serialized`, `OnePerSecond`; what makes the swap of `OnlineStore`
what it promises, `Exclusive \/ Overlapping`; and `Margin >= 0`. Each stands in
the statement of its theorem. Section 4 shows what happens without the first
two, `store_postgres_mix` without the third.

Only model-checked: `LoadsEnd`, a liveness property (fairness and ENABLED are
beyond the provers), and the claims that section 4 refutes. Every other
property of a passing run is stated by a theorem.

## 6. Not modelled, and the plan

Left out for good: wording, notifications, plots, the content of models and
features, deployment, the stopped schedule and the skeleton sensor,
the content of `compute_drift` (it has no caller: `DriftShare` is the constant
0 it stands for).

Left out and without a property, with the reason in `PROJECT.json`: the run date
of a child against the page's, the order of the history, `latest_run_date` (no
caller), the reading of the column order file, `ttl`, train and score split of
two seedings (no code compares them), a lookup's other columns.

In order of importance, what comes next:

1. **Composition**: `Pipeline`'s record of the store refined by `OnlineStore`,
   so that what is proved of the two holds of one system.
2. **Console**: the child's run date, a cache fill that races a clear,
   `parse_summary` and the history as operators; `SecondInv` extended to them.
3. **Label collapse** of the example and the canonical column order file, as
   functions of `DataRules`.
