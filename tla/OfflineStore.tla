---------------------------- MODULE OfflineStore ----------------------------
(***************************************************************************)
(* The offline store (store/offline.py): per run date, the parquet files   *)
(* of the train split and of the score split ("test"), and the seed        *)
(* scripts that write them.  write_parquet opens the file, which truncates *)
(* it, and writes it; has_matrix only asks whether the name exists, so a   *)
(* file being written is there and cannot be read.  A script that dies     *)
(* leaves what it wrote.  Nothing keeps two scripts apart, whatever their  *)
(* --run-date: what their writes to one file leave may be unreadable.      *)
(***************************************************************************)
CONSTANTS
  Partitions,   \* the run dates
  SeedDates,    \* those that are seeded
  Seeders,      \* the seed scripts that are run, each once, at any time
  Waiting,      \* the script has not started
  Ended         \* the script has returned, raised or died

ASSUME SeedAssumption == SeedDates \subseteq Partitions

VARIABLES
  trainFile,    \* trainFile[d]: "none", "half" when it cannot be read, or whole:
                \* "good" when it passes validate_training_data, "bad" if not
  scoreFile,    \* scoreFile[d]: "none", "half" or "whole"
  seeder        \* seeder[s]: the run date of script s and its next step, or
                \* Waiting, or Ended

offline == <<trainFile, scoreFile, seeder>>

Whole == {"good", "bad"}

FilesInit ==
  /\ trainFile = [d \in Partitions |-> "none"]
  /\ scoreFile = [d \in Partitions |-> "none"]
  /\ seeder = [s \in Seeders |-> Waiting]

\* has_matrix, for each of the two names.
HasTrain(d) == trainFile[d] # "none"
HasScore(d) == scoreFile[d] # "none"

\* read_matrix returns, and does not raise.
TrainReadable(d) == trainFile[d] \in Whole
ScoreReadable(d) == scoreFile[d] = "whole"

Running(s) == seeder[s] \notin {Waiting, Ended}
At(s, step) == Running(s) /\ seeder[s].step = step
NextStep(s, step) == seeder' = [seeder EXCEPT ![s].step = step]
Stops(s) == seeder' = [seeder EXCEPT ![s] = Ended]

(***************************************************************************)
(* main of seed_raw.py: the run date is --run-date or resolved, then the   *)
(* train split is written, then the score split.                           *)
(***************************************************************************)
OpenTrain(s, d) ==
  /\ seeder[s] = Waiting
  /\ trainFile' = [trainFile EXCEPT ![d] = "half"]
  /\ seeder' = [seeder EXCEPT ![s] = [day |-> d, step |-> "train"]]
  /\ UNCHANGED scoreFile

WriteTrain(s) ==
  /\ At(s, "train")
  /\ \E content \in Whole \cup {"half"} :
       trainFile' = [trainFile EXCEPT ![seeder[s].day] = content]
  /\ NextStep(s, "between")
  /\ UNCHANGED scoreFile

OpenScore(s) ==
  /\ At(s, "between")
  /\ scoreFile' = [scoreFile EXCEPT ![seeder[s].day] = "half"]
  /\ NextStep(s, "score")
  /\ UNCHANGED trainFile

WriteScore(s) ==
  /\ At(s, "score")
  /\ \E content \in {"half", "whole"} :
       scoreFile' = [scoreFile EXCEPT ![seeder[s].day] = content]
  /\ Stops(s)
  /\ UNCHANGED trainFile

SeederDies(s) ==
  /\ Running(s)
  /\ Stops(s)
  /\ UNCHANGED <<trainFile, scoreFile>>

Seed(s) == WriteTrain(s) \/ OpenScore(s) \/ WriteScore(s) \/ SeederDies(s)

\* The shape of the files: a script that writes one has created it.
FilesTypeOK ==
  /\ trainFile \in [Partitions -> {"none", "half"} \cup Whole]
  /\ scoreFile \in [Partitions -> {"none", "half", "whole"}]
  /\ \A s \in Seeders : Running(s) =>
       /\ seeder[s].day \in Partitions
       /\ HasTrain(seeder[s].day)
       /\ seeder[s].step = "score" => HasScore(seeder[s].day)
=============================================================================
