----------------------------- MODULE ConfigFile -----------------------------
(***************************************************************************)
(* The active pipeline.yaml: dashboard sessions save it (save_config), and *)
(* runs and pages load it (PipelineConfig.load, load_config_raw), each at  *)
(* any time.                                                               *)
(*                                                                         *)
(* A save is the three system calls of write_text and replace on ONE       *)
(* temporary name, pipeline.yaml.tmp, whoever saves: open for writing,     *)
(* which empties a file that is there, write, and rename.  An open file is *)
(* an inode and follows no rename.  A load is an open and a read.  The     *)
(* YAML fits in one buffer, so write and read are single calls.            *)
(***************************************************************************)
EXTENDS Naturals, FiniteSets

CONSTANTS
  Savers,      \* the sessions that press "Save config"
  Loaders,     \* the processes and pages that load the configuration
  Inodes,      \* the files
  NoFile,      \* no temporary file, no file open
  Configs,     \* configurations that PipelineConfig accepts
  Invalid,     \* an edit that it rejects
  Truncated,   \* an empty file
  Serialized   \* environment: one save at a time

ASSUME FileAssumption ==
  /\ NoFile \notin Inodes
  /\ Invalid \notin Configs /\ Truncated \notin Configs
  /\ Configs # {}
  /\ Serialized \in BOOLEAN

VARIABLES
  content,   \* content[i]: what is in file i
  active,    \* the file named pipeline.yaml
  tmp,       \* the file named pipeline.yaml.tmp, or NoFile
  stage,     \* stage[s]: how far saver s is
  draft,     \* draft[s]: the edited configuration s saves
  target,    \* target[s]: the file s has open for writing
  source,    \* source[r]: the file loader r has open
  loaded     \* loaded[r]: what r read

saving  == <<stage, draft, target>>
loading == <<source, loaded>>
vars    == <<content, active, tmp, saving, loading>>

Edits == Configs \cup {Invalid}

Init ==
  /\ active \in Inodes
  /\ \E config \in Configs : content = [i \in Inodes |-> config]
  /\ tmp = NoFile
  /\ stage = [s \in Savers |-> "idle"]
  /\ draft = [s \in Savers |-> Invalid]
  /\ target = [s \in Savers |-> NoFile]
  /\ source = [r \in Loaders |-> NoFile]
  /\ loaded = [r \in Loaders |-> NoFile]

-----------------------------------------------------------------------------
(***************************************************************************)
(* validate_config: a rejected edit raises before anything is written.     *)
(***************************************************************************)
AcceptsAll(edit) == TRUE                                          \* mutant
Accepted(edit) == edit \in Configs

Submit(s) ==
  /\ stage[s] = "idle"
  /\ Serialized => \A t \in Savers : stage[t] = "idle"
  /\ \E edit \in Edits :
       /\ Accepted(edit)
       /\ draft' = [draft EXCEPT ![s] = edit]
  /\ stage' = [stage EXCEPT ![s] = "open"]
  /\ UNCHANGED <<content, active, tmp, target, loading>>

(***************************************************************************)
(* write_text: the temporary file is created or, if it is there (another   *)
(* save is writing it, or died), emptied; then written.                    *)
(***************************************************************************)
InUse == {active, tmp} \cup {target[s] : s \in Savers} \cup {source[r] : r \in Loaders}
Fresh == Inodes \ InUse

WritesInPlace == {active}                                         \* mutant
Opened == IF tmp = NoFile THEN Fresh ELSE {tmp}

OpenTmp(s) ==
  /\ stage[s] = "open"
  /\ \E file \in Opened :
       /\ tmp' = file
       /\ target' = [target EXCEPT ![s] = file]
       /\ content' = [content EXCEPT ![file] = Truncated]
  /\ stage' = [stage EXCEPT ![s] = "write"]
  /\ UNCHANGED <<active, draft, loading>>

WriteTmp(s) ==
  /\ stage[s] = "write"
  /\ content' = [content EXCEPT ![target[s]] = draft[s]]
  /\ target' = [target EXCEPT ![s] = NoFile]
  /\ stage' = [stage EXCEPT ![s] = "replace"]
  /\ UNCHANGED <<active, tmp, draft, loading>>

(***************************************************************************)
(* replace: the temporary name, whatever file it names by now, becomes     *)
(* pipeline.yaml; FileNotFoundError when another save has taken it.        *)
(***************************************************************************)
LeavesTmp == tmp                                                  \* mutant
TmpAfterReplace == NoFile

Replace(s) ==
  /\ stage[s] = "replace"
  /\ tmp # NoFile
  /\ active' = tmp
  /\ tmp' = TmpAfterReplace
  /\ stage' = [stage EXCEPT ![s] = "idle"]
  /\ UNCHANGED <<content, draft, target, loading>>

\* The save raises, or the dashboard dies: what is on disk stays.
FailSave(s) ==
  /\ stage[s] # "idle"
  /\ stage' = [stage EXCEPT ![s] = "idle"]
  /\ target' = [target EXCEPT ![s] = NoFile]
  /\ UNCHANGED <<content, active, tmp, draft, loading>>

(***************************************************************************)
(* PipelineConfig.load, load_config_raw.                                   *)
(***************************************************************************)
OpenActive(r) ==
  /\ source[r] = NoFile
  /\ source' = [source EXCEPT ![r] = active]
  /\ UNCHANGED <<content, active, tmp, saving, loaded>>

Read(r) ==
  /\ source[r] # NoFile
  /\ loaded' = [loaded EXCEPT ![r] = content[source[r]]]
  /\ source' = [source EXCEPT ![r] = NoFile]
  /\ UNCHANGED <<content, active, tmp, saving>>

Next ==
  \/ \E s \in Savers :
       Submit(s) \/ OpenTmp(s) \/ WriteTmp(s) \/ Replace(s) \/ FailSave(s)
  \/ \E r \in Loaders : OpenActive(r) \/ Read(r)

Spec == Init /\ [][Next]_vars

-----------------------------------------------------------------------------
\* The shape of the state: the two names never name one file.
TypeOK ==
  /\ content \in [Inodes -> Edits \cup {Truncated}]
  /\ active \in Inodes
  /\ tmp \in Inodes \cup {NoFile} /\ tmp # active
  /\ stage \in [Savers -> {"idle", "open", "write", "replace"}]
  /\ draft \in [Savers -> Edits]
  /\ target \in [Savers -> Inodes \cup {NoFile}]
  /\ source \in [Loaders -> Inodes \cup {NoFile}]
  /\ loaded \in [Loaders -> Edits \cup {Truncated, NoFile}]

\* save_config, lines 64-65: whatever is submitted, and wherever a save dies,
\* the active file holds a configuration that a run accepts.
NeverCorrupt == content[active] \in Configs

\* A load next to a save reads a whole configuration, the old or the new one.
LoadsWhole == \A r \in Loaders : loaded[r] \in Configs \cup {NoFile}

\* The write is atomic: the active configuration changes only in the step that
\* completes a save, and then to what was submitted; a save that dies leaves no
\* trace, not even in the next one.
AtomicSave ==
  [][content'[active'] # content[active] =>
       \E s \in Savers :
         /\ stage[s] = "replace" /\ stage'[s] = "idle"
         /\ content'[active'] = draft[s]]_vars
=============================================================================
