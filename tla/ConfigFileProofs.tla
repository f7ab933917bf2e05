-------------------------- MODULE ConfigFileProofs --------------------------
(***************************************************************************)
(* What save_config promises of the active configuration holds for any     *)
(* number of sessions, loaders and files when saves do not overlap, and    *)
(* wherever they die.                                                      *)
(*                                                                         *)
(* NeverCorrupt is not inductive: nothing in it says that the file about   *)
(* to be renamed has been written, or that no loader has it open.          *)
(***************************************************************************)
EXTENDS ConfigFile, TLAPS

\* One save at a time, and only of an accepted configuration.
OneSave ==
  /\ \A s, t \in Savers : stage[s] # "idle" /\ stage[t] # "idle" => s = t
  /\ \A s \in Savers : stage[s] # "idle" => draft[s] \in Configs

\* The file a save writes is the temporary one, and is written when the save
\* goes on to rename it.
Written ==
  \A s \in Savers :
    /\ stage[s] = "write" => tmp # NoFile /\ target[s] = tmp
    /\ stage[s] = "replace" => tmp # NoFile /\ content[tmp] = draft[s]

\* A file that is being loaded is whole and is not the temporary one.
Readable ==
  \A r \in Loaders :
    source[r] # NoFile => source[r] # tmp /\ content[source[r]] \in Configs

FInv == TypeOK /\ NeverCorrupt /\ LoadsWhole /\ OneSave /\ Written /\ Readable

USE DEF saving, loading, Edits

LEMMA InitFInv == Init => FInv
BY FileAssumption DEF Init, FInv, TypeOK, NeverCorrupt, LoadsWhole, OneSave,
                      Written, Readable

LEMMA StepFInv == ASSUME Serialized PROVE FInv /\ [Next]_vars => FInv'
<1> SUFFICES ASSUME FInv, [Next]_vars PROVE FInv'
  OBVIOUS
<1> USE FileAssumption
<1>1. ASSUME NEW s \in Savers, Submit(s) PROVE FInv'
  BY <1>1 DEF FInv, TypeOK, NeverCorrupt, LoadsWhole, OneSave, Written, Readable,
              Submit, Accepted
<1>2. ASSUME NEW s \in Savers, OpenTmp(s) PROVE FInv'
  <2>1. PICK file \in Opened :
          /\ tmp' = file
          /\ target' = [target EXCEPT ![s] = file]
          /\ content' = [content EXCEPT ![file] = Truncated]
    BY <1>2 DEF OpenTmp
  <2>2. /\ file \in Inodes /\ file # active
        /\ \A r \in Loaders : source[r] # file
    BY DEF Opened, Fresh, InUse, FInv, TypeOK, Readable
  <2>3. /\ stage[s] = "open" /\ stage' = [stage EXCEPT ![s] = "write"]
        /\ UNCHANGED <<active, draft, source, loaded>>
    BY <1>2 DEF OpenTmp
  <2>4. TypeOK'
    BY <2>1, <2>2, <2>3 DEF FInv, TypeOK
  <2>5. (NeverCorrupt /\ LoadsWhole /\ Readable)'
    BY <2>1, <2>2, <2>3 DEF FInv, TypeOK, NeverCorrupt, LoadsWhole, Readable
  <2>6. (OneSave /\ Written)'
    BY <2>1, <2>2, <2>3 DEF FInv, TypeOK, OneSave, Written
  <2> QED BY <2>4, <2>5, <2>6 DEF FInv
<1>3. ASSUME NEW s \in Savers, WriteTmp(s) PROVE FInv'
  <2>1. /\ stage[s] = "write" /\ target[s] = tmp /\ tmp \in Inodes
        /\ tmp # active /\ draft[s] \in Configs
    BY <1>3 DEF WriteTmp, FInv, TypeOK, OneSave, Written
  <2>2. TypeOK'
    BY <1>3, <2>1 DEF WriteTmp, FInv, TypeOK
  <2>3. (NeverCorrupt /\ LoadsWhole /\ Readable)'
    BY <1>3, <2>1 DEF WriteTmp, FInv, TypeOK, NeverCorrupt, LoadsWhole, Readable
  <2>4. (OneSave /\ Written)'
    BY <1>3, <2>1 DEF WriteTmp, FInv, TypeOK, OneSave, Written
  <2> QED BY <2>2, <2>3, <2>4 DEF FInv
<1>4. ASSUME NEW s \in Savers, Replace(s) PROVE FInv'
  BY <1>4 DEF FInv, TypeOK, NeverCorrupt, LoadsWhole, OneSave, Written, Readable,
              Replace, TmpAfterReplace
<1>5. ASSUME NEW s \in Savers, FailSave(s) PROVE FInv'
  BY <1>5 DEF FInv, TypeOK, NeverCorrupt, LoadsWhole, OneSave, Written, Readable,
              FailSave
<1>6. ASSUME NEW r \in Loaders, OpenActive(r) \/ Read(r) PROVE FInv'
  BY <1>6 DEF FInv, TypeOK, NeverCorrupt, LoadsWhole, OneSave, Written, Readable,
              OpenActive, Read
<1>7. CASE UNCHANGED vars
  BY <1>7 DEF vars, FInv, TypeOK, NeverCorrupt, LoadsWhole, OneSave, Written, Readable
<1> QED BY <1>1, <1>2, <1>3, <1>4, <1>5, <1>6, <1>7 DEF Next

LEMMA SavesHold == ASSUME Serialized PROVE Spec => []FInv
BY InitFInv, StepFInv, PTL DEF Spec

\* The shape of the state of save_config's file: the two names never name one
\* file, however many saves overlap and wherever they die.
THEOREM TypeCorrect == Spec => []TypeOK
<1> USE FileAssumption
<1>1. Init => TypeOK
  BY DEF Init, TypeOK
<1>2. TypeOK /\ [Next]_vars => TypeOK'
  <2> SUFFICES ASSUME TypeOK, [Next]_vars PROVE TypeOK'
    OBVIOUS
  <2>1. ASSUME NEW s \in Savers, Submit(s) PROVE TypeOK'
    BY <2>1 DEF TypeOK, Submit
  <2>2. ASSUME NEW s \in Savers, OpenTmp(s) PROVE TypeOK'
    BY <2>2 DEF TypeOK, OpenTmp, Opened, Fresh, InUse
  <2>3. ASSUME NEW s \in Savers, WriteTmp(s) PROVE TypeOK'
    BY <2>3 DEF TypeOK, WriteTmp
  <2>4. ASSUME NEW s \in Savers, Replace(s) PROVE TypeOK'
    BY <2>4 DEF TypeOK, Replace, TmpAfterReplace
  <2>5. ASSUME NEW s \in Savers, FailSave(s) PROVE TypeOK'
    BY <2>5 DEF TypeOK, FailSave
  <2>6. ASSUME NEW r \in Loaders, OpenActive(r) \/ Read(r) PROVE TypeOK'
    BY <2>6 DEF TypeOK, OpenActive, Read
  <2>7. CASE UNCHANGED vars
    BY <2>7 DEF TypeOK, vars
  <2> QED BY <2>1, <2>2, <2>3, <2>4, <2>5, <2>6, <2>7 DEF Next
<1> QED BY <1>1, <1>2, PTL DEF Spec

\* save_config never leaves a file that the next run would reject.
THEOREM NeverCorruptHolds == ASSUME Serialized PROVE Spec => []NeverCorrupt
<1>1. FInv => NeverCorrupt
  BY DEF FInv
<1> QED BY <1>1, SavesHold, PTL

\* A run or a page that loads the file during a save gets a whole one.
THEOREM LoadsWholeHolds == ASSUME Serialized PROVE Spec => []LoadsWhole
<1>1. FInv => LoadsWhole
  BY DEF FInv
<1> QED BY <1>1, SavesHold, PTL

\* The active configuration changes only in the step that completes a save,
\* to what that save submitted.
THEOREM AtomicSaveHolds == ASSUME Serialized PROVE Spec => AtomicSave
<1>1. FInv /\ [Next]_vars =>
        [content'[active'] # content[active] =>
           \E s \in Savers :
             /\ stage[s] = "replace" /\ stage'[s] = "idle"
             /\ content'[active'] = draft[s]]_vars
  <2> DEFINE Saved ==
        content'[active'] # content[active] =>
          \E s \in Savers :
            /\ stage[s] = "replace" /\ stage'[s] = "idle"
            /\ content'[active'] = draft[s]
  <2> SUFFICES ASSUME FInv, Next PROVE Saved
    OBVIOUS
  <2>1. ASSUME NEW s \in Savers, Submit(s) \/ FailSave(s) PROVE Saved
    BY <2>1 DEF Submit, FailSave
  <2>2. ASSUME NEW s \in Savers, OpenTmp(s) PROVE Saved
    BY <2>2, FileAssumption
    DEF OpenTmp, Opened, Fresh, InUse, FInv, TypeOK
  <2>3. ASSUME NEW s \in Savers, WriteTmp(s) PROVE Saved
    BY <2>3 DEF WriteTmp, FInv, TypeOK, Written
  <2>4. ASSUME NEW s \in Savers, Replace(s) PROVE Saved
    BY <2>4 DEF Replace, FInv, TypeOK, Written
  <2>5. ASSUME NEW r \in Loaders, OpenActive(r) \/ Read(r) PROVE Saved
    BY <2>5 DEF OpenActive, Read
  <2> QED BY <2>1, <2>2, <2>3, <2>4, <2>5 DEF Next
<1> QED BY <1>1, SavesHold, PTL DEF Spec, AtomicSave
=============================================================================
