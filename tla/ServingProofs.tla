---------------------------- MODULE ServingProofs ---------------------------
(***************************************************************************)
(* Proofs about Serving for any number of loads, readers and API           *)
(* processes, on either database.  A step of Serving is a step of          *)
(* OnlineStore or leaves its state alone, so what OnlineStoreProofs says   *)
(* of the store holds for it, however it was opened.                       *)
(***************************************************************************)
EXTENDS Serving, OnlineStoreProofs

LEMMA StoreStep == [ServingNext]_svars => [Next]_vars
<1> SUFFICES ASSUME ServingNext PROVE [Next]_vars
  BY DEF svars
<1>1. ASSUME NEW w \in Loads, LoadStep(w) PROVE Next
  BY <1>1 DEF LoadStep, Next
<1>2. ASSUME NEW q \in Readers, SummaryStep(q) PROVE Next
  BY <1>2 DEF SummaryStep, Next, Summarize
<1>3. ASSUME NEW p \in Processes, LookForTable(p) \/ CreateTable(p) \/ CreateFails(p)
      PROVE  UNCHANGED vars
  BY <1>3 DEF LookForTable, CreateTable, CreateFails
<1>4. ASSUME NEW s \in Servers, Predict(s) \/ Stop(s) PROVE UNCHANGED vars
  BY <1>4 DEF Predict, Stop
<1> QED
  BY <1>1, <1>2, <1>3, <1>4 DEF ServingNext

\* Serving does to the store what OnlineStore allows.
THEOREM StoreRefined == ServingSpec => Spec
<1>1. ServingInit => Init
  BY DEF ServingInit
<1> QED
  BY <1>1, StoreStep, PTL DEF ServingSpec, Spec

-----------------------------------------------------------------------------
(***************************************************************************)
(* Opening.  Who was refused is not at its CREATE TABLE a second time,     *)
(* because the table it was refused for is there when it looks again.      *)
(***************************************************************************)
Admitted ==
  /\ store \in [Processes -> {"closed", "absent", "open", "given up"}]
  /\ refused \subseteq Processes
  /\ refused # {} => created
  /\ \A p \in refused : store[p] # "absent"
  /\ again = {}

LEMMA AdmittedStep == Admitted /\ [ServingNext]_svars => Admitted'
<1> SUFFICES ASSUME Admitted, [ServingNext]_svars PROVE Admitted'
  OBVIOUS
<1> USE DEF Admitted, Becomes, openings
<1>1. ASSUME NEW p \in Processes, LookForTable(p) PROVE Admitted'
  <2>1. UNCHANGED <<created, refused, again>>
    BY <1>1 DEF LookForTable
  <2>2. CASE created
    <3>1. store' = [store EXCEPT ![p] = "open"]
      BY <1>1, <2>2 DEF LookForTable, SeesTable
    <3> QED
      BY <2>1, <3>1
  <2>3. CASE ~created
    <3>1. store' = [store EXCEPT ![p] = "absent"]
      BY <1>1, <2>3 DEF LookForTable, SeesTable
    <3> QED
      BY <2>1, <2>3, <3>1
  <2> QED
    BY <2>2, <2>3
<1>2. ASSUME NEW p \in Processes, CreateTable(p) PROVE Admitted'
  BY <1>2 DEF CreateTable
<1>3. ASSUME NEW p \in Processes, CreateFails(p) PROVE Admitted'
  BY <1>3 DEF CreateFails
<1>4. ASSUME NEW s \in Servers, Stop(s) PROVE Admitted'
  BY <1>4 DEF Stop
<1>5. ASSUME NEW q \in Readers, SummaryStep(q) PROVE Admitted'
  <2>1. created' = created /\ refused' = refused /\ again' = again
    BY <1>5 DEF SummaryStep
  <2>2. store' = store \/ store' = [store EXCEPT ![q] = "closed"]
    BY <1>5 DEF SummaryStep
  <2> QED
    BY <2>1, <2>2
<1>6. CASE UNCHANGED openings
  BY <1>6
<1> QED
  BY <1>1, <1>2, <1>3, <1>4, <1>5, <1>6 DEF ServingNext, LoadStep, Predict, svars

\* A process whose CREATE TABLE failed opens the store at its next attempt.
THEOREM RefusedOnceHolds == ServingSpec => []RefusedOnce
<1>1. ServingInit => Admitted
  BY DEF ServingInit, Admitted
<1>2. Admitted => RefusedOnce
  BY DEF Admitted, RefusedOnce
<1> QED
  BY <1>1, <1>2, AdmittedStep, PTL DEF ServingSpec

-----------------------------------------------------------------------------
(***************************************************************************)
(* Lookups.  Once one has found a row the table is never empty again, and  *)
(* the rows it then has are those of whole loads: where a row is missing,  *)
(* the load of any other row did not score it.                             *)
(***************************************************************************)
FoundSomething == known # {} => Live # {}

LEMMA StillServes ==
  ASSUME IInv, [ServingNext]_svars, Live # {}
  PROVE  Live' # {}
  BY StoreStep, RowsStay

LEMMA FoundStep == IInv /\ FoundSomething /\ [ServingNext]_svars => FoundSomething'
<1> SUFFICES ASSUME IInv, FoundSomething, [ServingNext]_svars PROVE FoundSomething'
  OBVIOUS
<1>1. ASSUME NEW s \in Servers, Predict(s) PROVE FoundSomething'
  <2>1. Live' = Live
    BY <1>1 DEF Predict, Live, vars
  <2> QED
    BY <1>1, <2>1 DEF Predict, HasPrediction, FoundSomething
<1>2. CASE UNCHANGED known
  BY <1>2, StillServes DEF FoundSomething
<1>3. UNCHANGED known \/ \E s \in Servers : Predict(s)
  BY DEF ServingNext, LookForTable, CreateTable, CreateFails, LoadStep,
         SummaryStep, Stop, svars
<1> QED
  BY <1>1, <1>2, <1>3

LEMMA LookupLosesOnlyUnscored ==
  ASSUME IInv, FoundSomething, [ServingNext]_svars, NEW e \in known \ known'
  PROVE  \E d \in Live : e \notin batch[table[d]]
<1>1. PICK s \in Servers : Predict(s)
  BY DEF ServingNext, LookForTable, CreateTable, CreateFails, LoadStep,
         SummaryStep, Stop, svars
<1>2. e \in Entities /\ e \notin Live
  BY <1>1 DEF Predict, HasPrediction
<1>3. PICK d \in Live : TRUE
  BY DEF FoundSomething
<1>4. table[d] \in Loads /\ table[d] # NoRow /\ table[e] = NoRow
  BY <1>2, <1>3 DEF Live, IInv, TypeOK
<1>5. Whole(table[d], table)
  BY <1>4 DEF IInv, WholeLoads
<1>6. e \notin batch[table[d]]
  BY <1>2, <1>3, <1>4, <1>5 DEF Whole, Live
<1> QED
  BY <1>3, <1>6

\* A lookup that found an entity answers 404 later only where the rows of a
\* load that did not score it are served, on either database.
THEOREM StaysFoundHolds == ServingSpec => StaysFound
<1>1. ServingInit => FoundSomething
  BY DEF ServingInit, FoundSomething
<1>2. IInv /\ FoundSomething /\ [ServingNext]_svars =>
        [\A e \in known \ known' : \E d \in Live : e \notin batch[table[d]]]_svars
  BY LookupLosesOnlyUnscored
<1> QED
  BY <1>1, <1>2, FoundStep, StoreRefined, Inductive, PTL DEF ServingSpec, StaysFound

-----------------------------------------------------------------------------
\* However the store was opened, a summary the dashboard shows names at most one
\* version, and has a version and a class mix when it has counted rows.
THEOREM ServedSummaryPlausible ==
  ASSUME Exclusive \/ Overlapping
  PROVE  ServingSpec => []SummaryPlausible
  BY StoreRefined, SummaryPlausibleHolds, PTL

\* And the swap is what it promises.
THEOREM ServedAtomically ==
  ASSUME Exclusive \/ Overlapping
  PROVE  ServingSpec => AtomicSwap
  BY StoreRefined, Implements, PTL
=============================================================================
