--------------------------- MODULE PipelineProofs ---------------------------
(***************************************************************************)
(* Proofs about Pipeline for every set of runs, scores, margin and bound.  *)
(* Whatever runs do at once: the shape of its state, that load_champion    *)
(* finds the alias both times, and that it implements ChampionRegistry.    *)
(* One run at a time: model, columns, stamp, champion and result belong    *)
(* together, and the champion served never gets worse by itself.           *)
(***************************************************************************)
EXTENDS Pipeline, ChampionRegistryProofs, FiniteSetTheorems

Later == {"validate", "fetch", "swap", "check"}

(***************************************************************************)
(* ChampionRegistry's invariant, where the alias, once set, also reaches   *)
(* the steps that follow "load"; and what a run has loaded names versions  *)
(* that are registered, when it comes to use it.                           *)
(***************************************************************************)
RegistryTypes ==
  /\ versions \in Seq([f1 : Scores, day : Nat])
  /\ champion \in VersionIds \cup {NoVersion}
  /\ today \in Nat
  /\ pc \in [Runs -> Labels \cup Later]
  /\ manual \in [Runs -> BOOLEAN]
  /\ f1 \in [Runs -> Scores \cup {0}]
  /\ mine \in [Runs -> VersionIds \cup {NoVersion}]
  /\ seen \in [Runs -> VersionIds \cup {NoVersion}]
  /\ judged \subseteq VersionIds

AliasStays ==
  \A r \in Runs :
    /\ pc[r] = "gate" /\ seen[r] # NoVersion => champion # NoVersion
    /\ pc[r] \in {"load", "fetch", "swap", "check"} => champion # NoVersion

Loaded ==
  \A r \in Runs :
    /\ pc[r] \in {"fetch", "swap", "check"} => alias[r] # NoVersion
    /\ pc[r] \in {"swap", "check"} => model[r] # NoVersion

PInv == RegistryTypes /\ PTypeOK /\ Carried /\ AliasStays /\ Loaded

LEMMA InitPInv == PInit => PInv
<1> SUFFICES ASSUME PInit PROVE PInv
  OBVIOUS
<1> USE DEF PInit, Init, NoVersion, Labels, Later
<1>1. Len(versions) = 0 /\ VersionIds = {}
  BY DEF VersionIds
<1>2. RegistryTypes
  BY <1>1, RegistryAssumption DEF RegistryTypes
<1>3. PTypeOK
  BY <1>1 DEF PTypeOK
<1>4. Carried /\ AliasStays /\ Loaded
  BY DEF Carried, AliasStays, Loaded
<1> QED
  BY <1>2, <1>3, <1>4 DEF PInv

LEMMA RegisterPInv ==
  ASSUME PInv, NEW r \in Runs, RegisterModel(r),
         UNCHANGED <<work, served, result, flipped, found>>
  PROVE  PInv'
<1> DEFINE e == [f1 |-> f1[r], day |-> today]
<1>1. e \in [f1 : Scores, day : Nat] /\ versions' = Append(versions, e)
  BY DEF RegisterModel, PInv, RegistryTypes, Carried
<1>2. /\ versions' \in Seq([f1 : Scores, day : Nat])
      /\ Len(versions) \in Nat
      /\ VersionIds' = VersionIds \cup {Len(versions) + 1}
      /\ \A v \in VersionIds : versions'[v] = versions[v]
      /\ versions'[Len(versions) + 1] = e
  <2> HIDE DEF e
  <2> QED BY <1>1, IdsGrow DEF PInv, RegistryTypes
<1>3. /\ mine' = [mine EXCEPT ![r] = Len(versions) + 1]
      /\ pc' = [pc EXCEPT ![r] = "incumbent"] /\ pc[r] = "register"
      /\ UNCHANGED <<champion, today, manual, f1, seen, judged>>
  BY DEF RegisterModel, Goto
<1>4. RegistryTypes'
  BY <1>2, <1>3 DEF PInv, RegistryTypes, Labels
<1>5. PTypeOK'
  BY <1>2, <1>3 DEF PInv, PTypeOK, RegistryTypes, work, Sources, Labels, Later
<1>6. Carried'
  BY <1>2, <1>3 DEF PInv, Carried, RegistryTypes
<1>7. AliasStays' /\ Loaded'
  BY <1>3 DEF PInv, AliasStays, Loaded, RegistryTypes, work
<1> QED
  BY <1>4, <1>5, <1>6, <1>7 DEF PInv

\* Every step keeps the inductive invariant.
LEMMA PInvStep == PInv /\ [PNext]_pvars => PInv'
<1> SUFFICES ASSUME PInv, [PNext]_pvars PROVE PInv'
  OBVIOUS
<1> USE RegistryAssumption
    DEF PInv, RegistryTypes, PTypeOK, Carried, AliasStays, Loaded, Labels, Later,
        NoVersion, Goto, registry, locals, work, Sources, VersionIds
<1>1. ASSUME NEW r \in Runs, BeginRun(r) PROVE PInv'
  BY <1>1 DEF BeginRun
<1>2. ASSUME NEW r \in Runs, Validate(r) PROVE PInv'
  BY <1>2 DEF Validate
<1>3. ASSUME NEW r \in Runs, Decide(r) PROVE PInv'
  <2>1. retrain' \in [Runs -> BOOLEAN]
    <3>1. RetrainDue \in BOOLEAN
      BY DEF RetrainDue
    <3>2. retrain' = [retrain EXCEPT ![r] = RetrainDue]
      BY <1>3 DEF Decide
    <3> HIDE DEF registry, locals, work
    <3> QED BY <3>1, <3>2, Zenon
  <2>2. /\ pc' \in [Runs -> Labels \cup Later]
        /\ pc[r] = "decide"
        /\ \/ pc' = [pc EXCEPT ![r] = "train"]
           \/ champion # NoVersion /\ pc' = [pc EXCEPT ![r] = "load"]
        /\ UNCHANGED <<versions, champion, today, manual, f1, mine, seen, judged,
                       moved, alias, model, rows, served, result, flipped>>
    BY <1>3 DEF Decide, DecideRetrain, RetrainDue, ColdStart
  <2> QED
    BY <2>1, <2>2
<1>4. ASSUME NEW r \in Runs, Challenge(r) PROVE PInv'
  <2>1. CASE Train(r)
    BY <1>4, <2>1 DEF Challenge, Train
  <2>2. CASE RegisterModel(r)
    BY <1>4, <2>2, RegisterPInv DEF Challenge
  <2>3. CASE ReadIncumbent(r)
    BY <1>4, <2>3 DEF Challenge, ReadIncumbent
  <2> QED
    BY <1>4, <2>1, <2>2, <2>3 DEF Challenge
<1>5. ASSUME NEW r \in Runs, Gate(r) PROVE PInv'
  <2>1. CASE Promote(r)
    <3>1. mine[r] \in VersionIds /\ pc[r] = "gate" /\ champion' = mine[r]
          /\ judged' \subseteq VersionIds
      BY <2>1 DEF Promote, Challenger, Judge
    <3>2. /\ pc' = [pc EXCEPT ![r] = "load"]
          /\ UNCHANGED <<versions, today, manual, f1, mine, seen,
                         retrain, alias, model, rows, served, result, flipped>>
          /\ moved' \in [Runs -> BOOLEAN]
      BY <1>5, <2>1 DEF Gate, Promote, KeepIncumbent
    <3>3. champion' # NoVersion
      BY <3>1
    <3> QED
      BY <3>1, <3>2, <3>3
  <2>2. CASE KeepIncumbent(r)
    BY <1>5, <2>2 DEF Gate, KeepIncumbent, Judge, Wins, ColdStart
  <2> QED
    BY <1>5, <2>1, <2>2 DEF Gate
<1>6. ASSUME NEW r \in Runs, ResolveAlias(r) PROVE PInv'
  BY <1>6 DEF ResolveAlias
<1>7. ASSUME NEW r \in Runs, LoadModel(r) PROVE PInv'
  BY <1>7 DEF LoadModel, Fetched
<1>8. ASSUME NEW r \in Runs, Swap(r) PROVE PInv'
  <2>1. rows' \in [Runs -> BOOLEAN]
    <3>1. rows \in [Runs -> BOOLEAN]
      OBVIOUS
    <3>2. \/ rows' = [rows EXCEPT ![r] = TRUE]
          \/ rows' = [rows EXCEPT ![r] = FALSE]
      BY <1>8 DEF Swap, LoadRows, LoadNothing
    <3> HIDE DEF PInv, PTypeOK
    <3> QED BY <3>1, <3>2, Zenon
  <2>2. /\ pc[r] = "swap" /\ pc' = [pc EXCEPT ![r] = "check"]
        /\ UNCHANGED <<versions, champion, today, manual, f1, mine, seen, judged,
                       retrain, moved, alias, model, result>>
        /\ flipped' \in BOOLEAN
        /\ served' = served \/ served' = Scored(r)
    BY <1>8 DEF Swap, LoadRows, LoadNothing
  <2>3. PTypeOK'
    BY <2>1, <2>2 DEF Scored
  <2> QED
    BY <2>2, <2>3
<1>9. ASSUME NEW r \in Runs, Return(r) PROVE PInv'
  BY <1>9 DEF Return, EndRun, Clear
<1>10. ASSUME NEW r \in Runs, EndEarly(r) PROVE PInv'
  BY <1>10 DEF EndEarly, Fail, EndRun, Clear
<1>11. CASE HumanFlips
  BY <1>11 DEF HumanFlips, FlipAlias
<1>12. CASE DayPasses
  BY <1>12 DEF DayPasses, NextDay
<1>13. CASE UNCHANGED pvars
  BY <1>13 DEF pvars, vars
<1> QED
  BY <1>1, <1>2, <1>3, <1>4, <1>5, <1>6, <1>7, <1>8, <1>9, <1>10, <1>11,
     <1>12, <1>13 DEF PNext, RunStep

THEOREM PInductive == PSpec => []PInv
  BY InitPInv, PInvStep, PTL DEF PSpec

\* The state the pipeline adds keeps its shape, for any concurrent runs.
THEOREM PTypeCorrect == PSpec => []PTypeOK
<1>1. PInv => PTypeOK
  BY DEF PInv
<1> QED
  BY <1>1, PInductive, PTL

\* load_champion finds the alias both times it resolves it:
\* ChampionUnavailableError is never raised.
THEOREM NeverUnavailableHolds == PSpec => []NeverUnavailable
<1>1. PInv => NeverUnavailable
  BY DEF PInv, AliasStays, NeverUnavailable
<1> QED
  BY <1>1, PInductive, PTL

-----------------------------------------------------------------------------
(***************************************************************************)
(* The refinement.  A run that passes validation must be able to begin in  *)
(* the registry: with Serialized no other run is active, and the bound on  *)
(* versions, kept for the pipeline with room for every run that may still  *)
(* register one, leaves room there.                                        *)
(***************************************************************************)
Pending == {r \in Runs : pc[r] \in {"validate", "decide", "train", "register"}}

OneAtATime ==
  Serialized => \A r, s \in Runs : pc[r] # "idle" /\ pc[s] # "idle" => r = s

Fresh ==
  \A r \in Runs :
    /\ IF pc[r] = "idle" THEN manual[r] = FALSE ELSE manual[r] \in ManualFlags
    /\ pc[r] \in {"idle", "validate"} =>
         f1[r] = 0 /\ mine[r] = NoVersion /\ seen[r] = NoVersion

RoomKept == Len(versions) + Cardinality(Pending) <= MaxVersions

RInv == OneAtATime /\ Fresh /\ RoomKept

LEMMA PendingFinite ==
  /\ IsFiniteSet(Pending) /\ Cardinality(Pending) \in Nat
  /\ IsFiniteSet(Pending)' /\ Cardinality(Pending') \in Nat
<1>1. Pending \in SUBSET Runs /\ Pending' \in SUBSET Runs
  BY DEF Pending
<1> QED
  BY <1>1, FiniteRuns, FS_Subset, FS_CardinalityType

LEMMA FewerPending ==
  ASSUME RoomKept, Pending' \subseteq Pending, UNCHANGED versions,
         Len(versions) \in Nat
  PROVE  RoomKept'
<1>1. Cardinality(Pending') <= Cardinality(Pending)
  BY PendingFinite, FS_Subset
<1> QED
  BY <1>1, PendingFinite, RegistryAssumption DEF RoomKept

LEMMA InitRInv == PInit => RInv
<1> SUFFICES ASSUME PInit PROVE RInv
  OBVIOUS
<1>1. Pending = {} /\ Len(versions) = 0
  BY DEF PInit, Init, Pending
<1>2. RoomKept
  BY <1>1, FS_EmptySet, RegistryAssumption DEF RoomKept
<1> QED
  BY <1>2 DEF PInit, Init, RInv, OneAtATime, Fresh

LEMMA RInvStep == PInv /\ RInv /\ [PNext]_pvars => RInv'
<1> SUFFICES ASSUME PInv, RInv, [PNext]_pvars PROVE RInv'
  OBVIOUS
<1>1. /\ pc \in [Runs -> Labels \cup Later] /\ manual \in [Runs -> BOOLEAN]
      /\ f1 \in [Runs -> Scores \cup {0}]
      /\ mine \in [Runs -> VersionIds \cup {NoVersion}]
      /\ seen \in [Runs -> VersionIds \cup {NoVersion}]
      /\ versions \in Seq([f1 : Scores, day : Nat])
  BY DEF PInv, RegistryTypes
<1>2. Len(versions) \in Nat
  BY <1>1
<1>3. ASSUME NEW r \in Runs, BeginRun(r) PROVE RInv'
  <2>1. /\ pc[r] = "idle" /\ pc' = [pc EXCEPT ![r] = "validate"]
        /\ MayStart /\ RoomForAnother
        /\ UNCHANGED <<versions, f1, mine, seen>>
        /\ \E flag \in ManualFlags : manual' = [manual EXCEPT ![r] = flag]
    BY <1>3 DEF BeginRun, Idle, Goto, registry
  <2>2. OneAtATime' /\ Fresh'
    BY <1>1, <2>1 DEF RInv, OneAtATime, Fresh, MayStart, AllIdle, Idle
  <2>3. RoomKept'
    <3> DEFINE Active == {s \in Runs : ~Idle(s)}
    <3>1. IsFiniteSet(Active) /\ Cardinality(Active) \in Nat
      BY FiniteRuns, FS_Subset, FS_CardinalityType
    <3>2. Pending' \subseteq Active \cup {r} /\ r \notin Active
      BY <1>1, <2>1 DEF Pending, Idle
    <3>3. /\ IsFiniteSet(Active \cup {r})
          /\ Cardinality(Active \cup {r}) = Cardinality(Active) + 1
      BY <3>1, <3>2, FS_AddElement
    <3>4. Cardinality(Pending') <= Cardinality(Active) + 1
      BY <3>2, <3>3, FS_Subset
    <3> QED
      BY <1>2, <2>1, <3>1, <3>4, PendingFinite, RegistryAssumption
      DEF RoomKept, RoomForAnother
  <2> QED
    BY <2>2, <2>3 DEF RInv
<1>4. ASSUME NEW r \in Runs, RegisterModel(r) PROVE RInv'
  <2>1. /\ pc[r] = "register" /\ pc' = [pc EXCEPT ![r] = "incumbent"]
        /\ mine' = [mine EXCEPT ![r] = Len(versions) + 1]
        /\ UNCHANGED <<manual, f1, seen>>
    BY <1>4 DEF RegisterModel, Goto
  <2>2. OneAtATime' /\ Fresh'
    BY <1>1, <2>1 DEF RInv, OneAtATime, Fresh
  <2>3. Len(versions') = Len(versions) + 1
    BY <1>1, <1>4 DEF RegisterModel
  <2>4. r \in Pending /\ Pending' = Pending \ {r}
    BY <1>1, <2>1 DEF Pending
  <2>5. Cardinality(Pending') = Cardinality(Pending) - 1
    BY <2>4, PendingFinite, FS_RemoveElement
  <2> QED
    BY <1>2, <2>2, <2>3, <2>5, PendingFinite, RegistryAssumption DEF RInv, RoomKept
<1>5. ASSUME NEW r \in Runs, NEW here \in Labels \cup Later,
             NEW there \in Labels \cup Later,
             pc[r] = here, pc' = [pc EXCEPT ![r] = there], here # "idle",
             here \in {"validate", "decide", "train", "register"} \/
               there \notin {"validate", "decide", "train", "register"},
             there \notin {"idle", "validate"},
             UNCHANGED <<versions, manual>>,
             \A s \in Runs \ {r} : f1'[s] = f1[s] /\ mine'[s] = mine[s]
                                     /\ seen'[s] = seen[s]
      PROVE  RInv'
  <2>1. Pending' \subseteq Pending
    BY <1>1, <1>5 DEF Pending
  <2>2. OneAtATime' /\ Fresh'
    BY <1>1, <1>5 DEF RInv, OneAtATime, Fresh
  <2> QED
    BY <1>2, <1>5, <2>1, <2>2, FewerPending DEF RInv
<1>6. ASSUME NEW r \in Runs, EndRun(r), UNCHANGED versions, ~Idle(r) PROVE RInv'
  <2>1. Pending' \subseteq Pending
    BY <1>1, <1>6 DEF Pending, EndRun, Goto
  <2>2. OneAtATime' /\ Fresh'
    BY <1>1, <1>6 DEF RInv, OneAtATime, Fresh, EndRun, Goto
  <2> QED
    BY <1>2, <1>6, <2>1, <2>2, FewerPending DEF RInv
<1>7. ASSUME UNCHANGED <<versions, pc, manual, f1, mine, seen>> PROVE RInv'
  BY <1>7 DEF RInv, OneAtATime, Fresh, RoomKept, Pending
<1> USE DEF Labels, Later, Goto, registry, locals
<1>8. ASSUME NEW r \in Runs,
             Validate(r) \/ ResolveAlias(r) \/ LoadModel(r) \/ Swap(r)
      PROVE  RInv'
  <2>1. /\ \/ pc[r] = "validate" /\ pc' = [pc EXCEPT ![r] = "decide"]
           \/ pc[r] = "load" /\ pc' = [pc EXCEPT ![r] = "fetch"]
           \/ pc[r] = "fetch" /\ pc' = [pc EXCEPT ![r] = "swap"]
           \/ pc[r] = "swap" /\ pc' = [pc EXCEPT ![r] = "check"]
        /\ versions' = versions /\ manual' = manual
        /\ f1' = f1 /\ mine' = mine /\ seen' = seen
    BY <1>8 DEF Validate, ResolveAlias, LoadModel, Swap
  <2>2. Pending' \subseteq Pending
    BY <1>1, <2>1 DEF Pending
  <2>3. OneAtATime' /\ Fresh'
    BY <1>1, <2>1 DEF RInv, OneAtATime, Fresh
  <2> QED
    BY <1>2, <2>1, <2>2, <2>3, FewerPending DEF RInv
<1>9. ASSUME NEW r \in Runs, Decide(r) PROVE RInv'
  <2>1. /\ pc[r] = "decide"
        /\ \/ pc' = [pc EXCEPT ![r] = "train"]
           \/ pc' = [pc EXCEPT ![r] = "load"]
        /\ versions' = versions /\ manual' = manual
        /\ f1' = f1 /\ mine' = mine /\ seen' = seen
    BY <1>9 DEF Decide, DecideRetrain
  <2> QED
    BY <1>5, <2>1
<1>10. ASSUME NEW r \in Runs, Challenge(r) PROVE RInv'
  <2>1. CASE Train(r)
    BY <1>1, <1>5, <2>1 DEF Train
  <2>2. CASE ReadIncumbent(r)
    BY <1>1, <1>5, <2>2 DEF ReadIncumbent
  <2> QED
    BY <1>4, <1>10, <2>1, <2>2 DEF Challenge
<1>11. ASSUME NEW r \in Runs, Gate(r) PROVE RInv'
  BY <1>5, <1>11 DEF Gate, Promote, KeepIncumbent
<1>12. ASSUME NEW r \in Runs, Return(r) PROVE RInv'
  BY <1>6, <1>12 DEF Return, EndRun, Idle
<1>13. ASSUME NEW r \in Runs, EndEarly(r) PROVE RInv'
  BY <1>6, <1>13 DEF EndEarly, Fail, EndRun
<1>14. CASE HumanFlips
  BY <1>7, <1>14 DEF HumanFlips, FlipAlias
<1>15. CASE DayPasses
  BY <1>7, <1>15 DEF DayPasses, NextDay
<1>16. CASE UNCHANGED pvars
  BY <1>7, <1>16 DEF pvars, vars
<1> QED
  BY <1>3, <1>8, <1>9, <1>10, <1>11, <1>12, <1>13, <1>14, <1>15, <1>16 DEF PNext, RunStep

-----------------------------------------------------------------------------
\* The registry sees a run only once it has passed validation.
LEMMA InitRefined == PInit => InRegistry!Init
<1> SUFFICES ASSUME PInit PROVE InRegistry!Init
  OBVIOUS
<1>1. RegistryPc = [r \in Runs |-> "idle"]
  BY DEF PInit, Init, RegistryPc
<1>2. RegistryManual = [r \in Runs |-> FALSE]
  BY Zenon DEF PInit, Init, RegistryManual
<1> QED
  BY <1>1, <1>2 DEF PInit, Init, InRegistry!Init, NoVersion, InRegistry!NoVersion

\* What a step that moves one run's pc does to what the registry sees of it.
Seen(label) == CASE label = "validate" -> "idle"
                 [] label \in {"fetch", "swap", "check"} -> "load"
                 [] OTHER -> label

LEMMA PcSeen ==
  ASSUME PInv, NEW r \in Runs, NEW label, pc' = [pc EXCEPT ![r] = label]
  PROVE  /\ RegistryPc' = [RegistryPc EXCEPT ![r] = Seen(label)]
         /\ RegistryPc[r] = Seen(pc[r])
  BY DEF PInv, RegistryTypes, RegistryPc, Seen

LEMMA ManualSeen ==
  ASSUME PInv, NEW r \in Runs, NEW label, pc' = [pc EXCEPT ![r] = label],
         label # "validate", pc[r] # "validate", UNCHANGED manual
  PROVE  UNCHANGED RegistryManual
<1>1. \A s \in Runs : (pc'[s] # "validate") = (pc[s] # "validate")
  BY DEF PInv, RegistryTypes
<1> QED
  BY <1>1, Zenon DEF RegistryManual

\* Every step of the pipeline is a step of the registry, or leaves it alone.
LEMMA StepRefined ==
  PInv /\ RInv /\ [PNext]_pvars => [InRegistry!Next]_InRegistry!vars
<1> SUFFICES ASSUME PInv, RInv, [PNext]_pvars
             PROVE  [InRegistry!Next]_InRegistry!vars
  OBVIOUS
<1>0. pc \in [Runs -> Labels \cup Later] /\ manual \in [Runs -> BOOLEAN]
  BY DEF PInv, RegistryTypes
<1>1. ASSUME NEW r \in Runs, BeginRun(r) PROVE UNCHANGED InRegistry!vars
  <2>1. pc[r] = "idle" /\ pc' = [pc EXCEPT ![r] = "validate"]
    BY <1>1 DEF BeginRun, Idle, Goto
  <2>2. UNCHANGED RegistryPc
    BY <1>0, <2>1 DEF RegistryPc
  <2>3. \A s \in Runs \ {r} : pc'[s] = pc[s] /\ manual'[s] = manual[s]
    BY <1>0, <1>1, <2>1 DEF BeginRun
  <2>4. manual[r] = FALSE /\ pc'[r] = "validate"
    BY <1>0, <2>1 DEF RInv, Fresh
  <2>5. \A s \in Runs : (pc'[s] # "validate" /\ manual'[s])
                          = (pc[s] # "validate" /\ manual[s])
    BY <2>3, <2>4
  <2>6. UNCHANGED RegistryManual
    BY <2>5, Zenon DEF RegistryManual
  <2> QED
    BY <1>1, <2>2, <2>6
    DEF BeginRun, registry, InRegistry!vars, InRegistry!registry, InRegistry!locals
<1>2. ASSUME NEW r \in Runs, Validate(r) PROVE InRegistry!Begin(r)
  <2>1. pc[r] = "validate" /\ pc' = [pc EXCEPT ![r] = "decide"]
    BY <1>2 DEF Validate, Goto
  <2>2. InRegistry!Idle(r) /\ InRegistry!Goto(r, "decide")
    BY <2>1, PcSeen DEF InRegistry!Idle, InRegistry!Goto, Seen
  <2>3. InRegistry!MayStart
    <3>1. Serialized => \A s \in Runs : s # r => pc[s] = "idle"
      BY <1>0, <2>1 DEF RInv, OneAtATime
    <3>2. Serialized => \A s \in Runs : RegistryPc[s] = "idle"
      BY <3>1, <2>1 DEF RegistryPc
    <3> QED
      BY <3>2 DEF InRegistry!MayStart, InRegistry!AllIdle, InRegistry!Idle
  <2>4. InRegistry!RoomForAnother
    <3> DEFINE Active == {s \in Runs : RegistryPc[s] # "idle"}
    <3>1. Active \subseteq Runs \ {r}
      BY <2>1 DEF RegistryPc
    <3>2. /\ Cardinality(Runs \ {r}) = Cardinality(Runs) - 1
          /\ IsFiniteSet(Runs \ {r}) /\ Cardinality(Runs) \in Nat
      BY FiniteRuns, FS_RemoveElement, FS_CardinalityType
    <3>3. /\ Cardinality(Active) <= Cardinality(Runs) - 1
          /\ Cardinality(Active) \in Nat
      BY <3>1, <3>2, FS_Subset, FS_CardinalityType
    <3>4. Len(versions) \in Nat /\ Len(versions) <= MaxVersions
      BY PendingFinite, RegistryAssumption
      DEF PInv, RegistryTypes, RInv, RoomKept
    <3>5. Len(versions) + Cardinality(Active) < MaxVersions + Cardinality(Runs)
      BY <3>2, <3>3, <3>4, RegistryAssumption
    <3>6. InRegistry!Cardinality(Active) = Cardinality(Active)
      BY DEF InRegistry!Cardinality, InRegistry!IsFiniteSet, Cardinality, IsFiniteSet
    <3> QED
      BY <3>5, <3>6 DEF InRegistry!RoomForAnother, InRegistry!Idle
  <2>5. RegistryManual' = [RegistryManual EXCEPT ![r] = manual[r]]
    <3>1. pc'[r] = "decide" /\ manual' = manual
          /\ \A s \in Runs \ {r} : pc'[s] = pc[s]
      BY <1>0, <1>2, <2>1 DEF Validate, locals
    <3>2. (pc'[r] # "validate" /\ manual'[r]) = manual[r]
      BY <1>0, <3>1
    <3>3. \A s \in Runs \ {r} : (pc'[s] # "validate" /\ manual'[s])
                                 = (pc[s] # "validate" /\ manual[s])
      BY <3>1
    <3>4. \A s \in Runs \ {r} : RegistryManual[s] = (pc[s] # "validate" /\ manual[s])
      BY Zenon DEF RegistryManual
    <3>5. RegistryManual' = [s \in Runs |-> pc'[s] # "validate" /\ manual'[s]]
      BY Zenon DEF RegistryManual
    <3>6. [RegistryManual EXCEPT ![r] = manual[r]]
            = [s \in Runs |-> IF s = r THEN manual[r] ELSE RegistryManual[s]]
      BY Zenon DEF RegistryManual
    <3>7. \A s \in Runs : (pc'[s] # "validate" /\ manual'[s])
                           = IF s = r THEN manual[r] ELSE RegistryManual[s]
      BY <3>2, <3>3, <3>4, Zenon
    <3> QED
      BY <3>5, <3>6, <3>7, Zenon
  <2>6. manual[r] \in ManualFlags
    BY <2>1 DEF RInv, Fresh
  <2> QED
    BY <1>2, <2>2, <2>3, <2>4, <2>5, <2>6
    DEF Validate, InRegistry!Begin, InRegistry!registry, registry, locals
<1> USE DEF InRegistry!Goto, InRegistry!registry, InRegistry!locals, Goto,
        registry, locals, NoVersion, InRegistry!NoVersion
<1>3. ASSUME NEW r \in Runs, Decide(r) PROVE InRegistry!DecideRetrain(r)
  <2>1. pc[r] = "decide" /\ pc' = [pc EXCEPT ![r] = IF RetrainDue THEN "train" ELSE "load"]
    BY <1>3 DEF Decide, DecideRetrain
  <2>2. RetrainDue = InRegistry!RetrainDue
    BY DEF RetrainDue, InRegistry!RetrainDue, AgeDays, InRegistry!AgeDays
  <2>3. RegistryPc[r] = "decide" /\ UNCHANGED RegistryManual
        /\ RegistryPc' = [RegistryPc EXCEPT ![r] = IF RetrainDue THEN "train" ELSE "load"]
    BY <1>3, <2>1, PcSeen, ManualSeen DEF Seen, Decide, DecideRetrain
  <2> QED
    BY <1>3, <2>2, <2>3 DEF Decide, DecideRetrain, InRegistry!DecideRetrain
<1>4. ASSUME NEW r \in Runs, Challenge(r)
      PROVE  InRegistry!Train(r) \/ InRegistry!RegisterModel(r)
               \/ InRegistry!ReadIncumbent(r)
  <2>1. CASE Train(r)
    BY <2>1, PcSeen, ManualSeen DEF Seen, Train, InRegistry!Train
  <2>2. CASE RegisterModel(r)
    BY <2>2, PcSeen, ManualSeen DEF Seen, RegisterModel, InRegistry!RegisterModel
  <2>3. CASE ReadIncumbent(r)
    BY <2>3, PcSeen, ManualSeen DEF Seen, ReadIncumbent, InRegistry!ReadIncumbent
  <2> QED
    BY <1>4, <2>1, <2>2, <2>3 DEF Challenge
<1>5. ASSUME NEW r \in Runs, Gate(r)
      PROVE  InRegistry!Promote(r) \/ InRegistry!KeepIncumbent(r)
  <2>1. pc[r] = "gate" /\ pc' = [pc EXCEPT ![r] = "load"] /\ UNCHANGED manual
    BY <1>5 DEF Gate, Promote, KeepIncumbent
  <2>2. /\ RegistryPc[r] = "gate" /\ UNCHANGED RegistryManual
        /\ RegistryPc' = [RegistryPc EXCEPT ![r] = "load"]
    BY <2>1, PcSeen, ManualSeen DEF Seen
  <2>3. RegistryManual[r] = manual[r]
    <3>1. (pc[r] # "validate" /\ manual[r]) = manual[r]
      BY <1>0, <2>1
    <3> QED
      BY <3>1, Zenon DEF RegistryManual
  <2>4. /\ InRegistry!ColdStart(r) <=> ColdStart(r)
        /\ InRegistry!BeatsIncumbent(r) <=> BeatsIncumbent(r)
    BY DEF InRegistry!ColdStart, ColdStart, InRegistry!BeatsIncumbent, BeatsIncumbent
  <2>5. InRegistry!Wins(r) <=> Wins(r)
    BY <2>3, <2>4, Zenon DEF InRegistry!Wins, Wins
  <2>6. InRegistry!Judge(r) <=> Judge(r)
    <3>1. (InRegistry!ColdStart(r) \/ ~RegistryManual[r]) = (ColdStart(r) \/ ~manual[r])
      BY <2>3, <2>4, Zenon
    <3> QED
      BY <3>1 DEF InRegistry!Judge, Judge
  <2>7. CASE Promote(r)
    BY <2>2, <2>5, <2>6, <2>7
    DEF Promote, InRegistry!Promote, Challenger, InRegistry!Challenger
  <2>8. CASE KeepIncumbent(r)
    BY <2>2, <2>5, <2>6, <2>8 DEF KeepIncumbent, InRegistry!KeepIncumbent
  <2> QED
    BY <1>5, <2>7, <2>8 DEF Gate
<1>6. ASSUME NEW r \in Runs, ResolveAlias(r) \/ LoadModel(r) \/ Swap(r)
      PROVE  UNCHANGED InRegistry!vars
  <2>1. /\ \/ pc[r] = "load" /\ pc' = [pc EXCEPT ![r] = "fetch"]
           \/ pc[r] = "fetch" /\ pc' = [pc EXCEPT ![r] = "swap"]
           \/ pc[r] = "swap" /\ pc' = [pc EXCEPT ![r] = "check"]
        /\ UNCHANGED <<versions, champion, today, manual, f1, mine, seen, judged>>
    BY <1>6 DEF ResolveAlias, LoadModel, Swap
  <2>2. UNCHANGED RegistryPc
    BY <1>0, <2>1 DEF RegistryPc
  <2>3. UNCHANGED RegistryManual
    BY <2>1, ManualSeen
  <2> QED
    BY <2>1, <2>2, <2>3 DEF InRegistry!vars
<1>7. ASSUME NEW r \in Runs, EndRun(r), ~Idle(r), pc[r] # "validate"
      PROVE  InRegistry!EndRun(r) /\ ~InRegistry!Idle(r)
  <2>1. /\ RegistryPc' = [RegistryPc EXCEPT ![r] = "idle"] /\ RegistryPc[r] # "idle"
    BY <1>0, <1>7, PcSeen DEF EndRun, Seen, Idle
  <2>2. RegistryManual' = [RegistryManual EXCEPT ![r] = FALSE]
    <3>1. pc' = [pc EXCEPT ![r] = "idle"] /\ manual' = [manual EXCEPT ![r] = FALSE]
      BY <1>7 DEF EndRun
    <3>2. (pc'[r] # "validate" /\ manual'[r]) = FALSE
      BY <1>0, <3>1
    <3>3. \A s \in Runs \ {r} : (pc'[s] # "validate" /\ manual'[s])
                                 = (pc[s] # "validate" /\ manual[s])
      BY <1>0, <3>1
    <3>4. \A s \in Runs \ {r} : RegistryManual[s] = (pc[s] # "validate" /\ manual[s])
      BY Zenon DEF RegistryManual
    <3>5. RegistryManual' = [s \in Runs |-> pc'[s] # "validate" /\ manual'[s]]
      BY Zenon DEF RegistryManual
    <3>6. [RegistryManual EXCEPT ![r] = FALSE]
            = [s \in Runs |-> IF s = r THEN FALSE ELSE RegistryManual[s]]
      BY Zenon DEF RegistryManual
    <3>7. \A s \in Runs : (pc'[s] # "validate" /\ manual'[s])
                           = IF s = r THEN FALSE ELSE RegistryManual[s]
      BY <3>2, <3>3, <3>4, Zenon
    <3> QED
      BY <3>5, <3>6, <3>7, Zenon
  <2> QED
    BY <1>7, <2>1, <2>2 DEF EndRun, InRegistry!EndRun, InRegistry!Idle
<1>8. ASSUME NEW r \in Runs, Return(r) PROVE InRegistry!Finish(r)
  <2>1. EndRun(r) /\ pc[r] = "check" /\ RegistryPc[r] = "load"
    BY <1>8 DEF Return, RegistryPc
  <2> QED
    BY <1>7, <2>1 DEF Idle, InRegistry!Finish
<1>9. ASSUME NEW r \in Runs, EndEarly(r)
      PROVE  InRegistry!Fail(r) \/ UNCHANGED InRegistry!vars
  <2>1. EndRun(r) /\ ~Idle(r)
    BY <1>9 DEF EndEarly, Fail
  <2>2. CASE pc[r] = "validate"
    <3>1. UNCHANGED <<versions, champion, today, judged>>
      BY <2>1 DEF EndRun
    <3>2. UNCHANGED <<f1, mine, seen, RegistryPc>>
      BY <1>0, <2>1, <2>2 DEF EndRun, RInv, Fresh, RegistryPc, PInv, RegistryTypes
    <3>3. UNCHANGED RegistryManual
      <4>1. pc' = [pc EXCEPT ![r] = "idle"] /\ manual' = [manual EXCEPT ![r] = FALSE]
        BY <2>1 DEF EndRun
      <4>2. \A s \in Runs : (pc'[s] # "validate" /\ manual'[s])
                            = (pc[s] # "validate" /\ manual[s])
        BY <1>0, <2>2, <4>1
      <4> QED
        BY <4>2, Zenon DEF RegistryManual
    <3> QED
      BY <3>1, <3>2, <3>3 DEF InRegistry!vars
  <2>3. CASE pc[r] # "validate"
    BY <1>7, <2>1, <2>3 DEF InRegistry!Fail
  <2> QED
    BY <2>2, <2>3
<1>10. ASSUME UNCHANGED <<pc, manual>> PROVE UNCHANGED <<RegistryPc, RegistryManual>>
  BY <1>10 DEF RegistryPc, RegistryManual
<1>11. CASE HumanFlips
  <2>1. InRegistry!MayStart
    BY <1>11 DEF HumanFlips, FlipAlias, MayStart, AllIdle, Idle, InRegistry!MayStart,
                 InRegistry!AllIdle, InRegistry!Idle, RegistryPc
  <2>2. InRegistry!FlipAlias
    BY <1>10, <1>11, <2>1 DEF HumanFlips, FlipAlias, VersionIds,
       InRegistry!FlipAlias, InRegistry!VersionIds
  <2> QED
    BY <2>2 DEF InRegistry!Next
<1>12. CASE DayPasses
  <2>1. InRegistry!NextDay
    BY <1>10, <1>12 DEF DayPasses, NextDay, InRegistry!NextDay
  <2> QED
    BY <2>1 DEF InRegistry!Next
<1>13. CASE UNCHANGED pvars
  BY <1>10, <1>13 DEF pvars, vars, InRegistry!vars
<1>14. ASSUME NEW r \in Runs, BeginRun(r) \/ RunStep(r) \/ EndEarly(r)
       PROVE  [InRegistry!Next]_InRegistry!vars
  BY <1>1, <1>2, <1>3, <1>4, <1>5, <1>6, <1>8, <1>9, <1>14
  DEF RunStep, InRegistry!Next, InRegistry!Step
<1> QED
  BY <1>11, <1>12, <1>13, <1>14 DEF PNext

\* The pipeline implements ChampionRegistry, for any runs, scores and bounds:
\* whatever holds of the registry there holds of the whole pipeline.
THEOREM Refines == PSpec => RegistryRefined
<1>1. PInv /\ RInv /\ [PNext]_pvars => RInv'
  BY RInvStep
<1>2. PSpec => [](PInv /\ RInv)
  BY PInductive, InitRInv, <1>1, PTL DEF PSpec
<1> QED
  BY <1>2, InitRefined, StepRefined, PTL DEF PSpec, RegistryRefined, InRegistry!Spec

-----------------------------------------------------------------------------
(***************************************************************************)
(* One run at a time.  What a run has read of the alias is still true when *)
(* it uses it, because nobody else moves it: so the alias it stamps, the   *)
(* model it scores with and the champion are one version, and a promotion  *)
(* replaces the version that is served by one that beats it.               *)
(***************************************************************************)
ReadTrue(r) ==
  /\ pc[r] = "gate" => seen[r] = champion
  /\ pc[r] \in {"fetch", "swap", "check"} => alias[r] = champion
  /\ pc[r] \in {"swap", "check"} => model[r] = champion
  /\ pc[r] = "check" => \/ rows[r] /\ served # Nothing /\ served.model = champion
                        \/ ~rows[r] /\ served = found[r]
  /\ pc[r] \notin {"idle", "check"} => served = found[r]
  /\ pc[r] # "idle" => result[r] = Nothing

ReadsStayTrue ==
  /\ DOMAIN result = Runs /\ DOMAIN found = Runs
  /\ \A r \in Runs : ReadTrue(r)

\* Between human choices the champion only gets better than what is served, if
\* the gate asks for no less than the incumbent's score.
ChampionAhead ==
  Margin >= 0 /\ served # Nothing =>
    /\ champion # NoVersion
    /\ flipped \/ versions[served.model].f1 <= versions[champion].f1

SInv == PInv /\ OneAtATime /\ ReadsStayTrue /\ LockStep /\ ChampionAhead

\* Registered versions keep their scores, which are integers.
LEMMA ScoreKept ==
  ASSUME PInv, [PNext]_pvars, NEW v \in VersionIds
  PROVE  versions[v].f1 \in Int /\ versions'[v] = versions[v]
<1> DEFINE S == [f1 : Scores, day : Nat]
<1>1. versions \in Seq(S) /\ Scores \subseteq Int
  BY RegistryAssumption DEF PInv, RegistryTypes
<1>2. versions[v].f1 \in Int
  <2>1. versions[v] \in S
    <3> HIDE DEF S
    <3> QED BY <1>1 DEF VersionIds
  <2> QED
    BY <1>1, <2>1
<1>3. ASSUME NEW r \in Runs, RegisterModel(r) PROVE versions'[v] = versions[v]
  <2> DEFINE e == [f1 |-> f1[r], day |-> today]
  <2>1. e \in [f1 : Scores, day : Nat] /\ versions' = Append(versions, e)
    BY <1>3 DEF RegisterModel, PInv, RegistryTypes, Carried
  <2> HIDE DEF e
  <2> QED
    BY <2>1, IdsGrow DEF PInv, RegistryTypes
<1>4. versions' = versions \/ \E r \in Runs : RegisterModel(r)
  BY DEF PNext, RunStep, BeginRun, Validate, Decide, DecideRetrain, Challenge,
         Train, ReadIncumbent, Gate, Promote, KeepIncumbent, ResolveAlias,
         LoadModel, Swap, Return, EndEarly, Fail, EndRun, HumanFlips, FlipAlias,
         DayPasses, NextDay, registry, pvars, vars
<1> QED
  BY <1>2, <1>3, <1>4

\* ChampionAhead depends on no run's place.
LEMMA AheadStays ==
  ASSUME PInv, [PNext]_pvars, ChampionAhead,
         UNCHANGED <<served, champion, flipped>>
  PROVE  ChampionAhead'
<1> SUFFICES ASSUME Margin >= 0, served # Nothing PROVE ChampionAhead'
  BY DEF ChampionAhead
<1>1. /\ champion # NoVersion /\ champion \in VersionIds
      /\ served.model \in VersionIds
  BY DEF ChampionAhead, PInv, RegistryTypes, PTypeOK, Sources, NoVersion
<1>2. /\ versions'[champion] = versions[champion]
      /\ versions'[served.model] = versions[served.model]
  BY <1>1, ScoreKept
<1> QED
  BY <1>1, <1>2, Zenon DEF ChampionAhead

LEMMA SerialStep ==
  ASSUME Serialized, SInv, RInv, [PNext]_pvars
  PROVE  SInv'
<1>1. PInv' /\ OneAtATime'
  BY PInvStep, RInvStep DEF SInv, RInv
<1>2. /\ pc \in [Runs -> Labels \cup Later]
      /\ champion \in VersionIds \cup {NoVersion}
      /\ alias \in [Runs -> VersionIds \cup {NoVersion}]
      /\ model \in [Runs -> VersionIds \cup {NoVersion}]
      /\ seen \in [Runs -> VersionIds \cup {NoVersion}]
      /\ rows \in [Runs -> BOOLEAN]
      /\ served = Nothing \/ served \in Sources
      /\ DOMAIN result = Runs /\ DOMAIN found = Runs
      /\ \A r, s \in Runs : pc[r] # "idle" /\ pc[s] # "idle" => r = s
  BY DEF SInv, PInv, RegistryTypes, PTypeOK, OneAtATime, ReadsStayTrue
<1>3. \A r \in Runs : ReadTrue(r)
  BY DEF SInv, ReadsStayTrue
<1>4. ASSUME NEW r \in Runs, pc'[r] # "idle", ReadTrue(r)', DOMAIN result' = Runs,
             DOMAIN found' = Runs
      PROVE  ReadsStayTrue'
  <2>1. \A s \in Runs \ {r} : pc'[s] = "idle"
    BY <1>1, <1>4 DEF OneAtATime
  <2>2. \A s \in Runs \ {r} : ReadTrue(s)'
    BY <2>1 DEF ReadTrue
  <2> QED
    BY <1>4, <2>2 DEF ReadsStayTrue
<1>5. ASSUME \A r \in Runs : pc'[r] = "idle", DOMAIN result' = Runs,
             DOMAIN found' = Runs
      PROVE  ReadsStayTrue'
  BY <1>5 DEF ReadsStayTrue, ReadTrue
<1>6. ASSUME ReadsStayTrue', UNCHANGED <<served, champion, flipped>> PROVE SInv'
  <2>1. LockStep'
    BY <1>6 DEF SInv, LockStep
  <2> QED
    BY <1>1, <1>6, <2>1, AheadStays DEF SInv
<1> USE DEF Goto, registry, locals, work
<1>7. ASSUME NEW r \in Runs, BeginRun(r) PROVE SInv'
  <2>1. /\ pc' = [pc EXCEPT ![r] = "validate"]
        /\ result' = [result EXCEPT ![r] = Nothing]
        /\ found' = [found EXCEPT ![r] = served]
        /\ UNCHANGED <<champion, served, flipped>>
    BY <1>7 DEF BeginRun
  <2>2. /\ ReadTrue(r)' /\ pc'[r] # "idle"
        /\ DOMAIN result' = Runs /\ DOMAIN found' = Runs
    BY <1>2, <2>1 DEF ReadTrue
  <2> QED
    BY <1>4, <1>6, <2>1, <2>2
<1>8. ASSUME NEW r \in Runs,
             Validate(r) \/ Decide(r) \/ Challenge(r) \/ KeepIncumbent(r)
               \/ ResolveAlias(r) \/ LoadModel(r),
             UNCHANGED <<result, served, flipped, found>>
      PROVE  SInv'
  <2>1. /\ UNCHANGED champion
        /\ pc[r] \notin {"idle", "check"}
        /\ \/ pc' = [pc EXCEPT ![r] = "decide"]
           \/ pc' = [pc EXCEPT ![r] = "train"]
           \/ pc' = [pc EXCEPT ![r] = "load"]
           \/ pc' = [pc EXCEPT ![r] = "register"]
           \/ pc' = [pc EXCEPT ![r] = "incumbent"]
           \/ pc' = [pc EXCEPT ![r] = "gate"] /\ seen' = [seen EXCEPT ![r] = champion]
           \/ pc' = [pc EXCEPT ![r] = "fetch"] /\ alias' = [alias EXCEPT ![r] = champion]
           \/ /\ pc[r] = "fetch"
              /\ pc' = [pc EXCEPT ![r] = "swap"]
              /\ model' = [model EXCEPT ![r] = champion]
              /\ UNCHANGED alias
    BY <1>8 DEF Validate, Decide, DecideRetrain, Challenge, Train, RegisterModel,
                ReadIncumbent, KeepIncumbent, ResolveAlias, LoadModel, Fetched
  <2>2. ReadTrue(r)' /\ pc'[r] # "idle"
    BY <1>2, <1>3, <1>8, <2>1 DEF ReadTrue
  <2> QED
    BY <1>2, <1>4, <1>6, <1>8, <2>1, <2>2
<1>9. ASSUME NEW r \in Runs, Gate(r), Promote(r) PROVE SInv'
  <2>1. /\ pc[r] = "gate" /\ pc' = [pc EXCEPT ![r] = "load"]
        /\ Wins(r) /\ champion' = mine[r]
        /\ UNCHANGED <<result, served, flipped, found>>
    BY <1>9 DEF Gate, Promote, KeepIncumbent, Challenger
  <2>2. ReadsStayTrue'
    <3>1. ReadTrue(r)' /\ pc'[r] # "idle"
      BY <1>2, <1>3, <2>1 DEF ReadTrue
    <3> QED
      BY <1>2, <1>4, <2>1, <3>1
  <2>3. LockStep'
    BY <2>1 DEF SInv, LockStep
  <2>4. ChampionAhead'
    <3> SUFFICES ASSUME Margin >= 0, served # Nothing
                 PROVE  /\ champion' # NoVersion
                        /\ flipped \/ versions'[served.model].f1
                                         <= versions'[champion'].f1
      BY <2>1 DEF ChampionAhead
    <3>1. /\ champion \in VersionIds /\ champion # NoVersion
          /\ served.model \in VersionIds
          /\ flipped \/ versions[served.model].f1 <= versions[champion].f1
      BY <1>2 DEF SInv, ChampionAhead, Sources, NoVersion
    <3>2. seen[r] = champion
      BY <1>3, <2>1 DEF ReadTrue
    <3>3. f1[r] > versions[champion].f1 + Margin
      BY <2>1, <3>1, <3>2 DEF Wins, ColdStart, BeatsIncumbent
    <3>4. mine[r] \in VersionIds /\ versions[mine[r]].f1 = f1[r]
      BY <2>1 DEF SInv, PInv, Carried
    <3>5. /\ versions[mine[r]].f1 \in Int /\ versions[champion].f1 \in Int
          /\ versions[served.model].f1 \in Int
          /\ versions'[mine[r]] = versions[mine[r]]
          /\ versions'[served.model] = versions[served.model]
      BY <3>1, <3>4, ScoreKept DEF SInv
    <3>6. mine[r] # NoVersion
      BY <3>4 DEF VersionIds, NoVersion
    <3>7. versions[served.model].f1 <= versions[champion].f1 =>
            versions[served.model].f1 <= versions[mine[r]].f1
      BY <3>3, <3>4, <3>5, RegistryAssumption
    <3> QED
      BY <2>1, <3>1, <3>5, <3>6, <3>7
  <2> QED
    BY <1>1, <2>2, <2>3, <2>4 DEF SInv
<1>10. ASSUME NEW r \in Runs, Swap(r), LoadRows(r) PROVE SInv'
  <2>1. /\ pc[r] = "swap" /\ pc' = [pc EXCEPT ![r] = "check"]
        /\ served' = [stamp |-> alias[r], model |-> model[r], columns |-> alias[r]]
        /\ flipped' = FALSE /\ rows' = [rows EXCEPT ![r] = TRUE]
        /\ UNCHANGED <<versions, champion, alias, model, result, found>>
    BY <1>10 DEF Swap, LoadRows, Scored
  <2>2. alias[r] = champion /\ model[r] = champion /\ champion # NoVersion
    BY <1>3, <2>1 DEF ReadTrue, SInv, PInv, AliasStays
  <2>3. served' # Nothing /\ served'.model = champion
    <3>1. champion \in Nat
      BY <1>2, <2>2 DEF VersionIds
    <3> QED
      BY <2>1, <2>2, <3>1, NothingIsNoRow
  <2>4. ReadsStayTrue'
    <3>1. rows'[r] = TRUE
      BY <1>2, <2>1, Zenon
    <3>2. ReadTrue(r)' /\ pc'[r] # "idle"
      BY <1>2, <1>3, <2>1, <2>2, <2>3, <3>1 DEF ReadTrue
    <3> QED
      BY <1>2, <1>4, <2>1, <3>2
  <2>5. LockStep'
    BY <2>1, <2>2 DEF LockStep
  <2>6. ChampionAhead'
    <3>1. versions[champion].f1 \in Int
      BY <1>2, <2>2, ScoreKept DEF SInv
    <3> QED
      BY <2>1, <2>2, <3>1 DEF ChampionAhead
  <2> QED
    BY <1>1, <2>4, <2>5, <2>6 DEF SInv
<1>18. ASSUME NEW r \in Runs, Swap(r), LoadNothing(r) PROVE SInv'
  <2>1. /\ pc[r] = "swap" /\ pc' = [pc EXCEPT ![r] = "check"]
        /\ rows' = [rows EXCEPT ![r] = FALSE]
        /\ UNCHANGED <<champion, alias, model, result, served, flipped, found>>
    BY <1>18 DEF Swap, LoadNothing
  <2>2. rows'[r] = FALSE
    BY <1>2, <2>1, Zenon
  <2>3. ReadTrue(r)' /\ pc'[r] # "idle"
    BY <1>2, <1>3, <2>1, <2>2 DEF ReadTrue
  <2> QED
    BY <1>2, <1>4, <1>6, <2>1, <2>3
<1>11. ASSUME NEW r \in Runs, EndRun(r), pc[r] # "idle",
              UNCHANGED <<served, flipped>>, DOMAIN result' = Runs,
              DOMAIN found' = Runs
       PROVE  SInv'
  <2>1. \A s \in Runs : pc'[s] = "idle"
    BY <1>2, <1>11 DEF EndRun
  <2> QED
    BY <1>5, <1>6, <1>11, <2>1 DEF EndRun
<1>12. CASE HumanFlips
  <2>1. /\ \A s \in Runs : pc'[s] = "idle"
        /\ champion' \in VersionIds
        /\ flipped' = TRUE
        /\ UNCHANGED <<result, served, found>>
    BY <1>12 DEF HumanFlips, FlipAlias, MayStart, AllIdle, Idle
  <2>2. ReadsStayTrue' /\ LockStep'
    BY <1>2, <1>5, <2>1 DEF SInv, LockStep
  <2>3. ChampionAhead'
    BY <2>1 DEF ChampionAhead, VersionIds, NoVersion
  <2> QED
    BY <1>1, <2>2, <2>3 DEF SInv
<1>13. ASSUME UNCHANGED <<pc, seen, alias, model, rows, result, champion, served,
                          flipped, found>>
       PROVE  SInv'
  <2>1. ReadsStayTrue'
    BY <1>13 DEF SInv, ReadsStayTrue, ReadTrue
  <2> QED
    BY <1>6, <1>13, <2>1
<1>14. ASSUME NEW r \in Runs, Return(r) \/ EndEarly(r) PROVE SInv'
  <2>1. EndRun(r) /\ pc[r] # "idle" /\ UNCHANGED <<served, flipped>>
          /\ DOMAIN result' = Runs /\ DOMAIN found' = Runs
    BY <1>2, <1>14 DEF Return, EndEarly, Clear, Fail, Idle
  <2> QED
    BY <1>11, <2>1
<1>15. ASSUME NEW r \in Runs, Gate(r) PROVE SInv'
  BY <1>8, <1>9, <1>15 DEF Gate
<1>16. ASSUME NEW r \in Runs, RunStep(r) PROVE SInv'
  <2>1. ASSUME Validate(r) \/ Decide(r) \/ Challenge(r) \/ ResolveAlias(r)
                 \/ LoadModel(r)
        PROVE  UNCHANGED <<result, served, flipped, found>>
    BY <2>1 DEF Validate, Decide, Challenge, ResolveAlias, LoadModel
  <2>2. Swap(r) => LoadRows(r) \/ LoadNothing(r)
    BY DEF Swap
  <2> QED
    BY <1>8, <1>10, <1>14, <1>15, <1>16, <1>18, <2>1, <2>2 DEF RunStep
<1>17. CASE DayPasses \/ UNCHANGED pvars
  BY <1>13, <1>17 DEF DayPasses, NextDay, pvars, vars
<1> QED
  BY <1>7, <1>12, <1>14, <1>16, <1>17 DEF PNext

LEMMA SerialPInductive ==
  ASSUME Serialized
  PROVE  PSpec => [](SInv /\ RInv)
<1>1. PInit => SInv /\ RInv
  BY InitPInv, InitRInv
  DEF PInit, Init, SInv, RInv, ReadsStayTrue, ReadTrue, LockStep, ChampionAhead
<1>2. SInv /\ RInv /\ [PNext]_pvars => (SInv /\ RInv)'
  BY SerialStep, RInvStep DEF SInv
<1> QED
  BY <1>1, <1>2, PTL DEF PSpec

\* With one run at a time, what is served was predicted by the model it is
\* stamped with, whose columns the batch was aligned to.
THEOREM SerialLockStep ==
  ASSUME Serialized
  PROVE  PSpec => []LockStep
<1>1. SInv => LockStep
  BY DEF SInv
<1> QED
  BY <1>1, SerialPInductive, PTL

\* With one run at a time, a run that returns a result names the champion; if it
\* scored rows the store serves the champion's and no problem is reported, and if
\* it scored none the store is as the run found it.
THEOREM SerialResultTells ==
  ASSUME Serialized
  PROVE  PSpec => ResultTellsStore
<1>1. ASSUME SInv, [PNext]_pvars, NEW r \in Runs, pc[r] = "check",
             result'[r] # Nothing
      PROVE  /\ result'[r].version = champion'
             /\ IF result'[r].rows
                THEN served'.model = champion' /\ ~result'[r].problems
                ELSE served' = found[r]
  <2>1. /\ result[r] = Nothing /\ DOMAIN result = Runs /\ alias[r] = champion
        /\ \/ rows[r] /\ served # Nothing /\ served.model = champion
           \/ ~rows[r] /\ served = found[r]
    BY <1>1 DEF SInv, ReadsStayTrue, ReadTrue
  <2>2. \E s \in Runs : Return(s)
    <3>1. \/ UNCHANGED result
          \/ \E s \in Runs : result' = [result EXCEPT ![s] = Nothing]
          \/ \E s \in Runs : Return(s)
      BY <1>1 DEF PNext, RunStep, BeginRun, Validate, Decide, Challenge, Gate,
         ResolveAlias, LoadModel, Swap, EndEarly, HumanFlips, DayPasses, pvars
    <3> QED
      BY <1>1, <2>1, <3>1
  <2>3. PICK s \in Runs : Return(s)
    BY <2>2
  <2>4. s = r
    BY <1>1, <2>1, <2>3 DEF Return
  <2>5. /\ result'[r].version = alias[r]
        /\ result'[r].rows = rows[r]
        /\ result'[r].problems = (served = Nothing)
        /\ UNCHANGED <<served, champion>>
    <3>1. result' = [result EXCEPT ![r] =
                       [retrained |-> retrain[r], promoted |-> retrain[r],
                        moved |-> moved[r], version |-> alias[r],
                        rows |-> rows[r], problems |-> served = Nothing]]
          /\ UNCHANGED <<served, champion>>
      BY <2>3, <2>4 DEF Return, EndRun, registry
    <3> QED
      BY <2>1, <3>1, Zenon
  <2>6. CASE rows[r] /\ served # Nothing /\ served.model = champion
    BY <2>1, <2>5, <2>6, Zenon
  <2>7. CASE ~rows[r] /\ served = found[r]
    BY <2>1, <2>5, <2>7, Zenon
  <2> QED
    BY <2>1, <2>6, <2>7
<1>2. SInv /\ RInv /\ [PNext]_pvars =>
        [\A r \in Runs : pc[r] = "check" /\ result'[r] # Nothing =>
           /\ result'[r].version = champion'
           /\ IF result'[r].rows
              THEN served'.model = champion' /\ ~result'[r].problems
              ELSE served' = found[r]]_pvars
  BY <1>1, Zenon
<1> QED
  BY <1>2, SerialPInductive, PTL DEF PSpec, ResultTellsStore

\* With one run at a time, a swap never replaces the predictions of a model by
\* those of one with a lower score, unless a human chose it; a negative margin
\* would let the gate do so.
THEOREM SerialNeverWorse ==
  ASSUME Serialized, Margin >= 0
  PROVE  PSpec => ServedNeverWorse
<1>1. ASSUME SInv, [PNext]_pvars, Nothing \notin {served, served'},
             served' # served, ~flipped
      PROVE  versions[served'.model].f1 >= versions[served.model].f1
  <2>1. PICK r \in Runs : Swap(r)
    BY <1>1 DEF PNext, RunStep, BeginRun, Validate, Decide, Challenge, Gate,
       ResolveAlias, LoadModel, Return, EndEarly, HumanFlips, DayPasses, pvars
  <2>2. served'.model = champion
    BY <1>1, <2>1 DEF Swap, LoadRows, LoadNothing, Scored, SInv, ReadsStayTrue,
                      ReadTrue
  <2>3. /\ champion \in VersionIds /\ served.model \in VersionIds
        /\ versions[served.model].f1 <= versions[champion].f1
    BY <1>1 DEF SInv, ChampionAhead, PInv, RegistryTypes, PTypeOK, Sources, NoVersion
  <2>4. versions[served.model].f1 \in Int /\ versions[champion].f1 \in Int
    BY <1>1, <2>3, ScoreKept DEF SInv
  <2> QED
    BY <2>2, <2>3, <2>4
<1>2. SInv /\ [PNext]_pvars =>
        [Nothing \notin {served, served'} /\ served' # served /\ ~flipped =>
           versions[served'.model].f1 >= versions[served.model].f1]_pvars
  BY <1>1
<1> QED
  BY <1>2, SerialPInductive, PTL DEF PSpec, ServedNeverWorse
=============================================================================
