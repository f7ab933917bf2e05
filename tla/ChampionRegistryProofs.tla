----------------------- MODULE ChampionRegistryProofs -----------------------
(***************************************************************************)
(* Proofs about ChampionRegistry for every set of runs, scores, margin and *)
(* bound.  Type correctness and ScoringHasChampion hold whatever the runs  *)
(* do at once; the promotion rule is proved for serialized runs.           *)
(***************************************************************************)
EXTENDS ChampionRegistry, TLAPS

\* Appending a version keeps the others and their numbers.
LEMMA AppendVersion ==
  ASSUME NEW S, NEW s \in Seq(S), NEW e \in S
  PROVE  /\ Append(s, e) \in Seq(S)
         /\ Len(Append(s, e)) = Len(s) + 1
         /\ Len(s) \in Nat
         /\ \A i \in 1 .. Len(s) : Append(s, e)[i] = s[i]
         /\ Append(s, e)[Len(s) + 1] = e
  OBVIOUS

\* Registering a version only adds an id.
LEMMA IdsGrow ==
  ASSUME versions \in Seq([f1 : Scores, day : Nat]),
         NEW e \in [f1 : Scores, day : Nat], versions' = Append(versions, e)
  PROVE  /\ versions' \in Seq([f1 : Scores, day : Nat])
         /\ Len(versions) \in Nat
         /\ VersionIds' = VersionIds \cup {Len(versions) + 1}
         /\ \A v \in VersionIds : versions'[v] = versions[v]
         /\ versions'[Len(versions) + 1] = e
<1> DEFINE S == [f1 : Scores, day : Nat]
<1>1. versions \in Seq(S) /\ e \in S
  OBVIOUS
<1>2. /\ versions' \in Seq(S)
      /\ Len(versions') = Len(versions) + 1
      /\ Len(versions) \in Nat
      /\ \A i \in 1 .. Len(versions) : versions'[i] = versions[i]
      /\ versions'[Len(versions) + 1] = e
  <2> HIDE DEF S
  <2> QED BY <1>1, AppendVersion
<1>3. VersionIds' = VersionIds \cup {Len(versions) + 1}
  BY <1>2 DEF VersionIds
<1> QED
  BY <1>2, <1>3 DEF VersionIds

-----------------------------------------------------------------------------
(***************************************************************************)
(* TypeOK is not inductive: the gate puts mine[r] under the alias, and     *)
(* RegisterModel appends f1[r], so what a run carries from step to step is *)
(* part of the invariant.  So is that the alias, once set, is never        *)
(* removed: a run that read an incumbent, or that skipped training because *)
(* there was one, still finds a champion when it comes to score.           *)
(***************************************************************************)
Carried ==
  \A r \in Runs :
    /\ pc[r] = "register" => f1[r] \in Scores
    /\ pc[r] \in {"incumbent", "gate"} =>
         mine[r] \in VersionIds /\ versions[mine[r]].f1 = f1[r]

AliasOnceSet ==
  \A r \in Runs :
    /\ pc[r] = "gate" /\ seen[r] # NoVersion => champion # NoVersion
    /\ pc[r] = "load" => champion # NoVersion

IInv == TypeOK /\ Carried /\ AliasOnceSet

LEMMA InitIInv == Init => IInv
  BY RegistryAssumption
  DEF Init, IInv, TypeOK, Carried, AliasOnceSet, NoVersion, VersionIds, Labels

\* Every step keeps the inductive invariant.
LEMMA IInvStep == IInv /\ [Next]_vars => IInv'
<1> SUFFICES ASSUME IInv, [Next]_vars PROVE IInv'
  OBVIOUS
<1> USE RegistryAssumption DEF IInv, TypeOK, VersionIds, Labels, NoVersion,
        Goto, registry, locals, Carried, AliasOnceSet
<1>1. ASSUME NEW r \in Runs, Begin(r) PROVE IInv'
  BY <1>1 DEF Begin
<1>2. ASSUME NEW r \in Runs, DecideRetrain(r) PROVE IInv'
  BY <1>2 DEF DecideRetrain, RetrainDue
<1>3. ASSUME NEW r \in Runs, Train(r) PROVE IInv'
  BY <1>3 DEF Train
<1>4. ASSUME NEW r \in Runs, RegisterModel(r) PROVE IInv'
  <2> DEFINE S == [f1 : Scores, day : Nat]
             e == [f1 |-> f1[r], day |-> today]
  <2>1. versions \in Seq(S) /\ e \in S /\ versions' = Append(versions, e)
    BY <1>4 DEF RegisterModel
  <2>2. /\ versions' \in Seq(S)
        /\ Len(versions') = Len(versions) + 1
        /\ Len(versions) \in Nat
        /\ \A i \in 1 .. Len(versions) : versions'[i] = versions[i]
        /\ versions'[Len(versions) + 1] = e
    <3> HIDE DEF S, e
    <3> QED BY <2>1, AppendVersion
  <2>3. TypeOK'
    BY <1>4, <2>2 DEF RegisterModel
  <2>4. Carried'
    BY <1>4, <2>2 DEF RegisterModel
  <2>5. AliasOnceSet'
    BY <1>4 DEF RegisterModel
  <2> QED
    BY <2>3, <2>4, <2>5
<1>5. ASSUME NEW r \in Runs, ReadIncumbent(r) PROVE IInv'
  BY <1>5 DEF ReadIncumbent
<1>6. ASSUME NEW r \in Runs, Promote(r) PROVE IInv'
  <2>1. mine[r] \in VersionIds /\ mine[r] # NoVersion /\ pc[r] = "gate"
    BY <1>6 DEF Promote
  <2>2. TypeOK'
    BY <1>6, <2>1 DEF Promote, Judge, Challenger
  <2>3. Carried'
    BY <1>6, <2>1 DEF Promote
  <2>4. AliasOnceSet'
    BY <1>6, <2>1 DEF Promote, Challenger
  <2> QED
    BY <2>2, <2>3, <2>4
<1>7. ASSUME NEW r \in Runs, KeepIncumbent(r) PROVE IInv'
  BY <1>7 DEF KeepIncumbent, Judge, Wins, ColdStart
<1>8. ASSUME NEW r \in Runs, EndRun(r) PROVE IInv'
  BY <1>8 DEF EndRun
<1>9. CASE FlipAlias
  BY <1>9 DEF FlipAlias
<1>10. CASE NextDay
  BY <1>10 DEF NextDay
<1>11. CASE UNCHANGED vars
  BY <1>11 DEF vars
<1> QED
  BY <1>1, <1>2, <1>3, <1>4, <1>5, <1>6, <1>7, <1>8, <1>9, <1>10, <1>11
     DEF Next, Step, Finish, Fail

\* The inductive invariant holds in every reachable state.
THEOREM Inductive == Spec => []IInv
  BY InitIInv, IInvStep, PTL DEF Spec

\* Versions, alias and what runs remember keep their shape, for any number of
\* concurrent runs.
THEOREM TypeCorrect == Spec => []TypeOK
<1>1. IInv => TypeOK
  BY DEF IInv
<1> QED
  BY <1>1, Inductive, PTL

\* run_pipeline finds a champion to score with, for any number of concurrent
\* runs and crashes: ChampionUnavailableError is unreachable.
THEOREM ChampionAvailable == Spec => []ScoringHasChampion
<1>1. IInv => ScoringHasChampion
  BY DEF IInv, AliasOnceSet, ScoringHasChampion
<1> QED
  BY <1>1, Inductive, PTL

\* The model a run promotes is the one whose score its gate judged.
THEOREM PromotesOwnChallenger == Spec => OwnChallenger
<1>1. IInv /\ [Next]_vars
        => [\A r \in Runs : MovesAlias(r) => versions[champion'].f1 = f1[r]]_vars
  <2> SUFFICES ASSUME IInv, Next, NEW r \in Runs, MovesAlias(r)
               PROVE  versions[champion'].f1 = f1[r]
    OBVIOUS
  <2>1. ASSUME NEW q \in Runs, Promote(q) PROVE versions[champion'].f1 = f1[r]
    <3>1. q = r
      BY <2>1 DEF IInv, TypeOK, MovesAlias, Promote, Goto
    <3> QED
      BY <2>1, <3>1 DEF IInv, Carried, Promote, Challenger
  <2>2. ASSUME NEW q \in Runs,
               \/ Begin(q) \/ DecideRetrain(q) \/ Train(q) \/ RegisterModel(q)
               \/ ReadIncumbent(q) \/ KeepIncumbent(q) \/ EndRun(q)
        PROVE  FALSE
    BY <2>2 DEF MovesAlias, Begin, DecideRetrain, Train, RegisterModel,
                ReadIncumbent, KeepIncumbent, EndRun, registry
  <2>3. ~FlipAlias /\ ~NextDay
    BY DEF MovesAlias, FlipAlias, NextDay
  <2> QED
    BY <2>1, <2>2, <2>3 DEF Next, Step, Finish, Fail
<1> QED
  BY <1>1, Inductive, PTL DEF Spec, OwnChallenger

-----------------------------------------------------------------------------
(***************************************************************************)
(* Serialized runs.  The promotion rule speaks of the version the alias is *)
(* taken from, and the gate compares with the version it has read: the     *)
(* rule holds because, with one run at a time and alias flips only between *)
(* runs, the two are the same.  Without Serialized they are not, and TLC   *)
(* finds the rule broken.                                                  *)
(***************************************************************************)
OneActive == \A r, q \in Runs : pc[r] # "idle" /\ pc[q] # "idle" => r = q

SeenIsChampion == \A r \in Runs : pc[r] = "gate" => seen[r] = champion

\* Nothing has been judged while there is no champion.
NothingJudged == champion = NoVersion => judged = {}

SerialInv == IInv /\ OneActive /\ SeenIsChampion /\ NothingJudged

LEMMA SerialInvStep ==
  ASSUME Serialized, SerialInv, [Next]_vars
  PROVE  SerialInv'
<1> USE RegistryAssumption DEF SerialInv, NoVersion, Goto, registry, locals,
        OneActive, SeenIsChampion, NothingJudged
<1>1. IInv'
  BY IInvStep
<1>2. pc \in [Runs -> Labels]
  BY DEF IInv, TypeOK
<1>3. ASSUME NEW r \in Runs, Begin(r) PROVE SerialInv'
  BY <1>1, <1>2, <1>3 DEF Begin, MayStart, AllIdle, Idle
<1>4. ASSUME NEW r \in Runs, DecideRetrain(r) PROVE SerialInv'
  BY <1>1, <1>2, <1>4 DEF DecideRetrain
<1>5. ASSUME NEW r \in Runs, Train(r) PROVE SerialInv'
  BY <1>1, <1>2, <1>5 DEF Train
<1>6. ASSUME NEW r \in Runs, RegisterModel(r) PROVE SerialInv'
  BY <1>1, <1>2, <1>6 DEF RegisterModel
<1>7. ASSUME NEW r \in Runs, ReadIncumbent(r) PROVE SerialInv'
  BY <1>1, <1>2, <1>7 DEF ReadIncumbent, IInv, TypeOK
<1>8. ASSUME NEW r \in Runs, Promote(r) PROVE SerialInv'
  <2>1. mine[r] # NoVersion
    BY <1>8 DEF Promote, IInv, Carried, VersionIds
  <2> QED
    BY <1>1, <1>2, <1>8, <2>1 DEF Promote, Challenger
<1>9. ASSUME NEW r \in Runs, KeepIncumbent(r) PROVE SerialInv'
  BY <1>1, <1>2, <1>9 DEF KeepIncumbent, Wins, ColdStart
<1>10. ASSUME NEW r \in Runs, EndRun(r) PROVE SerialInv'
  BY <1>1, <1>2, <1>10 DEF EndRun
<1>11. CASE FlipAlias
  BY <1>1, <1>2, <1>11 DEF FlipAlias, MayStart, AllIdle, Idle, VersionIds
<1>12. CASE NextDay
  BY <1>1, <1>2, <1>12 DEF NextDay
<1>13. CASE UNCHANGED vars
  BY <1>1, <1>2, <1>13 DEF vars
<1> QED
  BY <1>3, <1>4, <1>5, <1>6, <1>7, <1>8, <1>9, <1>10, <1>11, <1>12, <1>13
     DEF Next, Step, Finish, Fail

THEOREM SerialInductive ==
  ASSUME Serialized
  PROVE  Spec => []SerialInv
<1>1. Init => SerialInv
  BY InitIInv
  DEF Init, SerialInv, OneActive, SeenIsChampion, NothingJudged, NoVersion
<1>2. SerialInv /\ [Next]_vars => SerialInv'
  BY SerialInvStep
<1> QED
  BY <1>1, <1>2, PTL DEF Spec

\* A step that moves the alias is a Promote, of a run that saw the champion.
LEMMA MoveIsPromote ==
  ASSUME SerialInv, Next, NEW r \in Runs, MovesAlias(r)
  PROVE  Promote(r) /\ seen[r] = champion
<1>1. ASSUME NEW q \in Runs,
             \/ Begin(q) \/ DecideRetrain(q) \/ Train(q) \/ RegisterModel(q)
             \/ ReadIncumbent(q) \/ KeepIncumbent(q) \/ EndRun(q)
      PROVE  FALSE
  BY <1>1 DEF MovesAlias, Begin, DecideRetrain, Train, RegisterModel,
              ReadIncumbent, KeepIncumbent, EndRun, registry
<1>2. ~FlipAlias /\ ~NextDay
  BY DEF MovesAlias, FlipAlias, NextDay
<1>3. ASSUME NEW q \in Runs, Promote(q) PROVE q = r
  BY <1>3 DEF SerialInv, IInv, TypeOK, MovesAlias, Promote, Goto
<1>4. Promote(r)
  BY <1>1, <1>2, <1>3 DEF Next, Step, Finish, Fail
<1> QED
  BY <1>4 DEF Promote, SerialInv, SeenIsChampion

\* registry.py, lines 5-6, for one run at a time: the alias moves only to a
\* version that beats by the margin the version it is taken from.
THEOREM SerialPromotionWins ==
  ASSUME Serialized
  PROVE  Spec => PromotionWins
<1>1. SerialInv /\ [Next]_vars =>
        [\A r \in Runs : MovesAlias(r) /\ champion # NoVersion =>
           versions[champion'].f1 > versions[champion].f1 + Margin]_vars
  <2> SUFFICES ASSUME SerialInv, Next, NEW r \in Runs, MovesAlias(r),
                      champion # NoVersion
               PROVE  versions[champion'].f1 > versions[champion].f1 + Margin
    OBVIOUS
  <2>1. Promote(r) /\ seen[r] = champion
    BY MoveIsPromote
  <2>2. BeatsIncumbent(r) /\ champion' = mine[r] /\ versions' = versions
    BY <2>1 DEF Promote, Wins, ColdStart, Challenger
  <2>3. versions[mine[r]].f1 = f1[r]
    BY <2>1 DEF SerialInv, IInv, Carried, Promote
  <2> QED
    BY <2>1, <2>2, <2>3 DEF BeatsIncumbent
<1> QED
  BY <1>1, SerialInductive, PTL DEF Spec, PromotionWins

\* One run at a time, require_manual_promotion never lets a run take the alias
\* from a version.
THEOREM SerialManualGate ==
  ASSUME Serialized
  PROVE  Spec => ManualGate
<1>1. SerialInv /\ [Next]_vars =>
        [\A r \in Runs : MovesAlias(r) /\ manual[r] => champion = NoVersion]_vars
  <2> SUFFICES ASSUME SerialInv, Next, NEW r \in Runs, MovesAlias(r), manual[r]
               PROVE  champion = NoVersion
    OBVIOUS
  <2> QED
    BY MoveIsPromote DEF Promote, Wins, ColdStart
<1> QED
  BY <1>1, SerialInductive, PTL DEF Spec, ManualGate

-----------------------------------------------------------------------------
\* A version's score is an integer, and registered versions never change.
LEMMA VersionsKept ==
  ASSUME IInv, Next, NEW v \in VersionIds
  PROVE  /\ versions[v].f1 \in Int
         /\ v \in VersionIds'
         /\ versions'[v] = versions[v]
<1>1. versions \in Seq([f1 : Scores, day : Nat]) /\ Scores \subseteq Int
  BY RegistryAssumption DEF IInv, TypeOK
<1>2. versions[v].f1 \in Int
  <2> DEFINE S == [f1 : Scores, day : Nat]
  <2>1. versions[v] \in S
    <3>1. versions \in Seq(S) /\ v \in 1 .. Len(versions)
      BY <1>1 DEF VersionIds
    <3> HIDE DEF S
    <3> QED BY <3>1
  <2> QED
    BY <1>1, <2>1
<1>3. CASE versions' = versions
  BY <1>2, <1>3 DEF VersionIds
<1>4. ASSUME NEW r \in Runs, RegisterModel(r)
      PROVE  v \in VersionIds' /\ versions'[v] = versions[v]
  <2> DEFINE S == [f1 : Scores, day : Nat]
             e == [f1 |-> f1[r], day |-> today]
  <2>1. versions \in Seq(S) /\ e \in S /\ versions' = Append(versions, e)
    BY <1>4 DEF RegisterModel, IInv, TypeOK, Carried
  <2>2. /\ Len(versions') = Len(versions) + 1
        /\ Len(versions) \in Nat
        /\ \A i \in 1 .. Len(versions) : versions'[i] = versions[i]
    <3> HIDE DEF S, e
    <3> QED BY <2>1, AppendVersion
  <2> QED
    BY <2>2 DEF VersionIds
<1>5. versions' = versions \/ \E r \in Runs : RegisterModel(r)
  BY DEF Next, Step, Begin, DecideRetrain, Train, ReadIncumbent, Promote,
         KeepIncumbent, Finish, Fail, EndRun, FlipAlias, NextDay, registry
<1> QED
  BY <1>2, <1>3, <1>4, <1>5

\* What a Promote or KeepIncumbent adds to the judged versions.
LEMMA JudgedByGate ==
  ASSUME NEW r \in Runs, Judge(r)
  PROVE  judged' \subseteq judged \cup {mine[r]}
  BY DEF Judge

LEMMA WithinMarginStep ==
  ASSUME Serialized, Margin >= 0, SerialInv, ChampionWithinMargin, [Next]_vars
  PROVE  ChampionWithinMargin'
<1> USE DEF ChampionWithinMargin, NoVersion
<1>1. Margin \in Int /\ IInv
  BY RegistryAssumption DEF SerialInv
<1>2. judged \subseteq VersionIds /\ champion \in VersionIds \cup {0}
  BY <1>1 DEF IInv, TypeOK
<1>3. CASE UNCHANGED <<champion, judged>> /\ Next
  BY <1>1, <1>2, <1>3, VersionsKept
<1>4. ASSUME NEW r \in Runs, Promote(r), Next PROVE ChampionWithinMargin'
  <2>1. /\ seen[r] = champion
        /\ Wins(r) /\ champion' = mine[r] /\ versions' = versions
        /\ mine[r] \in VersionIds /\ versions[mine[r]].f1 = f1[r]
        /\ judged' \subseteq judged \cup {mine[r]}
    BY <1>1, <1>4, JudgedByGate
       DEF Promote, Challenger, IInv, Carried, SerialInv, SeenIsChampion
  <2>2. versions[mine[r]].f1 \in Int
    BY <1>1, <1>4, <2>1, VersionsKept
  <2>3. CASE champion = 0
    <3>1. judged' \subseteq {mine[r]}
      BY <2>1, <2>3 DEF SerialInv, NothingJudged
    <3> QED
      BY <1>1, <2>1, <2>2, <3>1
  <2>4. CASE champion # 0
    <3>1. versions[champion].f1 \in Int
      BY <1>1, <1>2, <1>4, <2>4, VersionsKept
    <3>2. versions[mine[r]].f1 > versions[champion].f1 + Margin
      BY <2>1, <2>4 DEF Wins, ColdStart, BeatsIncumbent
    <3>3. ASSUME NEW v \in judged'
          PROVE  versions'[v].f1 <= versions'[champion'].f1 + Margin
      <4>1. CASE v = mine[r]
        BY <1>1, <2>1, <2>2, <4>1
      <4>2. CASE v \in judged
        <5>1. versions[v].f1 \in Int
          BY <1>1, <1>2, <1>4, <4>2, VersionsKept
        <5>2. versions[v].f1 <= versions[champion].f1 + Margin
          BY <2>4, <4>2
        <5> QED
          BY <1>1, <2>1, <2>2, <3>1, <3>2, <5>1, <5>2
      <4> QED
        BY <2>1, <4>1, <4>2
    <3> QED
      BY <3>3
  <2> QED
    BY <2>3, <2>4
<1>5. ASSUME NEW r \in Runs, KeepIncumbent(r), Next PROVE ChampionWithinMargin'
  <2>1. /\ seen[r] = champion /\ champion' = champion /\ versions' = versions
        /\ ~Wins(r) /\ Judge(r)
        /\ mine[r] \in VersionIds /\ versions[mine[r]].f1 = f1[r]
    BY <1>1, <1>5
       DEF KeepIncumbent, IInv, Carried, SerialInv, SeenIsChampion, registry
  <2>2. champion # 0 /\ champion \in VersionIds /\ ~ColdStart(r)
    BY <1>2, <2>1 DEF Wins, ColdStart
  <2>3. versions[mine[r]].f1 \in Int /\ versions[champion].f1 \in Int
    BY <1>1, <1>5, <2>1, <2>2, VersionsKept
  <2>4. CASE manual[r]
    <3>1. judged' = judged
      BY <2>1, <2>2, <2>4 DEF Judge
    <3> QED
      BY <2>1, <3>1
  <2>5. CASE ~manual[r]
    <3>1. ~BeatsIncumbent(r)
      BY <2>1, <2>2, <2>5 DEF Wins
    <3>2. versions[mine[r]].f1 <= versions[champion].f1 + Margin
      BY <1>1, <2>1, <2>3, <3>1 DEF BeatsIncumbent
    <3> QED
      BY <2>1, <2>2, <3>2, JudgedByGate
  <2> QED
    BY <2>4, <2>5
<1>6. CASE FlipAlias
  BY <1>6 DEF FlipAlias
<1>7. CASE UNCHANGED vars
  BY <1>7 DEF vars, registry
<1>8. \/ UNCHANGED <<champion, judged>>
      \/ \E r \in Runs : Promote(r) \/ KeepIncumbent(r)
      \/ FlipAlias \/ UNCHANGED vars
  BY DEF Next, Step, Begin, DecideRetrain, Train, RegisterModel,
         ReadIncumbent, Finish, Fail, EndRun, NextDay, registry
<1> QED
  BY <1>3, <1>4, <1>5, <1>6, <1>7, <1>8

\* One run at a time, and with a margin that is not negative, the champion is
\* within the margin of every version the gate decided on since a human last
\* moved the alias.
THEOREM SerialWithinMargin ==
  ASSUME Serialized, Margin >= 0
  PROVE  Spec => []ChampionWithinMargin
<1>1. Init => ChampionWithinMargin
  BY DEF Init, ChampionWithinMargin, NoVersion
<1>2. SerialInv /\ ChampionWithinMargin /\ [Next]_vars => ChampionWithinMargin'
  BY WithinMarginStep
<1> QED
  BY <1>1, <1>2, SerialInductive, PTL DEF Spec
=============================================================================
