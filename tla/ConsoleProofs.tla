---------------------------- MODULE ConsoleProofs ----------------------------
(***************************************************************************)
(* Proofs about Console for every number of sessions, launches and         *)
(* seconds: that a page offers its buttons only when its run is over; and, *)
(* when no two processes are launched in one second, that a page shows its *)
(* own run's summary and numbers as new as its rows.                       *)
(***************************************************************************)
EXTENDS Console, FiniteSetTheorems, TLAPS

Live    == {"started", "swapped", "printed"}
Process == [id : Ids, state : Live \cup {"exited"}, wrote : Nat, code : {0, 1}]
Reading == [asOf : 0 .. swaps, ok : BOOLEAN]
Page    == [disabled : BOOLEAN,
            status : {"none", "running", "finished", "failed"},
            run : Launched \cup {NoRun}, summary : Launched \cup {NoRun},
            numbers : Reading]

Types ==
  /\ now \in 0 .. MaxSecond
  /\ swaps \in Nat
  /\ procs \in Seq(Process)
  /\ log \in [Ids -> Launched \cup {NoRun}]
  /\ cache = NoRun \/ cache \in Reading
  /\ script \in [Sessions -> {"first", "status", "tabs", "last", "sleep", "idle"}]
  /\ click \in [Sessions -> Clicks \cup {"none"}]
  /\ handle \in [Sessions -> Launched \cup {NoRun}]
  /\ cleared \in [Sessions -> Ids \cup {NoId}]
  /\ page \in [Sessions -> Page]

(***************************************************************************)
(* A process swaps the store once, so there were no more swaps than        *)
(* processes; and its rows are one of the swaps.                           *)
(***************************************************************************)
Wrote == {i \in Launched : procs[i].wrote # 0}

Counted ==
  /\ swaps = Cardinality(Wrote)
  /\ \A i \in Launched :
       /\ procs[i].wrote <= swaps
       /\ procs[i].state = "started" => procs[i].wrote = 0

(***************************************************************************)
(* The buttons are drawn from the first poll, and whatever is drawn after  *)
(* them cannot find running what that poll found over.                     *)
(***************************************************************************)
PollsHold ==
  \A s \in Sessions :
    script[s] # "first" /\ ~page[s].disabled => ~Running(handle[s])

CInv == Types /\ Counted /\ PollsHold

(***************************************************************************)
(* One launch per second.  The second a button is pressed in is free until *)
(* the press is answered, so every process has a run_id, and a log file,   *)
(* of its own.                                                             *)
(***************************************************************************)
OwnSecond ==
  /\ \A i, j \in Launched : procs[i].id[2] = procs[j].id[2] => i = j
  /\ \A s, t \in Sessions : click[s] # "none" /\ click[t] # "none" => s = t
  /\ \A s \in Sessions :
       click[s] # "none" => \A i \in Launched : procs[i].id[2] # now

Printed(i) ==
  \/ procs[i].state = "printed"
  \/ procs[i].state = "exited" /\ procs[i].code = 0 /\ procs[i].id[1] = "run"

OwnLog ==
  /\ \A id \in Ids : log[id] # NoRun => procs[log[id]].id = id
  /\ \A i \in Launched : Printed(i) => log[procs[i].id] = i

(***************************************************************************)
(* A page that says a run is over was drawn when it was, by the session    *)
(* that then cleared the cache for it; and from then on nothing older than *)
(* the rows of the run is in the cache, whoever fills it.                  *)
(***************************************************************************)
PageHolds(s) ==
  /\ handle[s] = NoRun => page[s].status = "none"
  /\ Over(s) => /\ page[s].run \in Launched
                /\ procs[page[s].run].state = "exited"
                /\ cleared[s] = procs[page[s].run].id

ClearedHolds(s) ==
  cleared[s] # NoId =>
    \E i \in Launched :
      /\ procs[i].id = cleared[s]
      /\ procs[i].state = "exited"
      /\ cache # NoRun => cache.asOf >= procs[i].wrote

SecondInv ==
  /\ OwnSecond /\ OwnLog
  /\ \A s \in Sessions : PageHolds(s) /\ ClearedHolds(s)
  /\ OwnSummary /\ FinishedHasSummary /\ FreshNumbers

-----------------------------------------------------------------------------
(***************************************************************************)
(* What each kind of step does to the processes, and to the types that     *)
(* depend on them.                                                         *)
(***************************************************************************)
LEMMA Grow ==
  ASSUME Launched \subseteq Launched', swaps \in Nat, swaps' \in Nat, swaps <= swaps'
  PROVE  Reading \subseteq Reading' /\ Page \subseteq Page'
<1>1. Reading \subseteq Reading'
  BY DEF Reading
<1> QED
  BY <1>1 DEF Page

LEMMA ProcessLaunched ==
  ASSUME NEW S, NEW ps \in Seq(S), NEW p \in S
  PROVE  /\ Append(ps, p) \in Seq(S)
         /\ Len(ps) \in Nat
         /\ DOMAIN ps = 1 .. Len(ps)
         /\ DOMAIN Append(ps, p) = DOMAIN ps \cup {Len(ps) + 1}
         /\ Len(ps) + 1 \notin DOMAIN ps
         /\ Append(ps, p)[Len(ps) + 1] = p
         /\ \A i \in DOMAIN ps : Append(ps, p)[i] = ps[i]
  OBVIOUS

LEMMA ProcessUpdated ==
  ASSUME NEW S, NEW ps \in Seq(S), NEW i \in DOMAIN ps, NEW p \in S
  PROVE  /\ [ps EXCEPT ![i] = p] \in Seq(S)
         /\ DOMAIN [ps EXCEPT ![i] = p] = DOMAIN ps
         /\ [ps EXCEPT ![i] = p][i] = p
         /\ \A j \in DOMAIN ps \ {i} : [ps EXCEPT ![i] = p][j] = ps[j]
  OBVIOUS

Swaps(i) ==
  /\ procs[i].state = "started" /\ procs[i].id[1] = "run"
  /\ procs'[i] = [procs[i] EXCEPT !.state = "swapped", !.wrote = swaps + 1]
  /\ swaps' = swaps + 1 /\ UNCHANGED log

Prints(i) ==
  /\ procs[i].state = "swapped"
  /\ procs'[i] = [procs[i] EXCEPT !.state = "printed"]
  /\ log' = [log EXCEPT ![procs[i].id] = i] /\ UNCHANGED swaps

Exits(i) ==
  /\ procs[i].state # "exited"
  /\ \E code \in {0, 1} :
       /\ procs'[i] = [procs[i] EXCEPT !.state = "exited", !.code = code]
       /\ code = 0 => procs[i].state = "printed" \/ procs[i].id[1] = "seed"
  /\ UNCHANGED <<swaps, log>>

\* A child changes its own entry only.
LEMMA ChildStep ==
  ASSUME Types, NEW i \in Launched, Child(i)
  PROVE  /\ procs' \in Seq(Process) /\ Launched' = Launched
         /\ \A j \in Launched \ {i} : procs'[j] = procs[j]
         /\ Swaps(i) \/ Prints(i) \/ Exits(i)
         /\ UNCHANGED <<now, cache, script, click, handle, cleared, page>>
<1> USE DEF Types, Launched
<1>1. procs[i] \in Process /\ i \in DOMAIN procs /\ procs \in Seq(Process)
  OBVIOUS
<1>2. ASSUME NEW p \in Process, procs' = [procs EXCEPT ![i] = p]
      PROVE  /\ procs' \in Seq(Process) /\ DOMAIN procs' = DOMAIN procs
             /\ procs'[i] = p
             /\ \A j \in DOMAIN procs \ {i} : procs'[j] = procs[j]
  <2> HIDE DEF Process
  <2> QED BY <1>1, <1>2, ProcessUpdated
<1>3. CASE ChildSwaps(i)
  <2> DEFINE p == [procs[i] EXCEPT !.state = "swapped", !.wrote = swaps + 1]
  <2>1. p \in Process
    <3>1. swaps + 1 \in Nat
      OBVIOUS
    <3> QED
      BY <1>1, <3>1 DEF Process, Live
  <2>2. procs' = [procs EXCEPT ![i] = p]
    BY <1>1, <1>3 DEF ChildSwaps, Become
  <2>3. Swaps(i)
    <3>1. procs'[i] = p
      BY <1>2, <2>1, <2>2
    <3> QED
      BY <1>3, <3>1 DEF ChildSwaps, Swaps
  <2> QED
    BY <1>2, <1>3, <2>1, <2>2, <2>3 DEF ChildSwaps, Child
<1>4. CASE ChildPrints(i)
  <2> DEFINE p == [procs[i] EXCEPT !.state = "printed"]
  <2>1. p \in Process
    BY <1>1 DEF Process, Live
  <2>2. procs' = [procs EXCEPT ![i] = p]
    BY <1>1, <1>4 DEF ChildPrints, Become
  <2>3. Prints(i)
    <3>1. procs'[i] = p
      BY <1>2, <2>1, <2>2
    <3> QED
      BY <1>4, <3>1 DEF ChildPrints, Prints
  <2> QED
    BY <1>2, <1>4, <2>1, <2>2, <2>3 DEF ChildPrints, Child
<1>5. CASE ChildExits(i)
  <2>1. PICK code \in ExitCodes(i) :
          procs' = [Become(i, "exited") EXCEPT ![i].code = code]
    BY <1>5 DEF ChildExits
  <2>2. /\ code \in {0, 1}
        /\ code = 0 => procs[i].state = "printed" \/ procs[i].id[1] = "seed"
    <3>1. CASE procs[i].state = "printed" \/ procs[i].id[1] = "seed"
      BY <3>1, Zenon DEF ExitCodes
    <3>2. CASE ~(procs[i].state = "printed" \/ procs[i].id[1] = "seed")
      <4>1. ExitCodes(i) = {1}
        BY <3>2, Zenon DEF ExitCodes
      <4> QED
        BY <2>1, <4>1
    <3> QED
      BY <3>1, <3>2
  <2> DEFINE p == [procs[i] EXCEPT !.state = "exited", !.code = code]
  <2>3. p \in Process
    BY <1>1, <2>2 DEF Process
  <2>4. procs' = [procs EXCEPT ![i] = p]
    BY <1>1, <2>1 DEF Become
  <2>5. Exits(i)
    <3>1. procs'[i] = p
      BY <1>2, <2>3, <2>4
    <3> QED
      BY <1>5, <2>2, <3>1 DEF ChildExits, Exits
  <2> QED
    BY <1>2, <1>5, <2>3, <2>4, <2>5 DEF ChildExits, Child
<1> QED
  BY <1>3, <1>4, <1>5 DEF Child

\* What a child's entry says afterwards.
LEMMA ChildFields ==
  ASSUME Types, NEW i \in Launched, Child(i)
  PROVE  /\ procs[i].state # "exited"
         /\ procs'[i].id = procs[i].id
         /\ \/ /\ Swaps(i) /\ procs'[i].state = "swapped"
               /\ procs'[i].wrote = swaps + 1
            \/ /\ Prints(i) /\ procs'[i].state = "printed"
               /\ procs'[i].wrote = procs[i].wrote
            \/ /\ Exits(i) /\ procs'[i].state = "exited"
               /\ procs'[i].wrote = procs[i].wrote
               /\ procs'[i].code = 0 =>
                    procs[i].state = "printed" \/ procs[i].id[1] = "seed"
<1>1. Swaps(i) \/ Prints(i) \/ Exits(i)
  BY ChildStep
<1>2. procs[i] \in Process
  BY DEF Types, Launched
<1>3. CASE Swaps(i)
  BY <1>2, <1>3 DEF Swaps, Process
<1>4. CASE Prints(i)
  BY <1>2, <1>4 DEF Prints, Process
<1>5. CASE Exits(i)
  BY <1>2, <1>5 DEF Exits, Process
<1> QED
  BY <1>1, <1>3, <1>4, <1>5

\* A launch appends a process that has written nothing.
LEMMA LaunchStep ==
  ASSUME Types, NEW s \in Sessions, Launch(s)
  PROVE  LET id == <<click[s], now>> IN
         /\ procs' \in Seq(Process)
         /\ Len(procs) \in Nat /\ Len(procs) + 1 \notin Launched
         /\ Launched' = Launched \cup {Len(procs) + 1}
         /\ \A j \in Launched : procs'[j] = procs[j]
         /\ procs'[Len(procs) + 1]
              = [id |-> id, state |-> "started", wrote |-> 0, code |-> 0]
         /\ id \in Ids
         /\ log' = [log EXCEPT ![id] = NoRun]
         /\ handle' = [handle EXCEPT ![s] = Len(procs) + 1]
         /\ click' = [click EXCEPT ![s] = "none"]
         /\ click[s] # "none" /\ script[s] = "first"
         /\ UNCHANGED <<now, swaps, cache, script, cleared>>
<1> DEFINE id == <<click[s], now>>
           e == [id |-> id, state |-> "started", wrote |-> 0, code |-> 0]
<1>1. procs' = Append(procs, e) /\ log' = [log EXCEPT ![id] = NoRun]
  BY DEF Launch
<1>2. id \in Ids
  BY ConsoleAssumption DEF Launch, Types, Ids
<1>3. e \in Process
  BY <1>2 DEF Process, Live
<1>4. /\ procs' \in Seq(Process)
      /\ Len(procs) \in Nat /\ Len(procs) + 1 \notin Launched
      /\ Launched' = Launched \cup {Len(procs) + 1}
      /\ \A j \in Launched : procs'[j] = procs[j]
      /\ procs'[Len(procs) + 1] = e
  <2> HIDE DEF e, Process
  <2> QED BY <1>1, <1>3, ProcessLaunched DEF Types, Launched
<1> QED
  BY <1>1, <1>2, <1>4 DEF Launch

\* What each drawing puts on the page; the rest of it, and of the others, stays.
LEMMA ButtonsDrawn ==
  ASSUME page \in [Sessions -> Page], NEW s \in Sessions, NEW d \in BOOLEAN,
         page' = [page EXCEPT ![s].disabled = d]
  PROVE  /\ page' \in [Sessions -> Page]
         /\ \A t \in Sessions \ {s} : page'[t] = page[t]
         /\ page'[s].disabled = d
         /\ \A t \in Sessions : /\ page'[t].status = page[t].status
                                /\ page'[t].run = page[t].run
                                /\ page'[t].summary = page[t].summary
                                /\ page'[t].numbers = page[t].numbers
<1>1. page' = [page EXCEPT ![s] = [page[s] EXCEPT !.disabled = d]]
  OBVIOUS
<1>2. /\ [page[s] EXCEPT !.disabled = d] \in Page
      /\ [page[s] EXCEPT !.disabled = d].disabled = d
      /\ [page[s] EXCEPT !.disabled = d].status = page[s].status
      /\ [page[s] EXCEPT !.disabled = d].run = page[s].run
      /\ [page[s] EXCEPT !.disabled = d].summary = page[s].summary
      /\ [page[s] EXCEPT !.disabled = d].numbers = page[s].numbers
  BY DEF Page
<1> QED
  BY <1>1, <1>2

LEMMA NumbersDrawn ==
  ASSUME page \in [Sessions -> Page], NEW s \in Sessions, NEW n \in Reading,
         page' = [page EXCEPT ![s].numbers = n]
  PROVE  /\ page' \in [Sessions -> Page]
         /\ \A t \in Sessions \ {s} : page'[t] = page[t]
         /\ page'[s].numbers = n
         /\ \A t \in Sessions : /\ page'[t].status = page[t].status
                                /\ page'[t].run = page[t].run
                                /\ page'[t].summary = page[t].summary
                                /\ page'[t].disabled = page[t].disabled
<1>1. page' = [page EXCEPT ![s] = [page[s] EXCEPT !.numbers = n]]
  OBVIOUS
<1>2. /\ [page[s] EXCEPT !.numbers = n] \in Page
      /\ [page[s] EXCEPT !.numbers = n].numbers = n
      /\ [page[s] EXCEPT !.numbers = n].status = page[s].status
      /\ [page[s] EXCEPT !.numbers = n].run = page[s].run
      /\ [page[s] EXCEPT !.numbers = n].summary = page[s].summary
      /\ [page[s] EXCEPT !.numbers = n].disabled = page[s].disabled
  BY DEF Page
<1> QED
  BY <1>1, <1>2

\* What the tabs read is one of the readings, and the present one if the cache
\* was empty.
LEMMA CacheRead ==
  ASSUME Types, cache' \in Cached
  PROVE  /\ cache' \in Reading
         /\ cache = NoRun => cache'.asOf = swaps
         /\ cache # NoRun => cache' = cache
  BY DEF Types, Cached, Readings, Reading

\* What a finished run's page is drawn from.
LEMMA FinishedDrawn ==
  ASSUME Types, NEW s \in Sessions, DrawFinished(s), UNCHANGED <<world, handle>>
  PROVE  /\ handle[s] \in Launched
         /\ procs[handle[s]].state = "exited"
         /\ procs[handle[s]].id \in Ids
         /\ page' \in [Sessions -> Page]
         /\ \A t \in Sessions \ {s} : page'[t] = page[t]
         /\ page'[s].status = IF procs[handle[s]].code = 0 THEN "finished" ELSE "failed"
         /\ page'[s].run = handle[s]
         /\ page'[s].summary = log[procs[handle[s]].id]
         /\ page'[s].disabled = page[s].disabled
         /\ page'[s].numbers = page[s].numbers
         /\ cleared' = [cleared EXCEPT ![s] = procs[handle[s]].id]
         /\ cache' = NoRun \/ (cache' = cache /\ cleared[s] = procs[handle[s]].id)
<1> DEFINE run == handle[s]
           status == IF procs[run].code = 0 THEN "finished" ELSE "failed"
<1>1. run \in Launched /\ procs[run].state = "exited"
  BY DEF DrawFinished, Running, Types
<1>2. procs[run] \in Process
  BY <1>1 DEF Types, Launched
<1>3. procs[run].id \in Ids
  BY <1>2 DEF Process
<1>4. log[procs[run].id] \in Launched \cup {NoRun}
  BY <1>3 DEF Types
<1>5. page' = [page EXCEPT ![s].status = status, ![s].run = run,
                           ![s].summary = log[procs[run].id]]
  BY DEF DrawFinished, Summary, LogOf
<1>6. status \in {"none", "running", "finished", "failed"}
  OBVIOUS
<1>7. /\ page' \in [Sessions -> Page]
      /\ \A t \in Sessions \ {s} : page'[t] = page[t]
      /\ page'[s].status = status /\ page'[s].run = run
      /\ page'[s].summary = log[procs[run].id]
      /\ page'[s].disabled = page[s].disabled
      /\ page'[s].numbers = page[s].numbers
  <2> DEFINE summary == log[procs[run].id]
             q == [page[s] EXCEPT !.status = status, !.run = run, !.summary = summary]
  <2>1. page \in [Sessions -> Page] /\ page[s] \in Page
    BY DEF Types
  <2>2. page' = [page EXCEPT ![s] = q]
    BY <1>5, <2>1
  <2>3. summary \in Launched \cup {NoRun}
    BY <1>4
  <2> HIDE DEF status, run, summary
  <2>4. /\ q \in Page
        /\ q.status = status /\ q.run = run /\ q.summary = summary
        /\ q.disabled = page[s].disabled /\ q.numbers = page[s].numbers
    BY <1>1, <1>6, <2>1, <2>3 DEF Page
  <2> HIDE DEF q
  <2>5. page'[s] = q /\ page' \in [Sessions -> Page]
    BY <2>1, <2>2, <2>4
  <2> QED
    BY <2>1, <2>2, <2>4, <2>5 DEF status, run, summary
<1>8. cache' = NoRun \/ (cache' = cache /\ cleared[s] = procs[run].id)
  <2>1. CASE MustClear(s)
    BY <2>1, Zenon DEF DrawFinished
  <2>2. CASE ~MustClear(s)
    BY <2>2, Zenon DEF DrawFinished, MustClear
  <2> QED
    BY <2>1, <2>2
<1> QED
  BY <1>1, <1>3, <1>7, <1>8 DEF DrawFinished

-----------------------------------------------------------------------------
LEMMA InitCInv == Init => CInv
<1> SUFFICES ASSUME Init PROVE CInv
  OBVIOUS
<1> USE DEF Init
<1>1. Launched = {} /\ procs \in Seq(Process)
  BY DEF Launched
<1>2. BlankPage \in Page
  BY DEF BlankPage, Page, Reading
<1>3. Types
  BY <1>1, <1>2, ConsoleAssumption DEF Types
<1>4. Counted
  <2>1. Wrote = {}
    BY <1>1 DEF Wrote
  <2> QED
    BY <1>1, <2>1, FS_EmptySet DEF Counted
<1>5. PollsHold
  BY DEF PollsHold
<1> QED
  BY <1>3, <1>4, <1>5 DEF CInv

LEMMA TypesStep ==
  ASSUME Types, [Next]_vars
  PROVE  Types'
<1>1. ASSUME NEW i \in Launched, Child(i) PROVE Types'
  <2>1. /\ procs' \in Seq(Process) /\ Launched' = Launched
        /\ Swaps(i) \/ Prints(i) \/ Exits(i)
        /\ UNCHANGED <<now, cache, script, click, handle, cleared, page>>
    BY <1>1, ChildStep
  <2>2. swaps' \in Nat /\ swaps <= swaps'
    BY <2>1 DEF Types, Swaps, Prints, Exits
  <2>3. log' \in [Ids -> Launched' \cup {NoRun}]
    BY <2>1 DEF Types, Swaps, Prints, Exits
  <2>4. Reading \subseteq Reading' /\ Page \subseteq Page'
    BY <2>1, <2>2, Grow DEF Types
  <2> HIDE DEF Page, Reading
  <2> QED
    BY <2>1, <2>2, <2>3, <2>4 DEF Types
<1>2. ASSUME NEW s \in Sessions, Launch(s) PROVE Types'
  <2> DEFINE d == Disabled(handle[s])
  <2>1. page' = [page EXCEPT ![s].disabled = d] /\ page \in [Sessions -> Page]
    BY <1>2 DEF Launch, Types
  <2>2. d \in BOOLEAN
    BY DEF Disabled, Running
  <2>3. page' \in [Sessions -> Page]
    <3> HIDE DEF d
    <3> QED BY <2>1, <2>2, ButtonsDrawn
  <2>4. /\ procs' \in Seq(Process) /\ Len(procs) \in Nat
        /\ Launched' = Launched \cup {Len(procs) + 1}
        /\ log' = [log EXCEPT ![<<click[s], now>>] = NoRun]
        /\ handle' = [handle EXCEPT ![s] = Len(procs) + 1]
        /\ click' = [click EXCEPT ![s] = "none"]
        /\ UNCHANGED <<now, swaps, cache, script, cleared>>
    BY <1>2, LaunchStep
  <2>5. Reading \subseteq Reading' /\ Page \subseteq Page'
    BY <2>4, Grow DEF Types
  <2> QED
    BY <2>3, <2>4, <2>5 DEF Types
<1>3. ASSUME UNCHANGED <<procs, swaps>>
      PROVE  Launched' = Launched /\ Reading' = Reading /\ Page' = Page
  BY <1>3 DEF Launched, Reading, Page
<1> USE DEF Types, world
<1>4. ASSUME NEW s \in Sessions,
             Press(s) \/ OtherWidget(s) \/ RefreshData(s) \/ AutoRefresh(s)
      PROVE  Types'
  BY <1>3, <1>4 DEF Press, OtherWidget, RefreshData, AutoRefresh, Begin
<1>5. ASSUME NEW s \in Sessions, Reload(s) PROVE Types'
  <2>1. BlankPage \in Page
    BY DEF BlankPage, Page, Reading
  <2> QED
    BY <1>3, <1>5, <2>1 DEF Reload, Begin
<1>6. ASSUME NEW s \in Sessions, DrawButtons(s) PROVE Types'
  <2> DEFINE d == Disabled(handle[s])
  <2>1. d \in BOOLEAN
    BY DEF Disabled, Running
  <2>2. page' = [page EXCEPT ![s].disabled = d]
    BY <1>6 DEF DrawButtons
  <2>3. page' \in [Sessions -> Page]
    <3> HIDE DEF d
    <3> QED BY <2>1, <2>2, ButtonsDrawn
  <2> QED
    BY <1>3, <1>6, <2>3 DEF DrawButtons
<1>7. ASSUME NEW s \in Sessions, DrawStatus(s) PROVE Types'
  <2>1. page' \in [Sessions -> Page]
    <3>1. CASE DrawNothing(s)
      BY <3>1 DEF DrawNothing
    <3>2. CASE DrawRunning(s)
      <4> DEFINE q == [page[s] EXCEPT !.status = "running", !.run = handle[s],
                                      !.summary = NoRun]
      <4>1. page' = [page EXCEPT ![s] = q]
        BY <3>2 DEF DrawRunning
      <4>2. q \in Page
        BY DEF Page
      <4> QED
        BY <4>1, <4>2
    <3>3. CASE DrawFinished(s)
      BY <1>7, <3>3, FinishedDrawn DEF DrawStatus
    <3> QED
      BY <1>7, <3>1, <3>2, <3>3 DEF DrawStatus
  <2>2. cache' = NoRun \/ cache' = cache
    BY <1>7, FinishedDrawn DEF DrawStatus, DrawNothing, DrawRunning
  <2>3. cleared' \in [Sessions -> Ids \cup {NoId}]
    BY <1>7, FinishedDrawn DEF DrawStatus, DrawNothing, DrawRunning
  <2>4. UNCHANGED <<world, click, handle>> /\ script' = [script EXCEPT ![s] = "tabs"]
    BY <1>7 DEF DrawStatus
  <2> QED
    BY <1>3, <2>1, <2>2, <2>3, <2>4
<1>8. ASSUME NEW s \in Sessions, DrawTabs(s) PROVE Types'
  <2>1. cache' \in Reading
    BY <1>8, CacheRead DEF DrawTabs
  <2>2. page' \in [Sessions -> Page]
    BY <1>8, <2>1, NumbersDrawn DEF DrawTabs
  <2> QED
    BY <1>3, <1>8, <2>1, <2>2 DEF DrawTabs
<1>9. ASSUME NEW s \in Sessions, LastPoll(s) PROVE Types'
  <2>1. \/ script' = [script EXCEPT ![s] = "sleep"]
        \/ script' = [script EXCEPT ![s] = "idle"]
    <3>1. CASE Running(handle[s])
      BY <1>9, <3>1, Zenon DEF LastPoll
    <3>2. CASE ~Running(handle[s])
      BY <1>9, <3>2, Zenon DEF LastPoll
    <3> QED
      BY <3>1, <3>2
  <2>2. UNCHANGED <<world, cache, click, handle, cleared, page>>
    BY <1>9 DEF LastPoll
  <2> QED
    BY <1>3, <2>1, <2>2
<1>10. CASE Expire
  BY <1>3, <1>10 DEF Expire
<1>11. CASE Tick
  <2>1. now' \in 0 .. MaxSecond
    BY <1>11, ConsoleAssumption DEF Tick
  <2> QED
    BY <1>3, <1>11, <2>1 DEF Tick
<1>12. CASE UNCHANGED vars
  BY <1>3, <1>12 DEF vars
<1> QED
  BY <1>1, <1>2, <1>4, <1>5, <1>6, <1>7, <1>8, <1>9, <1>10, <1>11, <1>12
  DEF Next, User, Execute, Launched

\* The processes are numbered from 1.
LEMMA Numbered ==
  ASSUME Types
  PROVE  /\ Len(procs) \in Nat /\ Launched = 1 .. Len(procs)
         /\ IsFiniteSet(Launched) /\ Cardinality(Launched) = Len(procs)
         /\ \A i \in Launched : procs[i] \in Process
<1>1. /\ Len(procs) \in Nat /\ Launched = 1 .. Len(procs)
      /\ \A i \in Launched : procs[i] \in Process
  <2> HIDE DEF Process
  <2> QED BY DEF Types, Launched
<1>2. /\ IsFiniteSet(1 .. Len(procs))
      /\ Cardinality(1 .. Len(procs)) = IF 1 > Len(procs) THEN 0 ELSE Len(procs) - 1 + 1
  <2>1. 1 \in Int /\ Len(procs) \in Int
    BY <1>1
  <2> QED
    BY <2>1, FS_Interval
<1>3. (IF 1 > Len(procs) THEN 0 ELSE Len(procs) - 1 + 1) = Len(procs)
  BY <1>1
<1> QED
  BY <1>1, <1>2, <1>3

LEMMA CountedStep ==
  ASSUME Types, Counted, [Next]_vars
  PROVE  Counted'
<1>1. IsFiniteSet(Wrote) /\ Cardinality(Wrote) \in Nat
  <2>1. IsFiniteSet(Launched) /\ Wrote \in SUBSET Launched
    BY Numbered DEF Wrote
  <2> QED
    BY <2>1, FS_Subset, FS_CardinalityType
<1>2. \A i \in Launched : procs[i].wrote \in Nat
  BY Numbered DEF Process
<1>3. ASSUME NEW i \in Launched, Child(i) PROVE Counted'
  <2>1. Launched' = Launched /\ \A j \in Launched \ {i} : procs'[j] = procs[j]
    BY <1>3, ChildStep
  <2>2. CASE Swaps(i) /\ procs'[i].state = "swapped" /\ procs'[i].wrote = swaps + 1
    <3>1. swaps' = swaps + 1 /\ i \notin Wrote
      BY <2>2 DEF Swaps, Counted, Wrote
    <3>2. Wrote' = Wrote \cup {i}
      BY <2>1, <2>2 DEF Wrote, Types
    <3>3. swaps' = Cardinality(Wrote')
      BY <1>1, <3>1, <3>2, FS_AddElement DEF Counted
    <3>4. \A j \in Launched' : procs'[j].wrote <= swaps'
      BY <1>2, <2>1, <2>2, <3>1 DEF Counted, Types
    <3> QED
      BY <2>1, <2>2, <3>3, <3>4 DEF Counted
  <2>3. CASE /\ UNCHANGED swaps /\ procs'[i].state # "started"
             /\ procs'[i].wrote = procs[i].wrote
    <3>1. Wrote' = Wrote
      BY <2>1, <2>3 DEF Wrote
    <3> QED
      BY <2>1, <2>3, <3>1 DEF Counted
  <2> QED
    BY <1>3, <2>2, <2>3, ChildFields DEF Prints, Exits
<1>4. ASSUME NEW s \in Sessions, Launch(s) PROVE Counted'
  <2>1. /\ Launched' = Launched \cup {Len(procs) + 1}
        /\ \A j \in Launched : procs'[j] = procs[j]
        /\ procs'[Len(procs) + 1].wrote = 0
        /\ procs'[Len(procs) + 1].state = "started"
        /\ UNCHANGED swaps
    <3> DEFINE e == [id |-> <<click[s], now>>, state |-> "started", wrote |-> 0,
                     code |-> 0]
    <3>1. /\ Launched' = Launched \cup {Len(procs) + 1}
          /\ \A j \in Launched : procs'[j] = procs[j]
          /\ procs'[Len(procs) + 1] = e
          /\ UNCHANGED swaps
      BY <1>4, LaunchStep
    <3>2. e.wrote = 0 /\ e.state = "started"
      OBVIOUS
    <3> QED
      BY <3>1, <3>2
  <2>2. Wrote' = Wrote
    BY <2>1 DEF Wrote
  <2> QED
    BY <2>1, <2>2 DEF Counted, Types
<1>5. CASE UNCHANGED <<procs, swaps>>
  BY <1>5 DEF Counted, Wrote, Launched
<1>6. \/ \E i \in Launched : Child(i)
      \/ \E s \in Sessions : Launch(s)
      \/ UNCHANGED <<procs, swaps>>
  BY DEF Next, User, Press, OtherWidget, RefreshData, Reload, AutoRefresh, Execute,
     DrawButtons, DrawStatus, DrawTabs, LastPoll, Expire, Tick, vars, world, Launched
<1> QED
  BY <1>3, <1>4, <1>5, <1>6

LEMMA PollsHoldStep ==
  ASSUME Types, PollsHold, [Next]_vars
  PROVE  PollsHold'
<1>1. ASSUME NEW i \in Launched, Child(i) PROVE PollsHold'
  <2>1. /\ \A j \in Launched \ {i} : procs'[j] = procs[j]
        /\ procs[i].state # "exited"
        /\ UNCHANGED <<script, handle, page>>
    BY <1>1, ChildStep, ChildFields
  <2>2. \A s \in Sessions : ~Running(handle[s]) => ~Running(handle[s])'
    BY <2>1 DEF Running, Types
  <2> QED
    BY <2>1, <2>2, Zenon DEF PollsHold
<1>2. ASSUME \A s \in Sessions :
               script'[s] # "first" =>
                 /\ script[s] # "first"
                 /\ page'[s].disabled = page[s].disabled
                 /\ handle'[s] = handle[s]
                 /\ ~Running(handle[s]) => ~Running(handle[s])'
      PROVE  PollsHold'
  <2> SUFFICES ASSUME NEW s \in Sessions, script'[s] # "first", ~page'[s].disabled
               PROVE  ~Running(handle[s])'
    BY Zenon DEF PollsHold
  <2>1. script[s] # "first" /\ page'[s].disabled = page[s].disabled
    BY <1>2
  <2>2. ~page[s].disabled
    BY <2>1, Zenon
  <2> QED
    BY <1>2, <2>1, <2>2, Zenon DEF PollsHold
<1>3. ASSUME UNCHANGED procs, NEW r PROVE ~Running(r) => ~Running(r)'
  BY <1>3 DEF Running
<1>4. ASSUME NEW s \in Sessions, Launch(s) PROVE PollsHold'
  <2> DEFINE d == Disabled(handle[s])
  <2>1. page' = [page EXCEPT ![s].disabled = d] /\ page \in [Sessions -> Page]
    BY <1>4 DEF Launch, Types
  <2>2. \A t \in Sessions \ {s} : page'[t] = page[t]
    <3> HIDE DEF d
    <3> QED BY <2>1
  <2>3. /\ script'[s] = "first" /\ UNCHANGED script
        /\ \A t \in Sessions \ {s} : handle'[t] = handle[t]
        /\ \A j \in Launched : procs'[j] = procs[j]
    BY <1>4, LaunchStep DEF Types
  <2>4. \A t \in Sessions \ {s} : ~Running(handle[t]) => ~Running(handle[t])'
    BY <2>3 DEF Running, Types
  <2> QED
    BY <1>2, <2>2, <2>3, <2>4
<1>5. ASSUME NEW s \in Sessions, DrawButtons(s) PROVE PollsHold'
  <2> DEFINE d == Disabled(handle[s])
  <2>1. page' = [page EXCEPT ![s].disabled = d] /\ page \in [Sessions -> Page]
    BY <1>5 DEF DrawButtons, Types
  <2>2. d \in BOOLEAN
    BY DEF Disabled, Running
  <2>3. page'[s].disabled = d /\ \A t \in Sessions \ {s} : page'[t] = page[t]
    <3> HIDE DEF d
    <3> QED BY <2>1, <2>2, ButtonsDrawn
  <2>4. /\ UNCHANGED <<procs, handle>>
        /\ \A t \in Sessions \ {s} : script'[t] = script[t]
    BY <1>5 DEF DrawButtons, world, Types
  <2>5. ~page'[s].disabled => ~Running(handle[s])'
    <3>1. ~page'[s].disabled => ~d
      BY <2>3, Zenon
    <3>2. ~d => ~Running(handle[s])
      BY Zenon DEF Disabled
    <3>3. ~Running(handle[s]) => ~Running(handle[s])'
      BY <2>4 DEF Running
    <3> QED
      BY <3>1, <3>2, <3>3, Zenon
  <2>6. ASSUME NEW t \in Sessions \ {s}, script'[t] # "first", ~page'[t].disabled
        PROVE  ~Running(handle[t])'
    <3>1. script[t] # "first" /\ ~page[t].disabled
      BY <2>3, <2>4, <2>6, Zenon
    <3>2. ~Running(handle[t])
      BY <3>1, Zenon DEF PollsHold
    <3> QED
      BY <2>4, <3>2 DEF Running
  <2> QED
    BY <2>5, <2>6, Zenon DEF PollsHold
<1>6. ASSUME NEW s \in Sessions, DrawStatus(s) PROVE PollsHold'
  <2>1. page'[s].disabled = page[s].disabled /\ \A t \in Sessions \ {s} : page'[t] = page[t]
    <3>1. CASE DrawNothing(s)
      BY <3>1 DEF DrawNothing
    <3>2. CASE DrawRunning(s)
      BY <3>2 DEF DrawRunning, Types, Page
    <3>3. CASE DrawFinished(s)
      BY <1>6, <3>3, FinishedDrawn DEF DrawStatus
    <3> QED
      BY <1>6, <3>1, <3>2, <3>3 DEF DrawStatus
  <2>2. /\ UNCHANGED <<procs, handle>> /\ script[s] = "status"
        /\ \A t \in Sessions \ {s} : script'[t] = script[t]
    BY <1>6 DEF DrawStatus, world, Types
  <2> QED
    BY <1>2, <2>1, <2>2 DEF Running
<1>7. ASSUME NEW s \in Sessions, DrawTabs(s) PROVE PollsHold'
  <2>1. cache' \in Reading
    BY <1>7, CacheRead DEF DrawTabs
  <2>2. \A t \in Sessions : page'[t].disabled = page[t].disabled
    BY <1>7, <2>1, NumbersDrawn DEF DrawTabs, Types
  <2>3. /\ UNCHANGED <<procs, handle>> /\ script[s] = "tabs"
        /\ \A t \in Sessions \ {s} : script'[t] = script[t]
    BY <1>7 DEF DrawTabs, world, Types
  <2> QED
    BY <1>2, <2>2, <2>3 DEF Running
<1>8. ASSUME NEW s \in Sessions, LastPoll(s) PROVE PollsHold'
  <2>1. /\ UNCHANGED <<procs, handle, page>> /\ script[s] = "last"
        /\ \A t \in Sessions \ {s} : script'[t] = script[t]
    BY <1>8 DEF LastPoll, world, Types
  <2> QED
    BY <1>2, <2>1 DEF Running
<1>9. ASSUME NEW s \in Sessions, User(s) \/ AutoRefresh(s) PROVE PollsHold'
  <2>1. /\ UNCHANGED procs /\ script'[s] = "first"
        /\ \A t \in Sessions \ {s} : /\ script'[t] = script[t] /\ page'[t] = page[t]
                                     /\ handle'[t] = handle[t]
    BY <1>9 DEF User, Press, OtherWidget, RefreshData, Reload, AutoRefresh, Begin,
                world, Types
  <2> QED
    BY <1>2, <2>1 DEF Running
<1>10. CASE Expire \/ Tick \/ UNCHANGED vars
  BY <1>2, <1>10 DEF Expire, Tick, vars, world, Running
<1> QED
  BY <1>1, <1>4, <1>5, <1>6, <1>7, <1>8, <1>9, <1>10 DEF Next, Execute, Launched

THEOREM CInductive == Spec => []CInv
<1>1. CInv /\ [Next]_vars => CInv'
  BY TypesStep, CountedStep, PollsHoldStep DEF CInv
<1> QED
  BY <1>1, InitCInv, PTL DEF Spec

\* Handles, pages and logs name processes that exist, and there are no more
\* swaps than processes, however sessions and children interleave.
THEOREM CTypeCorrect == Spec => []TypeOK
<1>1. CInv => TypeOK
  <2> SUFFICES ASSUME CInv PROVE TypeOK
    OBVIOUS
  <2> USE DEF CInv, Types
  <2>1. /\ Len(procs) \in Nat /\ Launched = 1 .. Len(procs)
        /\ \A i \in Launched : procs[i] \in Process
    BY Numbered
  <2>2. swaps <= Len(procs)
    <3>1. IsFiniteSet(Launched) /\ Cardinality(Launched) = Len(procs)
      BY Numbered
    <3>2. Wrote \in SUBSET Launched
      BY DEF Wrote
    <3> QED
      BY <3>1, <3>2, FS_Subset DEF Counted
  <2>3. \A i \in Launched : procs[i] \in Process /\ procs[i].wrote <= swaps
    BY <2>1 DEF Counted
  <2>4. \A i \in Launched :
          /\ procs[i].id \in Ids /\ procs[i].wrote \in 0 .. swaps
          /\ procs[i].state \in {"started", "swapped", "printed", "exited"}
    BY <2>3 DEF Process, Live
  <2>5. \A s \in Sessions :
          /\ page[s].run \in Launched \cup {NoRun}
          /\ page[s].summary \in Launched \cup {NoRun}
          /\ page[s].numbers \in [asOf : 0 .. swaps, ok : BOOLEAN]
    BY DEF Page, Reading
  <2> QED
    BY <2>1, <2>2, <2>4, <2>5 DEF TypeOK, Reading
<1> QED
  BY <1>1, CInductive, PTL

\* A page drawn to its auto-refresh offers its buttons only when the session's
\* run is over, for any number of sessions and children.
THEOREM ButtonsTell == Spec => []EnabledMeansIdle
<1>1. CInv => EnabledMeansIdle
  <2> SUFFICES ASSUME CInv, NEW s \in Sessions, script[s] \in {"sleep", "idle"},
                      ~page[s].disabled
               PROVE  ~Running(handle[s])
    BY Zenon DEF EnabledMeansIdle
  <2>1. script[s] # "first"
    OBVIOUS
  <2> QED
    BY <2>1, Zenon DEF CInv, PollsHold
<1> QED
  BY <1>1, CInductive, PTL

-----------------------------------------------------------------------------
(***************************************************************************)
(* What a step does to a session's page and to the processes it names:     *)
(* five cases, whichever session or child takes it.                        *)
(***************************************************************************)
SameStatus(t) ==
  /\ page'[t].status = page[t].status
  /\ page'[t].run = page[t].run
  /\ page'[t].summary = page[t].summary
  /\ cleared'[t] = cleared[t]
  /\ handle'[t] = handle[t] \/ handle'[t] # NoRun

Stays(t) ==
  SameStatus(t) /\ page'[t].numbers = page[t].numbers /\ (Drawn(t)' => Drawn(t))

Resets(t) ==
  page'[t] = BlankPage /\ cleared'[t] = NoId

ShowsRunning(t) ==
  /\ page'[t].status = "running" /\ page'[t].summary = NoRun
  /\ handle'[t] # NoRun /\ cleared'[t] = cleared[t] /\ ~Drawn(t)'

ShowsFinished(t) ==
  /\ handle[t] \in Launched /\ handle'[t] = handle[t]
  /\ procs[handle[t]].state = "exited"
  /\ page'[t].status = IF procs[handle[t]].code = 0 THEN "finished" ELSE "failed"
  /\ page'[t].run = handle[t]
  /\ page'[t].summary = log[procs[handle[t]].id]
  /\ cleared'[t] = procs[handle[t]].id /\ procs[handle[t]].id \in Ids
  /\ UNCHANGED <<procs, swaps, log>>
  /\ cache' = NoRun \/ (cache' = cache /\ cleared[t] = procs[handle[t]].id)
  /\ ~Drawn(t)'

ShowsNumbers(t) ==
  /\ SameStatus(t) /\ page'[t].numbers = cache'
  /\ cache' \in Reading /\ (cache = NoRun => cache'.asOf = swaps)
  /\ cache # NoRun => cache' = cache
  /\ UNCHANGED <<procs, swaps>>

LEMMA SessionStep ==
  ASSUME Types, [Next]_vars, NEW t \in Sessions
  PROVE  Stays(t) \/ Resets(t) \/ ShowsRunning(t) \/ ShowsFinished(t) \/ ShowsNumbers(t)
<1> USE DEF SameStatus, Stays
<1>1. ASSUME NEW s \in Sessions, page'[t] = page[t], cleared'[t] = cleared[t],
             script'[t] = script[t], handle'[t] = handle[t] \/ handle'[t] # NoRun
      PROVE  Stays(t)
  BY <1>1 DEF Drawn
<1>2. ASSUME NEW i \in Launched, Child(i) PROVE Stays(t)
  BY <1>1, <1>2, ChildStep
<1>3. ASSUME NEW s \in Sessions, Launch(s) PROVE Stays(t)
  <2> DEFINE d == Disabled(handle[s])
  <2>1. page' = [page EXCEPT ![s].disabled = d] /\ page \in [Sessions -> Page]
    BY <1>3 DEF Launch, Types
  <2>2. d \in BOOLEAN
    BY DEF Disabled, Running
  <2>3. /\ page'[t].status = page[t].status /\ page'[t].run = page[t].run
        /\ page'[t].summary = page[t].summary /\ page'[t].numbers = page[t].numbers
    <3> HIDE DEF d
    <3> QED BY <2>1, <2>2, ButtonsDrawn
  <2>4. /\ UNCHANGED <<cleared, script>>
        /\ handle' = [handle EXCEPT ![s] = Len(procs) + 1] /\ Len(procs) \in Nat
    BY <1>3, LaunchStep
  <2>5. handle'[t] = handle[t] \/ handle'[t] # NoRun
    BY <2>4, ConsoleAssumption DEF Types
  <2> QED
    BY <2>3, <2>4, <2>5 DEF Drawn
<1>4. ASSUME NEW s \in Sessions,
             Press(s) \/ OtherWidget(s) \/ RefreshData(s) \/ AutoRefresh(s)
      PROVE  Stays(t)
  <2>1. /\ UNCHANGED <<page, cleared, handle>>
        /\ script' = [script EXCEPT ![s] = "first"]
    BY <1>4 DEF Press, OtherWidget, RefreshData, AutoRefresh, Begin
  <2> QED
    BY <2>1 DEF Drawn, Types
<1>5. ASSUME NEW s \in Sessions, Reload(s) PROVE Stays(t) \/ Resets(t)
  BY <1>5 DEF Reload, Begin, Types, Resets, Drawn
<1>6. ASSUME NEW s \in Sessions, DrawButtons(s) PROVE Stays(t)
  <2> DEFINE d == Disabled(handle[s])
  <2>1. page' = [page EXCEPT ![s].disabled = d] /\ page \in [Sessions -> Page]
    BY <1>6 DEF DrawButtons, Types
  <2>2. d \in BOOLEAN
    BY DEF Disabled, Running
  <2>3. /\ page'[t].status = page[t].status /\ page'[t].run = page[t].run
        /\ page'[t].summary = page[t].summary /\ page'[t].numbers = page[t].numbers
    <3> HIDE DEF d
    <3> QED BY <2>1, <2>2, ButtonsDrawn
  <2>4. /\ UNCHANGED <<cleared, handle>>
        /\ script' = [script EXCEPT ![s] = "status"]
    BY <1>6 DEF DrawButtons
  <2> QED
    BY <2>3, <2>4 DEF Drawn, Types
<1>7. ASSUME NEW s \in Sessions, DrawStatus(s)
      PROVE  Stays(t) \/ ShowsRunning(t) \/ ShowsFinished(t)
  <2>1. /\ UNCHANGED <<procs, swaps, log, handle>>
        /\ script' = [script EXCEPT ![s] = "tabs"]
    BY <1>7 DEF DrawStatus, world
  <2>2. CASE DrawNothing(s)
    BY <2>1, <2>2 DEF DrawNothing, Drawn, Types
  <2>3. CASE DrawRunning(s)
    <3>1. CASE t = s
      <4>1. page[s] \in Page
        BY DEF Types
      <4> QED
        BY <2>1, <2>3, <3>1, <4>1
        DEF DrawRunning, Running, ShowsRunning, Drawn, Types, Page
    <3>2. CASE t # s
      BY <2>1, <2>3, <3>2 DEF DrawRunning, Drawn, Types
    <3> QED
      BY <3>1, <3>2
  <2>4. CASE DrawFinished(s)
    <3>1. CASE t = s
      BY <1>7, <2>1, <2>4, <3>1, FinishedDrawn
      DEF DrawStatus, ShowsFinished, Drawn, Types
    <3>2. CASE t # s
      BY <1>7, <2>1, <2>4, <3>2, FinishedDrawn DEF DrawStatus, Drawn, Types
    <3> QED
      BY <3>1, <3>2
  <2> QED
    BY <1>7, <2>2, <2>3, <2>4 DEF DrawStatus
<1>8. ASSUME NEW s \in Sessions, DrawTabs(s) PROVE Stays(t) \/ ShowsNumbers(t)
  <2>1. /\ cache' \in Reading /\ (cache = NoRun => cache'.asOf = swaps)
        /\ cache # NoRun => cache' = cache
    BY <1>8, CacheRead DEF DrawTabs
  <2>2. /\ \A u \in Sessions \ {s} : page'[u] = page[u]
        /\ page'[s].numbers = cache'
        /\ \A u \in Sessions : /\ page'[u].status = page[u].status
                               /\ page'[u].run = page[u].run
                               /\ page'[u].summary = page[u].summary
    BY <1>8, <2>1, NumbersDrawn DEF DrawTabs, Types
  <2>3. /\ UNCHANGED <<procs, swaps, handle, cleared>>
        /\ script' = [script EXCEPT ![s] = "last"]
    BY <1>8 DEF DrawTabs, world
  <2> QED
    BY <2>1, <2>2, <2>3 DEF ShowsNumbers, Drawn, Types
<1>9. ASSUME NEW s \in Sessions, LastPoll(s) PROVE Stays(t)
  <2>1. /\ UNCHANGED <<handle, cleared, page>> /\ script[s] = "last"
        /\ \A u \in Sessions \ {s} : script'[u] = script[u]
    BY <1>9 DEF LastPoll, Types
  <2> QED
    BY <2>1 DEF Drawn
<1>10. CASE Expire \/ Tick \/ UNCHANGED vars
  BY <1>10 DEF Expire, Tick, vars, Drawn
<1> QED
  BY <1>2, <1>3, <1>4, <1>5, <1>6, <1>7, <1>8, <1>9, <1>10
  DEF Next, User, Execute, Launched

\* A process keeps its run_id, and once it has exited all of its entry.
LEMMA RunKept ==
  ASSUME Types, [Next]_vars, NEW j \in Launched
  PROVE  /\ j \in Launched'
         /\ procs'[j].id = procs[j].id
         /\ procs[j].state = "exited" => procs'[j] = procs[j]
<1>1. ASSUME NEW i \in Launched, Child(i)
      PROVE  /\ j \in Launched' /\ procs'[j].id = procs[j].id
             /\ procs[j].state = "exited" => procs'[j] = procs[j]
  BY <1>1, ChildStep, ChildFields
<1>2. ASSUME NEW s \in Sessions, Launch(s)
      PROVE  j \in Launched' /\ procs'[j] = procs[j]
  BY <1>2, LaunchStep
<1>3. \/ \E i \in Launched : Child(i)
      \/ \E s \in Sessions : Launch(s)
      \/ UNCHANGED procs
  BY DEF Next, User, Press, OtherWidget, RefreshData, Reload, AutoRefresh, Execute,
     DrawButtons, DrawStatus, DrawTabs, LastPoll, Expire, Tick, vars, world, Launched
<1> QED
  BY <1>1, <1>2, <1>3 DEF Launched

LEMMA CacheStep ==
  ASSUME Types, [Next]_vars
  PROVE  \/ cache' = NoRun
         \/ cache' = cache
         \/ cache = NoRun /\ cache'.asOf = swaps /\ UNCHANGED <<procs, swaps>>
<1>1. ASSUME NEW s \in Sessions, DrawStatus(s)
      PROVE  cache' = NoRun \/ cache' = cache
  BY <1>1, FinishedDrawn DEF DrawStatus, DrawNothing, DrawRunning
<1>2. ASSUME NEW s \in Sessions, DrawTabs(s)
      PROVE  \/ cache' = cache
             \/ cache = NoRun /\ cache'.asOf = swaps /\ UNCHANGED <<procs, swaps>>
  BY <1>2, CacheRead DEF DrawTabs, world
<1>3. \/ \E s \in Sessions : DrawStatus(s) \/ DrawTabs(s)
      \/ cache' = NoRun
      \/ cache' = cache
  BY DEF Next, User, Press, OtherWidget, RefreshData, Reload, AutoRefresh, Execute,
     DrawButtons, Launch, LastPoll, Child, Expire, Tick, vars
<1> QED
  BY <1>1, <1>2, <1>3

LEMMA OwnSecondStep ==
  ASSUME OnePerSecond, Types, OwnSecond, [Next]_vars
  PROVE  OwnSecond'
<1> USE DEF OwnSecond
<1>1. ASSUME NEW i \in Launched, Child(i) PROVE OwnSecond'
  <2>1. /\ Launched' = Launched /\ UNCHANGED <<now, click>>
        /\ \A j \in Launched : procs'[j].id = procs[j].id
    BY <1>1, ChildStep, ChildFields
  <2> QED
    BY <2>1
<1>2. ASSUME NEW s \in Sessions, Launch(s) PROVE OwnSecond'
  <2>1. /\ Launched' = Launched \cup {Len(procs) + 1} /\ Len(procs) + 1 \notin Launched
        /\ \A j \in Launched : procs'[j] = procs[j]
        /\ procs'[Len(procs) + 1].id = <<click[s], now>>
        /\ click' = [click EXCEPT ![s] = "none"] /\ click[s] # "none"
    <3>1. procs'[Len(procs) + 1] = [id |-> <<click[s], now>>, state |-> "started",
                                    wrote |-> 0, code |-> 0]
      BY <1>2, LaunchStep
    <3> QED
      BY <1>2, <3>1, LaunchStep
  <2>2. procs'[Len(procs) + 1].id[2] = now
    BY <2>1
  <2>3. \A j \in Launched : procs[j].id[2] # now
    BY <2>1
  <2>4. \A t \in Sessions : click'[t] = "none"
    BY <2>1 DEF Types
  <2> QED
    BY <2>1, <2>2, <2>3, <2>4
<1>3. ASSUME NEW s \in Sessions, Press(s) PROVE OwnSecond'
  <2>1. /\ \A t \in Sessions : click[t] = "none"
        /\ \A i \in Launched : procs[i].id[2] # now
        /\ \E b \in Clicks : click' = [click EXCEPT ![s] = b]
        /\ UNCHANGED <<now, procs>>
    BY <1>3 DEF Press, SecondIsFree, Pressed, Begin, world, Launched
  <2> QED
    BY <2>1 DEF Types, Launched
<1>4. ASSUME \A t \in Sessions : click'[t] = "none" \/ click'[t] = click[t],
             UNCHANGED procs,
             now' = now \/ \A t \in Sessions : click[t] = "none"
      PROVE  OwnSecond'
  BY <1>4 DEF Launched
<1>5. ASSUME NEW s \in Sessions,
             OtherWidget(s) \/ RefreshData(s) \/ Reload(s) \/ AutoRefresh(s)
      PROVE  OwnSecond'
  <2>1. click' = [click EXCEPT ![s] = "none"] /\ UNCHANGED <<procs, now>>
    BY <1>5 DEF OtherWidget, RefreshData, Reload, AutoRefresh, Begin, world
  <2> QED
    BY <1>4, <2>1 DEF Types
<1>6. CASE Tick
  BY <1>4, <1>6 DEF Tick, Pressed
<1>7. CASE UNCHANGED <<click, procs, now>>
  BY <1>4, <1>7
<1>8. \/ \E i \in Launched : Child(i)
      \/ \E s \in Sessions : Launch(s) \/ Press(s)
      \/ \E s \in Sessions : OtherWidget(s) \/ RefreshData(s) \/ Reload(s)
                               \/ AutoRefresh(s)
      \/ Tick
      \/ UNCHANGED <<click, procs, now>>
  BY DEF Next, User, Execute, DrawButtons, DrawStatus, DrawTabs, LastPoll, Expire,
     vars, world, Launched
<1> QED
  BY <1>1, <1>2, <1>3, <1>5, <1>6, <1>7, <1>8

\* Two processes with one run_id are one process.
LEMMA SameId ==
  ASSUME OwnSecond, NEW i \in Launched, NEW j \in Launched, procs[i].id = procs[j].id
  PROVE  i = j
  BY DEF OwnSecond

LEMMA OwnLogStep ==
  ASSUME OnePerSecond, Types, OwnSecond, OwnLog, [Next]_vars
  PROVE  OwnLog'
<1>1. \A i \in Launched : procs[i] \in Process /\ procs[i].id \in Ids
  BY Numbered DEF Process
<1>2. Launched \subseteq Nat
  BY Numbered
<1>3. ASSUME NEW i \in Launched, Child(i) PROVE OwnLog'
  <2>1. /\ Launched' = Launched
        /\ \A j \in Launched \ {i} : procs'[j] = procs[j]
        /\ \A j \in Launched : procs'[j].id = procs[j].id
    BY <1>3, ChildStep, ChildFields
  <2>2. \A j \in Launched \ {i} : Printed(j)' => Printed(j)
    BY <2>1 DEF Printed
  <2>3. CASE Prints(i)
    <3>1. log' = [log EXCEPT ![procs[i].id] = i]
      BY <2>3 DEF Prints
    <3>2. log'[procs[i].id] = i
      BY <1>1, <3>1 DEF Types
    <3>3. \A id \in Ids \ {procs[i].id} : log'[id] = log[id]
      BY <3>1 DEF Types
    <3>4. \A j \in Launched \ {i} : procs[j].id \in Ids \ {procs[i].id}
      BY <1>1, SameId
    <3>5. \A id \in Ids : log'[id] # NoRun => procs'[log'[id]].id = id
      BY <1>1, <2>1, <3>2, <3>3 DEF OwnLog, Types
    <3>6. \A j \in Launched : Printed(j)' => log'[procs'[j].id] = j
      BY <2>1, <2>2, <3>2, <3>3, <3>4 DEF OwnLog
    <3> QED
      BY <2>1, <3>5, <3>6 DEF OwnLog
  <2>4. CASE ~Prints(i)
    <3>1. UNCHANGED log
      BY <1>3, <2>4, ChildFields DEF Swaps, Exits
    <3>2. Printed(i)' => Printed(i)
      BY <1>3, <2>1, <2>4, ChildFields DEF Printed
    <3> QED
      BY <2>1, <2>2, <3>1, <3>2 DEF OwnLog, Types
  <2> QED
    BY <2>3, <2>4
<1>4. ASSUME NEW s \in Sessions, Launch(s) PROVE OwnLog'
  <2> DEFINE n == <<click[s], now>>
             new == Len(procs) + 1
  <2>1. /\ Launched' = Launched \cup {new} /\ new \notin Launched
        /\ \A j \in Launched : procs'[j] = procs[j]
        /\ procs'[new].state = "started"
        /\ n \in Ids /\ log' = [log EXCEPT ![n] = NoRun] /\ click[s] # "none"
    <3>1. procs'[new] = [id |-> n, state |-> "started", wrote |-> 0, code |-> 0]
      BY <1>4, LaunchStep
    <3> QED
      BY <1>4, <3>1, LaunchStep
  <2>2. n[2] = now
    OBVIOUS
  <2>3. \A j \in Launched : procs[j].id # n
    BY <2>1, <2>2 DEF OwnSecond
  <2> HIDE DEF n, new
  <2>4. log'[n] = NoRun /\ \A id \in Ids \ {n} : log'[id] = log[id]
    BY <2>1 DEF Types
  <2>5. \A id \in Ids : log'[id] # NoRun => procs'[log'[id]].id = id
    BY <2>1, <2>4 DEF OwnLog, Types
  <2>6. \A j \in Launched : Printed(j)' => log'[procs'[j].id] = j
    BY <1>1, <2>1, <2>3, <2>4 DEF OwnLog, Printed
  <2>7. \A j \in Launched' \ Launched : ~Printed(j)'
    BY <2>1 DEF Printed
  <2> QED
    BY <2>1, <2>5, <2>6, <2>7 DEF OwnLog
<1>5. CASE UNCHANGED <<procs, log>>
  BY <1>5 DEF OwnLog, Printed, Launched
<1>6. \/ \E i \in Launched : Child(i)
      \/ \E s \in Sessions : Launch(s)
      \/ UNCHANGED <<procs, log>>
  BY DEF Next, User, Press, OtherWidget, RefreshData, Reload, AutoRefresh, Execute,
     DrawButtons, DrawStatus, DrawTabs, LastPoll, Expire, Tick, vars, world, Launched
<1> QED
  BY <1>3, <1>4, <1>5, <1>6

LEMMA PageHoldsStep ==
  ASSUME Types, [Next]_vars, NEW t \in Sessions, PageHolds(t)
  PROVE  PageHolds(t)'
<1>1. CASE Stays(t) \/ ShowsNumbers(t)
  <2>1. SameStatus(t)
    BY <1>1 DEF Stays, ShowsNumbers
  <2>2. Over(t)' => Over(t)
    BY <2>1 DEF SameStatus, Over
  <2>3. Over(t) => /\ page[t].run \in Launched'
                   /\ procs'[page[t].run].state = "exited"
                   /\ procs'[page[t].run].id = procs[page[t].run].id
    BY RunKept DEF PageHolds
  <2> QED
    BY <2>1, <2>2, <2>3 DEF SameStatus, PageHolds
<1>2. CASE Resets(t)
  BY <1>2 DEF Resets, PageHolds, Over, BlankPage
<1>3. CASE ShowsRunning(t)
  BY <1>3 DEF ShowsRunning, PageHolds, Over
<1>4. CASE ShowsFinished(t)
  BY <1>4, ConsoleAssumption, Numbered DEF ShowsFinished, PageHolds, Over, Launched
<1> QED
  BY <1>1, <1>2, <1>3, <1>4, SessionStep

LEMMA ClearedHoldsStep ==
  ASSUME Types, Counted, [Next]_vars, NEW t \in Sessions, ClearedHolds(t)
  PROVE  ClearedHolds(t)'
<1>1. \A j \in Launched : procs[j].wrote \in Nat /\ procs[j].wrote <= swaps
  BY Numbered DEF Process, Counted
<1>2. ASSUME NEW i \in Launched, procs[i].state = "exited",
             cache # NoRun => cache.asOf >= procs[i].wrote,
             procs[i].id = cleared'[t]
      PROVE  ClearedHolds(t)'
  <2>1. i \in Launched' /\ procs'[i] = procs[i]
    BY <1>2, RunKept
  <2>2. cache' # NoRun => cache'.asOf >= procs'[i].wrote
    BY <1>1, <1>2, <2>1, CacheStep DEF Types
  <2> QED
    BY <1>2, <2>1, <2>2 DEF ClearedHolds
<1>3. CASE cleared'[t] = cleared[t]
  BY <1>2, <1>3 DEF ClearedHolds
<1>4. CASE Resets(t)
  BY <1>4 DEF Resets, ClearedHolds
<1>5. CASE ShowsFinished(t)
  <2>1. CASE cleared[t] = procs[handle[t]].id
    BY <1>3, <1>5, <2>1 DEF ShowsFinished
  <2>2. CASE cache' = NoRun
    BY <1>5, <2>2 DEF ShowsFinished, ClearedHolds, Launched
  <2> QED
    BY <1>5, <2>1, <2>2 DEF ShowsFinished
<1> QED
  BY <1>3, <1>4, <1>5, SessionStep DEF Stays, ShowsNumbers, ShowsRunning, SameStatus

LEMMA SummaryStep ==
  ASSUME Types, OwnSecond, OwnLog, OwnSummary, FinishedHasSummary,
         \A s \in Sessions : PageHolds(s), [Next]_vars
  PROVE  OwnSummary' /\ FinishedHasSummary'
<1> SUFFICES ASSUME NEW t \in Sessions
             PROVE  /\ page'[t].summary # NoRun => page'[t].summary = page'[t].run
                    /\ page'[t].status = "finished"
                         /\ procs'[page'[t].run].id[1] = "run"
                         => page'[t].summary # NoRun
  BY DEF OwnSummary, FinishedHasSummary
<1>1. CASE Stays(t) \/ ShowsNumbers(t)
  <2>1. SameStatus(t)
    BY <1>1 DEF Stays, ShowsNumbers
  <2>2. page[t].status = "finished" => procs'[page[t].run].id = procs[page[t].run].id
    BY RunKept DEF PageHolds, Over
  <2> QED
    BY <2>1, <2>2 DEF SameStatus, OwnSummary, FinishedHasSummary
<1>2. CASE Resets(t) \/ ShowsRunning(t)
  BY <1>2 DEF Resets, ShowsRunning, BlankPage
<1>3. CASE ShowsFinished(t)
  <2> DEFINE run == handle[t]
             last == log[procs[run].id]
  <2>1. /\ run \in Launched /\ procs[run].id \in Ids /\ procs[run].state = "exited"
        /\ page'[t].summary = last /\ page'[t].run = run
        /\ page'[t].status = "finished" => procs[run].code = 0
        /\ UNCHANGED procs
    BY <1>3 DEF ShowsFinished
  <2>2. last # NoRun => last = run
    <3>1. last \in Launched \cup {NoRun}
      BY <2>1 DEF Types
    <3>2. last # NoRun => procs[last].id = procs[run].id
      BY <2>1 DEF OwnLog
    <3> QED
      BY <2>1, <3>1, <3>2, SameId
  <2>3. procs[run].code = 0 /\ procs[run].id[1] = "run" => last = run
    BY <2>1 DEF OwnLog, Printed
  <2>4. run # NoRun
    BY <2>1, Numbered, ConsoleAssumption
  <2> QED
    BY <2>1, <2>2, <2>3, <2>4
<1> QED
  BY <1>1, <1>2, <1>3, SessionStep

LEMMA FreshStep ==
  ASSUME Types, Counted, OwnSecond, FreshNumbers,
         \A s \in Sessions : PageHolds(s) /\ ClearedHolds(s), [Next]_vars
  PROVE  FreshNumbers'
<1> SUFFICES ASSUME NEW t \in Sessions, Drawn(t)', Over(t)'
             PROVE  page'[t].numbers.asOf >= procs'[page'[t].run].wrote
  BY DEF FreshNumbers
<1>1. CASE Stays(t)
  <2>1. /\ Drawn(t) /\ Over(t) /\ page'[t].numbers = page[t].numbers
        /\ page'[t].run = page[t].run
    BY <1>1 DEF Stays, SameStatus, Over
  <2>2. procs'[page[t].run] = procs[page[t].run]
    BY <2>1, RunKept DEF PageHolds
  <2> QED
    BY <2>1, <2>2 DEF FreshNumbers
<1>2. CASE ShowsNumbers(t)
  <2>1. /\ Over(t) /\ page'[t].run = page[t].run
        /\ page'[t].numbers = cache' /\ UNCHANGED procs
        /\ cache = NoRun => cache'.asOf = swaps
        /\ cache # NoRun => cache' = cache
    BY <1>2 DEF ShowsNumbers, SameStatus, Over
  <2>2. /\ page[t].run \in Launched /\ cleared[t] = procs[page[t].run].id
        /\ procs[page[t].run].id \in Ids
    BY <2>1, Numbered DEF PageHolds, Process
  <2>3. cleared[t] # NoId
    BY <2>2 DEF NoId, Ids
  <2>4. PICK i \in Launched : /\ procs[i].id = cleared[t]
                              /\ cache # NoRun => cache.asOf >= procs[i].wrote
    BY <2>3 DEF ClearedHolds
  <2>5. i = page[t].run
    BY <2>2, <2>4, SameId
  <2>6. procs[i].wrote \in Nat /\ procs[i].wrote <= swaps /\ swaps \in Nat
    BY Numbered DEF Process, Counted, Types
  <2> QED
    BY <2>1, <2>4, <2>5, <2>6
<1>3. CASE Resets(t)
  BY <1>3 DEF Resets, BlankPage, Over
<1>4. CASE ShowsRunning(t) \/ ShowsFinished(t)
  BY <1>4 DEF ShowsRunning, ShowsFinished
<1> QED
  BY <1>1, <1>2, <1>3, <1>4, SessionStep

LEMMA SecondInductive ==
  ASSUME OnePerSecond
  PROVE  Spec => [](CInv /\ SecondInv)
<1>1. Init => SecondInv
  <2> SUFFICES ASSUME Init PROVE SecondInv
    OBVIOUS
  <2> USE DEF Init
  <2>1. Launched = {}
    BY DEF Launched
  <2>2. OwnSecond /\ OwnLog
    BY <2>1 DEF OwnSecond, OwnLog
  <2>3. \A s \in Sessions : PageHolds(s) /\ ClearedHolds(s)
    BY DEF PageHolds, ClearedHolds, Over, BlankPage
  <2>4. OwnSummary /\ FinishedHasSummary /\ FreshNumbers
    BY DEF OwnSummary, FinishedHasSummary, FreshNumbers, Over, BlankPage
  <2> QED
    BY <2>2, <2>3, <2>4 DEF SecondInv
<1>2. CInv /\ SecondInv /\ [Next]_vars => SecondInv'
  <2> SUFFICES ASSUME CInv, SecondInv, [Next]_vars PROVE SecondInv'
    OBVIOUS
  <2>1. OwnSecond' /\ OwnLog'
    BY OwnSecondStep, OwnLogStep DEF CInv, SecondInv
  <2>2. \A s \in Sessions : PageHolds(s)' /\ ClearedHolds(s)'
    BY PageHoldsStep, ClearedHoldsStep DEF CInv, SecondInv
  <2>3. OwnSummary' /\ FinishedHasSummary' /\ FreshNumbers'
    BY SummaryStep, FreshStep DEF CInv, SecondInv
  <2> QED
    BY <2>1, <2>2, <2>3 DEF SecondInv
<1> QED
  BY <1>1, <1>2, CInductive, PTL DEF Spec

\* With no two launches in a second, a page that shows a summary shows the one
\* its own run printed, for any number of sessions.
THEOREM SummaryIsOwn ==
  ASSUME OnePerSecond
  PROVE  Spec => []OwnSummary
<1>1. SecondInv => OwnSummary
  BY DEF SecondInv
<1> QED
  BY <1>1, SecondInductive, PTL

\* With no two launches in a second, a pipeline run that finished well is shown
\* with its summary.
THEOREM FinishedShowsSummary ==
  ASSUME OnePerSecond
  PROVE  Spec => []FinishedHasSummary
<1>1. SecondInv => FinishedHasSummary
  BY DEF SecondInv
<1> QED
  BY <1>1, SecondInductive, PTL

\* With no two launches in a second, a page that says a run is over shows numbers
\* no older than its rows, whatever other sessions cache or clear meanwhile.
THEOREM NumbersFresh ==
  ASSUME OnePerSecond
  PROVE  Spec => []FreshNumbers
<1>1. SecondInv => FreshNumbers
  BY DEF SecondInv
<1> QED
  BY <1>1, SecondInductive, PTL
=============================================================================
