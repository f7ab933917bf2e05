------------------------------ MODULE Console ------------------------------
(***************************************************************************)
(* The Run tab of the dashboard (dashboard/app.py) and the processes it    *)
(* launches (dashboard/service.py), by several browser sessions.           *)
(*                                                                         *)
(* Streamlit executes the script of app.py from the top whenever a session *)
(* begins, a widget is used or the script asks for it, and abandons the    *)
(* execution under way; what was drawn stays on the page until it is drawn *)
(* again.  One execution is four steps here, because the child process can *)
(* exit between any two of them: it is polled first for the buttons, then  *)
(* for the status, and, after the other tabs, for the auto-refresh.        *)
(*                                                                         *)
(* The cached functions are one cache with one value: how many swaps of    *)
(* the serving store the numbers on the other tabs account for, or, when a *)
(* read raised, how many there had been when they became unavailable.      *)
(***************************************************************************)
EXTENDS Naturals, Sequences, FiniteSets

CONSTANTS
  Sessions,      \* browser sessions
  NoRun,         \* no handle in the session, no summary in a log
  Clicks,        \* the buttons users press: "run", "seed"
  OnePerSecond,  \* environment: no two processes are launched in one second
  Patient,       \* environment: users wait until an execution has ended
  MaxLaunches,   \* bound: processes launched
  MaxSecond      \* bound: seconds that pass

ASSUME ConsoleAssumption ==
  /\ NoRun \notin Nat
  /\ Clicks \subseteq {"run", "seed"}
  /\ OnePerSecond \in BOOLEAN /\ Patient \in BOOLEAN
  /\ MaxLaunches \in Nat /\ MaxSecond \in Nat

VARIABLES
  now,       \* the second
  procs,     \* the processes in the order they were launched
  swaps,     \* how many times the serving store was replaced
  log,       \* log[id]: the process whose summary line is last in the file
  cache,     \* the cached reading: its count of swaps, or NoRun when empty
  script,    \* script[s]: the next step of s's execution of app.py
  click,     \* click[s]: the button this execution answers, or "none"
  handle,    \* handle[s]: session_state["run"], a process or NoRun
  cleared,   \* cleared[s]: session_state["cleared_for"], a run_id
  page       \* page[s]: what the browser shows

world == <<now, procs, swaps, log>>
vars  == <<world, cache, script, click, handle, cleared, page>>

Ids == {"run", "seed"} \X (0 .. MaxSecond)      \* run_id: a prefix and a second
NoId == <<"none", 0>>

BlankPage ==
  [disabled |-> FALSE, status |-> "none", run |-> NoRun, summary |-> NoRun,
   numbers |-> [asOf |-> 0, ok |-> TRUE]]

-----------------------------------------------------------------------------
Init ==
  /\ now = 0
  /\ procs = <<>>
  /\ swaps = 0
  /\ log = [id \in Ids |-> NoRun]
  /\ cache = NoRun
  /\ script = [s \in Sessions |-> "first"]
  /\ click = [s \in Sessions |-> "none"]
  /\ handle = [s \in Sessions |-> NoRun]
  /\ cleared = [s \in Sessions |-> NoId]
  /\ page = [s \in Sessions |-> BlankPage]

(***************************************************************************)
(* RunHandle.is_running.                                                   *)
(***************************************************************************)
Running(run) == run # NoRun /\ procs[run].state # "exited"

(***************************************************************************)
(* An execution begins: a button that is drawn enabled is pressed, another *)
(* widget is used, or the sleep of the auto-refresh is over.               *)
(***************************************************************************)
Begin(s, button) ==
  /\ script' = [script EXCEPT ![s] = "first"]
  /\ click' = [click EXCEPT ![s] = button]

MayAct(s) == Patient => script[s] \in {"sleep", "idle"}

Pressed == {s \in Sessions : click[s] # "none"}

\* Bound: every button pressed can still launch its process.
RoomToLaunch == Len(procs) + Cardinality(Pressed) < MaxLaunches

\* OnePerSecond: no press in a second with a launch, or with a press that is
\* still to be answered; the second lasts until it is.
SecondIsFree == Pressed = {} /\ \A i \in DOMAIN procs : procs[i].id[2] # now

Press(s) ==
  /\ MayAct(s) /\ RoomToLaunch
  /\ OnePerSecond => SecondIsFree
  /\ ~page[s].disabled
  /\ \E button \in Clicks : Begin(s, button)
  /\ UNCHANGED <<world, cache, handle, cleared, page>>

OtherWidget(s) ==
  /\ MayAct(s)
  /\ Begin(s, "none")
  /\ UNCHANGED <<world, cache, handle, cleared, page>>

\* The sidebar's "Refresh data".
RefreshData(s) ==
  /\ MayAct(s)
  /\ Begin(s, "none")
  /\ cache' = NoRun
  /\ UNCHANGED <<world, handle, cleared, page>>

AutoRefresh(s) ==
  /\ script[s] = "sleep"
  /\ Begin(s, "none")
  /\ UNCHANGED <<world, cache, handle, cleared, page>>

\* The browser reloads the page: a new session, which knows no run.
Reload(s) ==
  /\ MayAct(s)
  /\ Begin(s, "none")
  /\ handle' = [handle EXCEPT ![s] = NoRun]
  /\ cleared' = [cleared EXCEPT ![s] = NoId]
  /\ page' = [page EXCEPT ![s] = BlankPage]
  /\ UNCHANGED <<world, cache>>

(***************************************************************************)
(* The buttons are drawn, disabled while the session's run is running.     *)
(***************************************************************************)
NeverDisabled(run) == FALSE                                       \* mutant
Disabled(run) == Running(run)

DrawButtons(s) ==
  /\ script[s] = "first"
  /\ click[s] = "none"
  /\ page' = [page EXCEPT ![s].disabled = Disabled(handle[s])]
  /\ script' = [script EXCEPT ![s] = "status"]
  /\ UNCHANGED <<world, cache, click, handle, cleared>>

(***************************************************************************)
(* launch_run and seed_example: the log file of the second is opened "w",  *)
(* the process is started, and st.rerun() begins the next execution.       *)
(***************************************************************************)
Launch(s) ==
  /\ script[s] = "first"
  /\ click[s] # "none"
  /\ LET id == <<click[s], now>>
     IN  /\ procs' = Append(procs, [id |-> id, state |-> "started", wrote |-> 0, code |-> 0])
         /\ log' = [log EXCEPT ![id] = NoRun]
  /\ handle' = [handle EXCEPT ![s] = Len(procs) + 1]
  /\ click' = [click EXCEPT ![s] = "none"]
  /\ page' = [page EXCEPT ![s].disabled = Disabled(handle[s])]
  /\ UNCHANGED <<now, swaps, cache, script, cleared>>

(***************************************************************************)
(* The status of the run: its log while it runs, its exit code and the     *)
(* summary parsed from its log when it is over.  The cache is cleared the  *)
(* first time the session sees the run finished.                           *)
(***************************************************************************)
\* Mutant: the session remembers that it cleared, not for which run.
ClearsOnlyOnce(s) == cleared[s] = NoId
MustClear(s) == cleared[s] # procs[handle[s]].id

\* Mutant: whatever log was written last is shown.
NewestLog(run) == Len(procs)
LogOf(run) == run

Summary(run) == log[procs[LogOf(run)].id]

DrawNothing(s) ==
  /\ handle[s] = NoRun
  /\ UNCHANGED <<cache, cleared, page>>

DrawRunning(s) ==
  /\ Running(handle[s])
  /\ page' = [page EXCEPT ![s].status = "running", ![s].run = handle[s],
                          ![s].summary = NoRun]
  /\ UNCHANGED <<cache, cleared>>

DrawFinished(s) ==
  LET run == handle[s] IN
  /\ run # NoRun /\ ~Running(run)
  /\ page' = [page EXCEPT ![s].status = IF procs[run].code = 0 THEN "finished"
                                                               ELSE "failed",
                          ![s].run = run,
                          ![s].summary = Summary(run)]
  /\ cache' = IF MustClear(s) THEN NoRun ELSE cache
  /\ cleared' = [cleared EXCEPT ![s] = procs[run].id]

DrawStatus(s) ==
  /\ script[s] = "status"
  /\ DrawNothing(s) \/ DrawRunning(s) \/ DrawFinished(s)
  /\ script' = [script EXCEPT ![s] = "tabs"]
  /\ UNCHANGED <<world, click, handle>>

(***************************************************************************)
(* The other tabs draw their numbers through the cache.  champion_info,    *)
(* predictions_summary and service_health turn whatever a read raises into *)
(* an answer, "unavailable", which is cached like any other.               *)
(***************************************************************************)
Readings == {[asOf |-> swaps, ok |-> up] : up \in BOOLEAN}

NeverFilled == {cache}                                            \* mutant
Cached == IF cache = NoRun THEN Readings ELSE {cache}

DrawTabs(s) ==
  /\ script[s] = "tabs"
  /\ cache' \in Cached
  /\ page' = [page EXCEPT ![s].numbers = cache']
  /\ script' = [script EXCEPT ![s] = "last"]
  /\ UNCHANGED <<world, click, handle, cleared>>

\* The auto-refresh: the execution sleeps when the run is still running.
LastPoll(s) ==
  /\ script[s] = "last"
  /\ script' = [script EXCEPT ![s] = IF Running(handle[s]) THEN "sleep" ELSE "idle"]
  /\ UNCHANGED <<world, cache, click, handle, cleared, page>>

\* ttl=10: the cached numbers expire.
Expire ==
  /\ cache # NoRun
  /\ cache' = NoRun
  /\ UNCHANGED <<world, script, click, handle, cleared, page>>

(***************************************************************************)
(* The child.  automl-run swaps the store, prints its summary and exits    *)
(* with 0, or with 1 when its consistency check found problems; a process  *)
(* that raises or is killed exits with another code and prints none.       *)
(***************************************************************************)
Become(i, state) == [procs EXCEPT ![i].state = state]

ChildSwaps(i) ==
  /\ procs[i].id[1] = "run" /\ procs[i].state = "started"
  /\ swaps' = swaps + 1
  /\ procs' = [Become(i, "swapped") EXCEPT ![i].wrote = swaps + 1]
  /\ UNCHANGED <<now, log>>

ChildPrints(i) ==
  /\ procs[i].state = "swapped"
  /\ procs' = Become(i, "printed")
  /\ log' = [log EXCEPT ![procs[i].id] = i]
  /\ UNCHANGED <<now, swaps>>

AlwaysZero(i) == {0}                                              \* mutant
ExitCodes(i) ==
  CASE procs[i].state = "printed" -> {0, 1}
    [] procs[i].id[1] = "seed"    -> {0, 1}
    [] OTHER                      -> {1}

ChildExits(i) ==
  /\ procs[i].state # "exited"
  /\ \E code \in ExitCodes(i) :
       procs' = [Become(i, "exited") EXCEPT ![i].code = code]
  /\ UNCHANGED <<now, swaps, log>>

Child(i) ==
  /\ ChildSwaps(i) \/ ChildPrints(i) \/ ChildExits(i)
  /\ UNCHANGED <<cache, script, click, handle, cleared, page>>

Tick ==
  /\ now < MaxSecond
  /\ OnePerSecond => Pressed = {}
  /\ now' = now + 1
  /\ UNCHANGED <<procs, swaps, log, cache, script, click, handle, cleared, page>>

-----------------------------------------------------------------------------
Execute(s) ==
  DrawButtons(s) \/ Launch(s) \/ DrawStatus(s) \/ DrawTabs(s) \/ LastPoll(s)

User(s) == Press(s) \/ OtherWidget(s) \/ RefreshData(s) \/ Reload(s)

Next ==
  \/ \E s \in Sessions : User(s) \/ AutoRefresh(s) \/ Execute(s)
  \/ \E i \in DOMAIN procs : Child(i)
  \/ Expire \/ Tick

Spec == Init /\ [][Next]_vars

\* Executions and the auto-refresh go on, and children end; users, seconds
\* and the cache owe nothing.
FairSpec ==
  /\ Spec
  /\ \A s \in Sessions : WF_vars(Execute(s)) /\ WF_vars(AutoRefresh(s))
  /\ \A i \in 1 .. MaxLaunches : WF_vars(i \in DOMAIN procs /\ Child(i))

-----------------------------------------------------------------------------
Launched == DOMAIN procs

\* The shape of the state: handles, pages and logs name processes that exist.
TypeOK ==
  /\ now \in 0 .. MaxSecond /\ swaps \in 0 .. Len(procs)
  /\ \A i \in Launched :
       /\ procs[i].id \in Ids /\ procs[i].wrote \in 0 .. swaps
       /\ procs[i].state \in {"started", "swapped", "printed", "exited"}
  /\ log \in [Ids -> Launched \cup {NoRun}]
  /\ cache = NoRun \/ cache \in [asOf : 0 .. swaps, ok : BOOLEAN]
  /\ script \in [Sessions -> {"first", "status", "tabs", "last", "sleep", "idle"}]
  /\ click \in [Sessions -> Clicks \cup {"none"}]
  /\ handle \in [Sessions -> Launched \cup {NoRun}]
  /\ cleared \in [Sessions -> Ids \cup {NoId}]
  /\ \A s \in Sessions :
       /\ page[s].run \in Launched \cup {NoRun}
       /\ page[s].summary \in Launched \cup {NoRun}
       /\ page[s].numbers \in [asOf : 0 .. swaps, ok : BOOLEAN]

\* A page drawn to its auto-refresh offers its buttons only when the run of the
\* session is over, although they were drawn from the first of three polls and
\* the user may have pressed, reloaded or waited meanwhile.
EnabledMeansIdle ==
  \A s \in Sessions :
    script[s] \in {"sleep", "idle"} /\ ~page[s].disabled => ~Running(handle[s])

Drawn(s) == script[s] \in {"last", "sleep", "idle"}
Over(s)  == page[s].status \in {"finished", "failed"}

\* A page drawn to the end that says the run is over shows numbers at least as
\* new as the rows this run wrote, and no outage from before them, whatever
\* other sessions cached meanwhile.
FreshNumbers ==
  \A s \in Sessions :
    Drawn(s) /\ Over(s) => page[s].numbers.asOf >= procs[page[s].run].wrote

\* launch_run, line 120: the log is the run's own, so a page that shows a
\* summary shows the one its run printed.
OwnSummary ==
  \A s \in Sessions :
    page[s].summary # NoRun => page[s].summary = page[s].run

\* A run that finished well is shown with its summary, not without one.
FinishedHasSummary ==
  \A s \in Sessions :
    page[s].status = "finished" /\ procs[page[s].run].id[1] = "run" =>
      page[s].summary # NoRun

\* app.py, lines 136 and 283: the page is refreshed while its run goes on, so
\* once the run is over the page says so (or has been reloaded).
EndIsShown ==
  \A s \in Sessions :
    (handle[s] # NoRun /\ ~Running(handle[s])) ~> (Over(s) \/ handle[s] = NoRun)
=============================================================================
