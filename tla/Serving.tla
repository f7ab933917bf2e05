------------------------------ MODULE Serving -------------------------------
(***************************************************************************)
(* Everybody who opens the online store: pipeline runs, which load it, the *)
(* dashboard, which opens it for every summary, and the API (api/main.py), *)
(* which opens it once in its lifespan and answers point lookups.  Opening *)
(* ends in ensure_schema, which looks for the table and creates it when it *)
(* is absent: two statements, and nothing keeps two processes apart.       *)
(***************************************************************************)
EXTENDS OnlineStore

CONSTANTS
  Servers      \* API processes

ASSUME ServingAssumption ==
  Loads \cap Readers = {} /\ Loads \cap Servers = {} /\ Readers \cap Servers = {}

VARIABLES
  created,     \* the table predictions_online exists
  store,       \* store[p]: what p has of its OnlineStore object
  refused,     \* history: the processes whose CREATE TABLE once failed
  again,       \* history: those it failed for a second time
  known        \* history: the entities whose last lookup found a row

Processes == Loads \cup Readers \cup Servers

openings == <<created, store, refused, again>>
svars    == <<vars, openings, known>>

ServingInit ==
  /\ Init
  /\ created = FALSE
  /\ store = [p \in Processes |-> "closed"]
  /\ refused = {} /\ again = {}
  /\ known = {}

Becomes(p, state) == store' = [store EXCEPT ![p] = state]

-----------------------------------------------------------------------------
(***************************************************************************)
(* OnlineStore.__init__: ensure_schema's look for the table, and its       *)
(* CREATE TABLE, which fails if another process created it meanwhile.      *)
(***************************************************************************)
NeverLooks(p) == FALSE                       \* mutant: CREATE without a look
SeesTable(p) == created

LookForTable(p) ==
  /\ store[p] = "closed"
  /\ Becomes(p, IF SeesTable(p) THEN "open" ELSE "absent")
  /\ UNCHANGED <<vars, created, refused, again, known>>

CreateTable(p) ==
  /\ store[p] = "absent"
  /\ ~created
  /\ created' = TRUE
  /\ Becomes(p, "open")
  /\ UNCHANGED <<vars, refused, again, known>>

(***************************************************************************)
(* "already exists": the API does not come up, the dashboard shows that    *)
(* the store is unavailable, a pipeline run ends with all its work done.   *)
(***************************************************************************)
CreateFails(p) ==
  /\ store[p] = "absent"
  /\ created
  /\ Becomes(p, IF p \in Loads THEN "given up" ELSE "closed")
  /\ refused' = refused \cup {p}
  /\ again' = IF p \in refused THEN again \cup {p} ELSE again
  /\ UNCHANGED <<vars, created, known>>

\* An API process ends, and may be started again.
Stop(s) ==
  /\ s \in Servers /\ store[s] # "closed"
  /\ Becomes(s, "closed")
  /\ UNCHANGED <<vars, created, refused, again, known>>

(***************************************************************************)
(* The store's users.                                                      *)
(***************************************************************************)
LoadStep(w) ==
  /\ store[w] = "open"
  /\ StartLoad(w) \/ Progress(w) \/ Fail(w)
  /\ UNCHANGED <<openings, known>>

\* predictions_summary: a store of its own for every call.
SummaryStep(q) ==
  /\ store[q] = "open"
  /\ \/ SummaryTotal(q) \/ SummaryVersions(q) \/ SummaryClasses(q)
     \/ SummaryAgain(q)
  /\ IF asking[q] = "returned" THEN Becomes(q, "closed") ELSE UNCHANGED store
  /\ UNCHANGED <<created, refused, again, known>>

\* get_prediction finds the row under the key.
HasPrediction(e) == e \in Live

\* GET /predict/{entity_id}: that row, or 404.
Predict(s) ==
  /\ store[s] = "open"
  /\ \E e \in Entities :
       known' = IF HasPrediction(e) THEN known \cup {e} ELSE known \ {e}
  /\ UNCHANGED <<vars, openings>>

ServingNext ==
  \/ \E p \in Processes : LookForTable(p) \/ CreateTable(p) \/ CreateFails(p)
  \/ \E w \in Loads : LoadStep(w)
  \/ \E q \in Readers : SummaryStep(q)
  \/ \E s \in Servers : Predict(s) \/ Stop(s)

ServingSpec == ServingInit /\ [][ServingNext]_svars

-----------------------------------------------------------------------------
\* ensure_schema is safe to call from every process: who was refused because
\* another process created the table is let in the next time.
RefusedOnce == again = {}

\* A lookup that found an entity answers 404 later only where the rows of a run
\* that did not score the entity are served: no swap, however it interleaves
\* with lookups or fails, hides a row for a moment.
StaysFound ==
  [][\A e \in known \ known' : \E d \in Live : e \notin batch[table[d]]]_svars
=============================================================================
