----------------------------- MODULE Deployment ------------------------------
(***************************************************************************)
(* Starting ResolveAI: the services of docker-compose.yml over one         *)
(* database, with alembic/env.py, the two imports and evaluation/run_eval. *)
(*                                                                         *)
(* `docker compose up` runs the migrations, then both imports, then the    *)
(* evaluation, and starts the API when all four ended well.  It may be     *)
(* repeated, and with another release of the data.  Meanwhile an operator  *)
(* may run either import by hand; with everything down, also alembic.  Any *)
(* process may die.                                                        *)
(*                                                                         *)
(* Assumed: data files and schema change only while nothing reads them.    *)
(***************************************************************************)
EXTENDS Knowledge, Datasets, Migrations

CONSTANTS
  Compose,      \* the importer and the loader that compose runs
  GroundTruth,  \* the evaluation dataset of each release
  MinCases      \* the fewest cases that it may have

ASSUME DeploymentAssumption ==
  /\ Compose \in Importers
  /\ Importers = Loaders /\ Watched = {Compose} /\ Awaited = {Compose}
  /\ Releases = Bundles

VARIABLES
  database,     \* schema objects and followed rows
  revision,     \* alembic_version
  compose,      \* what `docker compose up` has come to; up: the API serves
  migration,    \* the migrate container
  evaluation,   \* the evaluation-run container: the corpora it searched
  evaluated     \* those of the evaluation completed last

deployVars == <<revision, compose, migration, evaluation, evaluated, database>>
vars == <<knowledgeVars, datasetVars, deployVars>>

---------------------------------------------------------------------------
(* Services and their gates *)

NotEvaluating == [pc |-> "idle", seen |-> {}]

\* How a one-shot service stands; all write the same words.
State(service) ==
  CASE service = "migrate"            -> migration
    [] service = "ingest"             -> importer[Compose].pc
    [] service = "operational-ingest" -> loader[Compose].pc
    [] service = "evaluation-run"     -> evaluation.pc

OneShots == {"migrate", "ingest", "operational-ingest", "evaluation-run"}

\* Mutant: the evaluation waits for the schema only.
EarlyEvaluation(service) ==
  CASE service = "migrate"            -> {}
    [] service = "ingest"             -> {"migrate"}
    [] service = "operational-ingest" -> {"migrate"}
    [] service = "evaluation-run"     -> {"migrate"}
    [] service = "backend"            -> OneShots

\* Mutant: an import waits for the evaluation, which waits for it.
CircularGates(service) ==
  CASE service = "migrate"            -> {}
    [] service = "ingest"             -> {"migrate", "evaluation-run"}
    [] service = "operational-ingest" -> {"migrate"}
    [] service = "evaluation-run"     -> {"migrate", "ingest"}
    [] service = "backend"            -> OneShots

DependsOn(service) ==
  CASE service = "migrate"            -> {}
    [] service = "ingest"             -> {"migrate"}
    [] service = "operational-ingest" -> {"migrate"}
    [] service = "evaluation-run"     -> {"migrate", "ingest"}
    [] service = "backend"            -> OneShots

\* A service that compose is to start now.
Due(service) ==
  /\ compose = "starting"
  /\ \A d \in DependsOn(service) : State(d) = "done"

Running(service) == State(service) \notin {"idle", "done", "failed"}
Quiet ==
  /\ compose # "starting"
  /\ \A i \in Importers : ~Importing(i)
  /\ \A l \in Loaders : ~Loading(l)
  /\ ~Running("evaluation-run")
Stopped == compose = "down" /\ Quiet

HasTable(name) == name \in Names(database)

---------------------------------------------------------------------------
(* docker compose *)

\* The one-shot containers are new again.
Containers ==
  /\ migration' = "idle"
  /\ importer' = [importer EXCEPT ![Compose] = Idle]
  /\ loader' = [loader EXCEPT ![Compose] = NotLoading]
  /\ evaluation' = NotEvaluating

ComposeUp ==
  /\ compose # "starting"
  /\ \A service \in OneShots : ~Running(service)
  /\ compose' = "starting"
  /\ Containers
  /\ UNCHANGED <<release, documents, imports, database, revision, evaluated>>

BackendStart ==
  /\ Due("backend")
  /\ compose' = "up"
  /\ UNCHANGED <<knowledgeVars, datasetVars, database, revision, migration,
                 evaluation, evaluated>>

\* service_completed_successfully cannot come true any more.
ComposeAbort ==
  /\ compose = "starting"
  /\ \E service \in OneShots : State(service) = "failed"
  /\ compose' = "failed"
  /\ UNCHANGED <<knowledgeVars, datasetVars, database, revision, migration,
                 evaluation, evaluated>>

ComposeDown ==
  /\ compose \in {"up", "failed"}
  /\ \A service \in OneShots : ~Running(service)
  /\ compose' = "down"
  /\ Containers
  /\ UNCHANGED <<release, documents, imports, database, revision, evaluated>>

---------------------------------------------------------------------------
(* migrate *)

\* do_run_migrations: all revisions in one transaction.
Migrate ==
  LET after == Upgraded(database, revision, HeadRevision) IN
  /\ Due("migrate")
  /\ migration = "idle"
  /\ IF after.ok
     THEN database' = after /\ revision' = HeadRevision /\ migration' = "done"
     ELSE migration' = "failed" /\ UNCHANGED <<database, revision>>
  /\ UNCHANGED <<knowledgeVars, datasetVars, compose, evaluation, evaluated>>

MigrateFails ==
  /\ Due("migrate")
  /\ migration = "idle"
  /\ migration' = "failed"
  /\ UNCHANGED <<knowledgeVars, datasetVars, database, revision, compose,
                 evaluation, evaluated>>

\* The database that alembic leaves at the revision before or after.
Moved(db, at, to) ==
  IF to > at THEN Upgraded(db, at, to) ELSE Downgraded(db, at, to)

\* alembic by hand, revision by revision; a dropped table loses its rows.
Alembic(to) ==
  LET after == Moved(database, revision, to)
      left == Names(after) IN
  /\ Stopped
  /\ to \in {revision - 1, revision + 1} \cap 0..HeadRevision
  /\ after.ok
  /\ database' = after
  /\ revision' = to
  /\ documents' = IF "knowledge_documents" \in left THEN documents
                  ELSE [a \in Articles |-> NoRow]
  /\ imports' = IF "dataset_imports" \in left THEN imports ELSE {}
  /\ evaluated' = IF "evaluation_runs" \in left THEN evaluated ELSE {}
  /\ UNCHANGED <<release, importer, loader, compose, migration, evaluation>>

---------------------------------------------------------------------------
(* The imports: compose's when it is their turn, anyone else's any time *)

\* An operator runs one command at a time.
Free(person) == ~Importing(person) /\ ~Loading(person)

\* Without its tables an import ends at its first query.
Ingest(i) ==
  /\ IF i = Compose THEN Due("ingest") /\ At(i, "idle") ELSE Free(i)
  /\ HasTable("knowledge_documents")
  /\ ImportStart(i)
  /\ UNCHANGED <<datasetVars, deployVars>>

IngestStep(i) == ImportStep(i) /\ UNCHANGED <<datasetVars, deployVars>>
IngestFails(i) == ImportFail(i) /\ UNCHANGED <<datasetVars, deployVars>>

Load(l) ==
  /\ IF l = Compose THEN Due("operational-ingest") /\ LoaderAt(l, "idle")
     ELSE Free(l)
  /\ HasTable("dataset_imports")
  /\ LoadStart(l, release)
  /\ UNCHANGED <<knowledgeVars, deployVars>>

LoaderStep(l) == LoadStep(l) /\ UNCHANGED <<knowledgeVars, deployVars>>
LoaderFails(l) == LoadFail(l) /\ UNCHANGED <<knowledgeVars, deployVars>>

---------------------------------------------------------------------------
(* evaluation-run: a running row, one search per case, the result *)

\* load_dataset and the tickets that execute looks up: the dataset is the one
\* of the manifest and has enough cases, no two of one ticket, each of a
\* ticket and an incident there is.
Judged ==
  {r \in Releases :
     LET truth == GroundTruth[r]
         cases == truth.cases IN
     /\ truth.sum = truth.listed
     /\ Len(cases) >= MinCases
     /\ \A m, n \in DOMAIN cases : cases[m].ticket = cases[n].ticket => m = n
     /\ \A n \in DOMAIN cases :
          /\ cases[n].incident \in truth.incidents
          /\ cases[n].ticket \in Keys(Bundle[r].files["tickets"])}

Texts == {<<a, documents[a].sum, documents[a].model>> : a \in Active}

EvaluationStart ==
  /\ Due("evaluation-run")
  /\ evaluation = NotEvaluating
  /\ evaluation' = [pc   |-> IF release \in Judged THEN "running" ELSE "failed",
                    seen |-> {}]
  /\ UNCHANGED <<knowledgeVars, datasetVars, database, revision, compose,
                 migration, evaluated>>

EvaluateCase ==
  /\ evaluation.pc = "running"
  /\ evaluation' = [evaluation EXCEPT !.seen = @ \cup {Texts}]
  /\ UNCHANGED <<knowledgeVars, datasetVars, database, revision, compose,
                 migration, evaluated>>

EvaluationComplete ==
  /\ evaluation.pc = "running" /\ evaluation.seen # {}
  /\ evaluation' = [pc |-> "done", seen |-> {}]
  /\ evaluated' = evaluation.seen
  /\ UNCHANGED <<knowledgeVars, datasetVars, database, revision, compose,
                 migration>>

\* An exception marks the row failed; a process that dies leaves it running.
\* latest_completed_evaluation passes over both.
EvaluationFails ==
  /\ evaluation.pc = "running"
  /\ evaluation' = [pc |-> "failed", seen |-> {}]
  /\ UNCHANGED <<knowledgeVars, datasetVars, database, revision, compose,
                 migration, evaluated>>

\* The working tree changes.
NewRelease(r) ==
  /\ Quiet
  /\ CheckOut(r)
  /\ UNCHANGED <<datasetVars, deployVars>>

---------------------------------------------------------------------------
(* Databases that an earlier release left behind *)

Fresh == [r \in 0..HeadRevision |-> Upgraded(Empty, 0, r)]

\* The tickets that 0007 finds, whose outcomes and recommendations it adds.
Ticket(status, assessment) ==
  [status |-> status, filled |-> {}, assessment |-> assessment,
   proposal |-> "none"]

Legacy == { Ticket("resolved", "completed"), Ticket("resolved", "none"),
            Ticket("escalated", "escalating"), Ticket("open", "unfinished") }

---------------------------------------------------------------------------
(* The specification: a database of any earlier revision, nothing running *)

Init ==
  /\ KnowledgeInit
  /\ DatasetInit
  /\ revision \in 0..HeadRevision
  /\ database = [Fresh[revision] EXCEPT
                   !.rows = IF revision = 6 THEN Legacy ELSE {}]
  /\ compose = "down"
  /\ migration = "idle"
  /\ evaluation = NotEvaluating
  /\ evaluated = {}

\* What runs by itself once it can.
Proceed ==
  \/ Migrate
  \/ Ingest(Compose)
  \/ Load(Compose)
  \/ EvaluationStart
  \/ EvaluateCase
  \/ EvaluationComplete
  \/ BackendStart
  \/ ComposeAbort

Fails ==
  \/ MigrateFails
  \/ \E i \in Importers : IngestFails(i)
  \/ \E l \in Loaders : LoaderFails(l)
  \/ EvaluationFails

Chosen ==
  \/ ComposeUp
  \/ ComposeDown
  \/ \E i \in Importers \ {Compose} : Ingest(i)
  \/ \E l \in Loaders \ {Compose} : Load(l)
  \/ \E r \in Releases : NewRelease(r)
  \/ \E to \in 0..HeadRevision : Alembic(to)

Next ==
  \/ Proceed
  \/ \E i \in Importers : IngestStep(i)
  \/ \E l \in Loaders : LoaderStep(l)
  \/ Fails
  \/ Chosen

\* Compose starts what is due and a process that can go on does; PostgreSQL
\* grants a row in the order it was waited for, so that an operator who
\* imports again and again keeps nobody waiting for ever.
Fairness ==
  /\ SF_vars(Proceed \/ IngestStep(Compose) \/ LoaderStep(Compose))
  /\ \A i \in Importers \ {Compose} : WF_vars(IngestStep(i) \/ LoaderStep(i))

Spec == Init /\ [][Next]_vars /\ Fairness

---------------------------------------------------------------------------
(* Properties *)

DeploymentTypeOK ==
  /\ KnowledgeTypeOK
  /\ DatasetTypeOK
  /\ revision \in 0..HeadRevision
  /\ database.ok /\ database.rows \subseteq RowType
  /\ compose \in {"down", "starting", "up", "failed"}
  /\ migration \in {"idle", "done", "failed"}
  /\ evaluation.pc \in {"idle", "running", "done", "failed"}

\* Whatever upgrades, downgrades and data came before, a migration leaves the
\* schema of a new database at that revision, at the last one the schema the
\* models declare, and the next one in either direction is not stuck on the
\* objects or the rows it leaves.
SchemaOfRevision ==
  [][revision' # revision =>
       /\ database'.objects = Fresh[revision'].objects
       /\ revision' = HeadRevision => database'.objects = Declared
       /\ \A to \in {revision' - 1, revision' + 1} \cap 0..HeadRevision :
            Moved(database', revision', to).ok]_vars

\* "Every completed assessment creates exactly one proposed recommendation.
\* Existing completed assessments are backfilled", and a ticket that ended
\* before outcomes were recorded gets those of its own end and no others.
OutcomesBackfilled ==
  revision >= 7 => \A row \in database.rows :
    /\ row.assessment \in {"completed", "escalating"} <=> row.proposal # "none"
    /\ row.assessment = "escalating" <=> row.proposal = "escalate"
    /\ row.filled = CASE row.status = "resolved"  -> ResolutionColumns
                      [] row.status = "escalated" -> EscalationColumns
                      [] OTHER -> {}

\* "The startup path applies migrations, idempotently loads the [corpora],
\* and persists a real evaluation before the API starts": when compose
\* reports success the schema is the last one, the release's articles and
\* data are stored, and an evaluation of exactly those articles, by cases of
\* tickets that the data have, is complete.
BackendReady ==
  [][compose' = "up" /\ compose # "up" =>
       /\ revision' = HeadRevision
       /\ OfRelease(release)'
       /\ Whole(release)'
       /\ release' \in Judged
       /\ evaluated' = {Texts'}]_vars

\* docker compose up ends: with the API started, or with a failed service.
StartupEnds == compose = "starting" ~> compose # "starting"
=============================================================================
