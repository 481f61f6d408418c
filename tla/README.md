# ResolveAI: a TLA+ model of the support workflow

ResolveAI takes a support ticket from AI triage to a human-approved outcome.
This directory models the backend's services as TLA+ modules, checks them with
TLC on small instances and proves their main safety properties with TLAPS for
instances of any size. Paths below are relative to `backend/app/` unless they
start with `docs/`.

## 1. The system

A FastAPI process serves HTTP requests and, in the same process, runs the
background tasks that requests leave behind. All state of record is in
PostgreSQL (READ COMMITTED), reached through SQLAlchemy sessions, one per
request and one per background task.

    ticket -> AI analysis -> investigation -> root-cause assessment
           -> recommendation (decided by a human)
           -> support response (drafted by AI, edited and approved by humans)
           -> resolve, or escalate

| Component | State | Operations | Interacts with |
|---|---|---|---|
| Tickets (`services/tickets.py`) | `tickets` row: status, assignee, priority, `priority_overridden`, category, outcome timestamps | create, update, assign, override_priority | every other service reads the row; analysis, outcomes write it |
| AI analysis (`services/analyses.py`) | `ai_analyses` rows, at most one queued or running per ticket (partial unique index) | request, retry, background job (load, RUNNING, provider, COMPLETED / FAILED / TIMED_OUT) | writes category and priority of the ticket; feeds the investigation |
| Investigations (`services/investigations.py`) | `investigations`, `investigation_steps` | request, retry, background job over a bounded plan of read-only tools | reads the latest completed analysis; feeds the assessment |
| Root-cause assessments (`services/assessments.py`) | `root_cause_assessments` (one per investigation), evidence | request, retry, background job | its completing commit inserts the recommendation |
| Recommendations (`services/recommendations.py`) | `recommendations` (one per assessment): status, action type, who decided | decide: approve, reject, modify | locks the row, then the ticket |
| Support responses (`services/responses.py`) | `support_responses`, at most one draft per ticket (partial unique index) | generate, edit, approve, reject | generate reads ticket, assessment, recommendation without locks and awaits a provider; the others lock the response, then the ticket |
| Outcomes (`services/outcomes.py`) | terminal columns of the ticket | resolve, escalate | lock ticket, then response, then recommendation |
| Sessions (`services/auth.py`, `api/dependencies.py`) | `sessions` rows, CSRF token | login, demo login, logout, lookup per request | role hierarchy of `models/enums.py` |
| Rate limiter (`security.py`) | process-local bounded table of windows | check, cleanup, eviction | wraps login and the workflow requests |
| Planner, tools, workflow (`investigations/`, `services/investigation_tools.py`) | none | plan, one read-only query per tool | called by the investigation job; read the operational data and the articles |
| Evidence, confidence, grounded providers, action policy (`root_cause/`, `recommendations/policy.py`) | none | collect, infer, score, classify | called by the assessment job |
| Knowledge import (`rag/ingestion.py`) | `knowledge_documents`, `knowledge_chunks` | one import command, one transaction | read by retrieval; the evaluation waits for it |
| Operational import (`demo/ingestion.py`) | `dataset_imports` and six tables of a version | one import command, one transaction | read by the tools |
| Schema (`alembic/versions`, `models/`) | the schema, `alembic_version`, and the rows revision 0007 rewrites | upgrade, downgrade | everything else needs it at the last revision |
| Startup (`docker-compose.yml`) and evaluation runner (`evaluation/run_eval.py`) | `evaluation_runs` | one-shot services behind gates, repeated starts | runs migration, imports, evaluation, then the API |
| Triage policy (`ai/policy.py`), vector search and re-ranking (`rag/`) | none | arithmetic over texts and vectors | called by the triage job, the tools |
| Dashboards, admin, health, frontend | none of record | read-only | |

### What is hard here

- **Interleaving.** Nothing serialises two requests for one ticket except row
  locks and unique indexes. Several operations read without a lock, await, and
  write later: `generate`, `update`, `assign`, `override_priority`, `retry`,
  every job.
- **Lock order.** Decisions and draft operations lock their own row before the
  ticket; outcomes lock the ticket first. The deadlock detector is part of the
  protocol.
- **Write-what-changed.** A session writes the columns that differ from what it
  loaded. A stale read therefore shows twice: in the decision taken on it and in
  what the UPDATE leaves out.
- **Order of rows.** "Latest" is by `created_at`, the time the inserting
  transaction began, not the order of commits.
- **Failure.** Jobs die with the process; providers fail or time out; a failure
  handler can fail too.
- **Data that change underneath.** The tools of one investigation run one after
  another while an operator may import; two tools can read one reading.
- **Imports beside imports.** Nothing serialises them but unique keys and the row
  locks of uncommitted rows; each looks first and writes later.
- **Startup.** Gates wait for processes that may die, over a database that may be
  at any revision with rows of any age.
- **Bounded tables and windows.** The limiter forgets keys, in part, on its own.
- **Reopened tickets.** A stale ticket update can reopen a terminal ticket, and
  whatever holds for terminal tickets has to hold through a second life.

`PROJECT.json` lists these hazards line by line with the properties that cover
each, and what is not covered yet.

### What makes each component correct

- *Recommendations, responses, outcomes*: decided once, by someone allowed to;
  nothing decided on a terminal ticket; resolution rests on an approved response
  to an accepted recommendation; the approved text stands; one kind of outcome;
  no request hangs.
- *Analysis*: one active analysis; nothing but a job that died or failed leaves one
  active for ever; a human priority wins; what is found reaches the ticket.
- *Investigation, assessment*: one active row of each kind, with the same exceptions;
  no investigation is assessed twice; what a completed row has gathered comes from one
  run, also beside an earlier or parallel run of the row; a recommendation is final.
- *Sessions, limiter*: a key gets less than twice its limit in any window; the
  table keeps its bound; Retry-After is honest; a logout ends its session.
- *Planner, evidence, confidence*: nothing is lost to the cap of a plan; every tool
  is accounted for, by evidence or as a limitation; without agreement a human is
  called; what is collected fits the provider's input.
- *Imports, migrations, startup*: an import is seen whole or not at all; each
  revision leaves the schema it stands for and every row its outcome; the API
  starts over a complete, evaluated database; startup ends.

## 2. Modules

| Module | What it is |
|---|---|
| `Enums` | the status vocabularies of `models/enums.py` and the role hierarchy |
| `HumanApproval` | abstract specification: what human authority over one ticket means, with no handlers, locks or transactions |
| `Resolution` | recommendations, responses, outcomes, ticket update and assignment of one ticket, as concurrent handlers; implements `HumanApproval` |
| `ResolutionProofs` | its theorems |
| `Analysis` | AI triage of one ticket and the priority override, as concurrent requests and jobs |
| `AnalysisProofs` | its theorems |
| `Pipeline` | investigations and root-cause assessments of one ticket, as concurrent requests and jobs |
| `PipelineProofs` | its theorems |
| `RateLimiter` | the bounded table of windows, as an ideal clock sees it, with a specification of its own (`LimiterSpec`) |
| `RateLimiterProofs` | its theorems |
| `Access` | sessions and requests under the limiter: how a request reaches a service |
| `AccessProofs` | its theorems |
| `Planner` | the plan of an investigation, as operators on a ticket's signals |
| `Evidence` | tools, evidence, confidence and action of one ticket, from investigation to assessment |
| `EvidenceProofs` | theorems about `Planner` and `Evidence` |
| `Knowledge` | the knowledge import, by concurrent importers |
| `Datasets` | the operational import, by concurrent loaders |
| `Migrations` | the eight revisions as statements on schema and rows, and the schema of `models/` |
| `Deployment` | composes the three above with compose's gates, the evaluation and an operator |
| `DeploymentProofs` | theorems about `Deployment` and the imports |
| `MigrationProofs` | theorems about the schema and its rows in `Deployment` |
| `MC...` | the instances TLC checks (values, symmetry sets); one `.cfg` per question |

`Resolution`, `Analysis` and `Pipeline` have the services' concurrency; `Evidence`
has what one undisturbed run of investigation and assessment computes, and
`Deployment` where its data come from.

### Resolution

`ticket`, `rec` and `resp` are the rows of one ticket; `handler` is the progress
of each request. A request's steps are its `SELECT ... FOR UPDATE`s and its
commit: a step named `...Lock...` waits until no other handler holds the row and
takes it; a step named `...Commit` applies the writes of the method and releases
the locks. `HoldsTicket`, `HoldsRec` and `HoldsResp` say which program points
hold which row, so the lock table is a function of the progress and not a
variable of its own. Statements between two waits that touch nothing shared are
part of the step before them.

| Code | Actions |
|---|---|
| `RecommendationService.decide` | `DecideLockRec`, `DecideLockTicket`, `DecideCommit` |
| `ResponseService.generate` | `GenerateCheck` (unlocked reads, provider), `GenerateInsert` |
| `ResponseService.edit / approve / reject` | `DraftLockResp`, `DraftLockTicket`, then `EditCommit`, `ApproveCommit` or `RejectCommit` |
| `OutcomeService.resolve` | `ResolveLockTicket`, `ResolveLockResp`, `ResolveLockRec`, `ResolveCommit` |
| `OutcomeService.escalate` | `EscalateLockTicket`, `EscalateLockRec`, `EscalateCommit` |
| `TicketService.update`, `assign` | `ReadOpenTicket`, then `UpdateCommit` or `AssignCommit` |
| `AssessmentService.execute`, its last commit | `CompleteAssessment` |
| PostgreSQL's deadlock detector | `DeadlockVictim` |
| an error, or the end of the process | `Abort` |

An INSERT takes `FOR KEY SHARE` on the rows its foreign keys name, which
conflicts with `FOR UPDATE`: hence `TicketFree` in `GenerateInsert` and
`CompleteAssessment`. The plain UPDATE of `update` and `assign` waits for the
same lock. A request that fails its first check does nothing and is left out.

The three check-then-await gaps are kept as they are: `GenerateCheck` to
`GenerateInsert`, and `ReadOpenTicket` to the two ticket commits. So a ticket can
be reopened, a draft can be inserted on a terminal ticket, and all properties are
checked and proved in that presence.

Not in this module: a completed assessment that concurrent retries put back to
queued or failed (it would make `generate` and `escalate` refuse more often;
see run `pipeline_retry` and section 7).

### Analysis

`ticket` holds the triage columns, `analysis` the rows, `task` the progress of
each request and of the background job it leaves behind: what it loaded and how
far it got. `Written(current, loaded, new)` is the unit of work: the columns
whose new value differs from the loaded one. `Refused` is the partial unique
index on active analyses.

| Code | Actions |
|---|---|
| `AnalysisService.request` | `RequestCheck`, `RequestCommit` |
| `AnalysisService.retry` | `RetryCheck`, `RetryCommit` |
| `AnalysisService.execute` | `JobLoad`, `JobStart` (RUNNING), `JobRead` (refresh, ticket), then `JobComplete` or `JobFail` |
| `AnalysisService._fail` | in `JobFail` |
| `TicketService.override_priority` | `OverrideRead`, `OverrideCommit` |
| the process ends, the database fails | `Lost` |

`Lost` ends a task anywhere: a request is rolled back, a job leaves its row as it
is and its task is remembered as lost. `raced` is a history variable: two retries
were once in flight at the same time.

Every failure ends in `_fail`, whose rollback expires the analysis it has loaded
before its next line reads `analysis.id`: on an `AsyncSession` that read raises, and
nothing is recorded (the fake session of `tests/test_analysis_service.py` expires
nothing). So `JobFail` leaves the row running and its task at `unrecorded`, and no job
of this program leaves an analysis that can be retried. `retry` is in the code all the
same and accepts rows marked `failed` or `timed_out` by whatever wrote them, as
tests/test_analysis_service.py:182 has them. `Earlier` is the set of statuses in which
the ticket's first analyses may have been left before `Init`; it brings `retry`, its
races and duplicate jobs into the runs and the theorems. It is an over-approximation:
with `Earlier = {}`, which the two violation runs use, retries never happen.

`NoOrphan` is what docs/ai-design.md:48 promises and the code does not keep
(`analysis_rollback`). `OrphanedByFailure`, of the passing run, says that lost and
failed jobs are the only ways to leave an active analysis with nobody at work: no
retry, conflict, stale write or duplicate job does.

### Pipeline

`row[kind][n]` is the n-th investigation or assessment: its status, the
investigation an assessment rests on (`basis`) and the rows its runs have inserted
(`output`: planning step and tool steps, or evidence and recommendation). `task`
is as in `Analysis`. The two services have the same life cycle and share their
actions; where they differ, the action asks for the kind or there is one each.

| Code | Actions |
|---|---|
| `InvestigationService.request`, `AssessmentService.request` | `RequestInvestigation`, `RequestAssessment` (checks), `RequestCommit` |
| `retry` of both | `RetryCheck` (reads the row with its steps or evidence), `RetryCommit` (deletes what was read) |
| `execute` of both | `JobLoad`, `JobStart` (RUNNING), `JobComplete` |
| `except TimeoutError` of an investigation | `InvestigationTimeout` (same session, adds a planning step) |
| all other errors, a commit that breaks a unique index, and an assessment's timeout, which `_fail` handles after a rollback like any error (no guard tells its status, timed_out, from failed; only records and counts do) | `JobFail` |
| the process ends, the database fails | `Lost` |

`Refused` is the partial unique index on active rows, `Assessed` the check and the
index of one assessment per investigation. A row's output is a set of parts, each
tagged with the task whose run inserted it: a retry deletes the parts it read at its
check, whoever inserted them, and the parts that another retry has deleted are gone for
it. A job whose commit would meet parts of an earlier or parallel run of the same row
cannot complete, only fail. Nothing serialises retries of one row, in the code or in the
model.

`InvestigationTimeout` has two outcomes, because its handler commits on the session of
the tools without a rollback (services/investigations.py:171). If the timeout found no
query of theirs under way and no planning step is stored, the row is `timed_out`. A
timeout that cancels a query leaves the session in a transaction that cannot commit: the
handler raises, the row stays running, and the task is `unrecorded`.
docs/investigation-workflow.md:78 and docs/ai-design.md:48 say that timed-out runs are
recorded; the code keeps that only in the first case. `OrphanedByTimeout` says that this
and the end of the process are the only ways to leave an active row with nobody at work.
An assessment's timeout is handled after a rollback and has no such case. `Lost` is as in
`Analysis`.

### RateLimiter and Access

`window` and `order` are the limiter's table and its insertion order, `request` the
progress of each request, `session` the rows. `check` holds a lock and awaits
nothing, so it is one step. `admitted`, `told` and `survivors` are histories that
the properties need: a key's admissions in the last window, when its last refusal
said to return, and which requests were under way when a session was revoked.

| Code | Actions |
|---|---|
| `FixedWindowRateLimiter.check` with `_cleanup` | `Admit` (`AdmitFresh`, `AdmitOpen`), `Refuse` |
| `login`, `demo_login` | `Login`, `LoginRefused`, `LoginCommit`, `LoginFails` |
| `get_current_auth` | `Authenticate` |
| `enforce_workflow_rate_limit` | `Enter`, `EnterRefused` |
| any handler's commit | `Act` |
| `AuthService.logout` | `Logout` |
| the process restarts; time passes | `Restart`; `Passing` |

### Planner and Evidence

A ticket is the signals its text gives, a location or none, an application and a
length class. `Wanted` is the plan before its cap, `Plan` after it. `Outcomes` is
the set of results a tool can give: each search or listing finds nothing or one item
standing for as many as its cap allows (`many`); the nearest reading of telemetry is listed apart, since the status tool reports it too:
with it, seven others are kept (`rest`), without it eight (`other`), and the status still
adds it. Each tool refuses what it refuses in the code. Data may change between two tools, so results are independent, except
that one reading of telemetry, which two tools report, is the same (`Consistent`).
The planning step stored with a run has no tool and is left out.

| Code | Actions |
|---|---|
| `InvestigationService.request`, `retry` | `RequestInvestigation` |
| `execute`, to its first commit | `StartInvestigation` |
| `execute_tools`, one iteration | `CallTool` |
| `_persist_steps`; the failure handlers | `CompleteInvestigation`; `FailInvestigation` |
| `AssessmentService.request`, `retry` | `RequestAssessment` |
| `execute`: collect, bound the input | `StartAssessment` |
| `execute`: infer, score, propose, commit | `Infer` |
| the provider's repair; the failure handlers | `InvalidAnswer`; `FailAssessment` |

### Knowledge, Datasets, Migrations and Deployment

An import is one transaction of several statements; `importer` and `loader` are what
each process has done in its own. An insert waits for another process's uncommitted
row of the same key (`Held`, the guard of `LoadWrite`) and fails on a committed one
(`Conflict`). `Sound` and `Valid` are the checks of the files on disk. In `Migrations` a schema
is a set of objects and a revision a sequence of statements; `Execute` refuses what
PostgreSQL would. `database.rows` are the rows of tickets with their assessment and
recommendation, which revision 0007 fills in.

| Code | Actions |
|---|---|
| `KnowledgeIngestionService.ingest` | `ImportStart`, `Look`, `Insert`, `Conflict`, `Retire`, `ImportCommit`, `ImportFail` |
| `OperationalIngestionService.ingest` | `LoadStart`, `LoadWrite`, `LoadCommit`, `LoadFail` |
| `alembic upgrade head` (`migrate`) | `Migrate`, `MigrateFails` |
| `alembic` by hand, with everything down | `Alembic` |
| `run_eval.execute` | `EvaluationStart`, `EvaluateCase`, `EvaluationComplete`, `EvaluationFails` |
| `docker compose up`, `down`, its gates | `ComposeUp`, `ComposeAbort`, `BackendStart`, `ComposeDown`, `Due` in the services' first steps |
| the working tree gets another release | `NewRelease` (only while nothing reads it) |

## 3. Runs

| Run | Checks | Result |
|---|---|---|
| `resolution` | `TypeOK`, `OneDraft`, `ResolvedOnApproval`, `CompletedByOutcome`, `HighImpactByManager`, `ApprovedTextIsFinal`, `NoDecisionOnTerminal` | hold |
| `resolution_live` | `DecidedOnce`, refinement `ApprovalChain`, `RequestsEnd` | hold |
| `resolution_frozen` | `TerminalTicketsFrozen` (docs/human-approval.md:72) | violated |
| `analysis` | `TypeOK`, `OneActive`, `OrphanedByFailure`, `TriageApplied`, `LaterAnalysisKeepsOverride`, `AnalysesEnd` | hold |
| `analysis_override` | `OverrideWins` (docs/ai-design.md:40) | violated |
| `analysis_rollback` | `NoOrphan` (docs/ai-design.md:48) | violated |
| `pipeline` | `TypeOK`, `OneActive`, `AssessedOnce`, `CompletedByOneRun`, `ProposalIsFinal`, `OrphanedByTimeout` | hold |
| `pipeline_retry` | `FailedCanComplete` (docs/root-cause-analysis.md:98) | violated |
| `access` | `TypeOK`, `Throttled`, `TableBounded`, `RetryAfterHonest`, `LogoutEndsSession` | hold |
| `evidence` | `EvidenceTypeOK`, `PlanComplete`, `Accounted`, `EscalatedUnlessAgreed`, `EvidenceFits` | hold |
| `startup` | `DeploymentTypeOK`, `OutcomesBackfilled`, `KnowledgeOfRelease`, `DatasetWhole`, `SchemaOfRevision`, `BackendReady`, `StartupEnds` | hold |
| `knowledge_rewrite` | `ChangedArticlesReplaced` (docs/rag-architecture.md:27) | violated |

Each run has a question of its own: `resolution` is about who decides what and when,
and about drafts (two roles, escalating and high-impact proposals, two answers);
`resolution_live` about lock order and the approval chain; `analysis` and `pipeline`
about jobs that race, retry and die; `access` about admission; `evidence` about what
a run computes; `startup` about processes that prepare the database. Five runs record
where the code and a document disagree:

- *Frozen tickets.* A request reads an open ticket; another escalates it; the
  first one's UPDATE of `status` or `assigned_to_id` reopens or reassigns it.
- *Override.* A job loads the ticket and awaits its provider; a manager overrides
  the priority; the job completes and writes its own. What the code does keep is
  `LaterAnalysisKeepsOverride`: a job that reads the ticket after the override.
- *Rollback.* `_fail` rolls back and then reads the id of the instance the
  rollback expired; nothing is recorded and the analysis stays running.
- *Retry.* Two retries of a failed assessment leave two jobs, and both load it
  while it is queued. One completes it; the other sets it running again and fails,
  so it ends failed, with a recommendation. That recommendation is unique per
  assessment and no retry deletes it: no later run can complete.
- *Rewritten articles.* The second import of an edited article flushes its new chunk
  0 before it deletes the old one, and the unique index on document and chunk number
  refuses it: the import fails, each time it is tried.

`TriageApplied` excepts races of two retries: two jobs of one analysis can leave the
ticket without what the second one found, since the second writes only what differs
from its own old read. `EvidenceFits` says that the evidence of one service always fits
the 50 items a provider's input may have. Two services can give more: then the assessment
fails as a configuration error, at every retry. The run reaches that, and no property
forbids it, since no document promises otherwise. `CompletedByOneRun` and
`ProposalIsFinal` are what holds of concurrent retries; `FailedCanComplete`, in
`pipeline_retry`, is what does not.

### Bounds, and why they are enough

- Two handlers (two tasks in `analysis` and `pipeline`). Every property is
  violated, when a lock, an index or a check is dropped, by two requests: one
  between the other's check and its write. A waiting cycle has two members, since
  every waiting handler waits for the ticket or holds it. Three tasks of `pipeline` over
  one row of each kind were checked as well (54 thousand states); over two rows they
  take TLC too long, and the theorems of section 5 are for any number of both.
- `resolution`: `MaxResps = 2`, an active draft and a second. `resolution_live`:
  `MaxRecs = 2`, a latest row and an older one, with the order of commits opposite
  to the order of numbers.
- `MaxAnalyses = 2`: a finished or failed analysis beside a new one; `MaxRows = 2`: an
  assessed investigation and a new one, in either order. Rows can be retried without
  limit. `pipeline_retry` needs one row of each kind.
- Two priorities distinguish the human's from the analysis's. Text is reduced to
  its author ("ai", "human"), which tells an approved text from an edited one.
- `access`: three keys and a table of two, so that a check evicts; a batch of one, so
  that cleanup is partial; two clock readings a second, so that Retry-After must
  round; six readings, three windows of the short kind; a limit of one and one of two.
- `evidence`: a ticket for every branch of the planner, texts of each length class
  and a ticket without a location; a guide that matches the service, one that is
  weak and one of no service; an incident that names another service first. The cap,
  the threshold and the input bound are the program's own (10, 70, 50).
- `startup`: three articles, of which the releases share one, retire one and add one;
  a release whose dataset keeps its version but not its rows; one that the checks
  refuse; one that the evaluation refuses. Two importers and two loaders, one of each compose's:
  a race has two sides. Revisions 0 to 8 are all there are, and the rows at 0006
  are a ticket of each kind that 0007 treats differently.
- Symmetry is declared for handlers, tasks, requests and values in safety runs only.
- `CHECK_DEADLOCK FALSE` where the system may really stop: a ticket whose proposals
  are decided and whose rows are used up, investigations all assessed, tasks all
  lost, or a clock at its bound. `evidence` and `startup` check deadlock.

### Fairness

`Resolution!Fairness`: strong fairness of each handler's own steps and weak
fairness of the deadlock detector. PostgreSQL queues lock requests, so a step
enabled again and again is granted; the detector runs after `deadlock_timeout`.
Nobody is obliged to send a request. `Analysis!FairSpec`: weak fairness of each
task; the event loop runs every ready task and `asyncio.timeout` ends a provider
call. A lost job is excepted from `AnalysesEnd`: jobs are not durable
(docs/architecture.md:57); so is one that could not record its failure. `Deployment!Fairness`: strong fairness of what compose and
its own processes do, weak fairness of the operator's imports once begun. Compose
starts whatever is due, and a waiting INSERT is queued at the row it waits for, so an
operator who imports over and over does not hold compose's import for ever. Nothing
makes anyone call `up`, and processes may fail at any step; `StartupEnds` counts a
failed start as an end.

Each property of a passing run has a mutant in `PROJECT.json`: an operator next
to the one it replaces (comment "Mutant:") with a lock, an index, a check or a
write dropped, under which TLC finds the property violated.

## 4. Refinement

`HumanApproval` states the promise of docs/human-approval.md in four variables:
outcome, decisions, answers and what each answer rests on. `Resolution` maps its
rows to them (`Outcome`, `Decisions`, `Judgements`, `Bases`) and `ApprovalChain`
says every step of every handler is one of its steps or a stutter. It is checked
in `resolution_live` and proved in `ResolutionProofs`. A reopened ticket keeps
its outcome in this mapping (the terminal timestamps stay), so the check
constraint `ck_tickets_single_terminal_outcome` is what makes the outcome final.

## 5. Proofs

`ResolutionProofs`, for any handlers, roles, users and bounds allowed by
`ResolutionAssumption`. The properties alone are not inductive: a commit is safe
because the checks made under the locks still hold when it comes. The invariant

    IInv == TypeOK /\ LocksExclusive /\ LockedTicketOpen /\ ChecksHold
              /\ BasisDecided /\ SingleOutcome

adds: no two handlers hold a row (`LocksExclusive`); a handler past its ticket
check holds an open ticket (`LockedTicketOpen`); what a handler checked of the
rows it has locked is still so (`ChecksHold`); the recommendation behind every
response has been decided (`BasisDecided`); not both outcomes (`SingleOutcome`).
The lemmas follow the same line: a lock is taken only when free (`LocksTakenFree`),
so others' rows do not change under them (`OthersStay`, `RecChanges`,
`RespChanges`, `TicketChanges`), so their checks hold (`OthersChecksHold`).
`Invariance` combines them; the theorems of section 3's safety properties and
`ApprovalChainImplemented` follow from it, one step per action. For
`CompletionNeedsOutcome` the invariant carries, in addition, what each completed
recommendation rests on (`AllEarned`): an approved response stays one, and the timestamp
of an outcome stays.

`AnalysisProofs`, for any tasks and values: `TypeCorrect`, `OneActiveAnalysis`
(the index refuses every commit that would add an active row, `AnalysisChanges`
lists those commits), `NoOtherOrphans` and `OverrideRespectedOnceRead`. `NoOtherOrphans`
rests on two more facts: a job past its load holds what was queued (`LoadedQueued`), and
an active row is attended by a task, at work, lost or unable to record its failure
(`Attended`), which every commit hands on. None assumes anything of failures or retries;
whatever `Earlier` is, they hold.

`PipelineProofs`, for any tasks and any number of rows, and any retries at once: no
theorem assumes anything about the environment. `RowChanges` lists what a step may do to
a row, and `RowsStay` says that it leaves the others alone. From it follow `OneActiveRun`
(the index refuses the commits that would add an active row), `InvestigationAssessedOnce`
(only an insert sets a basis), `CompletedRowsOfOneRun` (only a job's commit completes a
row, and it refuses to where anything is stored) and, with `AbsentRowsEmpty`,
`RecommendationsFinal` (no retry deletes a recommendation, and a row that has one takes
no other). `ActiveRowsHaveJobs` needs the invariant `Attended`: every active row has a
task that attends it (`Attends`), where one that has not looked at the row yet counts
only while it is queued. A task that makes a row active attends it, and one that attends
a row does so until the row is no longer active or the task is lost or cannot record a
timeout (`OwnRow`); the index keeps others' rows from becoming active meanwhile.

`TriageReachesTicket` excepts races of two retries, as `TriageApplied` does, and its
invariant is conditional in the same way: unless `raced`, at most one retry and one
job are under way and what they loaded of the row is current (`Exclusive`); and
until a human overrides the priority, what a job read of the ticket is still true of
the columns it decides on (`SeenFresh`), so writing only what differs loses nothing.

`RateLimiterProofs`, for any keys, limits, widths, batches and table sizes. A key
gets less than twice its limit because its admissions are counted in two parts
(`Counted`): those of the open window, at most its count, and those left from before
it, less than the limit, since the one that opened the window before is as old as a
window is wide. A window that cleanup forgets had ended, so nothing is lost with it;
one that an eviction or a restart forgets early begins the key's history anew, which
is the exception that `Throttled` names. `Listed` is about the table: places are
distinct and leave no gap, so that dropping the oldest makes room (`RoomLeft`).

`AccessProofs`, for any clients and users. `UsesLimiter` is the composition: every
step of requests, restarts and time is a step of `LimiterSpec` or leaves the limiter
alone, so `RequestsThrottled`, `TableIsBounded` and `RetryAfterIsHonest` follow from
the limiter's theorems. `LogoutIsFinal` ties a request to the session that it looked
up.

`EvidenceProofs`, for any tickets and any numbers and kinds of articles and earlier
tickets. `ConfidenceAgrees`: a score of 68 takes the points of agreement, whatever
the rest; the deployed threshold is 70. `PlansComplete` and `PlanNeverCut` write the
plan out for one and for two services (`AllSeven`, `AllTen`) and need a cap of ten.
`AlwaysEscalatedUnlessAgreed` follows by the invariant `Judgement`, that a completed
assessment was judged by its own score. `AlwaysAccounted` rests on `Invariance`:
results answer the plan step by step (`RunInv`), and an assessment has the evidence
of the stored steps (`FoundInv`). An item that `collect_evidence` passes over as
already there is in it from the first step with its source (`SourceKept`, by a least
index), and no two items there share a source (`SourceOnce`). `EvidenceAlwaysFits`
counts them: different items have different places among the caps (`PlacedOnce`), and
the places about one service are 43 (one fact, the nearest reading that the status tool
reports, and the other tools' caps). So nothing of one service is refused for its size
(`Unrefused`). Its hypotheses, `MaxTools >= 10` and `MaxInput >= 43`, are met by the
program's 10 and 50.

`DeploymentProofs`, for any releases, articles, importers, loaders, and a database
of any earlier revision. `KnowledgeWhole` needs to know what an importer's
transaction has of its corpus (`ImportInv`): every article is still to be done,
written, or as it should be; what it wrote nobody stores or writes beside it
(`Apart`); once it has retired, nothing else active is outside the corpus. A commit
then leaves exactly the release (`CommitOfRelease`) and takes from no other importer
what it relies on (`CommitKeeps`). `DataWhole`: a loader in its transaction loads the
valid corpus of the working tree (`DatasetInv`). `ReadyBackend` adds `StartInv`, what
each service that ended well has left: while the release's articles are stored, an
import beside the evaluation changes nothing that a search reads (`TextsKept`).

`MigrationProofs` starts from any rows that the schema can hold (`SpecAnyRows`), of
which the ones TLC starts with are some (`RowsAreSome`). A revision's statements are
run by a recursive function over their list; `RunThrough` takes a database from one
set of databases to the next, statement by statement. A revision creates its objects
each after what it refers to (`Adding`) and drops them in the opposite order, so no
statement is refused on the way up (`CreateAll`) or down (`DropAll`), and what is
left is again closed under references (`AddedClosed`). One lemma per revision says
so of its objects. 0007 also rewrites rows: those that its schema can hold
(`Possible`) are given outcomes (`Recorded`), then recommendations (`Backfilled`),
and its new checks accept them. The invariant `DeploymentInv` is that of
`DeploymentProofs` with `database \in AtRevision(revision)`. From it follow
`TypeCorrect`, `OutcomesBackfilledFromAnyRows` and, since the last schema is the one
`models/` declare (`HeadDeclared`), `SchemaFromAnyRows`.

Assumed beyond that: the `...Assumption` of each module (bounds are naturals, earlier
analyses have a status that can be retried, the null values are outside the sets they complete, the
sources of evidence name their kind). TLC evaluates each in the runs of its module.

## 6. Only model-checked

Every safety property of a passing run has a theorem. What has none:

- `RequestsEnd`, `AnalysesEnd`, `StartupEnds`: liveness under fairness is out of the
  prover's reach, and with it that every waiting request is granted its lock in the
  end or made a deadlock's victim.
- Absence of deadlock in `evidence` and `startup`: it is about ENABLED.
- The five disagreements of section 3: TLC finds the behaviour that shows each.

## 7. Not modelled, and why

Texts, reasons, timestamps other than by order; event and audit rows (written by the
commit they record); the free-text fields of a ticket update. Also:

- *Triage policy* (`ai/policy.py`): a scoring of words into a priority with no state;
  `Analysis` takes any priority.
- *Vector search, query expansion, chunking, re-ranking* (`rag/`): arithmetic over
  floats and texts; `Evidence` takes any result of a search, `Knowledge` any chunks.
- *SQL windows and filters of the tools*: a tool's outcomes are the set of results
  that those queries can give.
- *Hosted providers*: any answer, error or timeout.
- *Evaluation metrics*, the demo-data generators and their validator
  (`scripts/`): offline and sequential; `Datasets` models the checks that the import
  itself makes.
- *Dashboards, admin, health, configuration*: read-only.
- *The frontend*: polls the API and keeps no state of record.
- *The composition of the workflow*: `Analysis`, `Pipeline` and `Resolution` share rows
  of one ticket, but a commit of one is an environment step of the next, which the
  later module lets happen at any time (a completed analysis is there, an assessment
  completes). What is lost is a completed assessment that two concurrent retries put
  back to queued or failed (`pipeline_retry`) while a human decides on its proposal.

## 8. Plan

What would add most next:

1. A module that composes `Pipeline` and `Resolution` through the assessment row, for
   the case the last item of section 7 names.
2. Laws of `ai/policy.py` and of re-ranking that need no floats: monotonicity of the
   priority in its factors, stability of the order.
