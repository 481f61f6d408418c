------------------------------ MODULE Pipeline ------------------------------
(***************************************************************************)
(* Evidence and inference for one ticket: services/investigations.py and   *)
(* services/assessments.py, by concurrent HTTP requests and the background *)
(* jobs they leave behind in the API process.                              *)
(*                                                                         *)
(* Both services queue a row, run it in a job and let a failed row be      *)
(* retried, in the same way; "kind" tells them apart where they differ.  A *)
(* task is one request and the job that runs after its response.  Every    *)
(* commit is a step, and so is every read that is separated from its commit*)
(* by an await of something else than the database.                        *)
(*                                                                         *)
(* Every write of a status follows a load of another status, so what the   *)
(* unit of work leaves out (see Analysis) never matters here; the refresh  *)
(* that follows a commit is taken as part of it.  Row numbers are in the   *)
(* order of created_at, the time the inserting transaction began: an insert*)
(* may draw any free number, which allows every order of those times.      *)
(*                                                                         *)
(* Left out: the plan, the tools' results and the inference, durations,    *)
(* event and audit rows.  The ticket has a completed analysis, which it    *)
(* keeps; its status plays no part in any of these operations.             *)
(***************************************************************************)
EXTENDS Enums

CONSTANTS
  Tasks,           \* requests, with their jobs, in flight at one time
  MaxRows          \* bound: rows of each kind the ticket ever gets

ASSUME PipelineAssumption == MaxRows \in Nat

Kinds == {"investigation", "assessment"}
Ids   == 1..MaxRows

VARIABLES row,   \* the investigations and root_cause_assessments rows
          task   \* what each request and its job have done so far

vars == <<row, task>>

---------------------------------------------------------------------------
(* Rows *)

\* The rows a completed job inserts: investigation_steps (the planning step
\* and one per tool), or assessment_evidence and the recommendation.  A part of
\* a row's output is one of these with the task whose run inserted it.
Output == [investigation |-> {"planning", "tools"},
           assessment    |-> {"evidence", "recommendation"}]
Parts(k)  == Output[k] \X Tasks

\* Mutant: a retry also deletes the recommendation.
ErasedAll == Parts("investigation") \cup Parts("assessment")

\* A retry deletes steps and evidence, and never a recommendation.
Erased == {"planning", "tools", "evidence"} \X Tasks

NoRow == [status |-> "absent", basis |-> 0, output |-> {}]
Idle  == [pc |-> "idle", kind |-> "investigation", id |-> 0, basis |-> 0,
          loaded |-> {}]

InStatus(k, statuses) == {n \in Ids : row[k][n].status \in statuses}
Absent(k)    == InStatus(k, {"absent"})
Active(k)    == InStatus(k, ActiveStatus)
Completed(k) == InStatus(k, {"completed"})

\* Mutant: no unique index on active rows.
NoActiveIndex(k, n) == FALSE

\* uq_investigations_active_ticket, uq_root_cause_assessments_active_ticket:
\* row n may not be active beside another active row.
Refused(k, n) == Active(k) \ {n} # {}

\* Mutant: neither check nor unique index.
NeverAssessed(i) == FALSE

\* for_investigation, uq_root_cause_assessments_investigation.
Assessed(i) ==
  \E a \in Ids \ Absent("assessment") : row["assessment"][a].basis = i

---------------------------------------------------------------------------
(* A task's progress *)

At(t, pc)   == task[t].pc = pc
Goto(t, pc) == task' = [task EXCEPT ![t].pc = pc]
Finish(t)   == task' = [task EXCEPT ![t] = Idle]

\* Mutant: the job is not told which row to run.
JobOfAny(k, n) == [Idle EXCEPT !.pc = "scheduled", !.kind = k]

\* A request has been accepted: its task's job works on row n.
Job(k, n) == [Idle EXCEPT !.pc = "scheduled", !.kind = k, !.id = n]

\* The commit of a new version of the task's row.
Store(t, new) == row' = [row EXCEPT ![task[t].kind][task[t].id] = new]

Mine(t) == row[task[t].kind][task[t].id]

---------------------------------------------------------------------------
(* request *)

RequestInvestigation(t) ==
  /\ At(t, "idle")
  /\ Active("investigation") = {}
  /\ Goto(t, "requesting")
  /\ UNCHANGED row

RequestAssessment(t) ==
  /\ At(t, "idle")
  /\ Active("assessment") = {}
  /\ \E i \in Completed("investigation") :
       /\ \A j \in Completed("investigation") : j <= i
       /\ ~ Assessed(i)
       /\ task' = [task EXCEPT ![t].pc = "requesting",
                               ![t].kind = "assessment", ![t].basis = i]
  /\ UNCHANGED row

RequestCommit(t) ==
  /\ At(t, "requesting")
  /\ LET k       == task[t].kind
         refused == \/ Refused(k, 0)
                    \/ k = "assessment" /\ Assessed(task[t].basis)
     IN  \/ /\ ~ refused
            /\ \E n \in Absent(k) :
                 /\ row' = [row EXCEPT ![k][n] = [NoRow EXCEPT
                              !.status = "queued", !.basis = task[t].basis]]
                 /\ task' = [task EXCEPT ![t] = Job(k, n)]
         \/ /\ refused \/ Absent(k) = {}
            /\ Finish(t)
            /\ UNCHANGED row

---------------------------------------------------------------------------
(* retry: the row is read, with its steps or evidence, without a lock. *)

Retriable(k, n) == row[k][n].status \in RetryStatus

RetryCheck(t, k, n) ==
  /\ At(t, "idle")
  /\ Retriable(k, n)
  /\ Active(k) = {}
  /\ task' = [task EXCEPT ![t] = [pc |-> "retrying", kind |-> k, id |-> n,
                                  basis |-> 0,
                                  loaded |-> row[k][n].output \cap Erased]]
  /\ UNCHANGED row

\* The parts deleted are gone for every other retry that has read them.
RetryCommit(t) ==
  /\ At(t, "retrying")
  /\ LET k       == task[t].kind
         n       == task[t].id
         Rest(u) == IF task[u].kind = k /\ task[u].id = n
                      THEN [task[u] EXCEPT !.loaded = @ \ task[t].loaded]
                      ELSE task[u]
     IN  IF Refused(k, n)
           THEN Finish(t) /\ UNCHANGED row
           ELSE /\ Store(t, [Mine(t) EXCEPT !.status = "queued",
                                            !.output = @ \ task[t].loaded])
                /\ task' = [u \in Tasks |->
                              IF u = t THEN Job(k, n) ELSE Rest(u)]

---------------------------------------------------------------------------
(* execute, in a session of its own *)

JobLoad(t) ==
  /\ At(t, "scheduled")
  /\ IF Mine(t).status = "queued" THEN Goto(t, "loaded") ELSE Finish(t)
  /\ UNCHANGED row

\* The commit of RUNNING is outside the try: a conflict ends the job.
JobStart(t) ==
  /\ At(t, "loaded")
  /\ IF Refused(task[t].kind, task[t].id)
       THEN Finish(t) /\ UNCHANGED row
       ELSE /\ Store(t, [Mine(t) EXCEPT !.status = "running"])
            /\ Goto(t, "running")

\* Mutant: no unique index on steps, evidence and recommendations.
CompleteAnyway(t) ==
  /\ At(t, "running")
  /\ Store(t, [Mine(t) EXCEPT !.status = "completed",
                              !.output = @ \cup Output[task[t].kind] \X {t}])
  /\ Finish(t)

\* The tools ran, or the provider answered.  The unique indexes refuse the
\* commit beside what another run has inserted; that is one of JobFail's errors.
JobComplete(t) ==
  /\ At(t, "running")
  /\ Mine(t).output = {}
  /\ Store(t, [Mine(t) EXCEPT !.status = "completed",
                              !.output = Output[task[t].kind] \X {t}])
  /\ Finish(t)

\* Mutant: an error ends the job.
ErrorEndsJob(t) ==
  /\ At(t, "running")
  /\ Finish(t)
  /\ UNCHANGED row

\* Any error, a refused commit among them: rolled back, the row is read again
\* and marked.  So is an assessment whose provider took too long; no guard tells
\* its status, timed_out, from failed.
JobFail(t) ==
  /\ At(t, "running")
  /\ Store(t, [Mine(t) EXCEPT !.status = "failed"])
  /\ Finish(t)

\* The tools took too long.  The handler adds a planning step and commits on
\* the session the tools used, without a rollback.  When the timeout cancelled
\* one of their queries, or when the step is there already, that commit fails,
\* the job ends, and nothing is recorded.
InvestigationTimeout(t) ==
  /\ At(t, "running")
  /\ task[t].kind = "investigation"
  /\ \/ /\ Mine(t).output = {}
        /\ Store(t, [Mine(t) EXCEPT !.status = "timed_out",
                                    !.output = {"planning"} \X {t}])
        /\ Finish(t)
     \/ Goto(t, "unrecorded") /\ UNCHANGED row

\* The process ends, or the database fails, before the next commit: a request
\* is rolled back; a job is gone for good and leaves its row as it is.
WorkPCs == {"scheduled", "loaded", "running"}

Lost(t) ==
  /\ task[t].pc \notin {"idle", "lost", "unrecorded"}
  /\ IF task[t].pc \in WorkPCs THEN Goto(t, "lost") ELSE Finish(t)
  /\ UNCHANGED row

---------------------------------------------------------------------------

Init ==
  /\ row = [k \in Kinds |-> [n \in Ids |-> NoRow]]
  /\ task = [t \in Tasks |-> Idle]

Start(t) ==
  \/ RequestInvestigation(t) \/ RequestAssessment(t)
  \/ \E k \in Kinds, n \in Ids : RetryCheck(t, k, n)

Continue(t) ==
  \/ RequestCommit(t) \/ RetryCommit(t)
  \/ JobLoad(t) \/ JobStart(t) \/ JobComplete(t)
  \/ JobFail(t) \/ InvestigationTimeout(t)

Next == \E t \in Tasks : Start(t) \/ Continue(t) \/ Lost(t)

Spec == Init /\ [][Next]_vars

---------------------------------------------------------------------------
(* Properties *)

JobRow(k) == [status: JobStatus \cup {"absent"}, basis: 0..MaxRows,
              output: SUBSET Parts(k)]

JobPCs == {"retrying"} \cup WorkPCs

\* The rows and the tasks have the shape the code gives them, and a retry past
\* its check and every job work on a row that exists.
TypeOK ==
  /\ row \in [Kinds -> [Ids -> JobRow("investigation") \cup JobRow("assessment")]]
  /\ \A k \in Kinds, n \in Ids : row[k][n] \in JobRow(k)
  /\ task \in [Tasks -> [pc: {"idle", "requesting", "lost", "unrecorded"}
                               \cup JobPCs,
                         kind: Kinds,
                         id: 0..MaxRows, basis: 0..MaxRows,
                         loaded: SUBSET Erased]]
  /\ \A t \in Tasks :
       task[t].pc \in JobPCs => task[t].id \in Ids \ Absent(task[t].kind)

\* Whatever requests, retries and duplicate jobs interleave, at most one
\* investigation and at most one assessment of the ticket is active.
OneActive == \A k \in Kinds : \A m, n \in Active(k) : m = n

\* No investigation is assessed twice, although request() looks for another
\* assessment of it long before it inserts its own.
AssessedOnce ==
  \A a, b \in Ids \ Absent("assessment") :
    row["assessment"][a].basis = row["assessment"][b].basis => a = b

\* What a completed row has gathered is all there and comes from one run.  A
\* retry deletes what it read at its check, so that steps or evidence of an
\* earlier run, or of another job of the same row, may still be there when a
\* job commits its own.
CompletedByOneRun ==
  \A k \in Kinds : \A n \in Completed(k) :
    \E t \in Tasks : row[k][n].output = Output[k] \X {t}

Proposals(a) ==
  {p \in row["assessment"][a].output : p[1] = "recommendation"}

\* Humans decide on the recommendation of an assessment
\* (docs/human-approval.md:20): whatever retries and jobs do to the assessment
\* afterwards, it stays the same one and the only one.
ProposalIsFinal ==
  [][ \A a \in Ids : Proposals(a) # {} => Proposals(a)' = Proposals(a) ]_vars

HasJob(t, k, n) == task[t].pc \in WorkPCs /\ task[t].kind = k /\ task[t].id = n
GoneFrom(t, k, n) == At(t, "lost") /\ task[t].kind = k /\ task[t].id = n
TimedOutOn(t, n)  == At(t, "unrecorded") /\ task[t].id = n

\* An active row has a job at work, or had one that was lost with the process;
\* an investigation may also have had one that could not record its timeout.
\* Nothing else leaves a row behind that blocks every later request: no stale
\* retry, no refused commit, no job that finds its row in another's hands.
\* docs/investigation-workflow.md:78 says that timed-out runs are recorded;
\* the code keeps that only for a timeout that cancels no query.
OrphanedByTimeout ==
  \A k \in Kinds : \A n \in Active(k) :
    \E t \in Tasks :
      \/ HasJob(t, k, n)
      \/ GoneFrom(t, k, n)
      \/ k = "investigation" /\ TimedOutOn(t, n)

\* A failed assessment can be retried, that is, nothing is left of it that
\* would keep a later run from completing (docs/root-cause-analysis.md:98).
\* With two retries at once the code does not keep this.
FailedCanComplete ==
  \A a \in InStatus("assessment", RetryStatus) : Proposals(a) = {}
=============================================================================
