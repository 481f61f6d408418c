------------------------------ MODULE Analysis ------------------------------
(***************************************************************************)
(* AI triage of one ticket: services/analyses.py with the priority override*)
(* of services/tickets.py, by concurrent HTTP requests and the background  *)
(* jobs they leave behind in the API process.                              *)
(*                                                                         *)
(* A task is one request and, when it queues an analysis, the job FastAPI  *)
(* runs after its response.  Every commit is a step, and so is every read  *)
(* that is separated from its commit by an await.  A refresh that follows  *)
(* a commit is part of the next step; a read whose commit follows with     *)
(* only the database between them is part of that commit.                  *)
(*                                                                         *)
(* A commit writes the columns that differ from the values loaded before,  *)
(* not the row: see Written.                                               *)
(*                                                                         *)
(* No job of this program leaves a failed analysis (see JobFail).  Those   *)
(* that retry() is for were marked by others before: see Earlier.          *)
(*                                                                         *)
(* Left out: texts, confidences, entities, durations, event and audit rows.*)
(* The ticket's status plays no part in any of these operations.           *)
(***************************************************************************)
EXTENDS Enums

CONSTANTS
  Tasks,            \* requests, with their jobs, in flight at one time
  Priorities,       \* priorities an analysis or a human chooses from
  Categories,       \* categories an analysis chooses from
  NoValue,          \* a column that is NULL
  Earlier,          \* statuses in which analyses of the ticket were left before
  MaxAnalyses       \* bound: analyses the ticket ever gets

ASSUME AnalysisAssumption ==
  /\ MaxAnalyses \in Nat
  /\ Earlier \subseteq RetryStatus
  /\ NoValue \notin Priorities \cup Categories

Analyses == 1..MaxAnalyses

VARIABLES ticket,    \* the triage columns of the tickets row
          analysis,  \* the ai_analyses rows of the ticket
          task,      \* what each request and its job have done so far
          raced      \* history: were two retries ever in flight at once?

vars == <<ticket, analysis, task, raced>>

---------------------------------------------------------------------------
(* Rows *)

NoTicket   == [priority |-> NoValue, category |-> NoValue,
               overridden |-> FALSE]
NoAnalysis == [status |-> "absent", priority |-> NoValue,
               category |-> NoValue]
Left(status) == [NoAnalysis EXCEPT !.status = status]
Queued     == Left("queued")
Idle       == [pc |-> "idle", analysis |-> 0,
               row |-> NoAnalysis, ticket |-> NoTicket]

Absent == {a \in Analyses : analysis[a].status = "absent"}
Active == {a \in Analyses : analysis[a].status \in ActiveStatus}

\* SQLAlchemy's unit of work: an UPDATE names the columns whose new value
\* differs from the one loaded.
Written(current, loaded, new) ==
  [f \in DOMAIN current |-> IF new[f] = loaded[f] THEN current[f] ELSE new[f]]

\* Mutant: no unique index on active analyses.
NoActiveIndex(a, row) == FALSE

\* uq_ai_analyses_active_ticket refuses row as the new version of analysis a.
Refused(a, row) == row.status \in ActiveStatus /\ Active \ {a} # {}

---------------------------------------------------------------------------
(* A task's progress *)

At(t, pc)   == task[t].pc = pc
Goto(t, pc) == task' = [task EXCEPT ![t].pc = pc]
Finish(t)   == task' = [task EXCEPT ![t] = Idle]

\* Mutant: the job is not told which analysis to run.
ScheduleAny(t, a) == Goto(t, "scheduled")

\* A task's request has been accepted: its job works on analysis a.
Schedule(t, a) ==
  task' = [task EXCEPT ![t] = [Idle EXCEPT !.pc = "scheduled", !.analysis = a]]

---------------------------------------------------------------------------
(* AnalysisService.request *)

RequestCheck(t) ==
  /\ At(t, "idle")
  /\ Active = {}
  /\ Goto(t, "requesting")
  /\ UNCHANGED <<ticket, analysis>>

\* Mutant: the request queues an analysis and starts no job for it.
RequestQueuesOnly(t) ==
  /\ At(t, "requesting")
  /\ \/ \E a \in Absent :
          /\ \A b \in Absent : a <= b
          /\ ~ Refused(a, Queued)
          /\ analysis' = [analysis EXCEPT ![a] = Queued]
     \/ /\ Refused(0, Queued) \/ Absent = {}
        /\ UNCHANGED analysis
  /\ Finish(t)
  /\ UNCHANGED ticket

\* Rows are numbered in the order they are committed.
RequestCommit(t) ==
  /\ At(t, "requesting")
  /\ \/ \E a \in Absent :
          /\ \A b \in Absent : a <= b
          /\ ~ Refused(a, Queued)
          /\ analysis' = [analysis EXCEPT ![a] = Queued]
          /\ Schedule(t, a)
     \/ /\ Refused(0, Queued) \/ Absent = {}
        /\ Finish(t)
        /\ UNCHANGED analysis
  /\ UNCHANGED ticket

---------------------------------------------------------------------------
(* AnalysisService.retry: the analysis is read without a lock. *)

RetryCheck(t, a) ==
  /\ At(t, "idle")
  /\ analysis[a].status \in RetryStatus
  /\ Active = {}
  /\ task' = [task EXCEPT ![t].pc = "retrying", ![t].analysis = a,
                          ![t].row = analysis[a]]
  /\ raced' = (raced \/ \E u \in Tasks : At(u, "retrying"))
  /\ UNCHANGED <<ticket, analysis>>

\* Mutant: the retry queues the analysis and starts no job for it.
RetryQueuesOnly(t) ==
  /\ At(t, "retrying")
  /\ LET a   == task[t].analysis
         row == Written(analysis[a], task[t].row, Queued)
     IN  analysis' = IF Refused(a, row)
                       THEN analysis ELSE [analysis EXCEPT ![a] = row]
  /\ Finish(t)
  /\ UNCHANGED ticket

RetryCommit(t) ==
  /\ At(t, "retrying")
  /\ LET a   == task[t].analysis
         row == Written(analysis[a], task[t].row, Queued)
     IN  IF Refused(a, row)
           THEN Finish(t) /\ UNCHANGED analysis
           ELSE /\ analysis' = [analysis EXCEPT ![a] = row]
                /\ Schedule(t, a)
  /\ UNCHANGED ticket

---------------------------------------------------------------------------
(* AnalysisService.execute, in a session of its own *)

JobLoad(t) ==
  /\ At(t, "scheduled")
  /\ LET row == analysis[task[t].analysis]
     IN  IF row.status = "queued"
           THEN task' = [task EXCEPT ![t].pc = "loaded", ![t].row = row]
           ELSE Finish(t)
  /\ UNCHANGED <<ticket, analysis>>

\* The commit of RUNNING is outside the try: a conflict ends the job.
JobStart(t) ==
  /\ At(t, "loaded")
  /\ LET a   == task[t].analysis
         row == Written(analysis[a], task[t].row,
                        [task[t].row EXCEPT !.status = "running"])
     IN  IF Refused(a, row)
           THEN Finish(t) /\ UNCHANGED analysis
           ELSE /\ analysis' = [analysis EXCEPT ![a] = row]
                /\ Goto(t, "running")
  /\ UNCHANGED ticket

\* The refresh, and the ticket as the provider gets it.
JobRead(t) ==
  /\ At(t, "running")
  /\ task' = [task EXCEPT ![t] = [pc |-> "calling",
                                  analysis |-> task[t].analysis,
                                  row |-> analysis[task[t].analysis],
                                  ticket |-> ticket]]
  /\ UNCHANGED <<ticket, analysis>>

\* Mutant: of a ticket with an override, nothing is written.
TriagedUnlessOverridden(seen, priority, category) ==
  IF seen.overridden THEN seen
  ELSE [seen EXCEPT !.category = category, !.priority = priority]

\* Mutant: an override is not looked at.
TriagedAlways(seen, priority, category) ==
  [seen EXCEPT !.category = category, !.priority = priority]

\* The ticket after triage, as the job sees it.
Triaged(seen, priority, category) ==
  [seen EXCEPT !.category = category,
               !.priority = IF seen.overridden THEN @ ELSE priority]

JobComplete(t) ==
  /\ At(t, "calling")
  /\ \E priority \in Priorities, category \in Categories :
       LET a    == task[t].analysis
           seen == task[t].ticket
           new  == [status |-> "completed", priority |-> priority,
                    category |-> category]
       IN  /\ analysis' = [analysis EXCEPT
                             ![a] = Written(@, task[t].row, new)]
           /\ ticket' = Written(ticket, seen, Triaged(seen, priority, category))
  /\ Finish(t)

\* A timeout, an unavailable provider, an invalid answer, or any other error.
\* _fail rolls the session back, which expires every instance it has loaded,
\* and then reads analysis.id outside an awaited load: that read raises, the
\* job ends, and nothing is recorded.
JobFail(t) ==
  /\ At(t, "calling")
  /\ Goto(t, "unrecorded")
  /\ UNCHANGED <<ticket, analysis>>

---------------------------------------------------------------------------
(* TicketService.override_priority *)

OverrideRead(t) ==
  /\ At(t, "idle")
  /\ task' = [task EXCEPT ![t].pc = "overriding", ![t].ticket = ticket]
  /\ UNCHANGED <<ticket, analysis>>

OverrideCommit(t) ==
  /\ At(t, "overriding")
  /\ \E priority \in Priorities :
       LET seen == task[t].ticket
       IN  ticket' = Written(ticket, seen,
                             [seen EXCEPT !.priority = priority,
                                          !.overridden = TRUE])
  /\ Finish(t)
  /\ UNCHANGED analysis

---------------------------------------------------------------------------
(* The process ends, or the database fails, before the next commit: a      *)
(* request is rolled back; a job is gone for good and leaves its row as it *)
(* is.                                                                     *)

JobPCs == {"scheduled", "loaded", "running", "calling"}

Lost(t) ==
  /\ task[t].pc \notin {"idle", "lost", "unrecorded"}
  /\ IF task[t].pc \in JobPCs THEN Goto(t, "lost") ELSE Finish(t)
  /\ UNCHANGED <<ticket, analysis, raced>>

---------------------------------------------------------------------------

Init ==
  /\ ticket = NoTicket
  /\ analysis \in [Analyses -> {NoAnalysis} \cup {Left(s) : s \in Earlier}]
  /\ \A a \in Analyses \ Absent, b \in Absent : a < b
  /\ task = [t \in Tasks |-> Idle]
  /\ raced = FALSE

Start(t) ==
  \/ \E a \in Analyses : RetryCheck(t, a)
  \/ /\ RequestCheck(t) \/ OverrideRead(t)
     /\ UNCHANGED raced

Continue(t) ==
  /\ \/ RequestCommit(t) \/ RetryCommit(t) \/ OverrideCommit(t)
     \/ JobLoad(t) \/ JobStart(t) \/ JobRead(t) \/ JobComplete(t) \/ JobFail(t)
  /\ UNCHANGED raced

Next ==
  \E t \in Tasks : Start(t) \/ Continue(t) \/ Lost(t)

Spec == Init /\ [][Next]_vars

\* The event loop runs every task that is ready, and the provider call ends
\* with an answer, an error or the timeout of ai_timeout_seconds.
FairSpec == Spec /\ \A t \in Tasks : WF_vars(Continue(t))

---------------------------------------------------------------------------
(* Properties *)

TicketRow   == [priority: Priorities \cup {NoValue},
                category: Categories \cup {NoValue}, overridden: BOOLEAN]
AnalysisRow == [status: JobStatus \cup {"absent"},
                priority: Priorities \cup {NoValue},
                category: Categories \cup {NoValue}]

\* The rows and the tasks have the shape the code gives them; a retry that has
\* got past its check, and every job, works on an analysis that exists.
TypeOK ==
  /\ ticket \in TicketRow
  /\ analysis \in [Analyses -> AnalysisRow]
  /\ task \in [Tasks -> [pc: {"idle", "requesting", "retrying", "scheduled",
                              "loaded", "running", "calling", "overriding",
                              "lost", "unrecorded"},
                         analysis: 0..MaxAnalyses,
                         row: AnalysisRow, ticket: TicketRow]]
  /\ raced \in BOOLEAN
  /\ \A t \in Tasks :
       task[t].pc \in {"retrying", "lost", "unrecorded"} \cup JobPCs
       => task[t].analysis \in Analyses \ Absent

\* Whatever requests, retries and duplicate jobs interleave, at most one
\* analysis of the ticket is queued or running.
OneActive == \A a, b \in Active : a = b

WorksOn(t, a) == task[t].pc \in JobPCs /\ task[t].analysis = a
LostOn(t, a)  == At(t, "lost") /\ task[t].analysis = a
FailedOn(t, a) == At(t, "unrecorded") /\ task[t].analysis = a

\* An analysis that is queued or running has a job at work, or had one that was
\* lost with the process or could not record its failure.  Nothing else leaves
\* a row behind that blocks every later request and retry: no stale write, no
\* refused commit, and no job that finds its analysis in another's hands.
OrphanedByFailure ==
  \A a \in Active :
    \E t \in Tasks : WorksOn(t, a) \/ LostOn(t, a) \/ FailedOn(t, a)

\* The services retain completed, failed and timed-out states
\* (docs/ai-design.md:48): an analysis that is queued or running has a job that
\* will finish it, or had one that was lost with the process.  The code does
\* not keep this.
NoOrphan == \A a \in Active : \E t \in Tasks : WorksOn(t, a) \/ LostOn(t, a)

\* A priority a human chose is changed by a human, or by an analysis that had
\* read the ticket before the human chose it: one that reads it later keeps
\* the override.
LaterAnalysisKeepsOverride ==
  [][ ticket.overridden /\ ticket'.priority # ticket.priority =>
        \E t \in Tasks :
          /\ \/ At(t, "overriding")
             \/ At(t, "calling") /\ ~ task[t].ticket.overridden
          /\ task'[t] = Idle ]_vars

\* A human override prevents later analysis from overwriting the chosen
\* priority (docs/ai-design.md:40).  The code does not keep this: the job
\* decides on the ticket as it was before the provider was awaited.
OverrideWins ==
  [][ ticket.overridden /\ ticket'.priority # ticket.priority =>
        \E t \in Tasks : At(t, "overriding") /\ task'[t] = Idle ]_vars

\* Unless two retries were ever in flight at once: when an analysis completes,
\* the ticket carries what it found, or the priority a human has set.  Although
\* the job writes only what differs from a ticket it read long before, nothing
\* it found is dropped.
TriageApplied ==
  [][ \A a \in Analyses :
        /\ ~ raced
        /\ analysis[a].status # "completed" /\ analysis'[a].status = "completed"
        => /\ ticket'.category = analysis'[a].category
           /\ ticket'.overridden \/ ticket'.priority = analysis'[a].priority
    ]_vars

\* A queued analysis comes to an end, unless its job is lost with the process
\* or cannot record its failure: nothing else ever finishes it
\* (docs/architecture.md:57).
AnalysesEnd ==
  \A a \in Analyses :
    (a \in Active)
      ~> (a \notin Active \/ \E t \in Tasks : LostOn(t, a) \/ FailedOn(t, a))
=============================================================================
