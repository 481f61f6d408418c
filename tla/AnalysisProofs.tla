--------------------------- MODULE AnalysisProofs ---------------------------
(***************************************************************************)
(* Proofs about Analysis, for any number of tasks and analyses and for     *)
(* every behaviour of the environment.                                     *)
(***************************************************************************)
EXTENDS Analysis, TLAPS

---------------------------------------------------------------------------
(* The unit of work *)

\* Writing the changed columns of a ticket keeps its shape, and leaves alone a
\* column that is not changed.
LEMMA WrittenTicket ==
  ASSUME NEW current \in TicketRow, NEW loaded \in TicketRow,
         NEW new \in TicketRow
  PROVE  /\ Written(current, loaded, new) \in TicketRow
         /\ new.priority = loaded.priority =>
              Written(current, loaded, new).priority = current.priority
<1> DEFINE w == Written(current, loaded, new)
<1>1. w = [priority |-> IF new.priority = loaded.priority
                          THEN current.priority ELSE new.priority,
           category |-> IF new.category = loaded.category
                          THEN current.category ELSE new.category,
           overridden |-> IF new.overridden = loaded.overridden
                            THEN current.overridden ELSE new.overridden]
  BY DEF Written, TicketRow
<1> HIDE DEF w
<1>2. QED BY <1>1 DEF TicketRow, w

\* Writing the changed columns of an analysis keeps its shape; its status is
\* the new one or the one it has.
LEMMA WrittenAnalysis ==
  ASSUME NEW current \in AnalysisRow, NEW loaded \in AnalysisRow,
         NEW new \in AnalysisRow
  PROVE  /\ Written(current, loaded, new) \in AnalysisRow
         /\ Written(current, loaded, new).status \in {current.status, new.status}
<1> DEFINE w == Written(current, loaded, new)
<1>1. w = [status |-> IF new.status = loaded.status
                        THEN current.status ELSE new.status,
           priority |-> IF new.priority = loaded.priority
                          THEN current.priority ELSE new.priority,
           category |-> IF new.category = loaded.category
                          THEN current.category ELSE new.category]
  BY DEF Written, AnalysisRow
<1> HIDE DEF w
<1>2. QED BY <1>1 DEF AnalysisRow, w
---------------------------------------------------------------------------
(* Steps *)

\* A step of a task.
Step(t) == Start(t) \/ Continue(t) \/ Lost(t)

\* Whatever a task does, an analysis that exists goes on to exist, the rows
\* keep their shape, and the commit that makes a row active finds no other.
LEMMA AnalysisChanges ==
  ASSUME TypeOK, NEW t \in Tasks, Step(t)
  PROVE  \/ analysis' = analysis
         \/ \E a \in Analyses : \E row \in AnalysisRow :
              /\ analysis' = [analysis EXCEPT ![a] = row]
              /\ row.status # "absent"
              /\ \/ row.status \in ActiveStatus => Active \ {a} = {}
                 \/ row.status = analysis[a].status
<1> USE DEF TypeOK, At, JobPCs
<1> DEFINE Changed == \E a \in Analyses : \E row \in AnalysisRow :
                        /\ analysis' = [analysis EXCEPT ![a] = row]
                        /\ row.status # "absent"
                        /\ \/ row.status \in ActiveStatus => Active \ {a} = {}
                           \/ row.status = analysis[a].status
<1>0. /\ Queued \in AnalysisRow /\ Queued.status = "queued"
      /\ {"queued", "running", "completed", "failed", "timed_out"} = JobStatus
  BY DEF Queued, Left, NoAnalysis, AnalysisRow, JobStatus
<1>1. CASE RequestCommit(t)
  BY <1>0, <1>1 DEF RequestCommit, Refused, Absent
<1>2. CASE RetryCommit(t)
  <2> DEFINE a == task[t].analysis
             row == Written(analysis[a], task[t].row, Queued)
  <2>1. a \in Analyses /\ analysis[a].status # "absent"
    BY <1>2 DEF RetryCommit, Absent
  <2>2. row \in AnalysisRow /\ row.status \in {analysis[a].status, "queued"}
    BY <1>0, <2>1, WrittenAnalysis
  <2> HIDE DEF row
  <2>3. CASE analysis' = [analysis EXCEPT ![a] = row] /\ ~ Refused(a, row)
    BY <2>1, <2>2, <2>3 DEF Refused
  <2>4. QED BY <1>2, <2>3 DEF RetryCommit, row
<1>3. CASE JobStart(t)
  <2> DEFINE a == task[t].analysis
             new == [task[t].row EXCEPT !.status = "running"]
             row == Written(analysis[a], task[t].row, new)
  <2>1. a \in Analyses /\ analysis[a].status # "absent"
    BY <1>3 DEF JobStart, Absent
  <2>2. new \in AnalysisRow /\ new.status = "running"
    BY <1>0 DEF AnalysisRow
  <2>3. row \in AnalysisRow /\ row.status \in {analysis[a].status, "running"}
    BY <2>1, <2>2, WrittenAnalysis
  <2> HIDE DEF row
  <2>4. CASE analysis' = [analysis EXCEPT ![a] = row] /\ ~ Refused(a, row)
    BY <2>1, <2>3, <2>4 DEF Refused
  <2>5. QED BY <1>3, <2>4 DEF JobStart, row
<1>4. CASE JobComplete(t)
  <2> DEFINE a == task[t].analysis
  <2>1. a \in Analyses /\ analysis[a].status # "absent"
    BY <1>4 DEF JobComplete, Absent
  <2>2. ASSUME NEW new \in AnalysisRow, new.status = "completed",
               analysis' = [analysis EXCEPT
                              ![a] = Written(@, task[t].row, new)]
        PROVE  Changed
    <3> DEFINE row == Written(analysis[a], task[t].row, new)
    <3>1. row \in AnalysisRow /\ row.status \in {analysis[a].status, "completed"}
      BY <2>1, <2>2, WrittenAnalysis
    <3>2. analysis' = [analysis EXCEPT ![a] = row]
      BY <2>2
    <3> HIDE DEF row
    <3>3. QED BY <2>1, <3>1, <3>2 DEF ActiveStatus
  <2>3. ASSUME NEW priority \in Priorities, NEW category \in Categories
        PROVE  [status |-> "completed", priority |-> priority,
                category |-> category] \in AnalysisRow
    BY <1>0 DEF AnalysisRow
  <2>4. PICK priority \in Priorities, category \in Categories :
          analysis' = [analysis EXCEPT ![a] =
            Written(@, task[t].row, [status |-> "completed",
                                     priority |-> priority,
                                     category |-> category])]
    BY <1>4 DEF JobComplete
  <2>5. QED BY <2>2, <2>3, <2>4
<1>5. CASE UNCHANGED analysis
  BY <1>5
<1>6. QED
  BY <1>1, <1>2, <1>3, <1>4, <1>5
     DEF Step, Start, Continue, Lost, RequestCheck, RetryCheck, OverrideRead,
         OverrideCommit, JobLoad, JobRead, JobFail

\* A row that exists does not disappear.
LEMMA AbsentShrinks ==
  ASSUME TypeOK, NEW t \in Tasks, Step(t)
  PROVE  Absent' \subseteq Absent
<1>1. ASSUME NEW a \in Analyses, NEW row \in AnalysisRow,
             analysis' = [analysis EXCEPT ![a] = row], row.status # "absent"
      PROVE  Absent' \subseteq Absent
  BY <1>1 DEF TypeOK, Absent
<1>2. CASE analysis' = analysis
  BY <1>2 DEF Absent
<1>3. QED BY <1>1, <1>2, AnalysisChanges

---------------------------------------------------------------------------
(* One active analysis *)

\* No step makes a second analysis active.
LEMMA OneActiveStep ==
  ASSUME TypeOK, OneActive, NEW t \in Tasks, Step(t)
  PROVE  OneActive'
<1>1. ASSUME NEW a \in Analyses, NEW row \in AnalysisRow,
             analysis' = [analysis EXCEPT ![a] = row],
             \/ row.status \in ActiveStatus => Active \ {a} = {}
             \/ row.status = analysis[a].status
      PROVE  OneActive'
  BY <1>1 DEF TypeOK, OneActive, Active
<1>2. CASE analysis' = analysis
  BY <1>2 DEF OneActive, Active
<1>3. QED BY <1>1, <1>2, AnalysisChanges
---------------------------------------------------------------------------
(* Type correctness *)

WorkPCs == {"retrying", "lost", "unrecorded"} \cup JobPCs
TaskPCs == {"idle", "requesting", "overriding"} \cup WorkPCs
TaskRow == [pc: TaskPCs, analysis: 0..MaxAnalyses,
            row: AnalysisRow, ticket: TicketRow]

\* The task that moves keeps its shape, and works on an analysis that exists.
LEMMA TaskKept ==
  ASSUME TypeOK, NEW t \in Tasks, Step(t)
  PROVE  /\ task' \in [Tasks -> TaskRow]
         /\ \A u \in Tasks \ {t} : task'[u] = task[u]
         /\ task'[t].pc \in WorkPCs => task'[t].analysis \in Analyses \ Absent'
<1> USE DEF TypeOK, At, Goto, Finish, Schedule
<1> DEFINE Kept == /\ task' \in [Tasks -> TaskRow]
                   /\ \A u \in Tasks \ {t} : task'[u] = task[u]
                   /\ task'[t].pc \in WorkPCs
                        => task'[t].analysis \in Analyses \ Absent'
<1>1. /\ task \in [Tasks -> TaskRow]
      /\ task[t].pc \in WorkPCs => task[t].analysis \in Analyses \ Absent
      /\ Absent' \subseteq Absent
  BY AbsentShrinks DEF TaskRow, TaskPCs, WorkPCs, JobPCs
<1>2. /\ Idle \in TaskRow /\ Idle.pc = "idle"
      /\ Analyses \subseteq 0..MaxAnalyses
  BY AnalysisAssumption
     DEF Idle, NoAnalysis, NoTicket, AnalysisRow, TicketRow, TaskRow, TaskPCs,
         Analyses, AnalysisAssumption
<1>3. ASSUME Finish(t)
      PROVE  Kept
  BY <1>1, <1>2, <1>3 DEF WorkPCs, JobPCs
<1>4. ASSUME NEW a \in Analyses \ Absent', Schedule(t, a)
      PROVE  Kept
  BY <1>1, <1>2, <1>4 DEF TaskRow, TaskPCs, WorkPCs, JobPCs, Idle
<1>5. ASSUME NEW pc \in TaskPCs, NEW a \in 0..MaxAnalyses,
             NEW row \in AnalysisRow, NEW tick \in TicketRow,
             pc \in WorkPCs => a \in Analyses \ Absent',
             task' = [task EXCEPT ![t] = [pc |-> pc, analysis |-> a,
                                          row |-> row, ticket |-> tick]]
      PROVE  Kept
  BY <1>1, <1>5 DEF TaskRow
<1>6. CASE RequestCheck(t)
  BY <1>1, <1>6, <1>5 DEF RequestCheck, TaskRow, TaskPCs, WorkPCs, JobPCs
<1>7. ASSUME NEW a \in Analyses, RetryCheck(t, a)
      PROVE  Kept
  <2>1. a \in Analyses \ Absent' /\ analysis[a] \in AnalysisRow
    BY <1>7, <1>1 DEF RetryCheck, RetryStatus, Absent
  <2>2. QED BY <1>7, <1>1, <1>2, <2>1 DEF RetryCheck, TaskRow, TaskPCs, WorkPCs, JobPCs
<1>8. CASE OverrideRead(t)
  BY <1>1, <1>8 DEF OverrideRead, TaskRow, TaskPCs, WorkPCs, JobPCs
<1>9. CASE RequestCommit(t)
  <2>1. ASSUME NEW a \in Analyses, analysis' = [analysis EXCEPT ![a] = Queued]
        PROVE  a \notin Absent'
    BY <2>1 DEF Absent, Queued, Left, NoAnalysis
  <2>2. QED BY <1>3, <1>4, <1>9, <2>1 DEF RequestCommit, Absent
<1>10. CASE RetryCommit(t)
  <2>1. task[t].analysis \in Analyses \ Absent'
    BY <1>1, <1>10 DEF RetryCommit, WorkPCs, JobPCs
  <2>2. QED BY <1>3, <1>4, <1>10, <2>1 DEF RetryCommit
<1>11. CASE JobLoad(t)
  <2>1. task[t].analysis \in Analyses \ Absent'
        /\ analysis[task[t].analysis] \in AnalysisRow
    BY <1>1, <1>11 DEF JobLoad, WorkPCs, JobPCs
  <2>2. QED BY <1>1, <1>3, <1>11, <2>1 DEF JobLoad, TaskRow, TaskPCs, WorkPCs, JobPCs
<1>12. CASE JobStart(t)
  <2>1. task[t].analysis \in Analyses \ Absent'
    BY <1>1, <1>12 DEF JobStart, WorkPCs, JobPCs
  <2>2. QED BY <1>1, <1>3, <1>12, <2>1 DEF JobStart, TaskRow, TaskPCs, WorkPCs, JobPCs
<1>13. CASE JobRead(t)
  <2>1. task[t].analysis \in Analyses \ Absent'
        /\ analysis[task[t].analysis] \in AnalysisRow
    BY <1>1, <1>13 DEF JobRead, WorkPCs, JobPCs
  <2>2. "calling" \in TaskPCs /\ task[t].analysis \in 0..MaxAnalyses
    BY DEF TaskPCs, WorkPCs, JobPCs
  <2>3. QED BY <1>5, <1>13, <2>1, <2>2 DEF JobRead
<1>14. CASE JobComplete(t) \/ OverrideCommit(t)
  BY <1>3, <1>14 DEF JobComplete, OverrideCommit
<1>15. CASE Lost(t) \/ JobFail(t)
  <2>1. CASE Finish(t)
    BY <1>3, <2>1
  <2>2. ASSUME NEW pc \in {"lost", "unrecorded"}, Goto(t, pc), task[t].pc \in JobPCs
        PROVE  Kept
    BY <1>1, <2>2 DEF TaskRow, TaskPCs, WorkPCs, JobPCs
  <2>3. QED BY <1>15, <2>1, <2>2 DEF Lost, JobFail, JobPCs
<1>16. QED
  BY <1>15, <1>6, <1>7, <1>8, <1>9, <1>10, <1>11, <1>12, <1>13, <1>14
     DEF Step, Start, Continue

\* The ticket keeps its shape.
LEMMA TicketKept ==
  ASSUME TypeOK, NEW t \in Tasks, Step(t)
  PROVE  ticket' \in TicketRow
<1> USE DEF TypeOK
<1>1. CASE JobComplete(t)
  <2>1. PICK priority \in Priorities, category \in Categories :
          ticket' = Written(ticket, task[t].ticket,
                            Triaged(task[t].ticket, priority, category))
    BY <1>1 DEF JobComplete
  <2>2. Triaged(task[t].ticket, priority, category) \in TicketRow
    BY DEF Triaged, TicketRow
  <2>3. QED BY <2>1, <2>2, WrittenTicket
<1>2. CASE OverrideCommit(t)
  <2>1. PICK priority \in Priorities :
          ticket' = Written(ticket, task[t].ticket,
                            [task[t].ticket EXCEPT !.priority = priority,
                                                   !.overridden = TRUE])
    BY <1>2 DEF OverrideCommit
  <2>2. [task[t].ticket EXCEPT !.priority = priority, !.overridden = TRUE]
          \in TicketRow
    BY DEF TicketRow
  <2>3. QED BY <2>1, <2>2, WrittenTicket
<1>3. CASE UNCHANGED ticket
  BY <1>3
<1>4. QED
  BY <1>1, <1>2, <1>3
     DEF Step, Start, Continue, Lost, RequestCheck, RequestCommit, RetryCheck,
         RetryCommit, OverrideRead, JobLoad, JobStart, JobRead, JobFail

\* Every step keeps the rows and the tasks in shape.
LEMMA TypeStep == TypeOK /\ [Next]_vars => TypeOK'
<1> SUFFICES ASSUME TypeOK, [Next]_vars
             PROVE  TypeOK'
  OBVIOUS
<1>1. ASSUME NEW t \in Tasks, Step(t)
      PROVE  TypeOK'
  <2>1. analysis' \in [Analyses -> AnalysisRow]
    BY <1>1, AnalysisChanges DEF TypeOK
  <2>2. \A u \in Tasks : task'[u].pc \in WorkPCs
                           => task'[u].analysis \in Analyses \ Absent'
    BY <1>1, TaskKept, AbsentShrinks DEF TypeOK, WorkPCs, JobPCs
  <2>3. raced' \in BOOLEAN
    BY <1>1 DEF TypeOK, Step, Start, Continue, Lost, RetryCheck
  <2>4. QED BY <1>1, <2>1, <2>2, <2>3, TaskKept, TicketKept
            DEF TypeOK, TaskRow, TaskPCs, WorkPCs, JobPCs
<1>2. CASE UNCHANGED vars
  BY <1>2 DEF vars, TypeOK, Absent, JobPCs
<1>3. QED BY <1>1, <1>2 DEF Next, Step

\* The rows and the tasks keep the shape the code gives them.
THEOREM TypeCorrect == Spec => []TypeOK
<1>1. Init => TypeOK
  <2>1. /\ NoTicket \in TicketRow /\ NoAnalysis \in AnalysisRow
        /\ Idle \in TaskRow /\ Idle.pc = "idle"
    BY AnalysisAssumption
       DEF NoTicket, NoAnalysis, Idle, TicketRow, AnalysisRow, TaskRow, TaskPCs,
           WorkPCs, JobPCs, AnalysisAssumption
  <2>2. \A s \in Earlier : Left(s) \in AnalysisRow
    BY AnalysisAssumption
       DEF Left, NoAnalysis, AnalysisRow, RetryStatus, JobStatus, AnalysisAssumption
  <2>3. ASSUME Init
        PROVE  TypeOK
    <3>1. analysis \in [Analyses -> AnalysisRow]
      <4>1. {NoAnalysis} \cup {Left(s) : s \in Earlier} \subseteq AnalysisRow
        BY <2>1, <2>2
      <4>2. analysis \in [Analyses ->
                            {NoAnalysis} \cup {Left(s) : s \in Earlier}]
        BY <2>3 DEF Init
      <4>3. QED BY <4>1, <4>2
    <3>2. ticket \in TicketRow /\ raced \in BOOLEAN
      BY <2>1, <2>3 DEF Init
    <3>3. task \in [Tasks -> TaskRow] /\ \A t \in Tasks : At(t, "idle")
      BY <2>1, <2>3 DEF Init, At
    <3>4. QED BY <3>1, <3>2, <3>3
              DEF TypeOK, TaskRow, TaskPCs, WorkPCs, JobPCs, At
  <2>4. QED BY <2>3
<1>2. QED BY <1>1, TypeStep, PTL DEF Spec

---------------------------------------------------------------------------
(* What the rows promise *)

\* Nothing is queued or running at first.
LEMMA NoneActive == Init => Active = {}
<1>1. NoAnalysis.status \notin ActiveStatus
  BY DEF NoAnalysis, ActiveStatus
<1>2. \A s \in Earlier : Left(s).status \notin ActiveStatus
  BY AnalysisAssumption
     DEF Left, NoAnalysis, ActiveStatus, RetryStatus, AnalysisAssumption
<1>3. QED BY <1>1, <1>2 DEF Init, Active

\* At most one analysis of the ticket is queued or running.
THEOREM OneActiveAnalysis == Spec => []OneActive
<1>1. Init => OneActive
  BY NoneActive DEF OneActive
<1>2. TypeOK /\ OneActive /\ [Next]_vars => OneActive'
  <2>1. ASSUME UNCHANGED vars, OneActive
        PROVE  OneActive'
    BY <2>1 DEF vars, OneActive, Active
  <2>2. QED BY <2>1, OneActiveStep DEF Next, Step
<1>3. QED BY <1>1, <1>2, TypeCorrect, PTL DEF Spec

\* Task t will bring analysis a to its end, was lost with the process or could
\* not record its failure: a job that has not started finds the analysis queued,
\* and one that answers will write "completed" over the status it has read.
Attends(t, a) ==
  /\ task[t].analysis = a
  /\ \/ At(t, "lost") \/ At(t, "unrecorded") \/ At(t, "running")
     \/ At(t, "calling") /\ task[t].row.status # "completed"
     \/ At(t, "scheduled") /\ analysis[a].status = "queued"
     \/ /\ At(t, "loaded") /\ analysis[a].status = "queued"
        /\ task[t].row.status = "queued"

Attended == \A a \in Active : \E t \in Tasks : Attends(t, a)

\* What a job loads before it starts is a queued analysis.
LoadedQueued ==
  \A t \in Tasks : At(t, "loaded") => task[t].row.status = "queued"

\* A task that does not move goes on attending an analysis whose status stays
\* as it is.
LEMMA StillAttends ==
  ASSUME NEW t \in Tasks, NEW a \in Analyses, Attends(t, a),
         task'[t] = task[t], analysis'[a].status = analysis[a].status
  PROVE  Attends(t, a)'
BY DEF Attends, At

\* However requests, retries and duplicate jobs interleave, an active analysis
\* stays attended.
LEMMA AttendedStep ==
  ASSUME TypeOK, OneActive, LoadedQueued, Attended,
         NEW t \in Tasks, Step(t), NEW a \in Active'
  PROVE  \E u \in Tasks : Attends(u, a)'
<1> USE DEF TypeOK
<1> DEFINE Goal == \E u \in Tasks : Attends(u, a)'
<1>1. a \in Analyses /\ analysis'[a].status \in ActiveStatus
  BY DEF Active
<1>2. ASSUME analysis'[a].status = analysis[a].status,
             Attends(t, a) => Attends(t, a)'
      PROVE  Goal
  <2>1. PICK u \in Tasks : Attends(u, a)
    BY <1>1, <1>2 DEF Attended, Active
  <2>2. CASE u = t
    BY <1>2, <2>1, <2>2
  <2>3. CASE u # t
    BY <1>1, <1>2, <2>1, <2>3, TaskKept, StillAttends
  <2>4. QED BY <2>2, <2>3
<1>3. ASSUME NEW b \in Analyses, analysis' = [analysis EXCEPT ![b] = Queued],
             Schedule(t, b), ~ Refused(b, Queued)
      PROVE  Goal
  <2>1. CASE a = b
    BY <1>3, <2>1 DEF Attends, At, Schedule, Idle, Queued, Left, NoAnalysis
  <2>2. CASE a # b
    BY <1>1, <1>3, <2>2 DEF Refused, Active, Queued, Left, NoAnalysis, ActiveStatus
  <2>3. QED BY <2>1, <2>2
<1>4. CASE RequestCommit(t)
  <2>1. CASE UNCHANGED analysis
    BY <1>2, <1>4, <2>1 DEF RequestCommit, Attends, At
  <2>2. QED BY <1>3, <1>4, <2>1 DEF RequestCommit, Absent
<1>5. CASE RetryCommit(t)
  <2> DEFINE b == task[t].analysis
             row == Written(analysis[b], task[t].row, Queued)
  <2>1. b \in Analyses /\ ~ Attends(t, a)
    BY <1>5 DEF RetryCommit, Attends, At
  <2>2. Queued \in AnalysisRow /\ Queued.status = "queued"
    BY DEF Queued, Left, NoAnalysis, AnalysisRow, JobStatus
  <2>3. row.status \in {analysis[b].status, "queued"}
    BY <2>1, <2>2, WrittenAnalysis
  <2> HIDE DEF row
  <2>4. CASE analysis'[a].status = analysis[a].status
    BY <1>2, <2>1, <2>4
  <2>5. CASE /\ analysis'[a].status # analysis[a].status
             /\ analysis' = [analysis EXCEPT ![b] = row]
             /\ Schedule(t, b)
    <3>1. a = b /\ analysis'[a].status = "queued"
      BY <1>1, <2>1, <2>3, <2>5
    <3>2. QED BY <2>5, <3>1 DEF Attends, At, Schedule, Idle
  <2>6. QED BY <1>5, <2>4, <2>5 DEF RetryCommit, row
<1>6. CASE JobLoad(t)
  BY <1>1, <1>2, <1>6 DEF JobLoad, Attends, At, Finish
<1>7. CASE JobStart(t)
  <2> DEFINE b == task[t].analysis
  <2>1. b \in Analyses
    BY <1>7 DEF JobStart, JobPCs, At
  <2>2. CASE Goto(t, "running") /\ \E row : analysis' = [analysis EXCEPT ![b] = row]
    <3>1. CASE a = b
      BY <2>2, <3>1 DEF Goto, Attends, At
    <3>2. CASE a # b
      BY <1>1, <1>2, <1>7, <2>2, <3>2 DEF Attends
    <3>3. QED BY <3>1, <3>2
  <2>3. CASE UNCHANGED analysis /\ Active \ {b} # {}
    BY <1>1, <1>2, <2>3 DEF Attends, OneActive, Active
  <2>4. QED BY <1>7, <2>2, <2>3 DEF JobStart, Refused
<1>8. CASE JobRead(t)
  BY <1>1, <1>2, <1>8 DEF JobRead, Attends, At, ActiveStatus
<1>9. CASE JobComplete(t)
  <2> DEFINE b == task[t].analysis
  <2>1. b \in Analyses
    BY <1>9 DEF JobComplete, JobPCs, At
  <2>2. PICK new : /\ new \in AnalysisRow /\ new.status = "completed"
                   /\ analysis' = [analysis EXCEPT
                                     ![b] = Written(@, task[t].row, new)]
    <3>1. \A priority \in Priorities, category \in Categories :
            LET new == [status |-> "completed", priority |-> priority,
                        category |-> category]
            IN  new \in AnalysisRow /\ new.status = "completed"
      BY DEF AnalysisRow, JobStatus
    <3>2. QED BY <1>9, <3>1 DEF JobComplete
  <2> DEFINE row == Written(analysis[b], task[t].row, new)
  <2>3. /\ row.status \in {analysis[b].status, "completed"}
        /\ task[t].row.status # "completed" => row.status = "completed"
    BY <2>1, <2>2, WrittenAnalysis DEF Written, AnalysisRow
  <2>4. analysis' = [analysis EXCEPT ![b] = row]
    BY <2>2
  <2> HIDE DEF row
  <2>5. analysis'[a].status = analysis[a].status
    BY <1>1, <2>1, <2>3, <2>4 DEF ActiveStatus
  <2>6. ~ Attends(t, a)
    BY <1>1, <1>9, <2>1, <2>3, <2>4 DEF JobComplete, Attends, At, ActiveStatus
  <2>7. QED BY <1>2, <2>5, <2>6
<1>10. CASE JobFail(t)
  BY <1>2, <1>10 DEF JobFail, Attends, At, Goto
<1>11. CASE Lost(t)
  BY <1>2, <1>11 DEF Lost, Attends, At, Goto, JobPCs
<1>12. CASE OverrideCommit(t) \/ RequestCheck(t) \/ OverrideRead(t)
            \/ \E b \in Analyses : RetryCheck(t, b)
  BY <1>2, <1>12
     DEF OverrideCommit, RequestCheck, OverrideRead, RetryCheck, Attends, At
<1>13. QED
  BY <1>4, <1>5, <1>6, <1>7, <1>8, <1>9, <1>10, <1>11, <1>12
     DEF Step, Start, Continue

\* No step makes a job load anything but a queued analysis before it starts.
LEMMA LoadedStep ==
  ASSUME TypeOK, LoadedQueued, NEW t \in Tasks, Step(t)
  PROVE  LoadedQueued'
<1> USE DEF TypeOK, At
<1>1. \A u \in Tasks \ {t} : task'[u] = task[u]
  BY TaskKept
<1>2. task'[t].pc = "loaded" => task'[t].row.status = "queued"
  <2>1. CASE JobLoad(t)
    BY <2>1 DEF JobLoad, Finish, Idle
  <2>2. CASE task'[t].pc # "loaded"
    BY <2>2
  <2>3. CASE Finish(t) \/ \E a \in Analyses : Schedule(t, a)
    <3>1. Idle.pc = "idle" /\ \A a : [Idle EXCEPT !.pc = "scheduled",
                                                !.analysis = a].pc = "scheduled"
      BY DEF Idle
    <3>2. QED BY <2>3, <3>1 DEF Finish, Schedule
  <2>4. CASE RequestCommit(t)
    BY <2>3, <2>4 DEF RequestCommit, Absent
  <2>5. CASE RetryCommit(t)
    BY <2>3, <2>5 DEF RetryCommit
  <2>6. CASE JobStart(t) \/ JobRead(t) \/ JobComplete(t) \/ JobFail(t)
    BY <2>2, <2>3, <2>6 DEF JobStart, JobRead, JobComplete, JobFail, Goto
  <2>7. CASE RequestCheck(t) \/ OverrideRead(t) \/ OverrideCommit(t)
             \/ \E a \in Analyses : RetryCheck(t, a)
    BY <2>2, <2>3, <2>7
       DEF RequestCheck, OverrideRead, OverrideCommit, RetryCheck, Goto
  <2>8. CASE Lost(t)
    BY <2>2, <2>3, <2>8 DEF Lost, Goto
  <2>9. QED
    BY <2>1, <2>4, <2>5, <2>6, <2>7, <2>8 DEF Step, Start, Continue
<1>3. QED BY <1>1, <1>2 DEF LoadedQueued

\* An analysis stays active without a job only if that job was lost with the
\* process or failed: whatever requests, retries and duplicate jobs interleave,
\* no commit of theirs leaves an active analysis that nobody works on.
THEOREM NoOtherOrphans == Spec => []OrphanedByFailure
<1> DEFINE Inv == TypeOK /\ OneActive /\ LoadedQueued /\ Attended
<1>1. Init => LoadedQueued /\ Attended
  BY NoneActive DEF Init, LoadedQueued, Attended, At, Idle
<1>2. TypeOK /\ OneActive /\ LoadedQueued /\ Attended /\ [Next]_vars
        => LoadedQueued' /\ Attended'
  <2>1. ASSUME UNCHANGED vars, LoadedQueued, Attended
        PROVE  LoadedQueued' /\ Attended'
    BY <2>1 DEF vars, LoadedQueued, Attended, Attends, Active, At
  <2>2. ASSUME TypeOK, OneActive, LoadedQueued, Attended, NEW t \in Tasks, Step(t)
        PROVE  Attended'
    BY <2>2, AttendedStep DEF Attended
  <2>3. QED BY <2>1, <2>2, LoadedStep DEF Next, Step
<1>3. Attended => OrphanedByFailure
  BY DEF Attended, OrphanedByFailure, Attends, WorksOn, LostOn, FailedOn, JobPCs, At
<1>4. QED BY <1>1, <1>2, <1>3, TypeCorrect, OneActiveAnalysis, PTL DEF Spec

\* An analysis that reads the ticket after a human chose its priority keeps
\* that priority.
THEOREM OverrideRespectedOnceRead == Spec => LaterAnalysisKeepsOverride
<1> DEFINE A == ticket.overridden /\ ticket'.priority # ticket.priority =>
                  \E t \in Tasks :
                    /\ \/ At(t, "overriding")
                       \/ At(t, "calling") /\ ~ task[t].ticket.overridden
                    /\ task'[t] = Idle
<1>1. TypeOK /\ [Next]_vars => [A]_vars
  <2> SUFFICES ASSUME TypeOK, NEW t \in Tasks, Step(t)
               PROVE  A
    BY DEF Next, Step
  <2>1. CASE JobComplete(t)
    <3>1. task'[t] = Idle /\ At(t, "calling")
      BY <2>1 DEF JobComplete, Finish, TypeOK
    <3>2. CASE task[t].ticket.overridden
      <4>1. PICK priority \in Priorities, category \in Categories :
              ticket' = Written(ticket, task[t].ticket,
                                Triaged(task[t].ticket, priority, category))
        BY <2>1 DEF JobComplete
      <4>2. /\ ticket \in TicketRow /\ task[t].ticket \in TicketRow
            /\ Triaged(task[t].ticket, priority, category) \in TicketRow
            /\ Triaged(task[t].ticket, priority, category).priority
                 = task[t].ticket.priority
        BY <3>2 DEF Triaged, TypeOK, TicketRow
      <4>3. ticket'.priority = ticket.priority
        BY <4>1, <4>2, WrittenTicket
      <4>4. QED BY <4>3
    <3>3. QED BY <3>1, <3>2
  <2>2. CASE OverrideCommit(t)
    BY <2>2 DEF OverrideCommit, Finish, TypeOK
  <2>3. CASE UNCHANGED ticket
    BY <2>3
  <2>4. QED
    BY <2>1, <2>2, <2>3
       DEF Step, Start, Continue, Lost, RequestCheck, RequestCommit,
           RetryCheck, RetryCommit, OverrideRead, JobLoad, JobStart, JobRead,
           JobFail
<1>2. QED BY <1>1, TypeCorrect, PTL DEF Spec, LaterAnalysisKeepsOverride

---------------------------------------------------------------------------
(* What an analysis found reaches the ticket *)

Job(t) == task[t].pc \in JobPCs

OneRetry == \A t, u \in Tasks : At(t, "retrying") /\ At(u, "retrying") => t = u

\* A retry in flight still knows its row, whose analysis has ended.
RetryFresh ==
  \A t \in Tasks : At(t, "retrying") =>
    /\ task[t].row = analysis[task[t].analysis]
    /\ task[t].row.status \in RetryStatus

OneJob == \A t, u \in Tasks : Job(t) /\ Job(u) => t = u

\* The job's analysis is as far as the job, and what the job loaded is current.
JobFresh ==
  \A t \in Tasks : Job(t) =>
    /\ analysis[task[t].analysis].status =
         IF task[t].pc \in {"scheduled", "loaded"} THEN "queued" ELSE "running"
    /\ task[t].pc \in {"loaded", "calling"} =>
         task[t].row = analysis[task[t].analysis]

Exclusive == OneRetry /\ RetryFresh /\ OneJob /\ JobFresh

\* What a task read of the ticket is still true of the columns it will decide
\* on, as long as no human has overridden the priority.
SeenFresh ==
  \A t \in Tasks :
    /\ At(t, "calling") /\ ~ raced => task[t].ticket.category = ticket.category
    /\ At(t, "calling") /\ ~ ticket.overridden =>
         /\ ~ task[t].ticket.overridden
         /\ ~ raced => task[t].ticket.priority = ticket.priority
    /\ At(t, "overriding") /\ ~ ticket.overridden => ~ task[t].ticket.overridden

Undisturbed == (~ raced => Exclusive) /\ SeenFresh

\* Written, column by column.
LEMMA WrittenColumns ==
  ASSUME NEW current \in TicketRow, NEW loaded \in TicketRow, NEW new \in TicketRow
  PROVE  /\ Written(current, loaded, new).priority =
              IF new.priority = loaded.priority THEN current.priority ELSE new.priority
         /\ Written(current, loaded, new).category =
              IF new.category = loaded.category THEN current.category ELSE new.category
         /\ Written(current, loaded, new).overridden =
              IF new.overridden = loaded.overridden
                THEN current.overridden ELSE new.overridden
BY DEF Written, TicketRow

\* A row written over the version that was loaded is the new row.
LEMMA WrittenFresh ==
  ASSUME NEW current \in AnalysisRow, NEW new \in AnalysisRow
  PROVE  Written(current, current, new) = new
BY DEF Written, AnalysisRow

\* With every job's analysis active, an active analysis of none means no job.
LEMMA NoJob ==
  ASSUME TypeOK, Exclusive, Active = {}
  PROVE  \A t \in Tasks : ~ Job(t)
<1> SUFFICES ASSUME NEW t \in Tasks, Job(t) PROVE FALSE
  OBVIOUS
<1>1. task[t].analysis \in Analyses /\ analysis[task[t].analysis].status \in ActiveStatus
  BY DEF Exclusive, JobFresh, Job, TypeOK, ActiveStatus
<1> QED BY <1>1 DEF Active

\* A retry and a job work on different analyses.
LEMMA RetryApart ==
  ASSUME TypeOK, Exclusive, NEW t \in Tasks, NEW u \in Tasks,
         Job(t), At(u, "retrying")
  PROVE  task[u].analysis # task[t].analysis
BY DEF Exclusive, JobFresh, RetryFresh, RetryStatus

\* A step that changes no row and leaves its task with nothing to keep fresh.
LEMMA Aside ==
  ASSUME TypeOK, Undisturbed, NEW t \in Tasks, Step(t),
         UNCHANGED <<ticket, analysis, raced>>,
         task'[t].pc \in {"idle", "requesting", "lost", "unrecorded"}
  PROVE  Undisturbed'
<1>1. \A u \in Tasks \ {t} : task'[u] = task[u]
  BY TaskKept
<1>2. SeenFresh'
  BY <1>1 DEF Undisturbed, SeenFresh, At
<1>3. ASSUME ~ raced' PROVE Exclusive'
  <2>1. Exclusive
    BY <1>3 DEF Undisturbed
  <2>2. ~ Job(t)' /\ ~ At(t, "retrying")'
    BY DEF Job, At, JobPCs
  <2>3. OneRetry' /\ OneJob'
    BY <1>1, <2>1, <2>2 DEF Exclusive, OneRetry, OneJob, Job, At
  <2>4. RetryFresh'
    BY <1>1, <2>1, <2>2 DEF Exclusive, RetryFresh, At
  <2>5. JobFresh'
    BY <1>1, <2>1, <2>2 DEF Exclusive, JobFresh, Job
  <2> QED BY <2>3, <2>4, <2>5 DEF Exclusive
<1> QED BY <1>2, <1>3 DEF Undisturbed

\* An analysis is queued, with a job for it, when none is active.
LEMMA QueuedFresh ==
  ASSUME TypeOK, Undisturbed, NEW t \in Tasks, Step(t), NEW a \in Analyses,
         analysis' = [analysis EXCEPT ![a] = Queued], Schedule(t, a),
         UNCHANGED <<ticket, raced>>, Active = {},
         ~ raced => \A u \in Tasks \ {t} : At(u, "retrying") => task[u].analysis # a
  PROVE  Undisturbed'
<1>1. \A u \in Tasks \ {t} : task'[u] = task[u]
  BY TaskKept
<1>2. task'[t].pc = "scheduled" /\ task'[t].analysis = a
  BY DEF Schedule, TypeOK, Idle
<1>3. SeenFresh'
  BY <1>1, <1>2 DEF Undisturbed, SeenFresh, At
<1>4. ASSUME ~ raced' PROVE Exclusive'
  <2>1. Exclusive /\ ~ raced
    BY <1>4 DEF Undisturbed
  <2>2. \A u \in Tasks : ~ Job(u)
    BY <2>1, NoJob
  <2>3. OneRetry' /\ OneJob'
    BY <1>1, <1>2, <2>1, <2>2 DEF Exclusive, OneRetry, OneJob, Job, At
  <2>4. RetryFresh'
    <3> SUFFICES ASSUME NEW u \in Tasks, At(u, "retrying")'
                 PROVE  /\ task'[u].row = analysis'[task'[u].analysis]
                        /\ task'[u].row.status \in RetryStatus
      BY DEF RetryFresh
    <3>1. u # t /\ task'[u] = task[u] /\ At(u, "retrying")
      BY <1>1, <1>2 DEF At
    <3>2. task[u].analysis # a
      BY <2>1, <3>1
    <3> QED BY <2>1, <3>1, <3>2 DEF Exclusive, RetryFresh, TypeOK
  <2>5. JobFresh'
    <3> SUFFICES ASSUME NEW u \in Tasks, Job(u)'
                 PROVE  u = t
      BY <1>2 DEF JobFresh, Queued, Left, NoAnalysis, TypeOK
    <3> QED BY <1>1, <2>2 DEF Job
  <2> QED BY <2>3, <2>4, <2>5 DEF Exclusive
<1> QED BY <1>3, <1>4 DEF Undisturbed

\* The only job moves, and changes the row of its own analysis at most.
LEMMA JobMoves ==
  ASSUME TypeOK, Exclusive, NEW t \in Tasks, Step(t), Job(t),
         \A b \in Analyses : b # task[t].analysis => analysis'[b] = analysis[b],
         task'[t].pc # "retrying",
         Job(t)' =>
           /\ task'[t].analysis = task[t].analysis
           /\ analysis'[task[t].analysis].status =
                IF task'[t].pc \in {"scheduled", "loaded"} THEN "queued" ELSE "running"
           /\ task'[t].pc \in {"loaded", "calling"} =>
                task'[t].row = analysis'[task[t].analysis]
  PROVE  Exclusive'
<1>1. \A u \in Tasks \ {t} : task'[u] = task[u] /\ ~ Job(u)
  BY TaskKept DEF Exclusive, OneJob
<1>2. OneRetry' /\ OneJob'
  BY <1>1 DEF Exclusive, OneRetry, OneJob, Job, At
<1>3. RetryFresh'
  <2> SUFFICES ASSUME NEW u \in Tasks, At(u, "retrying")'
               PROVE  /\ task'[u].row = analysis'[task'[u].analysis]
                      /\ task'[u].row.status \in RetryStatus
    BY DEF RetryFresh
  <2>1. task'[u] = task[u] /\ At(u, "retrying")
    BY <1>1 DEF At
  <2>2. task[u].analysis \in Analyses /\ task[u].analysis # task[t].analysis
    BY <2>1, RetryApart DEF TypeOK, At
  <2> QED BY <2>1, <2>2 DEF Exclusive, RetryFresh
<1>4. JobFresh'
  <2>1. ASSUME NEW u \in Tasks, Job(u)' PROVE u = t
    BY <1>1, <2>1 DEF Job
  <2> QED BY <2>1 DEF JobFresh
<1> QED BY <1>2, <1>3, <1>4 DEF Exclusive

\* What a job's step does, told by its outcome.
LEMMA JobLoadKeeps ==
  ASSUME TypeOK, Undisturbed, NEW t \in Tasks, JobLoad(t), raced' = raced, Step(t)
  PROVE  Undisturbed'
<1> DEFINE a == task[t].analysis
<1>1. Job(t) /\ a \in Analyses /\ analysis' = analysis /\ ticket' = ticket
  BY DEF JobLoad, Job, JobPCs, At, TypeOK
<1>2. CASE Finish(t)
  <2>1. task'[t].pc = "idle"
    BY <1>2 DEF Finish, TypeOK, Idle
  <2> QED BY <1>1, <2>1, Aside
<1>3. CASE /\ analysis[a].status = "queued"
           /\ task' = [task EXCEPT ![t].pc = "loaded", ![t].row = analysis[a]]
  <2>1. task'[t].pc = "loaded" /\ task'[t].row = analysis[a] /\ task'[t].analysis = a
    BY <1>3 DEF TypeOK
  <2>2. SeenFresh'
    BY <1>1, <2>1, TaskKept DEF Undisturbed, SeenFresh, At
  <2>3. ~ raced => Exclusive'
    BY <1>1, <1>3, <2>1, JobMoves DEF Undisturbed
  <2> QED BY <2>2, <2>3 DEF Undisturbed
<1> QED BY <1>2, <1>3 DEF JobLoad

LEMMA JobStartKeeps ==
  ASSUME TypeOK, Undisturbed, NEW t \in Tasks, JobStart(t), raced' = raced, Step(t)
  PROVE  Undisturbed'
<1> DEFINE a == task[t].analysis
           new == [task[t].row EXCEPT !.status = "running"]
           row == Written(analysis[a], task[t].row, new)
<1>1. Job(t) /\ a \in Analyses /\ ticket' = ticket /\ At(t, "loaded")
  BY DEF JobStart, Job, JobPCs, At, TypeOK
<1>2. CASE Finish(t) /\ UNCHANGED analysis
  <2>1. task'[t].pc = "idle"
    BY <1>2 DEF Finish, TypeOK, Idle
  <2> QED BY <1>1, <1>2, <2>1, Aside
<1>3. CASE analysis' = [analysis EXCEPT ![a] = row] /\ Goto(t, "running")
  <2>1. task'[t].pc = "running" /\ task'[t].analysis = a
    BY <1>3 DEF TypeOK, Goto
  <2>2. SeenFresh'
    BY <1>1, <2>1, TaskKept DEF Undisturbed, SeenFresh, At
  <2>3. ASSUME ~ raced PROVE Exclusive'
    <3>1. task[t].row = analysis[a] /\ Exclusive
      BY <1>1, <2>3 DEF Undisturbed, Exclusive, JobFresh, At
    <3>2. new \in AnalysisRow /\ new.status = "running" /\ analysis[a] \in AnalysisRow
      BY <1>1 DEF TypeOK, AnalysisRow, JobStatus
    <3>3. row = new
      BY <3>1, <3>2, WrittenFresh
    <3> HIDE DEF row, new
    <3>4. /\ analysis'[a].status = "running"
          /\ \A b \in Analyses : b # a => analysis'[b] = analysis[b]
      BY <1>1, <1>3, <3>2, <3>3 DEF TypeOK
    <3> QED BY <1>1, <2>1, <3>1, <3>4, JobMoves
  <2> QED BY <2>2, <2>3 DEF Undisturbed
<1> QED BY <1>2, <1>3 DEF JobStart

LEMMA JobReadKeeps ==
  ASSUME TypeOK, Undisturbed, NEW t \in Tasks, JobRead(t), raced' = raced, Step(t)
  PROVE  Undisturbed'
<1> DEFINE a == task[t].analysis
<1>1. /\ Job(t) /\ a \in Analyses /\ analysis' = analysis /\ ticket' = ticket
      /\ At(t, "running")
  BY DEF JobRead, Job, JobPCs, At, TypeOK
<1>2. /\ task'[t].pc = "calling" /\ task'[t].analysis = a
      /\ task'[t].row = analysis[a] /\ task'[t].ticket = ticket
  BY DEF JobRead, TypeOK
<1>3. SeenFresh'
  BY <1>1, <1>2, TaskKept DEF Undisturbed, SeenFresh, At
<1>4. ASSUME ~ raced PROVE Exclusive'
  <2>1. analysis[a].status = "running" /\ Exclusive
    BY <1>1, <1>4 DEF Undisturbed, Exclusive, JobFresh, At
  <2> QED BY <1>1, <1>2, <2>1, JobMoves
<1> QED BY <1>3, <1>4 DEF Undisturbed

\* The ticket after triage, column by column: the override stays.
LEMMA TriageWrites ==
  ASSUME TypeOK, NEW t \in Tasks, NEW priority \in Priorities, NEW category \in Categories,
         ticket' = Written(ticket, task[t].ticket,
                           Triaged(task[t].ticket, priority, category))
  PROVE  /\ ticket'.overridden = ticket.overridden
         /\ ticket'.category = IF category = task[t].ticket.category
                                 THEN ticket.category ELSE category
         /\ ~ task[t].ticket.overridden =>
              ticket'.priority = IF priority = task[t].ticket.priority
                                   THEN ticket.priority ELSE priority
<1> DEFINE seen == task[t].ticket
           new == Triaged(seen, priority, category)
<1>1. seen \in TicketRow /\ ticket \in TicketRow
  BY DEF TypeOK
<1>2. /\ new \in TicketRow
      /\ new.overridden = seen.overridden /\ new.category = category
      /\ ~ seen.overridden => new.priority = priority
  BY <1>1 DEF Triaged, TicketRow
<1> HIDE DEF new
<1> QED BY <1>1, <1>2, WrittenColumns DEF new

LEMMA JobCompleteKeeps ==
  ASSUME TypeOK, Undisturbed, NEW t \in Tasks, JobComplete(t), raced' = raced, Step(t)
  PROVE  Undisturbed'
<1> DEFINE a == task[t].analysis
<1>1. /\ Job(t) /\ a \in Analyses /\ task'[t].pc = "idle"
  BY DEF JobComplete, Finish, Job, JobPCs, At, TypeOK, Idle
<1>2. \A b \in Analyses : b # a => analysis'[b] = analysis[b]
  BY <1>1 DEF JobComplete, TypeOK
<1>3. ticket'.overridden = ticket.overridden
  BY TriageWrites DEF JobComplete
<1>4. ASSUME ~ raced PROVE Exclusive'
  <2>1. ~ Job(t)' /\ task'[t].pc # "retrying" /\ Exclusive
    BY <1>1, <1>4 DEF Undisturbed, Job, JobPCs
  <2> QED BY <1>1, <1>2, <2>1, JobMoves
<1>5. SeenFresh'
  <2>1. \A u \in Tasks \ {t} : task'[u] = task[u]
    BY TaskKept
  <2>2. ~ raced => \A u \in Tasks : u # t => ~ At(u, "calling")
    BY <1>1 DEF Undisturbed, Exclusive, OneJob, Job, At, JobPCs
  <2> QED BY <1>1, <1>3, <2>1, <2>2 DEF Undisturbed, SeenFresh, At
<1> QED BY <1>4, <1>5 DEF Undisturbed

\* After an override is committed the ticket is overridden, whatever the
\* request had read.
LEMMA OverrideCommitKeeps ==
  ASSUME TypeOK, Undisturbed, NEW t \in Tasks, OverrideCommit(t), raced' = raced, Step(t)
  PROVE  Undisturbed'
<1> DEFINE seen == task[t].ticket
<1>1. PICK priority \in Priorities :
        ticket' = Written(ticket, seen,
                          [seen EXCEPT !.priority = priority, !.overridden = TRUE])
  BY DEF OverrideCommit
<1> DEFINE new == [seen EXCEPT !.priority = priority, !.overridden = TRUE]
<1>2. seen \in TicketRow /\ ticket \in TicketRow
  BY DEF TypeOK
<1>3. /\ new \in TicketRow /\ new.overridden = TRUE /\ new.category = seen.category
  BY <1>2 DEF TicketRow
<1>4. ~ ticket.overridden => ~ seen.overridden
  BY DEF OverrideCommit, Undisturbed, SeenFresh
<1>5. ticket'.overridden = TRUE /\ ticket'.category = ticket.category
  <2>0. ticket' = Written(ticket, seen, new)
    BY <1>1
  <2> HIDE DEF new
  <2>1. /\ ticket'.overridden = IF new.overridden = seen.overridden
                                  THEN ticket.overridden ELSE new.overridden
        /\ ticket'.category = IF new.category = seen.category
                                THEN ticket.category ELSE new.category
    BY <2>0, <1>2, <1>3, WrittenColumns
  <2>2. seen.overridden \in BOOLEAN /\ ticket.overridden \in BOOLEAN
    BY <1>2 DEF TicketRow
  <2> QED BY <1>3, <1>4, <2>1, <2>2
<1>6. task'[t].pc = "idle" /\ analysis' = analysis
  BY DEF OverrideCommit, Finish, TypeOK, Idle
<1>7. \A u \in Tasks \ {t} : task'[u] = task[u]
  BY TaskKept
<1>8. SeenFresh'
  BY <1>5, <1>6, <1>7 DEF Undisturbed, SeenFresh, At
<1>9. ASSUME ~ raced PROVE Exclusive'
  <2>1. ~ Job(t)' /\ ~ At(t, "retrying")' /\ Exclusive
    BY <1>6, <1>9 DEF Undisturbed, Job, At, JobPCs
  <2>2. OneRetry' /\ OneJob'
    BY <1>7, <2>1 DEF Exclusive, OneRetry, OneJob, Job, At
  <2>3. RetryFresh' /\ JobFresh'
    BY <1>6, <1>7, <2>1 DEF Exclusive, RetryFresh, JobFresh, Job, At
  <2> QED BY <2>2, <2>3 DEF Exclusive
<1> QED BY <1>8, <1>9 DEF Undisturbed

LEMMA OverrideReadKeeps ==
  ASSUME TypeOK, Undisturbed, NEW t \in Tasks, OverrideRead(t), raced' = raced, Step(t)
  PROVE  Undisturbed'
<1>1. /\ task'[t].pc = "overriding" /\ task'[t].ticket = ticket
      /\ analysis' = analysis /\ ticket' = ticket
  BY DEF OverrideRead, TypeOK
<1>2. \A u \in Tasks \ {t} : task'[u] = task[u]
  BY TaskKept
<1>3. SeenFresh'
  BY <1>1, <1>2 DEF Undisturbed, SeenFresh, At
<1>4. ASSUME ~ raced PROVE Exclusive'
  <2>1. ~ Job(t)' /\ ~ At(t, "retrying")' /\ Exclusive
    BY <1>1, <1>4 DEF Undisturbed, Job, At, JobPCs
  <2>2. OneRetry' /\ OneJob'
    BY <1>2, <2>1 DEF Exclusive, OneRetry, OneJob, Job, At
  <2>3. RetryFresh' /\ JobFresh'
    BY <1>1, <1>2, <2>1 DEF Exclusive, RetryFresh, JobFresh, Job, At
  <2> QED BY <2>2, <2>3 DEF Exclusive
<1> QED BY <1>3, <1>4 DEF Undisturbed

\* A retry starts: no job is at work, and unless another retry is in flight
\* this is the only one.
LEMMA RetryCheckKeeps ==
  ASSUME TypeOK, Undisturbed, NEW t \in Tasks, NEW a \in Analyses,
         RetryCheck(t, a), Step(t)
  PROVE  Undisturbed'
<1>1. /\ task'[t].pc = "retrying" /\ task'[t].analysis = a
      /\ task'[t].row = analysis[a] /\ analysis[a].status \in RetryStatus
      /\ analysis' = analysis /\ ticket' = ticket
      /\ raced' = (raced \/ \E u \in Tasks : At(u, "retrying"))
      /\ Active = {}
  BY DEF RetryCheck, TypeOK
<1>2. \A u \in Tasks \ {t} : task'[u] = task[u]
  BY TaskKept
<1>3. SeenFresh'
  <2>1. ~ raced' => ~ raced
    BY <1>1
  <2> QED BY <1>1, <1>2, <2>1 DEF Undisturbed, SeenFresh, At
<1>4. ASSUME ~ raced' PROVE Exclusive'
  <2>1. Exclusive /\ \A u \in Tasks : ~ At(u, "retrying")
    BY <1>1, <1>4 DEF Undisturbed
  <2>2. \A u \in Tasks : ~ Job(u)
    BY <1>1, <2>1, NoJob
  <2>3. \A u \in Tasks : ~ Job(u)'
    BY <1>1, <1>2, <2>2 DEF Job, JobPCs
  <2>4. \A u \in Tasks : At(u, "retrying")' => u = t
    BY <1>2, <2>1 DEF At
  <2>5. OneRetry' /\ OneJob' /\ JobFresh'
    BY <2>3, <2>4 DEF OneRetry, OneJob, JobFresh
  <2>6. RetryFresh'
    BY <1>1, <2>4 DEF RetryFresh
  <2> QED BY <2>5, <2>6 DEF Exclusive
<1> QED BY <1>3, <1>4 DEF Undisturbed

LEMMA RequestCommitKeeps ==
  ASSUME TypeOK, Undisturbed, NEW t \in Tasks, RequestCommit(t), raced' = raced, Step(t)
  PROVE  Undisturbed'
<1>1. CASE Finish(t) /\ UNCHANGED analysis
  <2>1. task'[t].pc = "idle"
    BY <1>1 DEF Finish, TypeOK, Idle
  <2> QED BY <1>1, <2>1, Aside DEF RequestCommit
<1>2. ASSUME NEW a \in Absent, ~ Refused(a, Queued), Schedule(t, a),
             analysis' = [analysis EXCEPT ![a] = Queued]
      PROVE  Undisturbed'
  <2>1. a \in Analyses /\ a \notin Active
    BY <1>2 DEF Absent, Active, ActiveStatus
  <2>2. Active = {}
    BY <1>2, <2>1 DEF Refused, Queued, Left, NoAnalysis, ActiveStatus
  <2>3. \A u \in Tasks : At(u, "retrying") => task[u].analysis # a
    BY <1>2 DEF TypeOK, At
  <2> QED BY <1>2, <2>1, <2>2, <2>3, QueuedFresh DEF RequestCommit
<1> QED BY <1>1, <1>2 DEF RequestCommit

LEMMA RetryCommitKeeps ==
  ASSUME TypeOK, Undisturbed, NEW t \in Tasks, RetryCommit(t), raced' = raced, Step(t)
  PROVE  Undisturbed'
<1> DEFINE a == task[t].analysis
           row == Written(analysis[a], task[t].row, Queued)
<1>1. CASE Finish(t) /\ UNCHANGED analysis
  <2>1. task'[t].pc = "idle"
    BY <1>1 DEF Finish, TypeOK, Idle
  <2> QED BY <1>1, <2>1, Aside DEF RetryCommit
<1>2. CASE /\ ~ Refused(a, row) /\ Schedule(t, a)
           /\ analysis' = [analysis EXCEPT ![a] = row]
  <2>1. a \in Analyses /\ At(t, "retrying") /\ ticket' = ticket
    BY DEF RetryCommit, TypeOK, At
  <2>2. CASE ~ raced
    <3>1. Exclusive /\ task[t].row = analysis[a] /\ analysis[a].status \in RetryStatus
      BY <2>1, <2>2 DEF Undisturbed, Exclusive, RetryFresh
    <3>2. Queued \in AnalysisRow /\ analysis[a] \in AnalysisRow
      BY <2>1 DEF Queued, Left, NoAnalysis, AnalysisRow, JobStatus, TypeOK
    <3>3. row = Queued
      BY <3>1, <3>2, WrittenFresh
    <3>4. Active = {}
      <4>1. a \notin Active
        BY <3>1 DEF Active, ActiveStatus, RetryStatus
      <4> QED BY <1>2, <3>3, <4>1 DEF Refused, Queued, Left, NoAnalysis, ActiveStatus
    <3>5. \A u \in Tasks \ {t} : ~ At(u, "retrying")
      BY <2>1, <3>1 DEF Exclusive, OneRetry
    <3> QED BY <1>2, <2>1, <3>3, <3>4, <3>5, QueuedFresh
  <2>3. CASE raced
    <3>1. task'[t].pc = "scheduled"
      BY <1>2 DEF Schedule, TypeOK, Idle
    <3>2. SeenFresh'
      BY <2>1, <2>3, <3>1, TaskKept DEF Undisturbed, SeenFresh, At
    <3> QED BY <2>3, <3>2 DEF Undisturbed
  <2> QED BY <2>2, <2>3 DEF TypeOK
<1> QED BY <1>1, <1>2 DEF RetryCommit

LEMMA UndisturbedStep ==
  ASSUME TypeOK, Undisturbed, NEW t \in Tasks, Step(t)
  PROVE  Undisturbed'
<1>1. CASE RequestCheck(t) /\ raced' = raced
  <2>1. task'[t].pc = "requesting"
    BY <1>1 DEF RequestCheck, Goto, TypeOK
  <2> QED BY <1>1, <2>1, Aside DEF RequestCheck
<1>2. CASE Lost(t)
  <2>1. task'[t].pc \in {"idle", "lost"}
    BY <1>2 DEF Lost, Goto, Finish, TypeOK, Idle
  <2> QED BY <1>2, <2>1, Aside DEF Lost
<1>3. CASE JobFail(t) /\ raced' = raced
  <2>1. task'[t].pc = "unrecorded"
    BY <1>3 DEF JobFail, Goto, TypeOK
  <2> QED BY <1>3, <2>1, Aside DEF JobFail
<1> QED
  BY <1>1, <1>2, <1>3, RetryCheckKeeps, OverrideReadKeeps, RequestCommitKeeps,
     RetryCommitKeeps, OverrideCommitKeeps, JobLoadKeeps, JobStartKeeps,
     JobReadKeeps, JobCompleteKeeps
  DEF Step, Start, Continue

LEMMA UndisturbedAlways == Spec => []Undisturbed
<1>1. Init => Undisturbed
  BY DEF Init, Undisturbed, Exclusive, OneRetry, RetryFresh, OneJob, JobFresh,
         SeenFresh, Job, JobPCs, At, Idle
<1>2. TypeOK /\ Undisturbed /\ [Next]_vars => Undisturbed'
  <2>1. ASSUME UNCHANGED vars, Undisturbed PROVE Undisturbed'
    BY <2>1 DEF vars, Undisturbed, Exclusive, OneRetry, RetryFresh, OneJob, JobFresh,
         SeenFresh, Job, At
  <2> QED BY <2>1, UndisturbedStep DEF Next, Step
<1> QED BY <1>1, <1>2, TypeCorrect, PTL DEF Spec

\* Only the job's last commit makes an analysis completed.
LEMMA CompletedBy ==
  ASSUME TypeOK, NEW t \in Tasks, Step(t), NEW a \in Analyses,
         analysis[a].status # "completed", analysis'[a].status = "completed"
  PROVE  JobComplete(t) /\ a = task[t].analysis
<1>0. Queued \in AnalysisRow /\ Queued.status = "queued"
  BY DEF Queued, Left, NoAnalysis, AnalysisRow, JobStatus
<1>1. CASE RequestCommit(t)
  BY <1>0, <1>1 DEF RequestCommit, Absent, TypeOK
<1>2. CASE RetryCommit(t)
  <2> DEFINE b == task[t].analysis
             row == Written(analysis[b], task[t].row, Queued)
  <2>1. b \in Analyses
    BY <1>2 DEF RetryCommit, TypeOK, At
  <2>2. row.status \in {analysis[b].status, "queued"}
    BY <1>0, <2>1, WrittenAnalysis DEF TypeOK
  <2> HIDE DEF row
  <2>3. analysis' = analysis \/ analysis' = [analysis EXCEPT ![b] = row]
    BY <1>2 DEF RetryCommit, row
  <2> QED BY <2>1, <2>2, <2>3 DEF TypeOK
<1>3. CASE JobStart(t)
  <2> DEFINE b == task[t].analysis
             new == [task[t].row EXCEPT !.status = "running"]
             row == Written(analysis[b], task[t].row, new)
  <2>1. b \in Analyses
    BY <1>3 DEF JobStart, TypeOK, At, JobPCs
  <2>2. new \in AnalysisRow /\ new.status = "running"
    BY DEF TypeOK, AnalysisRow, JobStatus
  <2>3. row.status \in {analysis[b].status, "running"}
    <3>1. analysis[b] \in AnalysisRow /\ task[t].row \in AnalysisRow
      BY <2>1 DEF TypeOK
    <3> HIDE DEF new
    <3> QED BY <2>2, <3>1, WrittenAnalysis
  <2> HIDE DEF row
  <2>4. analysis' = analysis \/ analysis' = [analysis EXCEPT ![b] = row]
    BY <1>3 DEF JobStart, row
  <2> QED BY <2>1, <2>3, <2>4 DEF TypeOK
<1>4. CASE JobComplete(t)
  BY <1>4 DEF JobComplete, TypeOK
<1>5. CASE UNCHANGED analysis
  BY <1>5
<1> QED
  BY <1>1, <1>2, <1>3, <1>4, <1>5
     DEF Step, Start, Continue, Lost, RequestCheck, RetryCheck, OverrideRead,
         OverrideCommit, JobLoad, JobRead, JobFail

\* Unless two retries were in flight at once, what a completed analysis found
\* is what the ticket carries, though the job writes over a ticket it read
\* before it awaited the provider (services/analyses.py, execute).
THEOREM TriageReachesTicket == Spec => TriageApplied
<1> DEFINE A == \A a \in Analyses :
                  /\ ~ raced
                  /\ analysis[a].status # "completed" /\ analysis'[a].status = "completed"
                  => /\ ticket'.category = analysis'[a].category
                     /\ ticket'.overridden \/ ticket'.priority = analysis'[a].priority
<1>1. TypeOK /\ Undisturbed /\ [Next]_vars => [A]_vars
  <2> SUFFICES ASSUME TypeOK, Undisturbed, NEW t \in Tasks, Step(t), NEW a \in Analyses,
                      ~ raced, analysis[a].status # "completed",
                      analysis'[a].status = "completed"
               PROVE  /\ ticket'.category = analysis'[a].category
                      /\ ticket'.overridden \/ ticket'.priority = analysis'[a].priority
    BY DEF Next, Step
  <2> DEFINE seen == task[t].ticket
  <2>1. JobComplete(t) /\ a = task[t].analysis
    BY CompletedBy
  <2>2. PICK priority \in Priorities, category \in Categories :
          /\ analysis' = [analysis EXCEPT
               ![a] = Written(@, task[t].row, [status |-> "completed",
                        priority |-> priority, category |-> category])]
          /\ ticket' = Written(ticket, seen, Triaged(seen, priority, category))
    BY <2>1 DEF JobComplete
  <2> DEFINE new == [status |-> "completed", priority |-> priority, category |-> category]
  <2>3. task[t].row = analysis[a]
    BY <2>1 DEF JobComplete, Undisturbed, Exclusive, JobFresh, Job, JobPCs, At
  <2>4. new \in AnalysisRow /\ analysis[a] \in AnalysisRow
    BY DEF AnalysisRow, JobStatus, TypeOK
  <2>5. analysis'[a] = new
    BY <2>2, <2>3, <2>4, WrittenFresh DEF TypeOK
  <2>6. /\ seen.category = ticket.category
        /\ ~ ticket.overridden => ~ seen.overridden /\ seen.priority = ticket.priority
    BY <2>1 DEF JobComplete, Undisturbed, SeenFresh
  <2>7. /\ ticket'.overridden = ticket.overridden
        /\ ticket'.category = IF category = seen.category
                                THEN ticket.category ELSE category
        /\ ~ seen.overridden =>
             ticket'.priority = IF priority = seen.priority
                                  THEN ticket.priority ELSE priority
    BY <2>2, TriageWrites
  <2> QED BY <2>5, <2>6, <2>7
<1> QED BY <1>1, UndisturbedAlways, TypeCorrect, PTL DEF Spec, TriageApplied

=============================================================================
