--------------------------- MODULE PipelineProofs ---------------------------
(***************************************************************************)
(* Theorems about Pipeline, for any tasks and any number of rows.          *)
(*                                                                         *)
(* Nothing is assumed of the retries: any number of tasks may work on one  *)
(* row.  What the properties rest on is what any one commit makes of a row *)
(* (RowChanges), and that an active row is never left by the last task that*)
(* would still finish it (Attended).                                       *)
(***************************************************************************)
EXTENDS Pipeline, TLAPS

\* A step of a task.
Step(t) == Start(t) \/ Continue(t) \/ Lost(t)

TaskRow == [pc: {"idle", "requesting", "lost", "unrecorded"} \cup JobPCs,
            kind: Kinds, id: 0..MaxRows, basis: 0..MaxRows,
            loaded: SUBSET Erased]

\* The row t works on exists.
Exists(t) ==
  task[t].pc \in JobPCs =>
    task[t].id \in Ids /\ row[task[t].kind][task[t].id].status # "absent"

---------------------------------------------------------------------------
(* Rows *)

\* A commit of the row a task works on.
LEMMA Stored ==
  ASSUME TypeOK, NEW k \in Kinds, NEW n \in Ids, NEW new \in JobRow(k),
         row' = [row EXCEPT ![k][n] = new]
  PROVE  /\ row' \in [Kinds -> [Ids -> JobRow("investigation") \cup JobRow("assessment")]]
         /\ \A j \in Kinds, m \in Ids : row'[j][m] \in JobRow(j)
         /\ row'[k][n] = new
         /\ \A j \in Kinds, m \in Ids : j # k \/ m # n => row'[j][m] = row[j][m]
<1>1. new \in JobRow("investigation") \cup JobRow("assessment")
  BY DEF Kinds
<1>2. QED BY <1>1 DEF TypeOK

\* new is inserted as row n of kind k.
Inserted(k, n, new) ==
  /\ row[k][n].status = "absent"
  /\ new.status = "queued" /\ new.output = {}
  /\ k = "assessment" => ~ Assessed(new.basis)

\* What the commit of a task makes of what its row has gathered: it deletes
\* what a retry may delete, or is the first to insert anything.
Gathered(t, k, old, new) ==
  /\ old.status # "absent" /\ new.basis = old.basis
  /\ \/ /\ new.status # "completed"
        /\ new.output \subseteq old.output
        /\ old.output \ new.output \subseteq Erased
     \/ /\ new.status = "completed"
        /\ old.output = {} /\ new.output = Output[k] \X {t}
     \/ new.status # "completed" /\ old.output = {}

\* t commits new as row n of kind k.
Commits(t, k, n, new) ==
  /\ row' = [row EXCEPT ![k][n] = new]
  /\ new \in JobRow(k) /\ new.status # "absent"
  /\ new.status \in ActiveStatus => Active(k) \ {n} = {}
  /\ Inserted(k, n, new) \/ Gathered(t, k, row[k][n], new)

\* Whatever a task does to a row, the row keeps its shape and exists, and the
\* commit that makes it active finds no other.
LEMMA RowChanges ==
  ASSUME TypeOK, NEW t \in Tasks, Step(t)
  PROVE  \/ row' = row
         \/ \E k \in Kinds, n \in Ids : \E new : Commits(t, k, n, new)
<1> USE DEF TypeOK, At
<1> DEFINE k == task[t].kind
           n == task[t].id
           Changed == \E j \in Kinds, m \in Ids : \E new : Commits(t, j, m, new)
<1>1. /\ k \in Kinds
      /\ task[t].pc \in JobPCs => /\ n \in Ids /\ row[k][n] \in JobRow(k)
                                  /\ row[k][n].status # "absent"
  BY DEF Absent, InStatus
<1>2. ASSUME NEW new \in JobRow(k), task[t].pc \in JobPCs, Store(t, new),
             new.status # "absent",
             new.status \in ActiveStatus => ~ Refused(k, n),
             Gathered(t, k, row[k][n], new)
      PROVE  Changed
  BY <1>1, <1>2 DEF Store, Refused, Commits
<1>3. /\ {"planning"} \X {t} \subseteq Parts("investigation")
      /\ Output[k] \X {t} \subseteq Parts(k)
  BY <1>1 DEF Parts, Output, Kinds
<1>4. CASE RequestCommit(t)
  <2>1. CASE row' = row
    BY <2>1
  <2>2. ASSUME NEW m \in Absent(k), ~ Refused(k, 0),
               k = "assessment" => ~ Assessed(task[t].basis),
               row' = [row EXCEPT ![k][m] = [NoRow EXCEPT
                         !.status = "queued", !.basis = task[t].basis]]
        PROVE  Changed
    <3> DEFINE new == [NoRow EXCEPT !.status = "queued", !.basis = task[t].basis]
    <3>1. /\ new \in JobRow(k) /\ new.status = "queued" /\ new.output = {}
          /\ new.basis = task[t].basis
      BY DEF NoRow, JobRow, JobStatus
    <3>2. /\ m \in Ids /\ Active(k) \ {m} = {}
          /\ row[k][m].status = "absent"
      BY <2>2 DEF Absent, InStatus, Refused, Active, Ids
    <3> HIDE DEF new
    <3>3. row' = [row EXCEPT ![k][m] = new]
      BY <2>2 DEF new
    <3>4. Commits(t, k, m, new)
      BY <2>2, <3>1, <3>2, <3>3 DEF Commits, Inserted
    <3>5. QED BY <1>1, <3>2, <3>4
  <2>3. QED BY <1>4, <2>1, <2>2 DEF RequestCommit
<1>5. CASE RetryCommit(t)
  <2> DEFINE new == [row[k][n] EXCEPT !.status = "queued",
                                      !.output = @ \ task[t].loaded]
  <2>1. task[t].pc \in JobPCs /\ task[t].loaded \subseteq Erased
    BY <1>5 DEF RetryCommit, JobPCs
  <2>2. new \in JobRow(k) /\ new.status = "queued"
    BY <1>1, <2>1 DEF JobRow, JobStatus
  <2>3. row' = row \/ (Store(t, new) /\ ~ Refused(k, n))
    BY <1>5 DEF RetryCommit, Mine
  <2>4. Gathered(t, k, row[k][n], new)
    <3>1. /\ new.basis = row[k][n].basis
          /\ new.output = row[k][n].output \ task[t].loaded
      BY <1>1, <2>1 DEF JobRow
    <3> HIDE DEF new
    <3>2. QED BY <1>1, <2>1, <2>2, <3>1 DEF Gathered
  <2> HIDE DEF new
  <2>5. QED BY <1>2, <2>1, <2>2, <2>3, <2>4
<1>6. ASSUME NEW status \in JobStatus \ {"completed"}, task[t].pc \in JobPCs,
             Store(t, [row[k][n] EXCEPT !.status = status]),
             status \in ActiveStatus => ~ Refused(k, n)
      PROVE  Changed
  <2> DEFINE new == [row[k][n] EXCEPT !.status = status]
  <2>1. /\ new \in JobRow(k) /\ new.status = status
        /\ new.basis = row[k][n].basis /\ new.output = row[k][n].output
    BY <1>1, <1>6 DEF JobRow
  <2>2. Store(t, new)
    BY <1>6
  <2> HIDE DEF new
  <2>3. Gathered(t, k, row[k][n], new)
    BY <1>1, <1>6, <2>1 DEF Gathered
  <2>4. new.status # "absent"
    BY <2>1 DEF JobStatus
  <2>5. QED BY <1>2, <1>6, <2>1, <2>2, <2>3, <2>4
<1>7. CASE JobStart(t)
  <2>1. row' = row \/ (Store(t, [row[k][n] EXCEPT !.status = "running"])
                         /\ ~ Refused(k, n))
    BY <1>7 DEF JobStart, Mine
  <2>2. task[t].pc \in JobPCs /\ "running" \in JobStatus \ {"completed"}
    BY <1>7 DEF JobStart, JobPCs, WorkPCs, JobStatus
  <2>3. QED BY <1>6, <2>1, <2>2
<1>8. ASSUME NEW status \in {"completed", "timed_out"}, task[t].pc \in JobPCs,
             NEW output \in SUBSET Parts(k), row[k][n].output = {},
             Store(t, [row[k][n] EXCEPT !.status = status, !.output = output]),
             status = "completed" => output = Output[k] \X {t}
      PROVE  Changed
  <2> DEFINE new == [row[k][n] EXCEPT !.status = status, !.output = output]
  <2>1. /\ new \in JobRow(k) /\ new.status = status
        /\ new.basis = row[k][n].basis /\ new.output = output
    BY <1>1, <1>8 DEF JobRow, JobStatus
  <2>2. Store(t, new)
    BY <1>8
  <2> HIDE DEF new
  <2>3. Gathered(t, k, row[k][n], new)
    BY <1>1, <1>8, <2>1 DEF Gathered
  <2>4. new.status # "absent" /\ new.status \notin ActiveStatus
    BY <2>1 DEF ActiveStatus
  <2>5. QED BY <1>2, <1>8, <2>1, <2>2, <2>3, <2>4
<1>9. CASE JobComplete(t)
  <2>1. /\ row[k][n].output = {}
        /\ Store(t, [row[k][n] EXCEPT !.status = "completed",
                                      !.output = Output[k] \X {t}])
    BY <1>9 DEF JobComplete, Mine
  <2>2. QED BY <1>3, <1>8, <1>9, <2>1 DEF JobComplete, JobPCs, WorkPCs
<1>10. CASE InvestigationTimeout(t)
  <2>1. k = "investigation" /\ task[t].pc \in JobPCs
    BY <1>10 DEF InvestigationTimeout, JobPCs, WorkPCs
  <2>2. \/ row' = row
        \/ /\ row[k][n].output = {}
           /\ Store(t, [row[k][n] EXCEPT !.status = "timed_out",
                                         !.output = {"planning"} \X {t}])
    BY <1>10 DEF InvestigationTimeout, Mine
  <2>3. QED BY <1>3, <1>8, <2>1, <2>2
<1>11. CASE JobFail(t)
  <2>1. Store(t, [row[k][n] EXCEPT !.status = "failed"])
    BY <1>11 DEF JobFail, Mine
  <2>2. task[t].pc \in JobPCs
    BY <1>11 DEF JobFail, JobPCs, WorkPCs
  <2>3. "failed" \in JobStatus \ {"completed"} /\ "failed" \notin ActiveStatus
    BY DEF JobStatus, ActiveStatus
  <2>4. QED BY <1>6, <2>1, <2>2, <2>3
<1>12. CASE UNCHANGED row
  BY <1>12
<1>13. QED
  BY <1>4, <1>5, <1>7, <1>9, <1>10, <1>11, <1>12
     DEF Step, Start, Continue, Lost, RequestInvestigation, RequestAssessment,
         RetryCheck, JobLoad

\* A row that exists does not disappear.
LEMMA RowsStay ==
  ASSUME TypeOK, NEW t \in Tasks, Step(t), NEW k \in Kinds, NEW n \in Ids,
         row[k][n].status # "absent"
  PROVE  row'[k][n].status # "absent"
<1>1. ASSUME NEW j \in Kinds, NEW m \in Ids, NEW new, Commits(t, j, m, new)
      PROVE  row'[k][n].status # "absent"
  BY <1>1, Stored DEF Commits
<1>2. QED BY <1>1, RowChanges

---------------------------------------------------------------------------
(* Type correctness *)

\* u has not moved, although what it has read may be gone.
Same(u) == /\ task'[u].pc = task[u].pc
           /\ task'[u].kind = task[u].kind /\ task'[u].id = task[u].id

\* The task that moves keeps its shape, and works on a row that exists.
LEMMA TaskKept ==
  ASSUME TypeOK, NEW t \in Tasks, Step(t)
  PROVE  /\ task' \in [Tasks -> TaskRow]
         /\ \A u \in Tasks \ {t} : Same(u)
         /\ Exists(t)'
<1> USE DEF TypeOK, At, Goto, Finish
<1> DEFINE Kept == /\ task' \in [Tasks -> TaskRow]
                   /\ \A u \in Tasks \ {t} : Same(u)
                   /\ Exists(t)'
<1>1. /\ task \in [Tasks -> TaskRow] /\ task[t].kind \in Kinds
      /\ task[t].pc \in JobPCs =>
           /\ task[t].id \in Ids
           /\ row[task[t].kind][task[t].id].status # "absent"
           /\ row'[task[t].kind][task[t].id].status # "absent"
  BY RowsStay DEF TaskRow, Absent, InStatus
<1>2. /\ Idle \in TaskRow /\ Idle.pc = "idle" /\ 0 \in 0..MaxRows
      /\ Ids \subseteq 0..MaxRows
  BY PipelineAssumption
     DEF Idle, TaskRow, Kinds, Ids, PipelineAssumption
<1>3. ASSUME NEW new \in TaskRow, task' = [task EXCEPT ![t] = new]
      PROVE  /\ task' \in [Tasks -> TaskRow]
             /\ \A u \in Tasks \ {t} : Same(u)
             /\ task'[t] = new
  BY <1>1, <1>3 DEF Same
<1>4. ASSUME Finish(t)
      PROVE  Kept
  BY <1>2, <1>3, <1>4 DEF JobPCs, WorkPCs, Exists
<1>5. ASSUME NEW n \in Ids
      PROVE  LET new == Job(task[t].kind, n)
             IN  /\ new \in TaskRow
                 /\ new.kind = task[t].kind /\ new.id = n
  BY <1>1, <1>2 DEF Job, TaskRow, JobPCs, WorkPCs, Idle
<1>6. ASSUME NEW pc \in JobPCs \cup {"requesting", "lost", "unrecorded"},
             Goto(t, pc), pc \in JobPCs => task[t].pc \in JobPCs
      PROVE  Kept
  <2> DEFINE new == [task[t] EXCEPT !.pc = pc]
  <2>1. /\ new \in TaskRow /\ new.pc = pc
        /\ new.kind = task[t].kind /\ new.id = task[t].id
    BY <1>1, <1>6 DEF TaskRow
  <2>2. task' = [task EXCEPT ![t] = new]
    BY <1>6
  <2> HIDE DEF new
  <2>3. QED BY <1>1, <1>3, <1>6, <2>1, <2>2 DEF Exists
<1>7. CASE RequestInvestigation(t)
  BY <1>6, <1>7 DEF RequestInvestigation, JobPCs, WorkPCs
<1>8. CASE RequestAssessment(t)
  <2>1. PICK i \in Completed("investigation") :
          task' = [task EXCEPT ![t].pc = "requesting",
                               ![t].kind = "assessment", ![t].basis = i]
    BY <1>8 DEF RequestAssessment
  <2>2. i \in 0..MaxRows
    BY <1>2 DEF Completed, InStatus
  <2> DEFINE new == [task[t] EXCEPT !.pc = "requesting",
                                    !.kind = "assessment", !.basis = i]
  <2>3. new \in TaskRow /\ new.pc = "requesting"
    <3>1. task[t] \in TaskRow /\ "assessment" \in Kinds
      BY <1>1 DEF Kinds
    <3>2. QED BY <2>2, <3>1 DEF TaskRow
  <2>4. task' = [task EXCEPT ![t] = new]
    BY <2>1
  <2> HIDE DEF new
  <2>5. QED BY <1>3, <2>3, <2>4 DEF JobPCs, WorkPCs, Exists
<1>9. ASSUME NEW k \in Kinds, NEW n \in Ids, RetryCheck(t, k, n)
      PROVE  Kept
  <2> DEFINE new == [pc |-> "retrying", kind |-> k, id |-> n, basis |-> 0,
                     loaded |-> row[k][n].output \cap Erased]
  <2>1. row'[k][n].status # "absent"
    BY <1>9 DEF RetryCheck, Retriable, RetryStatus
  <2>2. new \in TaskRow
    BY <1>2 DEF TaskRow, JobPCs
  <2>3. task' = [task EXCEPT ![t] = new]
    BY <1>9 DEF RetryCheck
  <2>4. new.kind = k /\ new.id = n
    OBVIOUS
  <2> HIDE DEF new
  <2>5. QED BY <1>3, <2>1, <2>2, <2>3, <2>4 DEF Exists
<1>10. CASE RequestCommit(t)
  <2> DEFINE k == task[t].kind
  <2>1. ASSUME NEW n \in Absent(k), task' = [task EXCEPT ![t] = Job(k, n)],
               row' = [row EXCEPT ![k][n] = [NoRow EXCEPT
                         !.status = "queued", !.basis = task[t].basis]]
        PROVE  Kept
    <3>1. n \in Ids /\ row'[k][n].status # "absent"
      BY <1>1, <2>1 DEF Absent, InStatus, NoRow
    <3>2. QED BY <1>3, <1>5, <2>1, <3>1 DEF Exists
  <2>2. QED BY <1>4, <1>10, <2>1 DEF RequestCommit
<1>11. CASE RetryCommit(t)
  <2> DEFINE k       == task[t].kind
             n       == task[t].id
             Rest(u) == IF task[u].kind = k /\ task[u].id = n
                          THEN [task[u] EXCEPT !.loaded = @ \ task[t].loaded]
                          ELSE task[u]
             Rests   == task' = [u \in Tasks |->
                                   IF u = t THEN Job(k, n) ELSE Rest(u)]
  <2>1. n \in Ids /\ row'[k][n].status # "absent"
    BY <1>1, <1>11 DEF RetryCommit, JobPCs, WorkPCs
  <2>2. ASSUME Rests
        PROVE  Kept
    <3>1. ASSUME NEW u \in Tasks
          PROVE  /\ Rest(u) \in TaskRow /\ Rest(u).pc = task[u].pc
                 /\ Rest(u).kind = task[u].kind /\ Rest(u).id = task[u].id
      <4>1. task[u] \in TaskRow
        BY <1>1
      <4>2. QED BY <4>1 DEF TaskRow
    <3> HIDE DEF Rest
    <3>2. task' \in [Tasks -> TaskRow]
      BY <1>5, <2>1, <2>2, <3>1
    <3>3. \A u \in Tasks \ {t} : Same(u)
      BY <2>2, <3>1 DEF Same
    <3>4. task'[t] = Job(k, n)
      BY <2>2
    <3>5. QED BY <1>5, <2>1, <3>2, <3>3, <3>4 DEF Exists
  <2>3. Finish(t) \/ Rests
    BY <1>11 DEF RetryCommit
  <2>4. QED BY <1>4, <2>2, <2>3
<1>12. CASE JobLoad(t) \/ JobStart(t) \/ JobComplete(t)
  BY <1>4, <1>6, <1>12 DEF JobLoad, JobStart, JobComplete, JobPCs, WorkPCs
<1>13. CASE JobFail(t) \/ InvestigationTimeout(t)
  BY <1>4, <1>6, <1>13
     DEF JobFail, InvestigationTimeout, JobPCs, WorkPCs
<1>14. CASE Lost(t)
  BY <1>4, <1>6, <1>14 DEF Lost, JobPCs, WorkPCs
<1>15. QED
  BY <1>7, <1>8, <1>9, <1>10, <1>11, <1>12, <1>13, <1>14
     DEF Step, Start, Continue

\* Every step keeps the rows and the tasks in shape.
LEMMA TypeStep == TypeOK /\ [Next]_vars => TypeOK'
<1> SUFFICES ASSUME TypeOK, [Next]_vars
             PROVE  TypeOK'
  OBVIOUS
<1>1. ASSUME NEW t \in Tasks, Step(t)
      PROVE  TypeOK'
  <2>1. /\ row' \in [Kinds -> [Ids -> JobRow("investigation") \cup JobRow("assessment")]]
        /\ \A k \in Kinds, n \in Ids : row'[k][n] \in JobRow(k)
    <3>1. ASSUME NEW k \in Kinds, NEW n \in Ids, NEW new, Commits(t, k, n, new)
          PROVE  /\ row' \in [Kinds -> [Ids -> JobRow("investigation")
                                              \cup JobRow("assessment")]]
                 /\ \A j \in Kinds, m \in Ids : row'[j][m] \in JobRow(j)
      BY <1>1, <3>1, Stored DEF Commits
    <3>2. QED BY <1>1, <3>1, RowChanges DEF TypeOK
  <2>2. \A u \in Tasks : Exists(u)'
    <3>1. ASSUME NEW u \in Tasks \ {t}
          PROVE  Exists(u)'
      <4>1. Same(u) /\ task[u].kind \in Kinds
        BY <1>1, TaskKept DEF TypeOK
      <4>2. CASE task[u].pc \in JobPCs
        <5>1. /\ task[u].id \in Ids
              /\ row[task[u].kind][task[u].id].status # "absent"
          BY <1>1, <4>2 DEF TypeOK, Absent, InStatus
        <5>2. row'[task[u].kind][task[u].id].status # "absent"
          BY <1>1, <4>1, <5>1, RowsStay
        <5>3. QED BY <4>1, <5>1, <5>2 DEF Exists, Same
      <4>3. QED BY <4>1, <4>2 DEF Exists, Same
    <3>2. QED BY <1>1, <3>1, TaskKept
  <2>3. QED BY <1>1, <2>1, <2>2, TaskKept
            DEF TypeOK, TaskRow, Exists, Absent, InStatus
<1>2. CASE UNCHANGED vars
  BY <1>2 DEF vars, TypeOK, Absent, InStatus
<1>3. QED BY <1>1, <1>2 DEF Next, Step

\* The rows and the tasks keep the shape the code gives them.
THEOREM TypeCorrect == Spec => []TypeOK
<1>1. Init => TypeOK
  BY PipelineAssumption
     DEF Init, TypeOK, NoRow, Idle, JobRow, JobPCs, WorkPCs, Kinds, Ids, PipelineAssumption
<1>2. QED BY <1>1, TypeStep, PTL DEF Spec

---------------------------------------------------------------------------
(* One active row *)

\* No step makes a second row of a kind active.
LEMMA OneActiveStep ==
  ASSUME TypeOK, OneActive, NEW t \in Tasks, Step(t)
  PROVE  OneActive'
<1>1. ASSUME NEW k \in Kinds, NEW n \in Ids, NEW new, Commits(t, k, n, new)
      PROVE  OneActive'
  BY <1>1, Stored DEF Commits, OneActive, Active, InStatus
<1>2. CASE row' = row
  BY <1>2 DEF OneActive, Active, InStatus
<1>3. QED BY <1>1, <1>2, RowChanges

\* At most one investigation and one assessment of the ticket is active,
\* whatever is retried or lost.
THEOREM OneActiveRun == Spec => []OneActive
<1>1. Init => OneActive
  BY DEF Init, OneActive, Active, InStatus, ActiveStatus, NoRow
<1>2. TypeOK /\ OneActive /\ [Next]_vars => OneActive'
  <2>1. ASSUME UNCHANGED vars, OneActive
        PROVE  OneActive'
    BY <2>1 DEF vars, OneActive, Active, InStatus
  <2>2. QED BY <2>1, OneActiveStep DEF Next, Step
<1>3. QED BY <1>1, <1>2, TypeCorrect, PTL DEF Spec

---------------------------------------------------------------------------
(* What a row has gathered *)

\* No step lets two assessments rest on one investigation.
LEMMA AssessedOnceStep ==
  ASSUME TypeOK, AssessedOnce, NEW t \in Tasks, Step(t)
  PROVE  AssessedOnce'
<1>1. ASSUME NEW k \in Kinds, NEW n \in Ids, NEW new, Commits(t, k, n, new)
      PROVE  AssessedOnce'
  <2>1. /\ row'[k][n] = new
        /\ \A j \in Kinds, m \in Ids : j # k \/ m # n => row'[j][m] = row[j][m]
    <3>1. row' = [row EXCEPT ![k][n] = new] /\ new \in JobRow(k)
      BY <1>1 DEF Commits
    <3>2. QED BY <3>1 DEF TypeOK
  <2>2. "assessment" \in Kinds
    BY DEF Kinds
  <2>3. CASE k # "assessment"
    BY <2>1, <2>2, <2>3 DEF AssessedOnce, Absent, InStatus
  <2>4. CASE k = "assessment" /\ Inserted(k, n, new)
    <3>1. \A a \in Ids : row["assessment"][a].status # "absent"
                           => row["assessment"][a].basis # new.basis
      BY <2>4 DEF Inserted, Assessed, Absent, InStatus
    <3>2. QED BY <2>1, <2>2, <2>4, <3>1 DEF AssessedOnce, Absent, InStatus, Inserted
  <2>5. CASE k = "assessment" /\ Gathered(t, k, row[k][n], new)
    BY <2>1, <2>2, <2>5 DEF AssessedOnce, Absent, InStatus, Gathered
  <2>6. QED BY <1>1, <2>3, <2>4, <2>5 DEF Commits
<1>2. CASE row' = row
  BY <1>2 DEF AssessedOnce, Absent, InStatus
<1>3. QED BY <1>1, <1>2, RowChanges

\* No investigation is assessed twice, whatever is retried or lost.
THEOREM InvestigationAssessedOnce == Spec => []AssessedOnce
<1>1. Init => AssessedOnce
  BY DEF Init, AssessedOnce, Absent, InStatus, NoRow, Kinds
<1>2. TypeOK /\ AssessedOnce /\ [Next]_vars => AssessedOnce'
  <2>1. ASSUME UNCHANGED vars, AssessedOnce
        PROVE  AssessedOnce'
    BY <2>1 DEF vars, AssessedOnce, Absent, InStatus
  <2>2. QED BY <2>1, AssessedOnceStep DEF Next, Step
<1>3. QED BY <1>1, <1>2, TypeCorrect, PTL DEF Spec

\* No step completes a row whose output is of two runs, or takes any of the
\* output of a completed row.
LEMMA CompletedStep ==
  ASSUME TypeOK, CompletedByOneRun, NEW t \in Tasks, Step(t)
  PROVE  CompletedByOneRun'
<1>1. ASSUME NEW k \in Kinds, NEW n \in Ids, NEW new, Commits(t, k, n, new)
      PROVE  CompletedByOneRun'
  <2>1. /\ row'[k][n] = new
        /\ \A j \in Kinds, m \in Ids : j # k \/ m # n => row'[j][m] = row[j][m]
    <3>1. row' = [row EXCEPT ![k][n] = new] /\ new \in JobRow(k)
      BY <1>1 DEF Commits
    <3>2. QED BY <3>1 DEF TypeOK
  <2>2. new.status = "completed" => new.output = Output[k] \X {t}
    BY <1>1 DEF Commits, Inserted, Gathered
  <2>3. ASSUME NEW j \in Kinds, NEW m \in Ids, row'[j][m].status = "completed"
        PROVE  \E u \in Tasks : row'[j][m].output = Output[j] \X {u}
    <3>1. CASE j = k /\ m = n
      BY <2>1, <2>2, <2>3, <3>1
    <3>2. CASE j # k \/ m # n
      BY <2>1, <2>3, <3>2 DEF CompletedByOneRun, Completed, InStatus
    <3>3. QED BY <3>1, <3>2
  <2>4. QED BY <2>3 DEF CompletedByOneRun, Completed, InStatus
<1>2. CASE row' = row
  BY <1>2 DEF CompletedByOneRun, Completed, InStatus
<1>3. QED BY <1>1, <1>2, RowChanges

\* What a completed row has gathered is all there and comes from one run.
THEOREM CompletedRowsOfOneRun == Spec => []CompletedByOneRun
<1>1. Init => CompletedByOneRun
  BY DEF Init, CompletedByOneRun, Completed, InStatus, NoRow
<1>2. TypeOK /\ CompletedByOneRun /\ [Next]_vars => CompletedByOneRun'
  <2>1. ASSUME UNCHANGED vars, CompletedByOneRun
        PROVE  CompletedByOneRun'
    BY <2>1 DEF vars, CompletedByOneRun, Completed, InStatus
  <2>2. QED BY <2>1, CompletedStep DEF Next, Step
<1>3. QED BY <1>1, <1>2, TypeCorrect, PTL DEF Spec

\* A row that does not exist has gathered nothing.
AbsentEmpty ==
  \A k \in Kinds, n \in Ids :
    row[k][n].status = "absent" => row[k][n].output = {}

\* Rows are inserted empty, and never removed.
THEOREM AbsentRowsEmpty == Spec => []AbsentEmpty
<1>1. Init => AbsentEmpty
  BY DEF Init, AbsentEmpty, NoRow
<1>2. TypeOK /\ AbsentEmpty /\ [Next]_vars => AbsentEmpty'
  <2>1. ASSUME TypeOK, AbsentEmpty, NEW t \in Tasks, Step(t)
        PROVE  AbsentEmpty'
    <3>1. ASSUME NEW k \in Kinds, NEW n \in Ids, NEW new, Commits(t, k, n, new)
          PROVE  AbsentEmpty'
      BY <2>1, <3>1, Stored DEF Commits, AbsentEmpty
    <3>2. CASE row' = row
      BY <2>1, <3>2 DEF AbsentEmpty
    <3>3. QED BY <2>1, <3>1, <3>2, RowChanges
  <2>2. ASSUME AbsentEmpty, UNCHANGED vars
        PROVE  AbsentEmpty'
    BY <2>2 DEF vars, AbsentEmpty
  <2>3. QED BY <2>1, <2>2 DEF Next, Step
<1>3. QED BY <1>1, <1>2, TypeCorrect, PTL DEF Spec

\* No step deletes a recommendation or gives an assessment another one.
LEMMA ProposalsKept ==
  ASSUME TypeOK, AbsentEmpty, NEW t \in Tasks, Step(t),
         NEW a \in Ids, Proposals(a) # {}
  PROVE  Proposals(a)' = Proposals(a)
<1>1. ASSUME NEW k \in Kinds, NEW n \in Ids, NEW new, Commits(t, k, n, new)
      PROVE  Proposals(a)' = Proposals(a)
  <2>1. /\ row'[k][n] = new
        /\ \A j \in Kinds, m \in Ids : j # k \/ m # n => row'[j][m] = row[j][m]
    <3>1. row' = [row EXCEPT ![k][n] = new] /\ new \in JobRow(k)
      BY <1>1 DEF Commits
    <3>2. QED BY <3>1 DEF TypeOK
  <2>2. "assessment" \in Kinds
    BY DEF Kinds
  <2>3. CASE k # "assessment" \/ n # a
    BY <2>1, <2>2, <2>3 DEF Proposals
  <2>4. CASE k = "assessment" /\ n = a
    <3> DEFINE old == row["assessment"][a]
    <3>1. old.output # {}
      BY DEF Proposals
    <3>2. old.status # "absent"
      BY <2>2, <3>1 DEF AbsentEmpty
    <3>3. /\ new.output \subseteq old.output
          /\ old.output \ new.output \subseteq Erased
      BY <1>1, <2>4, <3>1, <3>2 DEF Commits, Inserted, Gathered
    <3>4. \A p \in Erased : p[1] # "recommendation"
      BY DEF Erased
    <3>5. {p \in new.output : p[1] = "recommendation"} = Proposals(a)
      BY <3>3, <3>4 DEF Proposals
    <3>6. QED BY <2>1, <2>4, <3>5 DEF Proposals
  <2>5. QED BY <2>3, <2>4
<1>2. CASE row' = row
  BY <1>2 DEF Proposals
<1>3. QED BY <1>1, <1>2, RowChanges

\* Whatever is retried, the recommendation of an assessment stays the same one
\* and the only one.
THEOREM RecommendationsFinal == Spec => ProposalIsFinal
<1>1. ASSUME TypeOK, AbsentEmpty, [Next]_vars
      PROVE  [\A a \in Ids : Proposals(a) # {}
                => Proposals(a)' = Proposals(a)]_vars
  BY <1>1, ProposalsKept DEF Next, Step
<1>2. QED BY <1>1, TypeCorrect, AbsentRowsEmpty, PTL DEF Spec, ProposalIsFinal

---------------------------------------------------------------------------
(* Every active row has a job, or had one that went *)

\* t may still finish row n of kind k, or went without a word: a job that has
\* not looked at the row yet needs it queued.
Attends(t, k, n) ==
  /\ task[t].kind = k /\ task[t].id = n
  /\ \/ task[t].pc \in {"loaded", "running", "lost"}
     \/ task[t].pc = "unrecorded" /\ k = "investigation"
     \/ task[t].pc = "scheduled" /\ row[k][n].status = "queued"

Attended ==
  \A k \in Kinds : \A n \in Active(k) : \E t \in Tasks : Attends(t, k, n)

\* A task attends the row it has just written and left active, and whatever
\* row it has attended before until it is no longer active.
LEMMA OwnRow ==
  ASSUME TypeOK, OneActive, NEW t \in Tasks, Step(t),
         NEW k \in Kinds, NEW n \in Ids, row'[k][n].status \in ActiveStatus,
         row'[k][n] # row[k][n] \/ Attends(t, k, n)
  PROVE  Attends(t, k, n)'
<1> USE DEF TypeOK, At
<1> DEFINE j == task[t].kind
           m == task[t].id
<1>1. /\ j \in Kinds /\ task \in [Tasks -> TaskRow]
      /\ task[t].pc \in JobPCs => /\ m \in Ids /\ Mine(t) \in JobRow(j)
                                  /\ Mine(t) = row[j][m]
  BY DEF TaskRow, Mine
<1>2. ASSUME row' = row
      PROVE  Attends(t, k, n)
  BY <1>2
<1>3. ASSUME NEW new, m \in Ids, Store(t, new)
      PROVE  /\ row'[j][m] = new
             /\ k = j /\ n = m
  <2>1. row' = [row EXCEPT ![j][m] = new]
    BY <1>3 DEF Store
  <2>2. /\ row'[j][m] = new
        /\ \A i \in Kinds, l \in Ids : i # j \/ l # m => row'[i][l] = row[i][l]
    BY <1>1, <1>3, <2>1
  <2>3. Attends(t, k, n) => k = j /\ n = m
    BY DEF Attends
  <2>4. QED BY <2>2, <2>3
<1>4. ASSUME NEW status \in {"completed", "failed", "timed_out"},
             task[t].pc \in JobPCs,
             \/ Store(t, [Mine(t) EXCEPT !.status = status])
             \/ \E output : Store(t, [Mine(t) EXCEPT !.status = status,
                                                     !.output = output])
      PROVE  FALSE
  <2>1. ASSUME NEW new, Store(t, new), new.status = status
        PROVE  FALSE
    BY <1>1, <1>3, <1>4, <2>1 DEF ActiveStatus
  <2>2. [Mine(t) EXCEPT !.status = status].status = status
    BY <1>1, <1>4 DEF JobRow
  <2>3. ASSUME NEW output
        PROVE  [Mine(t) EXCEPT !.status = status, !.output = output].status = status
    BY <1>1, <1>4 DEF JobRow
  <2>4. QED BY <1>4, <2>1, <2>2, <2>3
<1>5. ASSUME NEW pc \in {"loaded", "running", "lost"},
             Goto(t, pc), k = j, n = m
      PROVE  Attends(t, k, n)'
  <2>1. /\ task'[t].pc = pc /\ task'[t].kind = j /\ task'[t].id = m
    BY <1>1, <1>5 DEF Goto, TaskRow
  <2>2. QED BY <1>5, <2>1 DEF Attends
<1>6. ASSUME task'[t] = Job(k, n), row'[k][n].status = "queued"
      PROVE  Attends(t, k, n)'
  BY <1>6 DEF Attends, Job, Idle
<1>7. CASE RequestInvestigation(t) \/ RequestAssessment(t)
             \/ \E i \in Kinds, l \in Ids : RetryCheck(t, i, l)
  BY <1>2, <1>7 DEF RequestInvestigation, RequestAssessment, RetryCheck, Attends
<1>8. CASE RequestCommit(t)
  <2>1. PICK l \in Absent(j) :
          /\ row' = [row EXCEPT ![j][l] = [NoRow EXCEPT
                       !.status = "queued", !.basis = task[t].basis]]
          /\ task' = [task EXCEPT ![t] = Job(j, l)]
    BY <1>2, <1>8 DEF RequestCommit, Attends
  <2>2. l \in Ids
    BY <2>1 DEF Absent, InStatus
  <2>3. /\ row'[j][l].status = "queued"
        /\ \A i \in Kinds, h \in Ids : i # j \/ h # l => row'[i][h] = row[i][h]
    BY <1>1, <2>1, <2>2 DEF NoRow
  <2>4. ~ Attends(t, k, n)
    BY <1>8 DEF RequestCommit, Attends
  <2>5. k = j /\ n = l
    BY <2>3, <2>4
  <2>6. QED BY <1>6, <2>1, <2>3, <2>5
<1>9. CASE RetryCommit(t)
  <2> DEFINE new == [Mine(t) EXCEPT !.status = "queued",
                                    !.output = @ \ task[t].loaded]
  <2>1. task[t].pc \in JobPCs /\ ~ Attends(t, k, n)
    BY <1>9 DEF RetryCommit, JobPCs, Attends
  <2>2. Store(t, new) /\ task'[t] = Job(j, m)
    BY <1>2, <1>9, <2>1 DEF RetryCommit
  <2>3. new.status = "queued"
    BY <1>1, <2>1 DEF JobRow
  <2> HIDE DEF new
  <2>4. QED BY <1>1, <1>3, <1>6, <2>1, <2>2, <2>3
<1>10. CASE JobLoad(t)
  <2>1. Attends(t, k, n)
    BY <1>2, <1>10 DEF JobLoad
  <2>2. k = j /\ n = m /\ Mine(t).status = "queued"
    BY <1>10, <2>1 DEF JobLoad, Attends, Mine
  <2>3. QED BY <1>5, <1>10, <2>2 DEF JobLoad
<1>11. CASE JobStart(t)
  <2>1. task[t].pc \in JobPCs
    BY <1>11 DEF JobStart, JobPCs, WorkPCs
  <2>2. CASE Refused(j, m)
    <3>1. Attends(t, k, n) /\ row' = row
      BY <1>2, <1>11, <2>2 DEF JobStart
    <3>2. k = j /\ n = m /\ n \in Active(k)
      BY <3>1 DEF Attends, Active, InStatus
    <3>3. QED BY <2>2, <3>2 DEF Refused, OneActive, Active, InStatus
  <2>3. CASE ~ Refused(j, m)
    BY <1>1, <1>3, <1>5, <1>11, <2>1, <2>3 DEF JobStart
  <2>4. QED BY <2>2, <2>3
<1>12. CASE JobComplete(t)
  <2>1. task[t].pc \in JobPCs
    BY <1>12 DEF JobComplete, JobPCs, WorkPCs
  <2>2. QED BY <1>4, <1>12, <2>1 DEF JobComplete
<1>13. CASE JobFail(t)
  <2>1. task[t].pc \in JobPCs
    BY <1>13 DEF JobFail, JobPCs, WorkPCs
  <2>2. QED BY <1>4, <1>13, <2>1 DEF JobFail
<1>14. CASE InvestigationTimeout(t)
  <2>1. task[t].pc \in JobPCs /\ j = "investigation"
    BY <1>14 DEF InvestigationTimeout, JobPCs, WorkPCs
  <2>2. row' = row /\ Goto(t, "unrecorded")
    BY <1>4, <1>14, <2>1 DEF InvestigationTimeout
  <2>3. k = j /\ n = m
    BY <1>2, <2>2 DEF Attends
  <2>4. task'[t].pc = "unrecorded" /\ task'[t].kind = j /\ task'[t].id = m
    BY <1>1, <2>2 DEF Goto, TaskRow
  <2>5. QED BY <2>1, <2>3, <2>4 DEF Attends
<1>15. CASE Lost(t)
  <2>1. Attends(t, k, n) /\ task[t].pc \in WorkPCs
    BY <1>2, <1>15 DEF Lost, Attends, WorkPCs
  <2>2. Goto(t, "lost") /\ k = j /\ n = m
    BY <1>15, <2>1 DEF Lost, Attends
  <2>3. QED BY <1>5, <2>2
<1>16. QED
  BY <1>7, <1>8, <1>9, <1>10, <1>11, <1>12, <1>13, <1>14, <1>15
     DEF Step, Start, Continue

\* An active row is still attended after a step.
LEMMA AttendedStep ==
  ASSUME TypeOK, OneActive, Attended, NEW t \in Tasks, Step(t)
  PROVE  Attended'
<1> SUFFICES ASSUME NEW k \in Kinds, NEW n \in Ids,
                    row'[k][n].status \in ActiveStatus
             PROVE  \E u \in Tasks : Attends(u, k, n)'
  BY DEF Attended, Active, InStatus
<1>1. CASE row'[k][n] # row[k][n]
  BY <1>1, OwnRow
<1>2. CASE row'[k][n] = row[k][n]
  <2>1. PICK u \in Tasks : Attends(u, k, n)
    BY <1>2 DEF Attended, Active, InStatus
  <2>2. CASE u = t
    BY <2>1, <2>2, OwnRow
  <2>3. CASE u # t
    BY <1>2, <2>1, <2>3, TaskKept DEF Same, Attends
  <2>4. QED BY <2>2, <2>3
<1>3. QED BY <1>1, <1>2

\* An active row has a job at work, or had one that was lost or, for an
\* investigation, could not record its timeout; whatever else is retried.
THEOREM ActiveRowsHaveJobs == Spec => []OrphanedByTimeout
<1>1. Init => Attended
  BY DEF Init, NoRow, Attended, Active, InStatus, ActiveStatus
<1>2. TypeOK /\ OneActive /\ Attended /\ [Next]_vars => Attended'
  <2>1. ASSUME Attended, UNCHANGED vars
        PROVE  Attended'
    BY <2>1 DEF vars, Attended, Attends, Active, InStatus
  <2>2. QED BY <2>1, AttendedStep DEF Next, Step
<1>3. Attended => OrphanedByTimeout
  BY DEF Attended, OrphanedByTimeout, Attends, HasJob, GoneFrom, TimedOutOn,
         WorkPCs, At
<1>4. QED BY <1>1, <1>2, <1>3, TypeCorrect, OneActiveRun, PTL DEF Spec
=============================================================================
