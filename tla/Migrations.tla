----------------------------- MODULE Migrations ------------------------------
(***************************************************************************)
(* The database schema and its eight Alembic revisions                     *)
(* (alembic/versions), and the schema that app/models declares.            *)
(*                                                                         *)
(* A schema is a set of objects: types, tables, and the columns and checks *)
(* that later revisions hang on a table.  Of a table we keep what it       *)
(* refers to (foreign keys, types, sequences) and its unique keys.  A      *)
(* statement that PostgreSQL would refuse fails the whole transaction.     *)
(*                                                                         *)
(* Rows are followed where a revision rewrites them: tickets with their    *)
(* outcome fields, assessments, and the recommendations made from them.    *)
(*                                                                         *)
(* Left out: column types and lengths, plain indexes, defaults, and the    *)
(* checks on one row's own values.                                         *)
(***************************************************************************)
EXTENDS Integers, Sequences

---------------------------------------------------------------------------
(* Objects *)

Object(name, of, needs, keys) ==
  [name |-> name, of |-> of, needs |-> needs, keys |-> keys]

Type(name)               == Object(name, "", {}, {})
Table(name, needs, keys) == Object(name, "", needs, keys)
Part(name, table)        == Object(name, table, {}, {})

ResolutionColumns == {"resolved_at", "resolution_summary"}
EscalationColumns ==
  {"escalated_at", "escalation_destination", "escalation_reason"}
OutcomeColumns == ResolutionColumns \cup EscalationColumns

---------------------------------------------------------------------------
(* Rows: a ticket's status and filled outcome columns, its assessment,     *)
(* and the action of its recommendation                                    *)

Statuses == {"open", "resolved", "escalated"}
Assessments == {"none", "unfinished", "completed", "escalating"}
Actions == {"none", "troubleshoot", "request_information", "high_impact",
            "escalate"}

RowType ==
  [status : Statuses, filled : SUBSET OutcomeColumns,
   assessment : Assessments, proposal : Actions]

Outcome(row) == [status |-> row.status, filled |-> row.filled]
Outcomes == [status : Statuses, filled : SUBSET OutcomeColumns]

\* The outcomes of tickets in a status that have these columns filled.
Only(status, filled, blank) ==
  {o \in Outcomes : o.status = status =>
     filled \subseteq o.filled /\ o.filled \cap blank = {}}

\* What is left of a row when only these objects are.
Surviving(row, names) ==
  [row EXCEPT
     !.filled     = @ \cap names,
     !.assessment = IF "root_cause_assessments" \in names THEN @ ELSE "none",
     !.proposal   = IF "recommendations" \in names THEN @ ELSE "none"]

---------------------------------------------------------------------------
(* Statements on a database [ok, objects, rows] *)

Empty == [ok |-> TRUE, objects |-> {}, rows |-> {}]

Names(db) == {o.name : o \in db.objects}
Refused(db) == [db EXCEPT !.ok = FALSE]

CreateObject(db, o) ==
  IF o.name \in Names(db) \/ ~(o.needs \cup ({o.of} \ {""}) \subseteq Names(db))
  THEN Refused(db)
  ELSE [db EXCEPT !.objects = @ \cup {o}]

\* A dropped table takes its parts along; what others refer to stays.
DropObject(db, name) ==
  LET gone == {o \in db.objects : name \in {o.name, o.of}}
      left == db.objects \ gone
      names == {o.name : o \in left} IN
  IF name \notin Names(db) \/ \E o \in left : name \in o.needs
  THEN Refused(db)
  ELSE [db EXCEPT
         !.objects = left,
         !.rows = {Surviving(row, names) :
                     row \in {r \in @ : "tickets" \in names}}]

AddCheck(db, s) ==
  IF \A row \in db.rows : Outcome(row) \in s.permits
  THEN CreateObject(db, Part(s.name, "tickets"))
  ELSE Refused(db)

FillColumns(db, s) ==
  LET Filled(row) == IF row.status = s.status
                     THEN [row EXCEPT !.filled = @ \cup s.columns]
                     ELSE row
  IN [db EXCEPT !.rows = {Filled(row) : row \in @}]

\* Mutant: assessments that ended in an escalation get no recommendation.
ProposeCompleted(db) ==
  [db EXCEPT !.rows =
     {[row EXCEPT !.proposal =
         IF row.assessment = "completed" THEN "troubleshoot" ELSE @] :
        row \in @}]

ProposeAction(db) ==
  [db EXCEPT !.rows =
     {[row EXCEPT !.proposal =
         CASE row.assessment = "escalating" -> "escalate"
           [] row.assessment = "completed"  -> "troubleshoot"
           [] OTHER -> @] : row \in @}]

Create(o)     == [do |-> "create", object |-> o]
Ensure(o)     == [do |-> "ensure", object |-> o]
Drop(name)    == [do |-> "drop", name |-> name]
Discard(name) == [do |-> "discard", name |-> name]
Fill(status, columns) ==
  [do |-> "fill", status |-> status, columns |-> columns]
Check(name, permits) == [do |-> "check", name |-> name, permits |-> permits]
Propose == [do |-> "propose"]

Execute(db, s) ==
  CASE ~db.ok           -> db
    [] s.do = "create"  -> CreateObject(db, s.object)
    [] s.do = "ensure"  -> IF s.object.name \in Names(db) THEN db
                           ELSE CreateObject(db, s.object)
    [] s.do = "drop"    -> DropObject(db, s.name)
    [] s.do = "discard" -> IF s.name \in Names(db) THEN DropObject(db, s.name)
                           ELSE db
    [] s.do = "fill"    -> FillColumns(db, s)
    [] s.do = "check"   -> AddCheck(db, s)
    [] s.do = "propose" -> ProposeAction(db)

Run(db, statements) ==
  LET after[n \in 0..Len(statements)] ==
        IF n = 0 THEN db
        ELSE CHOOSE result \in {Execute(before, statements[n]) :
                                before \in {after[n - 1]}} : TRUE
  IN after[Len(statements)]

---------------------------------------------------------------------------
(* Revisions 0001 to 0004 *)

EnableVector     == <<Ensure(Type("vector"))>>
EnableVectorDown == <<Discard("vector")>>

Phase2Core ==
  << Ensure(Type("user_role")), Ensure(Type("ticket_status")),
     Ensure(Type("ticket_priority")), Create(Type("ticket_number_seq")),
     Create(Table("users", {"user_role"}, {"email"})),
     Create(Table("sessions", {"users"}, {"token"})),
     Create(Table("tickets", {"ticket_number_seq", "ticket_priority",
                              "ticket_status", "users"}, {"number"})),
     Create(Table("ticket_events", {"tickets", "users"}, {})),
     Create(Table("audit_logs", {"users"}, {})) >>

Phase2CoreDown ==
  << Drop("audit_logs"), Drop("ticket_events"), Drop("tickets"),
     Drop("sessions"), Drop("users"), Drop("ticket_number_seq"),
     Discard("ticket_priority"), Discard("ticket_status"),
     Discard("user_role") >>

Phase4Triage ==
  << Ensure(Type("analysis_status")),
     Create(Part("priority_overridden", "tickets")),
     Create(Part("priority_override_reason", "tickets")),
     Create(Part("ck_tickets_priority_override_reason", "tickets")),
     Create(Table("ai_analyses",
       {"tickets", "users", "analysis_status", "ticket_priority"},
       {"ticket while active"})) >>

Phase4TriageDown ==
  << Drop("ai_analyses"), Drop("ck_tickets_priority_override_reason"),
     Drop("priority_override_reason"), Drop("priority_overridden"),
     Discard("analysis_status") >>

Phase5Knowledge ==
  << Create(Table("knowledge_documents", {}, {"article", "slug", "path"})),
     Create(Table("knowledge_chunks", {"knowledge_documents", "vector"},
                  {"document and index"})) >>

Phase5KnowledgeDown ==
  << Drop("knowledge_chunks"), Drop("knowledge_documents") >>

---------------------------------------------------------------------------
(* Revisions 0005 and 0006 *)

Phase6Datasets ==
  << Create(Table("dataset_imports", {}, {"version"})),
     Create(Table("synthetic_locations", {}, {"version and source"})),
     Create(Table("synthetic_applications", {}, {"version and source"})),
     Create(Table("historical_tickets", {"vector"}, {"version and source"})),
     Create(Table("synthetic_incidents", {}, {"version and source"})) >>

Phase6Records ==
  << Create(Table("telemetry_records", {}, {"reading"})),
     Create(Table("synthetic_log_records", {}, {"line"})),
     Create(Type("investigation_status")),
     Create(Table("investigations",
       {"tickets", "ai_analyses", "users", "investigation_status"},
       {"ticket while active"})),
     Create(Type("investigation_step_status")),
     Create(Table("investigation_steps",
       {"investigations", "investigation_step_status"},
       {"investigation and key", "investigation and order"})) >>

\* Mutant: the downgrade forgets the types it has no table for any more.
Phase6TablesDown ==
  << Drop("investigation_steps"), Drop("investigations"),
     Drop("synthetic_log_records"), Drop("telemetry_records"),
     Drop("synthetic_incidents"), Drop("historical_tickets"),
     Drop("synthetic_applications"), Drop("synthetic_locations"),
     Drop("dataset_imports") >>

Phase6Down ==
  << Drop("investigation_steps"), Drop("investigations"),
     Drop("synthetic_log_records"), Drop("telemetry_records"),
     Drop("synthetic_incidents"), Drop("historical_tickets"),
     Drop("synthetic_applications"), Drop("synthetic_locations"),
     Drop("dataset_imports"), Discard("investigation_step_status"),
     Discard("investigation_status") >>

Phase7RootCause ==
  << Create(Type("root_cause_status")),
     Create(Table("root_cause_assessments",
       {"tickets", "investigations", "ai_analyses", "users",
        "root_cause_status"},
       {"investigation", "ticket while active"})),
     Create(Table("assessment_evidence", {"root_cause_assessments"},
                  {"assessment and source"})) >>

Phase7RootCauseDown ==
  << Drop("assessment_evidence"), Drop("root_cause_assessments"),
     Discard("root_cause_status") >>

---------------------------------------------------------------------------
(* Revisions 0007 and 0008 *)

TicketChecks ==
  << Check("ck_tickets_single_terminal_outcome",
       {o \in Outcomes : {"resolved_at", "escalated_at"} \ o.filled # {}}),
     Check("ck_tickets_resolved_excludes_escalation",
       Only("resolved", {}, EscalationColumns)),
     Check("ck_tickets_escalated_excludes_resolution",
       Only("escalated", {}, ResolutionColumns)),
     Check("ck_tickets_resolved_fields",
       Only("resolved", ResolutionColumns, {})),
     Check("ck_tickets_escalated_fields",
       Only("escalated", EscalationColumns, {})) >>

Phase8Outcomes ==
  << Create(Part("resolved_at", "tickets")),
     Create(Part("escalated_at", "tickets")),
     Create(Part("escalation_destination", "tickets")),
     Create(Part("escalation_reason", "tickets")),
     Create(Part("resolution_summary", "tickets")),
     Fill("resolved", ResolutionColumns), Fill("escalated", EscalationColumns)
  >> \o TicketChecks

Phase8Recommendations ==
  << Create(Type("recommendation_action_type")),
     Create(Type("recommendation_status")),
     Create(Table("recommendations",
       {"tickets", "root_cause_assessments", "users",
        "recommendation_action_type", "recommendation_status"},
       {"assessment"})),
     Propose >>

Phase8Responses ==
  << Create(Type("response_generated_by")),
     Create(Type("support_response_status")),
     Create(Table("support_responses",
       {"tickets", "root_cause_assessments", "recommendations", "users",
        "response_generated_by", "support_response_status"},
       {"ticket while draft"})) >>

Phase8Down ==
  << Drop("support_responses"), Drop("recommendations"),
     Discard("support_response_status"), Discard("response_generated_by"),
     Discard("recommendation_status"), Discard("recommendation_action_type"),
     Drop("ck_tickets_escalated_fields"), Drop("ck_tickets_resolved_fields"),
     Drop("ck_tickets_escalated_excludes_resolution"),
     Drop("ck_tickets_resolved_excludes_escalation"),
     Drop("ck_tickets_single_terminal_outcome"),
     Drop("resolution_summary"), Drop("escalation_reason"),
     Drop("escalation_destination"), Drop("escalated_at"),
     Drop("resolved_at") >>

Phase9Evaluation     == <<Create(Table("evaluation_runs", {}, {}))>>
Phase9EvaluationDown == <<Drop("evaluation_runs")>>

---------------------------------------------------------------------------
(* alembic upgrade and downgrade: one transaction for all their revisions *)

HeadRevision == 8

Upgrades ==
  << EnableVector, Phase2Core, Phase4Triage, Phase5Knowledge,
     Phase6Datasets \o Phase6Records, Phase7RootCause,
     Phase8Outcomes \o Phase8Recommendations \o Phase8Responses,
     Phase9Evaluation >>

Downgrades ==
  << EnableVectorDown, Phase2CoreDown, Phase4TriageDown, Phase5KnowledgeDown,
     Phase6Down, Phase7RootCauseDown, Phase8Down, Phase9EvaluationDown >>

Upgraded(db, from, to) ==
  LET at[r \in from..to] ==
        IF r = from THEN db ELSE Run(at[r - 1], Upgrades[r])
  IN at[to]

Downgraded(db, from, to) ==
  LET at[r \in to..from] ==
        IF r = from THEN db ELSE Run(at[r + 1], Downgrades[r + 1])
  IN at[to]

---------------------------------------------------------------------------
(* app/models: what the program expects to find *)

AccountModels ==
  { Type("user_role"), Table("users", {"user_role"}, {"email"}),
    Table("sessions", {"users"}, {"token"}),
    Table("audit_logs", {"users"}, {}) }

TicketModels ==
  { Type("ticket_status"), Type("ticket_priority"), Type("ticket_number_seq"),
    Table("tickets", {"ticket_number_seq", "ticket_priority", "ticket_status",
                      "users"}, {"number"}),
    Table("ticket_events", {"tickets", "users"}, {}) }
  \cup {Part(name, "tickets") : name \in OutcomeColumns \cup
         {"priority_overridden", "priority_override_reason",
          "ck_tickets_priority_override_reason",
          "ck_tickets_single_terminal_outcome",
          "ck_tickets_resolved_excludes_escalation",
          "ck_tickets_escalated_excludes_resolution",
          "ck_tickets_resolved_fields", "ck_tickets_escalated_fields"}}

AnalysisModels ==
  { Type("analysis_status"),
    Table("ai_analyses",
      {"tickets", "users", "analysis_status", "ticket_priority"},
      {"ticket while active"}) }

KnowledgeModels ==
  { Type("vector"),
    Table("knowledge_documents", {}, {"article", "slug", "path"}),
    Table("knowledge_chunks", {"knowledge_documents", "vector"},
          {"document and index"}) }

DatasetModels ==
  { Table("dataset_imports", {}, {"version"}),
    Table("historical_tickets", {"vector"}, {"version and source"}),
    Table("telemetry_records", {}, {"reading"}),
    Table("synthetic_log_records", {}, {"line"}) }
  \cup {Table(name, {}, {"version and source"}) : name \in
         {"synthetic_locations", "synthetic_applications",
          "synthetic_incidents"}}

InvestigationModels ==
  { Type("investigation_status"), Type("investigation_step_status"),
    Table("investigations",
      {"tickets", "ai_analyses", "users", "investigation_status"},
      {"ticket while active"}),
    Table("investigation_steps",
      {"investigations", "investigation_step_status"},
      {"investigation and key", "investigation and order"}) }

AssessmentModels ==
  { Type("root_cause_status"),
    Table("root_cause_assessments",
      {"tickets", "investigations", "ai_analyses", "users",
       "root_cause_status"},
      {"investigation", "ticket while active"}),
    Table("assessment_evidence", {"root_cause_assessments"},
          {"assessment and source"}) }

ResolutionModels ==
  { Type("recommendation_action_type"), Type("recommendation_status"),
    Type("response_generated_by"), Type("support_response_status"),
    Table("recommendations",
      {"tickets", "root_cause_assessments", "users",
       "recommendation_action_type", "recommendation_status"},
      {"assessment"}),
    Table("support_responses",
      {"tickets", "root_cause_assessments", "recommendations", "users",
       "response_generated_by", "support_response_status"},
      {"ticket while draft"}) }

EvaluationModels == {Table("evaluation_runs", {}, {})}

Declared ==
  UNION {AccountModels, TicketModels, AnalysisModels, KnowledgeModels,
         DatasetModels, InvestigationModels, AssessmentModels,
         ResolutionModels, EvaluationModels}
=============================================================================
