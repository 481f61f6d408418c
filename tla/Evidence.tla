------------------------------ MODULE Evidence -------------------------------
(***************************************************************************)
(* What an investigation finds and what the assessment makes of it:        *)
(* investigations/workflow.py, services/investigation_tools.py,            *)
(* root_cause/evidence.py, confidence.py and providers.py, with the jobs   *)
(* of services/investigations.py and services/assessments.py.              *)
(*                                                                         *)
(* One ticket.  The tools run one after another and read the operational   *)
(* data, which an import may replace between two of them: each may find    *)
(* what it likes, except that one reading is the same wherever it is seen. *)
(* Pipeline has the requests, races and lost jobs that are left out here.  *)
(*                                                                         *)
(* Abstracted: an item of a result is what the evidence handler makes of   *)
(* it, and a search or a listing finds nothing, or one item standing for   *)
(* one or for as many as its cap lets through.  A text mentions a service  *)
(* if its item is tagged with it.                                          *)
(***************************************************************************)
EXTENDS Enums, Planner, FiniteSets

CONSTANTS
  Tickets,      \* the tickets investigated
  Guides,       \* knowledge chunks that a search may find
  Past,         \* historical tickets that a search may find
  Others,       \* a service that an incident may name first
  Threshold,    \* RESOLVEAI_ROOT_CAUSE_CONFIDENCE_THRESHOLD, in hundredths
  MaxInput      \* the most items of evidence the provider's input may have

ASSUME EvidenceAssumption ==
  /\ Tickets \subseteq TicketType
  /\ MaxTools \in Nat /\ MaxInput \in Nat /\ Threshold \in 0..100
  /\ \A e \in Guides : e.kind = "knowledge_chunk" /\ e.source[1] = e.kind
  /\ \A e \in Past : e.kind = "similar_ticket" /\ e.source[1] = e.kind

VARIABLES
  ticket,           \* the ticket
  investigation,    \* its investigation: plan, observations, stored steps
  assessment        \* its root-cause assessment with the evidence stored

vars == <<ticket, investigation, assessment>>

---------------------------------------------------------------------------
(* Items of evidence *)

Item(kind, service, which, note) ==
  [kind |-> kind, service |-> service, source |-> <<kind, service, which>>,
   note |-> note]

\* A telemetry reading has one source id, as a status and as an observation.
Reading(kind, service, which, note) ==
  [Item(kind, service, which, note) EXCEPT
     !.source = <<"reading", service, which>>]

TicketFact(t) == Item("ticket_fact", t.application, "", "")

\* Mutant: what get_telemetry has found, at most 100 readings, is not cut.
CapUncut(item) ==
  CASE item.kind = "knowledge_chunk" -> 5
    [] item.kind = "similar_ticket"  -> 5
    [] item.kind = "ticket_history"  -> 10
    [] item.kind = "incident"        -> 5
    [] item.kind = "log"             -> 8
    [] item.kind = "telemetry" /\ item.source[3] # "nearest" -> 100
    [] OTHER -> 1

\* The evidence handlers' caps.  Of eight readings, the nearest may be one.
Cap(item) ==
  CASE item.kind = "knowledge_chunk" -> 5
    [] item.kind = "similar_ticket"  -> 5
    [] item.kind = "ticket_history"  -> 10
    [] item.kind = "incident"        -> 5
    [] item.kind = "log"             -> 8
    [] item.kind = "telemetry" /\ item.source[3] = "other" -> 8
    [] item.kind = "telemetry" /\ item.source[3] = "rest"  -> 7
    [] OTHER -> 1

\* The items of evidence that the set stands for, and how many they are.
Slots(evidence, many) ==
  UNION {{e} \X (1..(IF many THEN Cap(e) ELSE 1)) : e \in evidence}

Amount(evidence, many) == Cardinality(Slots(evidence, many))

---------------------------------------------------------------------------
(* The tools *)

Result(step, ok, items) ==
  [tool |-> step.tool, service |-> step.service, ok |-> ok, items |-> items]

Failure(step) == Result(step, FALSE, {})

\* Nothing, or one of the items.
AtMostOne(items) == {{}} \cup {{e} : e \in items}

\* The reading nearest to the reference time, if there is any.
Statuses(s) == {{Reading("system_status", s, "nearest", state)} :
                  state \in {"operational", "degraded"}}

\* The anomalous readings in the window, up to the cap: none, the nearest, it
\* and the rest, or only others.
Telemetry(s) ==
  LET near == Reading("telemetry", s, "nearest", "") IN
  { {}, {near}, {near, Reading("telemetry", s, "rest", "")},
    {Reading("telemetry", s, "other", "")} }

\* A search refuses text beyond its length limit; the others refuse a
\* location, an application or a service that the data do not have.
Outcomes(step, t) ==
  LET s == step.service
      Found(found) == {Result(step, TRUE, items) : items \in found} IN
  CASE step.tool = "search_knowledge_base" ->
         IF t.length = "short" THEN Found(AtMostOne(Guides))
         ELSE {Failure(step)}
    [] step.tool = "search_similar_tickets" ->
         IF t.length # "huge" THEN Found(AtMostOne(Past))
         ELSE {Failure(step)}
    [] step.tool = "get_ticket_history" ->
         Found({{Item("ticket_history", "", "", "")}})
    [] step.tool = "get_system_status" ->
         Found(Statuses(s)) \cup {Failure(step)}
    [] step.tool = "get_telemetry" ->
         Found(Telemetry(s)) \cup {Failure(step)}
    [] step.tool = "search_logs" ->
         Found(AtMostOne({Item("log", s, "", "")})) \cup {Failure(step)}
    [] step.tool = "get_related_incident" ->
         Found(AtMostOne({Item("incident", other, "", "") :
                            other \in {s} \cup Others}))
         \cup {Failure(step)}

\* The nearest reading is no anomaly for one tool and none for another.
Consistent(seen, result) ==
  \A n \in DOMAIN seen : \A e \in seen[n].items : \A f \in result.items :
    e.source = f.source => e.note = "degraded"

---------------------------------------------------------------------------
(* collect_evidence *)

\* Mutant: the same reading is evidence twice.
CollectAll(t, steps) ==
  {TicketFact(t)} \cup UNION {steps[n].items : n \in DOMAIN steps}

\* Of several items with one source the first is taken.
Collected(t, steps) ==
  {TicketFact(t)} \cup
  UNION {{e \in steps[n].items :
            \A m \in 1..(n - 1) : \A f \in steps[m].items :
              f.source # e.source} : n \in DOMAIN steps}

Limitations(steps) == {steps[n].tool : n \in {m \in DOMAIN steps : ~steps[m].ok}}

---------------------------------------------------------------------------
(* calculate_confidence *)

\* The items of a kind that match the service inferred, or any if none is.
Matching(evidence, kind, service) ==
  {e \in evidence : e.kind = kind /\ (service = "" \/ e.service = service)}

States(evidence, service, note) ==
  {e \in Matching(evidence, "system_status", service) : e.note = note}

Incidents(evidence, service) == Matching(evidence, "incident", service)
Degraded(evidence, service)  == States(evidence, service, "degraded")
Healthy(evidence, service)   == States(evidence, service, "operational")
Logs(evidence, service)      == Matching(evidence, "log", service)

\* A degraded status counts as telemetry when it has taken its reading.
Anomalies(evidence, service) ==
  LET readings == Matching(evidence, "telemetry", service) IN
  IF readings # {} THEN readings ELSE Degraded(evidence, service)

Aligned(evidence, service) ==
  {e \in evidence :
     /\ e.kind = "similar_ticket"
     /\ \/ e.note = "linked" /\ Incidents(evidence, service) # {}
        \/ service = "" \/ e.service = service}

Relevant(evidence, service) ==
  {e \in Matching(evidence, "knowledge_chunk", service) : e.note = "relevant"}

Weight(points, items) == IF items = {} THEN 0 ELSE points

\* How many kinds of operational evidence there are.
Agreeing(evidence, service) ==
  Weight(1, Incidents(evidence, service)) + Weight(1, Degraded(evidence, service))
  + Weight(1, Anomalies(evidence, service)) + Weight(1, Logs(evidence, service))

\* Mutant: a healthy status does not count against the candidate.
ScoreUnopposed(evidence, service) ==
  25 + Weight(18, Incidents(evidence, service))
     + Weight(12, Degraded(evidence, service))
     + Weight(10, Anomalies(evidence, service))
     + Weight(10, Logs(evidence, service))
     + Weight(8, Aligned(evidence, service))
     + Weight(5, Relevant(evidence, service))
     + (IF Agreeing(evidence, service) >= 3 THEN 3 ELSE 0)

\* In hundredths; between 13 and 91, so that the clamp to 5..95 is idle.
Score(evidence, service) ==
  25 + Weight(18, Incidents(evidence, service))
     + Weight(12, Degraded(evidence, service))
     + Weight(10, Anomalies(evidence, service))
     + Weight(10, Logs(evidence, service))
     + Weight(8, Aligned(evidence, service))
     + Weight(5, Relevant(evidence, service))
     + (IF Agreeing(evidence, service) >= 3 THEN 3 ELSE 0)
     - Weight(12, Healthy(evidence, service))

---------------------------------------------------------------------------
(* The providers: the service that the inferred cause names, "" for none   *)

Symptoms(evidence) ==
  {e \in evidence : e.kind \in {"telemetry", "log"} \/ e.note = "degraded"}

Naming(items, service) == {e \in items : e.service = service}

\* The first service in the order of the plan that has a symptom.
FirstSymptom(evidence) ==
  LET services == ServicesOf(ticket)
      n == CHOOSE k \in DOMAIN services :
             /\ Naming(Symptoms(evidence), services[k]) # {}
             /\ \A j \in 1..(k - 1) :
                  Naming(Symptoms(evidence), services[j]) = {}
  IN services[n]

\* LocalGroundedInferenceProvider.
LocalCandidate(evidence) ==
  LET incidents == Incidents(evidence, "") IN
  IF Naming(incidents, "DNS") # {} /\ Naming(Symptoms(evidence), "DNS") # {}
  THEN "DNS"
  ELSE IF incidents # {} THEN (CHOOSE e \in incidents : TRUE).service
  ELSE IF Symptoms(evidence) # {} THEN FirstSymptom(evidence)
  ELSE ""

\* A hosted model may name any service of the evidence, or none.
Candidates(evidence) ==
  IF assessment.hosted THEN {""} \cup {e.service : e \in evidence}
  ELSE {LocalCandidate(evidence)}

---------------------------------------------------------------------------
(* classify_action: what the recommendation proposes *)

Instructions == {"high impact", "ask", "other"}

Action(instructions, escalates) ==
  CASE instructions = "high impact"              -> "high_impact"
    [] instructions # "high impact" /\ escalates -> "escalate"
    [] instructions = "ask" /\ ~escalates        -> "request_information"
    [] instructions = "other" /\ ~escalates      -> "troubleshoot"

---------------------------------------------------------------------------
(* The investigation job *)

NoInvestigation == [status |-> "absent", plan |-> <<>>, seen |-> <<>>,
                    steps |-> <<>>, many |-> FALSE]

NoAssessment == [status |-> "absent", hosted |-> FALSE, repairing |-> FALSE,
                 evidence |-> {},
                 limitations |-> {}, candidate |-> "", score |-> 0,
                 escalates |-> TRUE, action |-> "none", code |-> "none"]

Investigating == investigation.status = "running"

\* Mutant: a run that ends early keeps the steps that it came to.
EndStoring(status) ==
  investigation' = [investigation EXCEPT !.status = status, !.seen = <<>>,
                                         !.steps = investigation.seen]

End(status) == investigation' = [investigation EXCEPT !.status = status,
                                                      !.seen = <<>>]

\* An investigation of the ticket, the next one when one is complete and
\* has been assessed, or a retry, which deletes the steps.
RequestInvestigation ==
  /\ investigation.status \in {"absent", "completed"} \cup RetryStatus
  /\ assessment.status \notin ActiveStatus
  /\ investigation' = [NoInvestigation EXCEPT !.status = "queued"]
  /\ assessment' = NoAssessment
  /\ UNCHANGED ticket

StartInvestigation ==
  /\ investigation.status = "queued"
  /\ investigation' = [investigation EXCEPT !.status = "running",
                                            !.plan = Plan(ticket)]
  /\ UNCHANGED <<ticket, assessment>>

CallTool ==
  LET n == Len(investigation.seen) + 1 IN
  /\ Investigating
  /\ n <= Len(investigation.plan)
  /\ \E result \in Outcomes(investigation.plan[n], ticket) :
       /\ Consistent(investigation.seen, result)
       /\ investigation' = [investigation EXCEPT !.seen = Append(@, result)]
  /\ UNCHANGED <<ticket, assessment>>

\* The steps are stored with the status, all in one commit; their results
\* are few, or many.
CompleteInvestigation ==
  /\ Investigating
  /\ Len(investigation.seen) = Len(investigation.plan)
  /\ \E many \in BOOLEAN :
       investigation' = [investigation EXCEPT !.status = "completed",
                                              !.steps = investigation.seen,
                                              !.seen = <<>>, !.many = many]
  /\ UNCHANGED <<ticket, assessment>>

\* A tool's SQLAlchemyError, or the commit's, is nobody's limitation: it
\* ends the run.  So does the time limit.
FailInvestigation ==
  /\ Investigating
  /\ End("failed") \/ End("timed_out")
  /\ UNCHANGED <<ticket, assessment>>

---------------------------------------------------------------------------
(* The assessment job *)

Evidence == Collected(ticket, investigation.steps)
Stop(status, code) ==
  assessment' = [NoAssessment EXCEPT !.status = status, !.code = code]

\* By the provider that the settings name now; a retry deletes the evidence.
RequestAssessment ==
  /\ investigation.status = "completed"
  /\ assessment.status \in {"absent"} \cup RetryStatus
  /\ \E hosted \in BOOLEAN :
       assessment' = [NoAssessment EXCEPT !.status = "queued",
                                          !.hosted = hosted]
  /\ UNCHANGED <<ticket, investigation>>

\* Too much evidence is a ValueError, as a missing provider setting would be.
StartAssessment ==
  /\ assessment.status = "queued"
  /\ IF Amount(Evidence, investigation.many) <= MaxInput
     THEN assessment' = [assessment EXCEPT !.status = "running"]
     ELSE Stop("failed", "provider_configuration")
  /\ UNCHANGED <<ticket, investigation>>

\* A valid inference: its confidence decides whether the case escalates.
Infer ==
  /\ assessment.status = "running"
  /\ \E service \in Candidates(Evidence), instructions \in Instructions :
       LET escalates == Score(Evidence, service) < Threshold IN
       assessment' = [assessment EXCEPT
         !.status = "completed",
         !.repairing = FALSE,
         !.evidence = Evidence,
         !.limitations = Limitations(investigation.steps),
         !.candidate = service,
         !.score = Score(Evidence, service),
         !.escalates = escalates,
         !.action = Action(instructions, escalates)]
  /\ UNCHANGED <<ticket, investigation>>

\* A hosted answer that is malformed or cites what it was not given: asked
\* once more, then given up.
InvalidAnswer ==
  /\ assessment.status = "running"
  /\ assessment.hosted
  /\ IF assessment.repairing THEN Stop("failed", "invalid_provider_response")
     ELSE assessment' = [assessment EXCEPT !.repairing = TRUE]
  /\ UNCHANGED <<ticket, investigation>>

\* The provider cannot be reached, the time is up, or the commit fails.
FailAssessment ==
  /\ assessment.status = "running"
  /\ \/ assessment.hosted /\ Stop("failed", "provider_unavailable")
     \/ Stop("timed_out", "root_cause_timeout")
     \/ Stop("failed", "root_cause_failed")
  /\ UNCHANGED <<ticket, investigation>>

---------------------------------------------------------------------------

Init ==
  /\ ticket \in Tickets
  /\ investigation = NoInvestigation
  /\ assessment = NoAssessment

Next ==
  \/ RequestInvestigation
  \/ StartInvestigation
  \/ CallTool
  \/ CompleteInvestigation
  \/ FailInvestigation
  \/ RequestAssessment
  \/ StartAssessment
  \/ Infer
  \/ InvalidAnswer
  \/ FailAssessment

Spec == Init /\ [][Next]_vars

---------------------------------------------------------------------------
(* Properties *)

ItemType(e) ==
  e.kind \in {"ticket_fact", "knowledge_chunk", "similar_ticket",
              "ticket_history", "system_status", "telemetry", "log", "incident"}

\* Observations are in memory while the job runs, and stored as steps when it
\* is complete and never before; evidence is stored with the inference.
EvidenceTypeOK ==
  /\ ticket \in Tickets
  /\ investigation.many \in BOOLEAN /\ assessment.hosted \in BOOLEAN
  /\ investigation.status \in JobStatus \cup {"absent"}
  /\ assessment.status \in JobStatus \cup {"absent"}
  /\ \A e \in assessment.evidence : ItemType(e)
  /\ assessment.score \in {0} \cup 13..91
  /\ assessment.action \in RecommendationActionType \cup {"none"}
  /\ investigation.seen # <<>> => investigation.status = "running"
  /\ investigation.steps # <<>> => investigation.status = "completed"
  /\ assessment.status = "completed" <=> assessment.evidence # {}

\* "Plans are deduplicated and capped at ten invocations": the cap, which
\* would drop the related incident first, and the deduplication never take
\* anything from a plan, and every service inspected is inspected in full.
PlanComplete ==
  LET wanted == Wanted(ticket) IN
  /\ Plan(ticket) = wanted
  /\ \A m, n \in DOMAIN wanted : wanted[m] = wanted[n] => m = n

\* "Source retrieval failures are shown as limitations rather than fabricated
\* evidence": a completed assessment names every tool of the plan that
\* failed and has evidence, once per source, only from those that did not.
Accounted ==
  assessment.status = "completed" =>
    /\ {investigation.plan[n] : n \in DOMAIN investigation.plan} =
       {Step(s.tool, s.service) : s \in
          {investigation.steps[n] : n \in DOMAIN investigation.steps}}
    /\ \A n \in DOMAIN investigation.steps :
         LET s == investigation.steps[n] IN
         IF s.ok
         THEN \A e \in s.items :
                \E f \in assessment.evidence : e.source = f.source
         ELSE s.tool \in assessment.limitations
    /\ \A e, f \in assessment.evidence : e.source = f.source => e = f

\* "AI confidence is low.  Human investigation recommended": unless three
\* kinds of operational evidence agree on the service inferred, and none of
\* its statuses is healthy while none is degraded, a completed assessment
\* calls for an escalation, and proposes one or a high-impact action; one
\* that did not complete calls for it too and proposes nothing.
EscalatedUnlessAgreed ==
  LET e == assessment.evidence
      s == assessment.candidate IN
  /\ ~assessment.escalates =>
       /\ assessment.status = "completed"
       /\ Agreeing(e, s) >= 3
       /\ Healthy(e, s) # {} => Degraded(e, s) # {}
  /\ assessment.status = "completed" /\ assessment.escalates =>
       assessment.action \in {"escalate", "high_impact"}
  /\ assessment.status # "completed" => assessment.action = "none"

\* The caps of the evidence handlers add up to no more than the provider's
\* input may have, as long as one service is investigated: whatever its tools
\* find, the investigation can be assessed, and is not refused at every retry
\* as a configuration error.  Two services may give more than that.
EvidenceFits ==
  Len(ServicesOf(ticket)) # 2 =>
    /\ investigation.status = "completed" =>
         Amount(Evidence, investigation.many) <= MaxInput
    /\ assessment.code # "provider_configuration"
=============================================================================
