------------------------------ MODULE Planner -------------------------------
(***************************************************************************)
(* What an investigation looks up: investigations/planner.py.              *)
(*                                                                         *)
(* A ticket is the signals that its text gives, whether it has a location, *)
(* its application, and how long its text is.  Every step of a plan is one *)
(* read-only tool, for one service or for none.                            *)
(***************************************************************************)
EXTENDS Integers, Sequences

CONSTANTS
  MaxTools,         \* MAX_TOOL_INVOCATIONS
  Applications      \* application names

\* A signal stands for the words that the planner takes for the same thing.
Signals == {"vpn", "internal", "unavailable", "m365", "wireless", "identity",
            "outage", "network"}

Lengths == {"short", "long", "huge"}

TicketType == [words : SUBSET Signals, located : BOOLEAN,
               application : Applications \cup {""}, length : Lengths]

Step(tool, service) == [tool |-> tool, service |-> service]

---------------------------------------------------------------------------

\* The services that the text and the category point at, one signal only.
ServicesOf(t) ==
  IF "vpn" \in t.words
  THEN IF t.words \cap {"internal", "unavailable"} = {}
       THEN <<"VPN">> ELSE <<"VPN", "DNS">>
  ELSE IF "m365" \in t.words THEN <<"Microsoft 365">>
  ELSE IF "wireless" \in t.words THEN <<"Wi-Fi">>
  ELSE IF "identity" \in t.words THEN <<"Active Directory">>
  ELSE IF t.application # "" /\ t.words \cap {"outage", "unavailable"} # {}
  THEN <<t.application>>
  ELSE IF "network" \in t.words THEN <<"Network">>
  ELSE <<>>

BaseSteps ==
  << Step("search_knowledge_base", ""), Step("search_similar_tickets", ""),
     Step("get_ticket_history", "") >>

\* Mutant: the related incident is read for every service.
ServiceAndIncident(service) ==
  << Step("get_system_status", service), Step("get_telemetry", service),
     Step("search_logs", service), Step("get_related_incident", service) >>

ServiceSteps(service) ==
  << Step("get_system_status", service), Step("get_telemetry", service),
     Step("search_logs", service) >>

IncidentStep(services) ==
  <<Step("get_related_incident", services[Len(services)])>>

\* Every step that the ticket calls for, before the cap.
Wanted(t) ==
  LET services == ServicesOf(t) IN
  IF ~t.located \/ services = <<>> THEN BaseSteps
  ELSE BaseSteps \o ServiceSteps(services[1])
       \o (IF Len(services) = 2 THEN ServiceSteps(services[2]) ELSE <<>>)
       \o IncidentStep(services)

\* plan_investigation; no step is wanted twice (see PlanComplete).
Plan(t) ==
  IF Len(Wanted(t)) <= MaxTools THEN Wanted(t)
  ELSE SubSeq(Wanted(t), 1, MaxTools)
=============================================================================
