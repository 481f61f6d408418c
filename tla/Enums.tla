------------------------------- MODULE Enums -------------------------------
(***************************************************************************)
(* The status vocabulary the workflow's services share: the enumerations   *)
(* of backend/app/models/enums.py, by their persisted values.  "absent"    *)
(* stands for a row that has not been inserted yet.                        *)
(***************************************************************************)
EXTENDS Naturals

TicketStatus   == {"new", "in_progress", "resolved", "escalated"}
TerminalStatus == {"resolved", "escalated"}

RecommendationStatus ==
  {"proposed", "approved", "rejected", "modified", "completed"}

\* A human accepted the instructions, as proposed or as modified.
AcceptedStatus == {"approved", "modified"}

RecommendationActionType ==
  {"troubleshoot", "request_information", "escalate", "high_impact"}

SupportResponseStatus == {"draft", "approved", "rejected"}
ResponseGeneratedBy   == {"ai", "human"}

\* AnalysisStatus, InvestigationStatus and RootCauseStatus have these values.
JobStatus    == {"queued", "running", "completed", "failed", "timed_out"}
ActiveStatus == {"queued", "running"}
RetryStatus  == {"failed", "timed_out"}

Role == {"support_analyst", "manager", "administrator"}

RoleLevel ==
  [role \in Role |-> CASE role = "support_analyst" -> 0
                       [] role = "manager"         -> 1
                       [] role = "administrator"   -> 2]

\* role_allows: roles are hierarchical.
RoleAllows(actual, required) == RoleLevel[actual] >= RoleLevel[required]
=============================================================================
