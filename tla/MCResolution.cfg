\* One proposal, two answers, two concurrent requests of analysts and managers.
SPECIFICATION Spec
CONSTANTS
  Handlers = {h1, h2}
  Roles    = {"support_analyst", "manager"}
  Actions  = {"escalate", "high_impact"}
  Users    = {u1}
  NoOne    = NoOne
  MaxRecs  = 1
  MaxResps = 2
SYMMETRY HandlerSymmetry
INVARIANTS
  TypeOK
  OneDraft
  ResolvedOnApproval
  CompletedByOutcome
  HighImpactByManager
  ApprovedTextIsFinal
PROPERTY
  NoDecisionOnTerminal
CHECK_DEADLOCK FALSE
