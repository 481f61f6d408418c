SPECIFICATION Spec
CONSTANTS
  MaxTools = 10
  Applications = {"PayrollPro"}
  Tickets <- MCTickets
  Guides <- MCGuides
  Past <- MCPast
  Others = {"Email"}
  Threshold = 70
  MaxInput = 50
INVARIANTS
  EvidenceTypeOK
  PlanComplete
  Accounted
  EscalatedUnlessAgreed
  EvidenceFits
