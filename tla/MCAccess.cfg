SPECIFICATION Spec
CONSTANTS
  Hosts = {h1}
  Users = {u1}
  Routes = {"analyses", "responses"}
  AuthLimit = 2
  AuthWindow = 2
  WorkflowLimit = 1
  WorkflowWindow = 1
  MaxKeys = 2
  CleanupBatch = 1
  Rate = 2
  MaxTime = 6
  Requests = {r1, r2}
  NoUser = NoUser
  SessionTime = 3
  MaxSessions = 1
SYMMETRY Symmetry
INVARIANTS TypeOK Throttled TableBounded RetryAfterHonest LogoutEndsSession
CHECK_DEADLOCK FALSE
