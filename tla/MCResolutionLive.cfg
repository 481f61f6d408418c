\* Two proposals, one answer, two concurrent requests of managers that wait for
\* each other's rows.
SPECIFICATION FairSpec
CONSTANTS
  Handlers = {h1, h2}
  Roles    = {"manager"}
  Actions  = {"escalate"}
  Users    = {}
  NoOne    = NoOne
  MaxRecs  = 2
  MaxResps = 1
PROPERTIES
  DecidedOnce
  ApprovalChain
  RequestsEnd
CHECK_DEADLOCK FALSE
