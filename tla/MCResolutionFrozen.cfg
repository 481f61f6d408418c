\* A request that read an open ticket writes to a terminal one.
SPECIFICATION Spec
CONSTANTS
  Handlers = {h1, h2}
  Roles    = {"manager"}
  Actions  = {"escalate"}
  Users    = {u1}
  NoOne    = NoOne
  MaxRecs  = 1
  MaxResps = 1
PROPERTY
  TerminalTicketsFrozen
CHECK_DEADLOCK FALSE
