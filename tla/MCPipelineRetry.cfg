\* Two retries of one failed assessment.
SPECIFICATION Spec
CONSTANTS
  Tasks   = {t1, t2}
  MaxRows = 1
INVARIANT
  FailedCanComplete
CHECK_DEADLOCK FALSE
