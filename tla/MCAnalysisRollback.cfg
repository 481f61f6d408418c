\* The provider call fails, and its failure is not recorded.
SPECIFICATION Spec
CONSTANTS
  Tasks       = {t1}
  Priorities  = {p1}
  Categories  = {c1}
  NoValue     = NoValue
  Earlier     = {}
  MaxAnalyses = 1
INVARIANT
  NoOrphan
CHECK_DEADLOCK FALSE
