\* An override is committed while a job awaits its provider.
SPECIFICATION Spec
CONSTANTS
  Tasks       = {t1, t2}
  Priorities  = {p1, p2}
  Categories  = {c1}
  NoValue     = NoValue
  Earlier     = {}
  MaxAnalyses = 1
PROPERTY
  OverrideWins
CHECK_DEADLOCK FALSE
