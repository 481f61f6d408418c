\* Any number of retries at once; jobs may be lost.
SPECIFICATION Spec
CONSTANTS
  Tasks   = {t1, t2}
  MaxRows = 2
SYMMETRY TaskSymmetry
INVARIANTS
  TypeOK
  OneActive
  AssessedOnce
  CompletedByOneRun
  OrphanedByTimeout
PROPERTY
  ProposalIsFinal
CHECK_DEADLOCK FALSE
