\* Two tasks with concurrent retries, overrides, failing and lost jobs (when both
\* have failed or are lost nothing is left to run).
SPECIFICATION FairSpec
CONSTANTS
  Tasks       = {t1, t2}
  Priorities  = {p1, p2}
  Categories  = {c1}
  NoValue     = NoValue
  Earlier     = {"failed", "timed_out"}
  MaxAnalyses = 2
INVARIANTS
  TypeOK
  OneActive
  OrphanedByFailure
PROPERTIES
  TriageApplied
  LaterAnalysisKeepsOverride
  AnalysesEnd
CHECK_DEADLOCK FALSE
