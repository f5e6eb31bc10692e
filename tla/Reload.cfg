\* Two reloads and two requests, across three merges.
CONSTANTS
  Reloads = {r1, r2}
  Requests = {q1, q2}
  Trees <- MCTrees
  Absent = Absent
SPECIFICATION Spec
INVARIANTS
  RowsTellServed
  ReloadsServeWhatWasMerged
  ScopeIsRenewed
  PlannedIsExecuted
PROPERTIES
  AskedIsAnswered
CHECK_DEADLOCK FALSE
