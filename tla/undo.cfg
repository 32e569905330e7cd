SPECIFICATION Spec
CONSTANTS
  Operations <- CheckedOperations
  MaxScripts = 2
  MaxReplays = 3
  MaxFailures = 1
INVARIANTS HistoryExplainsCard
PROPERTIES ReplayEnds LinearHistory
CHECK_DEADLOCK FALSE
