CONSTANTS
  N = 1
  Reported <- Outcomes
  TargetSets <- Completed
SPECIFICATION Spec
INVARIANTS CancellationIsCancelled
CHECK_DEADLOCK FALSE
