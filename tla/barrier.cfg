CONSTANTS
  N = 2
  Reported <- TwoOutcomes
  TargetSets <- OmittedOrOnTheWay
SPECIFICATION FairSpec
INVARIANTS QuorumIsReal GivesUpOnlyWhenImpossible
PROPERTIES FinishedRowsStay BarrierEnds
CHECK_DEADLOCK FALSE
