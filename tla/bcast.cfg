CONSTANTS
  Members <- ThreeMembers
  MessageIds = {id1, id2, id3}
SPECIFICATION FairSpec
INVARIANTS SummaryIsTrue
PROPERTIES BcastEnds
CHECK_DEADLOCK FALSE
