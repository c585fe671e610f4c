CONSTANTS
  s1 = s1
  s2 = s2
  k1 = k1
  k2 = k2
  o1 = o1
  o2 = o2
  BusyPolicies <- MCBusyPolicies
  Inputs <- MCInputs
  SessionIds = {s1, s2}
  SessionKeys = {k1, k2}
  NoSession = NoSession
  None = None
  SECONDS_PER_HOUR = 1
  HOURS_PER_DAY = 2
  TICKS = 2
  MAX_SECONDS = 100
  Hours = {0, 1, 2}
  Timeouts = {0, 1, 2, 100, 101}
  Instants <- MCInstants
  Surroundings <- MCSurroundings
  Documents <- MCDocuments
  Selections <- MCSelections
  Renderings <- MCRenderings
  NoName = NoName
  NoConfig = NoConfig
  Unset = Unset
  AgentRows <- MCAgentRows
  Weights = {1, 2}
  Arguments <- MCArguments
  MAX_CURSOR = 8
  MaxCandidates = 3
  MaxPicks = 3
  NoPlan = NoPlan
  Openers = {o1, o2}
  Profiles <- MCProfiles
  Binaries <- MCBinaries
  Layouts <- MCLayouts
  MaxStarts = 3
  Nobody = Nobody
SPECIFICATION MCSpec
INVARIANTS ResetsInTime ConfigIsUsable PlansAreSound SchemaIsUnderstood
PROPERTIES BusyInputsKept OpensEnd
CHECK_DEADLOCK FALSE
