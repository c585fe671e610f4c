CONSTANTS
  g1 = g1
  g2 = g2
  echo = echo
  team = team
  Jobs <- ThreeJobs
  Gateways = {g1, g2}
  Targets = {echo, team}
  Kind <- SendStreamReduce
  Target <- AgentOrGroup
  MaxAttempts <- TwiceEach
  Concurrency = 1
  LockTTL = 2
  MinBackoff = 1
  MaxBackoff = 2
  TicksPerSecond = 2
  MaxStops = 2
SPECIFICATION Spec
ACTION_CONSTRAINT OneOrTheOther
INVARIANTS TypeOK OneOwnerWithinLock AttemptsAccountedFor JournalBehindRow
PROPERTIES CancelIsFinal TerminalIsFinal
