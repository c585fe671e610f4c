CONSTANTS
  g1 = g1
  g2 = g2
  echo = echo
  team = team
  Jobs <- TwoJobs
  Gateways = {g1}
  Targets = {echo}
  Kind <- SendWait
  Target <- SameAgent
  MaxAttempts <- TwiceOnce
  Concurrency = 2
  LockTTL = 1
  MinBackoff = 1
  MaxBackoff = 2
  TicksPerSecond = 1
  MaxStops = 1
SPECIFICATION FairSpec
INVARIANTS CancelledOutcomeIsReal SucceededSendIsRecorded
PROPERTIES JobSettles
