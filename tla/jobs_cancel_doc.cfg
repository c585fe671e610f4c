CONSTANTS
  g1 = g1
  g2 = g2
  echo = echo
  team = team
  Jobs <- OneJob
  Gateways = {g1}
  Targets = {echo}
  Kind <- OneSend
  Target <- OneAgent
  MaxAttempts <- Once
  Concurrency = 1
  LockTTL = 1
  MinBackoff = 1
  MaxBackoff = 2
  TicksPerSecond = 1
  MaxStops = 0
SPECIFICATION Spec
INVARIANTS CancelAlwaysMarks
