CONSTANTS
  g1 = g1
  g2 = g2
  echo = echo
  relay = relay
  Tasks <- TwoTasks
  Agents = {echo, relay}
  Agent <- TwoAgents
  Gateways = {g1, g2}
  ReplaysTerminal = FALSE
  MaxMoves = 2
  MaxFollowUps = 1
  MaxStops = 2
SPECIFICATION Spec
ACTION_CONSTRAINT OneOrTheOther
INVARIANTS OutcomeIsReal RemovalIsJournalled
PROPERTIES CleanedStaysFinished KeptWhileInFlight
