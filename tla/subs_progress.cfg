CONSTANTS
  g1 = g1
  g2 = g2
  echo = echo
  relay = relay
  Tasks <- OneTask
  Agents = {echo}
  Agent <- OneAgent
  Gateways = {g1}
  ReplaysTerminal = TRUE
  MaxMoves = 3
  MaxFollowUps = 1
  MaxStops = 1
SPECIFICATION FairSpec
PROPERTIES FinishedTaskIsNoticed
