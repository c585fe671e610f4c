CONSTANTS
  s1 = s1
  s2 = s2
  r1 = r1
  r2 = r2
  r3 = r3
  Procs = {s1, s2}
  Requests = {r1, r2, r3}
  Limit = 1
  Minute = 2
  MaxTime = 4
  MaxEvents = 1
  NoOne = NoOne
SPECIFICATION MCSpec
PROPERTIES AnswersAreKept IntakeIsBounded ShutdownCompletes
CHECK_DEADLOCK FALSE
