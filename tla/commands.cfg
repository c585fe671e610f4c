CONSTANTS
  a1 = a1
  a2 = a2
  u1 = u1
  u2 = u2
  r1 = r1
  t1 = t1
  t2 = t2
  Aliases = {a1, a2}
  AuthRefs = {r1}
  Contexts = {c1, c2}
  Names = {n1}
  Tasks = {t1}
  Groups = {g1, g2}
  Ranks = {k1, k2}
  PushIds = {p1}
  Urls = {u1, u2}
  Versions = {1, 2}
  Null = Null
  Configs <- ThreeConfigs
  Usable <- SomeUsable
  Tagged = {u1}
  TaskIds = {t1, t2}
  MaxMoves = 3
  MaxChunks = 2
  None = None
  Members <- MCMembers
  Outsider = "out"
  Lists <- MCLists
  Texts = {1, 2}
  MaxRows = 3
  Nothing = Nothing
SPECIFICATION MCSpec
INVARIANTS StoreFollowsAgent
PROPERTIES CardsAreCurrent RegistryIsSound ConstraintsForeseen RowsMirrorTasks CommandsReportTruly CollectIsSound
CHECK_DEADLOCK FALSE
