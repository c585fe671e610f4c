SPECIFICATION MCSpec
CONSTANTS
  p = p
  q = q
  r1 = r1
  r2 = r2
  r3 = r3
  x = x
  y = y
  Droppers = {p, q}
  Drops = {r1, r2, r3}
  ReadyNames = {1, 2}
  DraftNames = {0}
  UNIQUE_ATTEMPTS = 1
  MaxFiles = {0, 1, 2}
  Runs = 2
  NoDrop = NoDrop
  StdinLengths = {0, 1, 2, 3}
  Adapters = {x, y}
  Frames <- MCFrames
  NoText = NoText
  RawCards <- MCRawCards
  Options <- MCOptions
  Requests <- MCRequests
  MaxLines = 5
  MAX_SSE_EVENT_DATA_BYTES = 2
  Unset = Unset
INVARIANTS RequestsAreKept AdaptersAgree ClientIsFaithful
PROPERTIES WatchedIsClaimed
CHECK_DEADLOCK FALSE
