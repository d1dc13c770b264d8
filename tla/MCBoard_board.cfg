SPECIFICATION FairSpec
CONSTANTS
  c1 = c1
  c2 = c2
  m1 = m1
  m2 = m2
  m3 = m3
  p1 = p1
  Channels = {c1, c2}
  Messages = {m1, m2}
  Projects = {p1}
  Modes = {"watch", "multi", "manual"}
  Counts = {0, 1}
  MaxRetries = 1
  MaxFaults = 2
INVARIANTS
  BoardInv
PROPERTIES
  ChannelsAreLogs
  WatchAnswered
CHECK_DEADLOCK FALSE
