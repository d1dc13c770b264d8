SPECIFICATION MCSpec
CONSTANTS
  c1 = c1
  s1 = s1
  s2 = s2
  q1 = q1
  t1 = t1
  t2 = t2
  r1 = r1
  r2 = r2
  Channels = {c1}
  Sockets = {s1, s2}
  Polls = {q1}
  Tokens = {t1, t2}
  Requests = {r1, r2}
  MaxPosition = 3
  MaxDeletes = 1
  MaxDeaths = 1
  MaxFaults = 1
INVARIANTS
  SwarmInv
  IndexIsKeys
PROPERTIES
  PositionsGrow
  WaitersAnswered
CHECK_DEADLOCK FALSE
