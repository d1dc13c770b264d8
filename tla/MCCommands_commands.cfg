SPECIFICATION CommandSpec
CONSTANTS
  a1 = a1
  a2 = a2
  b1 = b1
  b2 = b2
  f2 = f2
  Chunks = {a1, a2, b1, b2}
  Narratives = {n1}
  Investigations = {i1}
  Subsystems = {s1}
  Files = {f1, f2}
  NewName <- Prefixed
  Inside <- Nested
  Searched = {f1}
  MaxChunks = 3
  MaxLinks = 2
  MaxEntries = 1
  Projects = {p1, p2}
  External = ext
  Names = {t1, t2}
  Codes = {{}, {p1}}
  MaxMade = 2
  MaxCommands = 3
  Readers = {r1, r2}
  MaxPushes = 2
  MaxFaults = 1
  ChunkIds = {1, 2, 3}
  SpareNames = {4}
  Declarations <- DependsOnLists
  Arguments <- Given
  MaxEvents = 2
CHECK_DEADLOCK FALSE
INVARIANTS
  ReferenceInv
  TasksInv
  CacheInv
  BatchInv
PROPERTIES
  ValidStaysValid
  TextsKept
