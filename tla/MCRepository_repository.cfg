SPECIFICATION RepositorySpec
CONSTANTS
  Chunks = {c}
  Bases = {main, dev}
  Work = {x1, x2}
  OpCommits = {o1}
  MaxCrashes = 1
  MaxSwitches = 1
  ChunkNames = {x1, x2}
  Narratives = {n1}
  Subsystems = {}
  Investigations = {}
  MaxArtifacts = 2
  MaxMoves = 1
  MaxRemovals = 1
  MaxCreators = 2
  StatusCommands = {"s1"}
  MaxStoreKills = 1
  LogProjects = {p1}
  LogExternal = ext
  Loggers = {k1, k2}
  MaxEntries = 2
  MaxProposals = 1
  MaxLogKills = 1
  Servers = {v1, v2}
  MaxAppends = 3
  MaxServerKills = 2
SYMMETRY Alike
CHECK_DEADLOCK FALSE
INVARIANTS
  GitInv
  WorkspaceInv
  FilesInv
PROPERTIES
  WorkSurvives
  CurrentChunkKept
