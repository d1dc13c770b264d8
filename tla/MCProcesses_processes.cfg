SPECIFICATION ProcessSpec
CONSTANTS
  UnitNames = {1, 2, 3}
  Goals = {1, 2}
  MaxInjections = 2
  MaxRenames = 2
  MaxKills = 1
  Commands = {x1, x2}
  MaxDaemons = 3
  Backends = {"claude", "cursor"}
  Decisions = {"APPROVE", "FEEDBACK"}
  MaxTurns = 2
  MaxSaid = 2
  Titles = {x1, x2}
  MinJournals = 2
  Tier0Expiry = 1
  Tier1Decay = 2
  Tier2Demote = 1
  CoreBudget = 1
  MaxDay = 2
  MaxFiles = 2
  MaxAnswer = 2
  MaxCycles = 2
  MaxCrashes = 1
SYMMETRY Alike
CHECK_DEADLOCK FALSE
INVARIANTS
  DaemonInv
  TurnInv
  MemoryInv
  RenameInv
