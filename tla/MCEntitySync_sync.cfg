SPECIFICATION MCEntitySpec
CONSTANTS
  Projects = {p, q}
  Slugs = {a, b}
  Edits = {e1, e2}
  NewPages = {e2}
  Merges = {m1}
  SessionsIn = {p}
SYMMETRY Symmetric
CHECK_DEADLOCK FALSE
INVARIANTS
  EntityInv
PROPERTY
  WorkSurvives
