SPECIFICATION Spec
CONSTANTS
  Pids = {p0, p1, p2, p3}
  First = p0
  Reaper = Reaper
  MAXTASKS = 2
  Misspelt = TRUE
SYMMETRY PidSymmetry
INVARIANTS
  TypeOK
  OwnTasksKept
  TerminatedDead
PROPERTY ExitKillsTasks
CHECK_DEADLOCK FALSE
