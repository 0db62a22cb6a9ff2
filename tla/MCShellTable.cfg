SPECIFICATION Spec
CONSTANTS
  Pids = {p0, p1, p2, p3, p4}
  First = p0
  Reaper = Reaper
  MAX_PT_ENTRIES = 3
  Oddities = {}
SYMMETRY PidSymmetry
INVARIANT OwnChildren
CHECK_DEADLOCK FALSE
