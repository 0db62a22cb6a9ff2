SPECIFICATION FairSpec
CONSTANTS
  Pids = {p0, p1, p2}
  First = p0
  Reaper = Reaper
  MAX_PT_ENTRIES = 2
  Oddities = {"bare", "blank", "full"}
INVARIANTS
  TypeOK
  ChildrenListed
PROPERTIES
  OrphanedByCrash
  BlockedReturns
CHECK_DEADLOCK FALSE
