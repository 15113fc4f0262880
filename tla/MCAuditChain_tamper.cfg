SPECIFICATION Spec
CONSTANTS
  Threads = {t1, t2}
  Testers = {t1}
  Body = {query, rotated, canary}
  Marker = rotated
  Canary = canary
  NoEntry = NoEntry
  WindowSize = 2
  Faults = {}
  MaxSeq = 3
  MaxBoots = 2
INVARIANTS
  TamperTestLeavesStoreIntact
CHECK_DEADLOCK FALSE
