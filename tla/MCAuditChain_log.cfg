SPECIFICATION FairSpec
CONSTANTS
  Threads = {t1, t2, t3}
  Testers = {}
  Body = {query, rotated, canary}
  Marker = rotated
  Canary = canary
  NoEntry = NoEntry
  WindowSize = 2
  Faults = {"commit"}
  MaxSeq = 4
  MaxBoots = 2
PROPERTIES
  StoreIsAppendOnlyLog
  AppendReturns
CHECK_DEADLOCK FALSE
