SPECIFICATION Spec
CONSTANTS
  Threads = {t1, t2}
  Testers = {}
  Body = {query, rotated, canary}
  Marker = rotated
  Canary = canary
  NoEntry = NoEntry
  WindowSize = 2
  Faults = {"insert"}
  MaxSeq = 3
  MaxBoots = 2
PROPERTIES
  RestartContinuesChain
CHECK_DEADLOCK FALSE
