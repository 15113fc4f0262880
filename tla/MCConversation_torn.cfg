SPECIFICATION Spec
CONSTANTS
  Threads = {t1}
  Sessions = {s1}
  NoSession = NoSession
  NoJob = NoJob
  MaxTurns = 2
  MaxResolutions = 0
  MaxFaults = 2
INVARIANTS
  AckedReplays
CHECK_DEADLOCK FALSE
