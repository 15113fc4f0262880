SPECIFICATION Spec
CONSTANTS
  Threads = {t1, t2}
  Testers = {t1}
  Body = {query, rotated, canary}
  Marker = rotated
  Canary = canary
  NoEntry = NoEntry
  WindowSize = 2
  Faults = {"insert", "commit", "rollback", "restore"}
  MaxSeq = 3
  MaxBoots = 2
INVARIANTS
  TypeOK
  WindowVerifies
  NoFalseAlarm
PROPERTIES
  CommittedRowsStay
  RestartResumes
CHECK_DEADLOCK FALSE
