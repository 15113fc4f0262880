SPECIFICATION Spec
CONSTANTS
  Threads = {t1, t2}
  Sessions = {s1}
  NoSession = NoSession
  NoJob = NoJob
  MaxTurns = 2
  MaxResolutions = 2
  MaxFaults = 2
SYMMETRY Symmetry
INVARIANTS
  AnswersHaveEvidence
  EvidenceOnDisk
  CacheFollowsFile
  KpisTrailEvidence
  TurnsInLog
PROPERTIES
  ClosuresStick
CHECK_DEADLOCK FALSE
