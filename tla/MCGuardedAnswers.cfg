SPECIFICATION Spec
CONSTANTS
  p1 = p1
  p2 = p2
  Procs = {p1, p2}
  NoProc = NoProc
  MaxAttempts = 2
  MaxFaults = 1
  Top = 2
  Threshold = 1
  Gate = 2
  Uses <- MCUses
  Batch = 2
  Scores = 1
  MaxCalls = 1
  Levels = {0, 1, 2}
  Chains <- MCChains
  Ranges <- MCRanges
INVARIANTS
  AnswersAreEarned
  StoredOnce
  FiledWhereItBelongs
  FailoverKeepsTheBar
  RouteIsReference
CHECK_DEADLOCK FALSE
