SPECIFICATION Spec
CONSTANTS
  Threads = {t1, t2}
  People = {ana, val1, val2}
  Validators = {val1, val2}
  Nobody = Nobody
  Slots = {slot}
  Configs = {c1, c2}
  NoConfig = NoConfig
  NoEvent = NoEvent
  RealConfigs = {}
  Faults = {"commit"}
  MaxChanges = 2
  MaxCrashes = 0
  MaxEdits = 0
SYMMETRY Symmetry
INVARIANTS
  ApprovalIsOnTheTrail
CHECK_DEADLOCK FALSE
