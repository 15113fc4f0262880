SPECIFICATION Spec
CONSTANTS
  Threads = {t1, t2}
  People = {ana, val1, val2}
  Validators = {val1, val2}
  Nobody = Nobody
  Slots = {slot}
  Configs = {c1, c2}
  NoConfig = NoConfig
  NoEvent = NoEvent
  RealConfigs = {}
  Faults = {"commit", "rollback", "trail"}
  MaxChanges = 2
  MaxCrashes = 1
  MaxEdits = 1
SYMMETRY Symmetry
INVARIANTS
  TypeOK
  TrailIsTruthful
  LedgerReplaysToLive
PROPERTIES
  FourEyesHold
CHECK_DEADLOCK FALSE
