SPECIFICATION FairAdmission
CONSTANTS
  Threads = {t1, t2}
  NoThread = NoThread
  Buckets = {b1}
  NoBucket = NoBucket
  NoTime = NoTime
  Rate = 2
  Cost = 3
  Burst = 2
  IdleTTL = 1
  Threshold = 2
  Window = 1
  Cooldown = 1
  MaxQueue = 2
  MaxClock = 2
  MaxQueries = 4
INVARIANTS
  EnvelopeUpToLostTime
  WaitIsEnough
  DepthCounts
  CallsInOutageAreOld
  OpeningsArePaidFor
PROPERTIES
  EveryQueryAnswered
CHECK_DEADLOCK FALSE
