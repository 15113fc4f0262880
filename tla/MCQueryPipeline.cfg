SPECIFICATION Spec
CONSTANTS
  Threads = {t1, t2}
  Customers = {ana, rui}
  Channels = {app}
  Keys = {k}
  NoKey = NoKey
  NoResponse = NoResponse
  Queries <- MCQueries
  ClassOf <- MCClassOf
  Policies <- MCPolicies
  AllowLists <- MCAllowLists
  Thresholds <- MCThresholds
  ReadFails = {FALSE}
  OverlayTTL = 1
  IdemTTL = 1
  CacheTTL = 1
  CacheSize = 1
  MaxClock = 1
  MaxRequests = 2
  MaxChanges = 1
SYMMETRY Symmetry
INVARIANTS
  TypeOK
  ScopeIsolation
  FirewallHolds
  GuardHolds
  BlockedStaysIn
  AuditTellsWhatWasServed
  AppliesTakeEffect
  SafetyFloor
CHECK_DEADLOCK FALSE
