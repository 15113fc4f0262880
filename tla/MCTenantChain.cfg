SPECIFICATION Spec
CONSTANTS
  t1 = t1
  t2 = t2
  t3 = t3
  t4 = t4
  p1 = p1
  p2 = p2
  Threads = {t1, t2, t3, t4}
  Processes = {p1, p2}
  Home <- MCHome
  Tenants = {a, b}
  NoWork = NoWork
  Body <- MCBody
  MaxAppends = 4
  MaxCrashes = 1
INVARIANTS
  OneChainPerTenant
  AckedIsStored
  NeverStuck
PROPERTIES
  RowsStay
SYMMETRY Symmetry
CHECK_DEADLOCK FALSE
