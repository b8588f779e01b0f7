SPECIFICATION Spec
CONSTANTS
  Proc = {p1, p2, p3}
  Conn = {c1, c2, c3}
  NoConn = NoConn
  MaxIdle = 1
  MaxActive = 2
  Expires = TRUE
  Tests = TRUE
INVARIANTS TypeOK Exclusive ActiveExact WithinLimits NoLeak IdleUsable AllocatedBound
PROPERTIES Leased GetReturns ClosedPoolDrains
