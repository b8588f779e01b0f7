SPECIFICATION Spec
CONSTANTS
  Ops = {"GET", "WATCH", "MULTI", "EXEC", "SUBSCRIBE", "PSUBSCRIBE", "UNSUBSCRIBE", "MONITOR"}
  MaxSent = 3
  MaxPushed = 1
  Base = 3
  Bits = 6
  IntBits = 4
  Payloads <- SmallPayloads
  Items = 2
INVARIANTS TypeOK NeverStarved DoGetsOwnReply FramedFromTheStart ValuesExact
PROPERTIES CleanLease CloseReturns
