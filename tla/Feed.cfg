SPECIFICATION PageSpec
CONSTANTS
  u1 = u1  u2 = u2
  p1 = p1  p2 = p2  p3 = p3  p4 = p4  p5 = p5
  User = {u1, u2}
  Photo = {p1, p2, p3, p4, p5}
  Owner <- Owned
  Dated = {p1, p2, p3, p5}
  Worker = {w1, w2}
  Workloads <- Small
  NoRequest = NoRequest
  MaxClock = 1
  MaxFaults = 2
  Base <- Four
  Extra = {p5, p2, p4}
  Cap = 4
  Batch = 3
  Top = Top
INVARIANTS TypeOK LastWordHolds CommentsLostOnlyBySameSecond EndMeansAll
PROPERTIES LikesShown ReadsOn
CHECK_DEADLOCK FALSE
