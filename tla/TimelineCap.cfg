SPECIFICATION Spec
CONSTANTS
  ann = ann
  bob = bob
  cat = cat
  p1 = p1
  p2 = p2
  User = {ann, bob, cat}
  Photo = {p1}
  Worker = {w1}
  Owner <- MCOwner
  Followers <- MCFollowers
  Backlog <- FullBacklog
  Newcomers = {}
  Follows <- NoFollows
  Cap = 2
  Recent = 2
  MaxFaults = 0
  Old = Old
  Welcome = Welcome
INVARIANTS TimelineWithinCap
