SPECIFICATION Spec
CONSTANTS
  ann = ann
  bob = bob
  cat = cat
  p1 = p1
  p2 = p2
  User = {ann, bob, cat}
  Photo = {p1}
  Worker = {w1, w2}
  Owner <- MCOwner
  Followers <- HerselfToo
  Backlog <- MCBacklog
  Newcomers = {cat}
  Follows <- MCFollows
  Cap = 2
  Recent = 2
  MaxFaults = 1
  Old = Old
  Welcome = Welcome
INVARIANTS TypeOK FanOutOnce MissedOnlyByRace
PROPERTIES Delivered
