SPECIFICATION Spec
CONSTANTS
  ann = ann
  bob = bob
  cat = cat
  p1 = p1
  p2 = p2
  User = {ann, bob, cat}
  Photo = {p1, p2}
  Worker = {w1, w2}
  Owner <- MCOwner
  Followers <- MCFollowers
  Backlog <- BobsBacklog
  Newcomers = {}
  Follows <- MCFollows
  Cap = 7
  Recent = 2
  MaxFaults = 0
  Old = Old
  Welcome = Welcome
SYMMETRY Interchangeable
INVARIANTS TrimmedAtMost
