SPECIFICATION Spec
CONSTANTS
  ann = ann
  bob = bob
  les = les
  User = {ann, bob, les}
  Existing <- MCExisting
  AutoFollowers <- MCAuto
  Requests <- MCRequests
  Worker = {w1, w2}
  MaxFaults = 2
SYMMETRY Interchangeable
INVARIANTS TypeOK ListsUnique EdgesPaired WantsResolved EdgesCaughtUp ListedNamed
