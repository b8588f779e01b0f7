SPECIFICATION Spec
CONSTANTS
  ann = ann
  bob = bob
  les = les
  User = {ann, bob, les}
  Existing <- MCExisting
  AutoFollowers <- MCAuto
  Requests <- LoginRequests
  Worker = {w1, w2}
  MaxFaults = 2
PROPERTIES SetupReaches
