CHECK_DEADLOCK FALSE
SPECIFICATION Spec
CONSTANTS
  Clients = {u1, u2}
  Changesets = {c1, c2, c3}
  Branches = {main, dev}
  Main = main
  Paths = {p1}
  Blobs = {b1, b2}
  u1 = u1
  u2 = u2
  b1 = b1
  b2 = b2
  Root = Root
  Keep = Keep
  None = None
  MaxSessions = 2
  MaxCheckpoints = 2
  MaxEdits = 2
  Workloads <- AllWork
INVARIANTS TypeOK RestartKeepsPrefix SubmitOnce NothingUnseenIsOverwritten
PROPERTIES HolderKeepsItsContent
