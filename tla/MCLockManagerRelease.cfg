\* A release or a renewal that is overtaken by the end of its lease and by another owner.
SPECIFICATION Spec
CONSTANTS
  Owners = {a, b}
  Requests = {r1, r2}
  Workloads <- OwnersWorkloads
  Term = 2
  MaxTime = 4
  NoLock = NoLock
  Idle = Idle
PROPERTIES OtherRowsAreLeft
