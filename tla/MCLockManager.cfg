\* Both safe workloads: three owners and requests, the clock up to two terms.
SPECIFICATION Spec
CONSTANTS
  Owners = {a, b, c}
  Requests = {r1, r2, r3}
  Workloads <- SafeWorkloads
  Term = 2
  MaxTime = 4
  NoLock = NoLock
  Idle = Idle
SYMMETRY Symmetry
INVARIANTS TypeOK HolderHasRow CacheIsRow HolderIsProtected
PROPERTIES LeaseIsKept
