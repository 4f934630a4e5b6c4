\* Two handlers, three changesets, two branches and a path, four events.
\* It may stop: identifiers, events and entries are used up.
CHECK_DEADLOCK FALSE
SPECIFICATION Spec
CONSTANTS
  Writers = {w1, w2}
  Settings <- TrailSettings
  MaxSeq = 4
  MaxStarts = 1
  None = None
  Changesets = {c1, c2, c3}
  Branches = {main, dev}
  Main = main
  Paths = {p1}
  Root = Root
  Keep = Keep
  Workloads <- TrailWorkloads
  MaxEvents = 4
INVARIANTS TypeOK ChainVerifies CheckpointCoversItsHead 
PROPERTIES AppendsEnd QuorumIsReached
