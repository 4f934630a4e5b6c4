\* An audit chain that nobody has put a first entry into.
\* It may stop: identifiers, events and entries are used up.
CHECK_DEADLOCK FALSE
SPECIFICATION Spec
CONSTANTS
  Writers = {w1}
  Settings <- TrailSettings
  MaxSeq = 3
  MaxStarts = 0
  None = None
  Changesets = {c1}
  Branches = {main}
  Main = main
  Paths = {p1}
  Root = Root
  Keep = Keep
  Workloads <- EmptyChain
  MaxEvents = 2
PROPERTIES ChainCanBegin
