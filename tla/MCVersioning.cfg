\* Four changesets on two branches, one asset with two contents, one rollback.
SPECIFICATION Spec
CONSTANTS
  Changesets = {c1, c2, c3, c4}
  Branches = {main, dev}
  Main = main
  Assets = {a1}
  Paths = {p1}
  Blobs = {x, y}
  Rollbacks = {r1}
  None = None
  Root = Root
  Keep = Keep
SYMMETRY Symmetry
INVARIANTS TypeOK HistoryIsLineage VisibleIffInOwnHistory RollbackRestoresContent
PROPERTIES HeadMovesToItsChild GateIsNotSkipped OneTimeline
