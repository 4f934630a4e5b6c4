\* Two requests saving at once, either of which may fail, and restarts.
SPECIFICATION PSpec
CONSTANTS
  Changesets = {c1, c2, c3}
  Branches = {main}
  Main = main
  Assets = {a1}
  Paths = {p1}
  Blobs = {x}
  Rollbacks = {r1}
  None = None
  Root = Root
  Keep = Keep
  Writers = {w1, w2}
  DbFails = TRUE
SYMMETRY Symmetry
INVARIANTS PTypeOK HistoryIsLineage VisibleIffInOwnHistory
PROPERTIES RestartOnlyForgets SnapshotsAreKept
