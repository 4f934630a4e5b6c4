\* Two requests saving at once to a database that works.
SPECIFICATION PSpec
CONSTANTS
  Changesets = {c1, c2}
  Branches = {main}
  Main = main
  Assets = {a1}
  Paths = {p1}
  Blobs = {x}
  Rollbacks = {}
  None = None
  Root = Root
  Keep = Keep
  Writers = {w1, w2}
  DbFails = FALSE
SYMMETRY Symmetry
INVARIANTS ToldIsKept
