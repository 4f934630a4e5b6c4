\* The first changeset of an empty branch.
SPECIFICATION Spec
CONSTANTS
  Changesets = {c1}
  Branches = {main}
  Main = main
  Assets = {a1}
  Paths = {p1}
  Blobs = {x}
  Rollbacks = {}
  None = None
  Root = Root
  Keep = Keep
INVARIANTS ApprovedTipIsPromotable
