\* A reader that goes on reading while the branch grows to four changesets.
SPECIFICATION FairRSpec
CONSTANTS
  Changesets = {c1, c2, c3, c4}
  Branches = {main}
  Main = main
  Assets = {}
  Paths = {p1}
  Blobs = {x}
  Rollbacks = {}
  None = None
  Root = Root
  Keep = Keep
  Readers = {r1}
  Limits = {0, 2, 9}
  MaxPage = 3
INVARIANTS NothingIsSkipped
PROPERTIES ListingsEnd
