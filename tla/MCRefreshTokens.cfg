\* Three keys, two administrators at once; a signed request, whose nonce is kept for
\* the skew, as with the default of 300 seconds; three tokens, two clients of them.
SPECIFICATION Spec
CONSTANTS
  Keys = {master, k1, k2}
  Master = master
  Lifetimes = {2}
  Handlers = {h1, h2}
  Workloads <- AuthWorkloads
  Skew = 2
  KeptAtLeast = 1
  Delay = 1
  MaxTime = 3
  Tokens = {t1, t2, t3}
  Sessions = {s1, s2}
  Ttl = 2
  None = None
SYMMETRY Symmetry
INVARIANTS TypeOK RevocationLasts  ActsAreApart ReplayEndsTokens
PROPERTIES TokensAreRotated
