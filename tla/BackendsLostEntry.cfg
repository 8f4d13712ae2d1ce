\* Commands on different wallets at the same time.
SPECIFICATION Spec

CONSTANTS
  Proc = {p1, p2}
  w1 = w1
  w2 = w2
  w3 = w3
  Name <- MCName
  Root = {r1, r2}
  Choice <- OneBackendEach
  Overlap = TRUE
  None = None
INVARIANTS
  UsableIsListed
