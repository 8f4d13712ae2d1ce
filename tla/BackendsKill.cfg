\* One command at a time, killed anywhere.
SPECIFICATION Spec

CONSTANTS
  Proc = {p1, p2}
  w1 = w1
  w2 = w2
  w3 = w3
  Name <- MCName
  Root = {r1, r2}
  Choice <- OneBackendEach
  Overlap = FALSE
  None = None
INVARIANTS
  UsableIsListed
  IndexExact
  UsesOwnRoot
PROPERTIES
  DeleteRemovesSecret
