\* A wallet is used with either backend.
SPECIFICATION Spec

CONSTANTS
  Proc = {p1, p2}
  w1 = w1
  w2 = w2
  w3 = w3
  Name <- MCName
  Root = {r1, r2}
  Choice <- AnyBackend
  Overlap = FALSE
  None = None
PROPERTIES
  DeleteRemovesSecret
