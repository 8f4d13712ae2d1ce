\* Three workers race for indexes, attempts and matches.
SPECIFICATION FairSpec

CONSTANTS
  Worker = {w1, w2, w3}
  IndexLimit <- MCIndexLimit
  Request <- MCRequest
  Unbounded = Unbounded
  Pending = Pending
INVARIANTS
  TypeOK
  CountersExact
  ReasonKnown
PROPERTIES
  ImplementsScan
  Returns
\* A search stops when it has returned.
CHECK_DEADLOCK FALSE
