\* Simulations over an unreliable node, with kills and a damaged cache.
SPECIFICATION Spec

CONSTANTS
  k1 = k1
  k2 = k2
  k1rw = k1rw
  r1 = r1
  r2 = r2
  v1 = v1
  v2 = v2
  Key <- MCKey
  Normal <- MCNormal
  Root = {r1, r2}
  Value = {v1, v2}
  Stored <- MCStored
  Missing = Missing
  Elsewhere = Elsewhere
  Garbage = Garbage
  None = None
  MaxDamage = 1
INVARIANTS
  TypeOK
  ReadsTrue
  CacheVerified
  FailuresReported
  SeenIsCached
PROPERTIES
  IsExecution
