\* Two commands at a time, and an editor.
SPECIFICATION Spec

CONSTANTS
  Proc = {p1, p2}
  test = test
  dev = dev
  e1 = e1
  e2 = e2
  e3 = e3
  Network <- MCNetwork
  Chain = {test, dev}
  Endpoint = {e1, e2, e3}
  Storage = {"keyring", "file"}
  DefaultNetworks <- MCDefault
  Typed <- MCTyped
  Absent = Absent
  Mangled = Mangled
  None = None
SYMMETRY Symmetry
INVARIANTS
  TypeOK
  OnlyWholeSaved
  OneNetwork
PROPERTIES
  OnlyActiveChanges
