\* A delete runs beside a password change.
SPECIFICATION Spec

CONSTANTS
  Proc = {p1, p2}
  Hd = Hd
  Plain = Plain
  Absent = Absent
  Empty = Empty
  Mangled = Mangled
  NoProc = NoProc
  Root = {r1}
  LegacyRoot = {}
  Index <- MCIndex
  Name = {n1, n2}
  Password = {k1}
  Overlapping <- PasswordDuringDelete
  QuitPoints <- BetweenWrites
PROPERTIES
  DeleteLeavesNothing
