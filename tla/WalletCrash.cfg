\* All but creations overlap what they like, every command may be killed anywhere.
SPECIFICATION Spec

CONSTANTS
  Proc = {p1, p2}
  Hd = Hd
  Plain = Plain
  Absent = Absent
  Empty = Empty
  Mangled = Mangled
  NoProc = NoProc
  Root = {r1, r2, l1}
  LegacyRoot = {l1}
  Index <- MCIndex
  Name = {n1, n2}
  Password = {k1}
  Overlapping <- CreationApart
  QuitPoints <- Anywhere
SYMMETRY Symmetry
INVARIANTS
  TypeOK
  UniqueAccounts
  MetadataDescribesSecret
  LockExclusion
PROPERTIES
  RootKept
  ChangeSettlesFlag
