\* One rewrite at a time, no command is killed while it has work half done.
SPECIFICATION FairSpec

CONSTANTS
  Proc = {p1, p2}
  Hd = Hd
  Plain = Plain
  Absent = Absent
  Empty = Empty
  Mangled = Mangled
  NoProc = NoProc
  Root = {r1, l1}
  LegacyRoot = {l1}
  Index <- MCIndex
  Name = {n1, n2}
  Password = {k1, k2}
  Overlapping <- OneRewriteAtATime
  QuitPoints <- BetweenWrites
INVARIANTS
  FlagAgreement
  UserKnowsPassword
  NoAccountLost
PROPERTIES
  PasswordKeepsAccounts
  LockReleased
  IsAtomic
