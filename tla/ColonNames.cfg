\* Is every account of every wallet reachable, the names of wallets being any that
\* are accepted?
SPECIFICATION RefSpec

CONSTANTS
  r1 = r1
  r2 = r2
  l1 = l1
  None = None
  Truncated = Truncated
  Letter <- MCLetter
  HexKey <- MCHexKey
  HexHash <- MCHexHash
  Formatted <- MCFormatted
  WalletName <- MCWalletName
  AccountName <- MCAccountName
  Root = {r1, r2, l1}
  LegacyRoot = {l1}
  MaxAccounts = 2
INVARIANTS
  AllReachable
CHECK_DEADLOCK FALSE
