\* All types of up to eight tokens, values of up to three bytes, argument lines of
\* up to seven characters, numbers of up to five, and references in directories of
\* three wallets with two accounts each.
SPECIFICATION CliSpec

CONSTANTS
  Basic <- MCBasic
  Number <- MCNumber
  HashLength = 2
  MaxNesting = 2
  MaxTokens = 8
  Byte = {0, 1, 2}
  Encoding <- MCEncoding
  MaxBytes = 3
  Character = {"a"}
  MaxLine = 7
  TypedDigit = {"0", "1", "9"}
  Decimals = 2
  MaxMotes = 1009
  MaxPayment = 99
  MaxKeys = 5
  r1 = r1
  r2 = r2
  l1 = l1
  None = None
  Truncated = Truncated
  Letter <- MCLetter
  HexKey <- MCHexKey
  HexHash <- MCHexHash
  Formatted <- MCFormatted
  WalletName <- MCWalletName
  AccountName <- MCAccountName
  Root = {r1, r2, l1}
  LegacyRoot = {l1}
  MaxAccounts = 2
INVARIANTS
  StackSound
  RoundTrip
  OnlyPhrases
  CheckersAgree
  ArgumentReadBack
  NumbersExact
  ReferencesResolve
PROPERTIES
  CheckEnds
CHECK_DEADLOCK FALSE
