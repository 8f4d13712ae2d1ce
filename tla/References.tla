------------------------------ MODULE References ------------------------------
(***************************************************************************)
(* References to accounts, as the commands resolve them in a directory of  *)
(* wallets: `wallet:account`, the name of a legacy wallet, or a key in     *)
(* hexadecimal.  Signers (--from), recipients (--to) and the account       *)
(* commands resolve them by code of their own each.                        *)
(*                                                                         *)
(* The commands that change the directory run one at a time here and may   *)
(* be cut short; WalletStore has them in detail, for one wallet.  A text   *)
(* is a sequence of tokens; a key in hexadecimal is one token.             *)
(***************************************************************************)
EXTENDS Texts, FiniteSets

CONSTANTS
  WalletName,  \* the names that wallets are given
  AccountName, \* the names that accounts are given
  Letter,      \* tokens that are nothing but part of a name
  HexKey,      \* HexKey[t]: the account whose public key token t is
  HexHash,     \* HexHash[t]: the account whose hash token t is, in 32 bytes
  Formatted,   \* Formatted[t]: that of a token account-hash-<hex>
  Root,        \* the secrets a wallet may hold
  LegacyRoot,  \* those that are an imported PEM key
  MaxAccounts, \* bound: the accounts of a wallet, and their indexes
  Truncated,   \* a metadata file whose write was cut short
  None         \* no file, or no answer

Glyph == Letter \cup DOMAIN HexKey \cup DOMAIN HexHash \cup DOMAIN Formatted \cup {":", " ", "/"}

\* The account that a root has at an index; a legacy wallet has just one.
Account == Root \X (0..MaxAccounts)

\* A name in the metadata and the index it was derived at.
Entry == [name : AccountName, index : 1..MaxAccounts]

\* What a metadata file may hold: its type, the public key of a legacy wallet,
\* and the accounts.
Metadata == [type : {"hd", "legacy"}, root : Root, accounts : Seq(Entry)]

ASSUME ReferenceAssumption ==
  /\ LegacyRoot \subseteq Root /\ None \notin Root
  /\ MaxAccounts \in Nat
  /\ \A t \in {HexKey, HexHash, Formatted} : \A x \in DOMAIN t : t[x] \in Account
  /\ WalletName \cup AccountName \subseteq Seq(Glyph)

VARIABLES
  metadata, \* metadata[n]: the metadata file of that name, Truncated, or None
  secrets   \* secrets[n]: the root in the secret file of that name, or None

refVars == <<metadata, secrets>>

RefInit ==
  /\ metadata = [n \in WalletName |-> None]
  /\ secrets = [n \in WalletName |-> None]

-----------------------------------------------------------------------------
\* validate_wallet_name; the reserved names of the keyring are not in Glyph.
ValidName(n) == n # <<>> /\ ~Contains(n, "/")

\* Mutant: the metadata that an unfinished delete has left is built upon.
NoSecretOf(n) == secrets[n] = None

\* ensure_wallet_absent.
NeitherFile(n) == metadata[n] = None /\ secrets[n] = None

\* ensure_wallet_exists, and metadata that parses.
Usable(n) == metadata[n] \notin {None, Truncated} /\ secrets[n] # None

TypeFor(r) == IF r \in LegacyRoot THEN "legacy" ELSE "hd"

\* create, recover and import-legacy: the secret, and then the metadata, unless
\* they are cut short.
MakeWallet(n, r) ==
  /\ ValidName(n)
  /\ NeitherFile(n)
  /\ secrets' = [secrets EXCEPT ![n] = r]
  /\ metadata' \in {metadata, [metadata EXCEPT ![n] =
                                 [type |-> TypeFor(r), root |-> r, accounts |-> <<>>]]}

NamesOf(accounts) == {accounts[i].name : i \in DOMAIN accounts}

\* save_metadata, which may be cut short in the middle.
Save(n, accounts) ==
  metadata' \in {[metadata EXCEPT ![n].accounts = accounts], [metadata EXCEPT ![n] = Truncated]}

\* A new name for an account of an HD wallet.
FreshName(n, name) ==
  /\ Usable(n)
  /\ metadata[n].type = "hd"
  /\ name # <<>>
  /\ name \notin NamesOf(metadata[n].accounts)

\* derive and derive-vanity, for one account at any new index.
DeriveAccount(n, name, index) ==
  /\ FreshName(n, name)
  /\ \A i \in DOMAIN metadata[n].accounts : metadata[n].accounts[i].index # index
  /\ Save(n, Append(metadata[n].accounts, [name |-> name, index |-> index]))
  /\ UNCHANGED secrets

RenameAccount(n, i, name) ==
  /\ FreshName(n, name)
  /\ i \in DOMAIN metadata[n].accounts
  /\ Save(n, [metadata[n].accounts EXCEPT ![i].name = name])
  /\ UNCHANGED secrets

\* delete: the secret, and then the metadata, unless it is cut short.
DeleteWallet(n) ==
  /\ metadata[n] # None \/ secrets[n] # None
  /\ secrets' = [secrets EXCEPT ![n] = None]
  /\ metadata' \in {metadata, [metadata EXCEPT ![n] = None]}

RefNext ==
  \E n \in WalletName :
    \/ \E r \in Root : MakeWallet(n, r)
    \/ \E name \in AccountName, i \in 1..MaxAccounts :
         DeriveAccount(n, name, i) \/ RenameAccount(n, i, name)
    \/ DeleteWallet(n)

RefSpec == RefInit /\ [][RefNext]_refVars

-----------------------------------------------------------------------------
(***************************************************************************)
(* Resolving a text: the set of the one account, empty when it fails.      *)
(***************************************************************************)

\* str::split_once; 0 when there is no colon.
Colon(word) == Position(word, ":")

MetadataAt(n) == IF n \in WalletName THEN metadata[n] ELSE None
SecretAt(n)   == IF n \in WalletName THEN secrets[n] ELSE None

Readable(file) == file \notin {None, Truncated}

\* The index of the first account of that name, in the metadata of an HD wallet.
IndexOf(file, name) ==
  IF Readable(file) /\ file.type = "hd" /\ name \in NamesOf(file.accounts)
  THEN {file.accounts[SelectInSeq(file.accounts, LAMBDA a : a.name = name)].index}
  ELSE {}

\* resolve_account_public_key: the secret need not be there.
PublicKeyOf(n, name) ==
  {<<MetadataAt(n).root, i>> : i \in IndexOf(MetadataAt(n), name)}

\* resolve_account_secret_key: the key is derived from the secret that is there.
SecretKeyOf(n, name) ==
  {<<SecretAt(n), i>> : i \in IF SecretAt(n) \in Root \ LegacyRoot
                             THEN IndexOf(MetadataAt(n), name) ELSE {}}

\* load_wallet_metadata_if_exists finds no wallet of that name ...
NoWallet(n) == ValidName(n) /\ MetadataAt(n) = None /\ SecretAt(n) = None

\* ... or its metadata; anything else, half a wallet also, is an error.
WalletOfType(n, kind) ==
  Readable(MetadataAt(n)) /\ SecretAt(n) # None /\ MetadataAt(n).type = kind

\* try_resolve_legacy_public_key, and what the text is if there is no such wallet.
LegacyKeyOr(word, otherwise) ==
  CASE WalletOfType(word, "legacy")                    -> {<<MetadataAt(word).root, 0>>}
    [] NoWallet(word) \/ WalletOfType(word, "hd") -> otherwise
    [] OTHER                                           -> {}

\* wallet:account, with something on either side.
Split(word, KeyOf(_, _)) ==
  LET i == Colon(word)
      wallet == Before(word, i)
      account == After(word, i)
  IN IF <<>> \in {wallet, account} THEN {} ELSE KeyOf(wallet, account)

Coded(word, keys) ==
  {keys[t] : t \in {x \in DOMAIN keys : word = <<x>>}}

\* parse_identifier.
Hex(word) == Coded(word, HexKey) \cup Coded(word, HexHash)

\* parse_transfer_target; that of a purse is none of an account.
Target(word) == Coded(word, Formatted) \cup Hex(word)

\* identifier::resolve, for `account view` and `account balance`.
Identifier(word) ==
  IF Colon(word) # 0 THEN Split(word, PublicKeyOf) ELSE LegacyKeyOr(word, Hex(word))

\* resolve_transfer_target, for --to.
Recipient(value) ==
  LET word == Trimmed(value)
  IN IF Colon(word) # 0 THEN Split(word, PublicKeyOf) ELSE LegacyKeyOr(word, Target(word))

\* resolve_from_secret_key, for --from.
Signer(word) ==
  IF Colon(word) # 0 THEN Split(word, SecretKeyOf)
  ELSE IF WalletOfType(word, "legacy") /\ SecretAt(word) \in LegacyRoot
  THEN {<<SecretAt(word), 0>>} ELSE {}

-----------------------------------------------------------------------------
(***************************************************************************)
(* Properties.                                                             *)
(***************************************************************************)

\* Texts that may be references: names of wallets and other tokens, alone, with a
\* colon at one end, and names of accounts behind those of wallets.
Composed ==
  LET part == {<<t>> : t \in Glyph \ {" "}} \cup WalletName
  IN {<<>>} \cup part \cup {x \o <<":">> : x \in part} \cup {<<":">> \o x : x \in part} \cup
     {n \o <<":">> \o name : n \in WalletName, name \in AccountName}

\* Those with no blanks around them, which are part of the name for two of the
\* three.
Candidates == {word \in Composed : Trimmed(word) = word}

\* What is a reference for one command is one for the others, and to the same
\* account: money goes to the account that signs under that name, and whose
\* balance is shown.  Each has code of its own, which looks at other files.
ResolversAgree ==
  \A word \in Candidates :
    LET account == Identifier(word)
        recipient == Recipient(word)
    IN /\ Signer(word) \subseteq account
       /\ account \subseteq recipient
       /\ recipient \subseteq account \cup Coded(word, Formatted)

Refers(word, account) == Signer(word) = {account} /\ Identifier(word) = {account}

\* Each account of a whole wallet has its reference, and so has a legacy wallet.
Reachable(n) ==
  /\ metadata[n].type = "legacy" => Refers(n, <<secrets[n], 0>>)
  /\ metadata[n].type = "hd" =>
       \A i \in DOMAIN metadata[n].accounts :
         Refers(n \o <<":">> \o metadata[n].accounts[i].name,
                <<secrets[n], metadata[n].accounts[i].index>>)

\* README: wallet references use wallet:account; legacy wallets can be referenced
\* by wallet name alone.
AllReachable == \A n \in WalletName : Usable(n) => Reachable(n)

SomeFile == \E n \in WalletName : metadata[n] # None \/ secrets[n] # None

\* Where there are wallets, all resolvers agree, and every account of every whole
\* wallet is what they resolve its reference to, whatever other wallets and
\* accounts are called and whatever is left of earlier wallets of that name,
\* unless the name of the wallet itself has a colon.
ReferencesResolve ==
  SomeFile =>
    /\ ResolversAgree
    /\ \A n \in WalletName : Usable(n) /\ Colon(n) = 0 => Reachable(n)
===============================================================================
