------------------------------ MODULE TextsProofs ------------------------------
(***************************************************************************)
(* Theorems about the texts of the command line that are split: references *)
(* to accounts, for any names, keys and secrets, the lines of arguments,   *)
(* and numbers, of any characters and any length.                          *)
(***************************************************************************)
EXTENDS References, ArgumentText, Numbers, FiniteSetTheorems, SequenceTheorems,
        WellFoundedInduction, TLAPS

(***************************************************************************)
(* The first place of a token, and the halves of a text around it.         *)
(***************************************************************************)

\* A set of natural numbers has its minimum in it.
LEMMA MinIsLeast ==
  ASSUME NEW I \in SUBSET Nat, I # {}
  PROVE  Min(I) \in I /\ \A k \in I : Min(I) <= k
<1>1. PICK m \in I : \A k \in I : ~(<<k, m>> \in OpToRel(<, Nat))
  BY NatLessThanWellFounded, WFMin, Zenon
<1>2. \A k \in I : ~(k < m)
  BY <1>1, Zenon DEF OpToRel
<1>3. \A k \in I : m =< k
  BY <1>2
<1>4. Min(I) \in I /\ \A k \in I : Min(I) =< k
  BY <1>3, Zenon DEF Min
<1> QED
  BY <1>4

\* Position finds the first of the places where the token is.
LEMMA PositionIsFirst ==
  ASSUME NEW word, Len(word) \in Nat, NEW token
  PROVE  \/ Position(word, token) = 0 /\ \A k \in 1..Len(word) : word[k] # token
         \/ /\ Position(word, token) \in 1..Len(word)
            /\ word[Position(word, token)] = token
            /\ \A k \in 1..Len(word) : word[k] = token => Position(word, token) <= k
<1> DEFINE I == {i \in 1..Len(word) : word[i] = token}
<1>1. Position(word, token) = IF I # {} THEN Min(I) ELSE 0
  BY DEF Position, SelectInSeq
<1>2. CASE I = {}
  BY <1>1, <1>2
<1>3. CASE I # {}
  <2>1. Min(I) \in I /\ \A k \in I : Min(I) <= k
    BY SMTT(30), <1>3, MinIsLeast
  <2> QED
    BY <1>1, <1>3, <2>1
<1> QED
  BY <1>2, <1>3

\* A text in three parts is taken apart around the middle one.
Around(n, c, rest) == n \o <<c>> \o rest

SplitAt(word, i, n, rest) == Before(word, i) = n /\ After(word, i) = rest

LEMMA SplitAround ==
  ASSUME NEW S, NEW n \in Seq(S), NEW c \in S, NEW rest \in Seq(S),
         NEW word, word = Around(n, c, rest)
  PROVE  word \in Seq(S) /\ SplitAt(word, Len(n) + 1, n, rest)
<1> DEFINE i == Len(n) + 1
<1>1. /\ word \in Seq(S) /\ Len(word) = Len(n) + 1 + Len(rest)
      /\ \A k \in 1..Len(n) : word[k] = n[k]
      /\ \A k \in 1..Len(rest) : word[i + k] = rest[k]
  BY DEF Around
<1>2. Before(word, i) = n
  <2>1. /\ SubSeq(word, 1, Len(n)) \in Seq(S)
        /\ Len(SubSeq(word, 1, Len(n))) = Len(n)
        /\ \A k \in 1..Len(n) : SubSeq(word, 1, Len(n))[k] = word[k]
    BY <1>1
  <2> QED
    BY <1>1, <2>1, SeqEqual DEF Before
<1>3. After(word, i) = rest
  <2>1. /\ SubSeq(word, i + 1, Len(word)) \in Seq(S)
        /\ Len(SubSeq(word, i + 1, Len(word))) = Len(rest)
        /\ \A k \in 1..Len(rest) : SubSeq(word, i + 1, Len(word))[k] = word[i + k]
    BY <1>1
  <2> QED
    BY <1>1, <2>1, SeqEqual DEF After
<1> QED
  BY <1>1, <1>2, <1>3 DEF SplitAt

\* wallet:account is split between a wallet without a colon and the account,
\* whatever colons the account has.
LEMMA SplitAtColon ==
  ASSUME NEW S, NEW n \in Seq(S), NEW account \in Seq(S), ":" \in S, Colon(n) = 0
  PROVE  LET word == n \o <<":">> \o account IN
         /\ Colon(word) = Len(n) + 1
         /\ Before(word, Colon(word)) = n
         /\ After(word, Colon(word)) = account
<1> DEFINE word == n \o <<":">> \o account
           i    == Len(n) + 1
<1>1. /\ Len(word) = Len(n) + 1 + Len(account)
      /\ word[i] = ":"
      /\ \A k \in 1..Len(n) : word[k] = n[k]
  OBVIOUS
<1>2. \A k \in 1..Len(n) : n[k] # ":"
  BY PositionIsFirst DEF Colon
<1>3. SplitAt(word, i, n, account)
  BY SplitAround DEF Around
<1> HIDE DEF word
<1>4. Colon(word) = i
  <2>1. \A k \in 1..Len(word) : word[k] = ":" => i <= k
    BY <1>1, <1>2
  <2>2. i \in 1..Len(word) /\ Len(word) \in Nat
    BY <1>1
  <2>3. /\ Colon(word) \in 1..Len(word)
        /\ word[Colon(word)] = ":" /\ Colon(word) <= i
    BY <1>1, <2>2, PositionIsFirst DEF Colon
  <2> QED
    BY <2>1, <2>2, <2>3
<1> QED
  BY <1>3, <1>4 DEF word, SplitAt

-----------------------------------------------------------------------------
(***************************************************************************)
(* What the commands leave in a directory.                                 *)
(***************************************************************************)

DirectoryType ==
  /\ metadata \in [WalletName -> Metadata \cup {Truncated, None}]
  /\ secrets \in [WalletName -> Root \cup {None}]

\* Metadata that parses has a proper name, the type that goes with its root and
\* the root of the secret beside it, if there is one; and its accounts have
\* proper names, no two the same.
WholeInv ==
  \A n \in WalletName : Readable(metadata[n]) =>
    /\ n # <<>>
    /\ metadata[n].type = TypeFor(metadata[n].root)
    /\ secrets[n] \in {None, metadata[n].root}
    /\ \A i, j \in DOMAIN metadata[n].accounts :
         /\ metadata[n].accounts[i].name # <<>>
         /\ metadata[n].accounts[i].name = metadata[n].accounts[j].name => i = j

\* A new or renamed account keeps the names apart.
LEMMA NamesStayApart ==
  ASSUME NEW accounts \in Seq(Entry), NEW name \in AccountName, NEW index \in 1..MaxAccounts,
         name # <<>>, name \notin NamesOf(accounts),
         \A i, j \in DOMAIN accounts :
           accounts[i].name # <<>> /\ (accounts[i].name = accounts[j].name => i = j),
         NEW new,
         \/ new = Append(accounts, [name |-> name, index |-> index])
         \/ \E k \in DOMAIN accounts : new = [accounts EXCEPT ![k].name = name]
  PROVE  /\ new \in Seq(Entry)
         /\ \A i, j \in DOMAIN new :
              new[i].name # <<>> /\ (new[i].name = new[j].name => i = j)
<1>0. \A i \in DOMAIN accounts : accounts[i] \in Entry /\ accounts[i].name # name
  BY DEF NamesOf
<1>1. CASE new = Append(accounts, [name |-> name, index |-> index])
  <2> DEFINE e == [name |-> name, index |-> index]
  <2>1. e \in Entry /\ e.name = name
    BY DEF Entry
  <2> HIDE DEF e
  <2>2. /\ new \in Seq(Entry) /\ DOMAIN new = 1..(Len(accounts) + 1)
        /\ DOMAIN accounts = 1..Len(accounts) /\ Len(accounts) \in Nat
        /\ \A i \in 1..Len(accounts) : new[i] = accounts[i]
        /\ new[Len(accounts) + 1] = e
    BY <1>1, <2>1 DEF e
  <2>3. ASSUME NEW i \in DOMAIN new
        PROVE  IF i \in DOMAIN accounts THEN new[i] = accounts[i]
               ELSE i = Len(accounts) + 1 /\ new[i] = e
    <3>0. PICK N \in Nat : N = Len(accounts)
      BY <2>2
    <3>1. i \in 1..N \/ i = N + 1
      <4>1. i \in 1..(N + 1)
        BY <2>2, <3>0, Zenon
      <4> QED
        BY <4>1
    <3> QED
      BY <2>2, <3>0, <3>1
  <2>4. ASSUME NEW i \in DOMAIN new
        PROVE  /\ new[i].name # <<>>
               /\ \A j \in DOMAIN new : new[i].name = new[j].name => i = j
    <3>1. CASE i \in DOMAIN accounts
      BY <1>0, <2>1, <2>3, <3>1
    <3>2. CASE i \notin DOMAIN accounts
      BY <1>0, <2>1, <2>3, <3>2
    <3> QED
      BY <3>1, <3>2
  <2> QED
    BY <2>2, <2>4
<1>2. ASSUME NEW k \in DOMAIN accounts, new = [accounts EXCEPT ![k].name = name]
      PROVE  /\ new \in Seq(Entry)
             /\ \A i, j \in DOMAIN new :
                  new[i].name # <<>> /\ (new[i].name = new[j].name => i = j)
  <2> DEFINE e == [accounts[k] EXCEPT !.name = name]
  <2>1. e \in Entry /\ e.name = name
    BY <1>0 DEF Entry
  <2>2. new = [accounts EXCEPT ![k] = e]
    BY <1>2
  <2> HIDE DEF e
  <2>3. k \in 1..Len(accounts) /\ DOMAIN accounts = 1..Len(accounts)
    OBVIOUS
  <2>4. /\ new \in Seq(Entry) /\ Len(new) = Len(accounts)
        /\ \A i \in 1..Len(accounts) : new[i] = IF i = k THEN e ELSE accounts[i]
    <3>1. /\ [accounts EXCEPT ![k] = e] \in Seq(Entry)
          /\ Len([accounts EXCEPT ![k] = e]) = Len(accounts)
          /\ \A i \in 1..Len(accounts) :
               [accounts EXCEPT ![k] = e][i] = IF i = k THEN e ELSE accounts[i]
      BY SMTT(30), <2>1, <2>3, ExceptSeq
    <3> QED
      BY <2>2, <3>1, Zenon
  <2>5. /\ DOMAIN new = DOMAIN accounts
        /\ \A i \in DOMAIN new : new[i] = IF i = k THEN e ELSE accounts[i]
    BY <2>3, <2>4
  <2>6. ASSUME NEW i \in DOMAIN new
        PROVE  /\ new[i].name # <<>>
               /\ \A j \in DOMAIN new : new[i].name = new[j].name => i = j
    <3>1. CASE i = k
      BY <1>0, <2>1, <2>5, <3>1
    <3>2. CASE i # k
      BY <1>0, <2>1, <2>5, <3>2
    <3> QED
      BY <3>1, <3>2
  <2> QED
    BY <2>4, <2>6
<1> QED
  BY <1>1, <1>2

\* Saved metadata of a wallet that can be used: whole again, or cut short.
LEMMA SaveKeeps ==
  ASSUME DirectoryType, WholeInv, NEW n \in WalletName, Usable(n),
         NEW accounts \in Seq(Entry), Save(n, accounts), UNCHANGED secrets,
         \A i, j \in DOMAIN accounts :
           accounts[i].name # <<>> /\ (accounts[i].name = accounts[j].name => i = j)
  PROVE  DirectoryType' /\ WholeInv'
<1> DEFINE file == [metadata[n] EXCEPT !.accounts = accounts]
<1>1. Readable(metadata[n]) /\ metadata[n] \in Metadata
  BY DEF Usable, Readable, DirectoryType
<1>2. /\ file \in Metadata /\ file.root = metadata[n].root /\ file.type = metadata[n].type
      /\ file.accounts = accounts
  BY <1>1 DEF Metadata
<1>3. \/ metadata' = [metadata EXCEPT ![n] = file]
      \/ metadata' = [metadata EXCEPT ![n] = Truncated]
  BY <1>1 DEF Save, DirectoryType
<1> HIDE DEF file
<1>4. DirectoryType'
  BY <1>2, <1>3 DEF DirectoryType
<1>5. \A m \in WalletName \ {n} : metadata'[m] = metadata[m]
  BY <1>3 DEF DirectoryType
<1>6. metadata'[n] \in {file, Truncated}
  BY <1>3 DEF DirectoryType
<1>7. ~Readable(Truncated)
  BY DEF Readable
<1>8. /\ n # <<>> /\ file.type = TypeFor(file.root) /\ secrets[n] \in {None, file.root}
  BY <1>1, <1>2 DEF WholeInv
<1> QED
  BY <1>2, <1>4, <1>5, <1>6, <1>7, <1>8 DEF WholeInv

\* Every command keeps that, however it is cut short.
LEMMA WholeInvariant == RefSpec => [](DirectoryType /\ WholeInv)
<1>1. RefInit => DirectoryType /\ WholeInv
  BY DEF RefInit, DirectoryType, WholeInv, Readable
<1>2. DirectoryType /\ WholeInv /\ [RefNext]_refVars => (DirectoryType /\ WholeInv)'
  <2> SUFFICES ASSUME DirectoryType, WholeInv, [RefNext]_refVars
               PROVE  DirectoryType' /\ WholeInv'
    OBVIOUS
  <2>1. CASE UNCHANGED refVars
    BY <2>1 DEF refVars, DirectoryType, WholeInv
  <2>2. ASSUME NEW n \in WalletName, NEW r \in Root, MakeWallet(n, r)
        PROVE  DirectoryType' /\ WholeInv'
    <3> DEFINE file == [type |-> TypeFor(r), root |-> r, accounts |-> <<>>]
    <3>1. file \in Metadata
      BY DEF Metadata, TypeFor
    <3>2. /\ n # <<>> /\ metadata[n] = None /\ secrets' = [secrets EXCEPT ![n] = r]
          /\ metadata' = metadata \/ metadata' = [metadata EXCEPT ![n] = file]
      BY <2>2 DEF MakeWallet, ValidName, NeitherFile
    <3>3. file.type = TypeFor(r) /\ file.root = r /\ file.accounts = <<>>
      OBVIOUS
    <3> HIDE DEF file
    <3>4. DirectoryType'
      BY <3>1, <3>2 DEF DirectoryType
    <3>5. ASSUME NEW m \in WalletName, m # n
          PROVE  metadata'[m] = metadata[m] /\ secrets'[m] = secrets[m]
      BY <3>2, <3>5 DEF DirectoryType
    <3>6. metadata'[n] \in {None, file} /\ secrets'[n] = r
      BY <3>2 DEF DirectoryType
    <3>7. ~Readable(None)
      BY DEF Readable
    <3> QED
      BY <3>2, <3>3, <3>4, <3>5, <3>6, <3>7 DEF WholeInv
  <2>3. ASSUME NEW n \in WalletName, NEW name \in AccountName, NEW i \in 1..MaxAccounts,
               DeriveAccount(n, name, i) \/ RenameAccount(n, i, name)
        PROVE  DirectoryType' /\ WholeInv'
    <3>1. /\ Usable(n) /\ Readable(metadata[n]) /\ metadata[n].accounts \in Seq(Entry)
          /\ name # <<>> /\ name \notin NamesOf(metadata[n].accounts) /\ UNCHANGED secrets
      BY <2>3 DEF DeriveAccount, RenameAccount, FreshName, Usable, Readable, DirectoryType, Metadata
    <3>2. PICK new : /\ Save(n, new)
                     /\ \/ new = Append(metadata[n].accounts, [name |-> name, index |-> i])
                        \/ /\ i \in DOMAIN metadata[n].accounts
                           /\ new = [metadata[n].accounts EXCEPT ![i].name = name]
      BY <2>3 DEF DeriveAccount, RenameAccount
    <3>3. \A j, k \in DOMAIN metadata[n].accounts :
            /\ metadata[n].accounts[j].name # <<>>
            /\ metadata[n].accounts[j].name = metadata[n].accounts[k].name => j = k
      BY <3>1 DEF WholeInv
    <3>4. /\ new \in Seq(Entry)
          /\ \A j, k \in DOMAIN new :
               new[j].name # <<>> /\ (new[j].name = new[k].name => j = k)
      <4> DEFINE accounts == metadata[n].accounts
      <4>1. /\ accounts \in Seq(Entry) /\ name \notin NamesOf(accounts)
            /\ \A j, k \in DOMAIN accounts :
                 accounts[j].name # <<>> /\ (accounts[j].name = accounts[k].name => j = k)
            /\ \/ new = Append(accounts, [name |-> name, index |-> i])
               \/ \E k \in DOMAIN accounts : new = [accounts EXCEPT ![k].name = name]
        BY <3>1, <3>2, <3>3
      <4> HIDE DEF accounts
      <4> QED
        BY <3>1, <4>1, NamesStayApart
    <3> QED
      BY <3>1, <3>2, <3>4, SaveKeeps
  <2>4. ASSUME NEW n \in WalletName, DeleteWallet(n)
        PROVE  DirectoryType' /\ WholeInv'
    <3>1. /\ secrets' = [secrets EXCEPT ![n] = None]
          /\ metadata' = metadata \/ metadata' = [metadata EXCEPT ![n] = None]
      BY <2>4 DEF DeleteWallet
    <3>2. DirectoryType'
      BY <3>1 DEF DirectoryType
    <3>3. \A m \in WalletName : /\ metadata'[m] \in {None, metadata[m]}
                                /\ secrets'[m] \in {None, secrets[m]}
      BY <3>1 DEF DirectoryType
    <3>4. ~Readable(None)
      BY DEF Readable
    <3> QED
      BY <3>2, <3>3, <3>4 DEF WholeInv
  <2> QED
    BY <2>1, <2>2, <2>3, <2>4 DEF RefNext
<1> QED
  BY <1>1, <1>2, PTL DEF RefSpec

-----------------------------------------------------------------------------
(***************************************************************************)
(* What the references resolve to.                                         *)
(***************************************************************************)

\* A name is looked up as the one account that has it.
LEMMA AccountIsFound ==
  ASSUME DirectoryType, WholeInv, NEW n \in WalletName, Readable(metadata[n]),
         metadata[n].type = "hd", NEW i \in DOMAIN metadata[n].accounts
  PROVE  IndexOf(metadata[n], metadata[n].accounts[i].name) = {metadata[n].accounts[i].index}
<1> DEFINE accounts == metadata[n].accounts
           name     == accounts[i].name
           I        == {j \in 1..Len(accounts) : accounts[j].name = name}
<1>1. accounts \in Seq(Entry)
  BY DEF DirectoryType, Readable, Metadata
<1>2. DOMAIN accounts = 1..Len(accounts) /\ Len(accounts) \in Nat
  BY <1>1
<1>3. i \in I /\ \A j \in I : j = i
  BY <1>2 DEF WholeInv
<1>4. Min(I) \in I
  <2>1. I \in SUBSET Nat /\ I # {}
    BY <1>2, <1>3
  <2> QED
    BY <2>1, MinIsLeast
<1>5. SelectInSeq(accounts, LAMBDA a : a.name = name) = IF I # {} THEN Min(I) ELSE 0
  BY DEF SelectInSeq
<1>6. SelectInSeq(accounts, LAMBDA a : a.name = name) = i
  BY <1>3, <1>4, <1>5
<1>7. name \in NamesOf(accounts)
  BY DEF NamesOf
<1> QED
  BY <1>6, <1>7 DEF IndexOf

\* The key that signs for wallet:account is that of the account it refers to.
LEMMA SignerIsAccount ==
  ASSUME DirectoryType, WholeInv, NEW n, NEW name
  PROVE  SecretKeyOf(n, name) \subseteq PublicKeyOf(n, name)
<1> SUFFICES ASSUME SecretAt(n) \in Root \ LegacyRoot, Readable(MetadataAt(n))
             PROVE  SecretAt(n) = MetadataAt(n).root
  BY DEF SecretKeyOf, PublicKeyOf, IndexOf
<1>1. n \in WalletName
  BY DEF MetadataAt, Readable
<1> QED
  BY <1>1, ReferenceAssumption DEF MetadataAt, SecretAt, WholeInv

\* A legacy wallet signs with the root that its metadata names.
LEMMA LegacySigner ==
  ASSUME DirectoryType, WholeInv, NEW word, WalletOfType(word, "legacy")
  PROVE  /\ word \in WalletName /\ SecretAt(word) = MetadataAt(word).root
         /\ SecretAt(word) \in LegacyRoot
         /\ \A otherwise : LegacyKeyOr(word, otherwise) = {<<SecretAt(word), 0>>}
<1>1. word \in WalletName /\ Readable(metadata[word]) /\ secrets[word] # None
      /\ metadata[word].type = "legacy"
  BY DEF WalletOfType, MetadataAt, SecretAt, Readable
<1>2. secrets[word] = metadata[word].root /\ metadata[word].root \in LegacyRoot
  BY <1>1 DEF WholeInv, TypeFor
<1> QED
  BY <1>1, <1>2 DEF MetadataAt, SecretAt, LegacyKeyOr, WalletOfType, NoWallet, Readable

\* Without a legacy wallet of that name a text is something else, or an error.
LEMMA NotLegacy ==
  ASSUME NEW word, ~WalletOfType(word, "legacy"), NEW otherwise
  PROVE  LegacyKeyOr(word, otherwise) =
           IF NoWallet(word) \/ WalletOfType(word, "hd") THEN otherwise ELSE {}
BY DEF LegacyKeyOr

\* Every text means the same to all.
LEMMA AllAgree ==
  ASSUME DirectoryType, WholeInv PROVE ResolversAgree
<1> SUFFICES ASSUME NEW word, Trimmed(word) = word
             PROVE  /\ Signer(word) \subseteq Identifier(word)
                    /\ Identifier(word) \subseteq Recipient(word)
                    /\ Recipient(word) \subseteq Identifier(word) \cup Coded(word, Formatted)
  BY DEF ResolversAgree, Candidates
<1>1. CASE Colon(word) # 0
  <2>1. /\ Identifier(word) = Split(word, PublicKeyOf)
        /\ Recipient(word) = Split(word, PublicKeyOf)
        /\ Signer(word) = Split(word, SecretKeyOf)
    BY <1>1 DEF Identifier, Recipient, Signer
  <2>2. Split(word, SecretKeyOf) \subseteq Split(word, PublicKeyOf)
    BY SignerIsAccount DEF Split
  <2> QED
    BY <2>1, <2>2
<1>2. CASE Colon(word) = 0
  <2>1. /\ Identifier(word) = LegacyKeyOr(word, Hex(word))
        /\ Recipient(word) = LegacyKeyOr(word, Target(word))
        /\ Signer(word) = IF WalletOfType(word, "legacy") /\ SecretAt(word) \in LegacyRoot
                          THEN {<<SecretAt(word), 0>>} ELSE {}
    BY <1>2 DEF Identifier, Recipient, Signer
  <2>2. Target(word) = Coded(word, Formatted) \cup Hex(word)
    BY DEF Target
  <2>3. CASE WalletOfType(word, "legacy")
    BY <2>1, <2>3, LegacySigner
  <2>4. CASE ~WalletOfType(word, "legacy")
    BY <2>1, <2>2, <2>4, NotLegacy
  <2> QED
    BY <2>3, <2>4
<1> QED
  BY <1>1, <1>2

\* A whole wallet is found, and so are its accounts.
LEMMA WholeIsReachable ==
  ASSUME DirectoryType, WholeInv, NEW n \in WalletName, Usable(n), Colon(n) = 0
  PROVE  Reachable(n)
<1>1. /\ Readable(metadata[n]) /\ metadata[n] \in Metadata
      /\ secrets[n] = metadata[n].root /\ secrets[n] # None /\ n # <<>>
      /\ MetadataAt(n) = metadata[n] /\ SecretAt(n) = secrets[n]
  BY DEF Usable, Readable, DirectoryType, WholeInv, MetadataAt, SecretAt
<1>2. ASSUME metadata[n].type = "legacy" PROVE Refers(n, <<secrets[n], 0>>)
  <2>1. WalletOfType(n, "legacy")
    BY <1>1, <1>2 DEF WalletOfType
  <2> QED
    BY <1>1, <2>1, LegacySigner DEF Refers, Signer, Identifier
<1>3. ASSUME metadata[n].type = "hd", NEW i \in DOMAIN metadata[n].accounts
      PROVE  Refers(n \o <<":">> \o metadata[n].accounts[i].name,
                    <<secrets[n], metadata[n].accounts[i].index>>)
  <2> DEFINE name == metadata[n].accounts[i].name
             word == n \o <<":">> \o name
  <2>1. name \in AccountName /\ name # <<>>
    <3>1. metadata[n].accounts \in Seq(Entry)
      BY <1>1 DEF Metadata
    <3>2. metadata[n].accounts[i] \in Entry
      BY <1>3, <3>1
    <3> QED
      BY <1>1, <1>3, <3>2 DEF WholeInv, Entry
  <2>2. n \in Seq(Glyph) /\ name \in Seq(Glyph) /\ ":" \in Glyph
    BY <2>1, ReferenceAssumption DEF Glyph
  <2>3. Colon(word) # 0 /\ Before(word, Colon(word)) = n /\ After(word, Colon(word)) = name
    BY <2>2, SplitAtColon
  <2> HIDE DEF word
  <2>4. secrets[n] \in Root \ LegacyRoot
    BY <1>1, <1>3 DEF WholeInv, TypeFor, Metadata
  <2>5. IndexOf(metadata[n], name) = {metadata[n].accounts[i].index}
    BY <1>1, <1>3, AccountIsFound
  <2> HIDE DEF name
  <2>6. Signer(word) = SecretKeyOf(n, name) /\ Identifier(word) = PublicKeyOf(n, name)
    BY <1>1, <2>1, <2>3 DEF Signer, Identifier, Split, name
  <2>7. /\ SecretKeyOf(n, name) = {<<secrets[n], metadata[n].accounts[i].index>>}
        /\ PublicKeyOf(n, name) = {<<secrets[n], metadata[n].accounts[i].index>>}
    BY <1>1, <2>4, <2>5 DEF SecretKeyOf, PublicKeyOf
  <2> QED
    BY <2>6, <2>7 DEF Refers, word, name
<1> QED
  BY <1>2, <1>3 DEF Reachable

\* Whatever the wallets and accounts are called and whatever was cut short: a
\* reference means one account, the same for all commands, and each account of
\* a whole wallet whose name has no colon is meant by its reference.  In an empty
\* directory, too, the commands agree about keys.
THEOREM AllResolve == RefSpec => [](ReferencesResolve /\ ResolversAgree)
<1>1. DirectoryType /\ WholeInv => ReferencesResolve /\ ResolversAgree
  BY AllAgree, WholeIsReachable DEF ReferencesResolve
<1> QED
  BY <1>1, WholeInvariant, PTL

-----------------------------------------------------------------------------
(***************************************************************************)
(* Induction over numbers and texts.  A set of natural numbers has a least  *)
(* one, so that what the theorems of the library take an operator for can   *)
(* be said of a set.                                                        *)
(***************************************************************************)

\* A set that has zero, and the number after each of its numbers, has all numbers.
LEMMA AllNumbers ==
  ASSUME NEW N, 0 \in N, \A n \in Nat : n \in N => n + 1 \in N
  PROVE  \A n \in Nat : n \in N
<1> DEFINE I == Nat \ N
<1> SUFFICES ASSUME I # {}
             PROVE  FALSE
  OBVIOUS
<1> DEFINE m == Min(I)
<1>1. m \in I /\ \A k \in I : m <= k
  BY MinIsLeast
<1> HIDE DEF m
<1>2. m - 1 \in Nat /\ m - 1 \notin I
  BY <1>1
<1> QED
  BY <1>1, <1>2

\* A set that has the empty text, and each of its texts with one more character,
\* has all texts.
LEMMA AllTexts ==
  ASSUME NEW S, NEW T, <<>> \in T,
         \A u \in Seq(S), c \in S : u \in T => Append(u, c) \in T
  PROVE  \A w \in Seq(S) : w \in T
<1> DEFINE N == {n \in Nat : \A w \in Seq(S) : Len(w) = n => w \in T}
<1>1. 0 \in N
  OBVIOUS
<1>2. ASSUME NEW n \in Nat, n \in N
      PROVE  n + 1 \in N
  <2> SUFFICES ASSUME NEW w \in Seq(S), Len(w) = n + 1
               PROVE  w \in T
    OBVIOUS
  <2>1. w # <<>>
    OBVIOUS
  <2>2. PICK u \in Seq(S), c \in S : w = Append(u, c)
    BY <2>1, SequenceEmptyOrAppend, Zenon
  <2>3. Len(u) \in Nat /\ Len(w) = Len(u) + 1
    BY <2>2
  <2>4. Len(u) = n
    BY <2>3
  <2> QED
    BY <1>2, <2>2, <2>4
<1> HIDE DEF N
<1>3. \A n \in Nat : n \in N
  BY <1>1, <1>2, AllNumbers
<1> QED
  BY <1>3 DEF N

-----------------------------------------------------------------------------
(***************************************************************************)
(* Texts put one behind the other.                                         *)
(***************************************************************************)

\* What is flattened up to each place.
Flattened(s) ==
  LET flatten[i \in 1..Len(s)] == IF i = 1 THEN s[i] ELSE flatten[i - 1] \o s[i]
  IN flatten

LEMMA FlattenedExists ==
  ASSUME NEW s
  PROVE  \A n \in Nat : \E f : f = [i \in 1..n |-> IF i = 1 THEN s[i] ELSE f[i - 1] \o s[i]]
<1> DEFINE N == {n \in Nat : \E f : f = [i \in 1..n |-> IF i = 1 THEN s[i] ELSE f[i - 1] \o s[i]]}
<1>1. 0 \in N
  <2>1. [i \in 1..0 |-> s[i]] = [i \in 1..0 |-> IF i = 1 THEN s[i] ELSE [j \in 1..0 |-> s[j]][i - 1] \o s[i]]
    OBVIOUS
  <2> QED
    BY <2>1
<1>2. ASSUME NEW n \in Nat, n \in N
      PROVE  n + 1 \in N
  <2>1. PICK f : f = [i \in 1..n |-> IF i = 1 THEN s[i] ELSE f[i - 1] \o s[i]]
    BY <1>2
  <2> DEFINE g == [i \in 1..(n + 1) |-> IF i = n + 1 THEN (IF i = 1 THEN s[i] ELSE f[i - 1] \o s[i])
                                        ELSE f[i]]
  <2>2. ASSUME NEW i \in 1..(n + 1)
        PROVE  g[i] = IF i = 1 THEN s[i] ELSE g[i - 1] \o s[i]
    <3>1. CASE i = n + 1
      <4>1. i = 1 \/ (i - 1 \in 1..n /\ i - 1 # n + 1)
        BY <3>1
      <4>2. i # 1 => g[i - 1] = f[i - 1]
        BY <4>1
      <4> QED
        BY <3>1, <4>2
    <3>2. CASE i # n + 1
      <4>1. i \in 1..n /\ g[i] = f[i]
        BY <3>2
      <4>2. i # 1 => (i - 1 \in 1..n /\ g[i - 1] = f[i - 1])
        BY <3>2, <4>1
      <4>3. f[i] = IF i = 1 THEN s[i] ELSE f[i - 1] \o s[i]
        BY <2>1, <4>1
      <4> QED
        BY <4>1, <4>2, <4>3
    <3> QED
      BY <3>1, <3>2
  <2>3. g = [i \in 1..(n + 1) |-> g[i]]
    OBVIOUS
  <2> HIDE DEF g
  <2>4. g = [i \in 1..(n + 1) |-> IF i = 1 THEN s[i] ELSE g[i - 1] \o s[i]]
    BY <2>2, <2>3
  <2>5. \E h : h = [i \in 1..(n + 1) |-> IF i = 1 THEN s[i] ELSE h[i - 1] \o s[i]]
    BY <2>4, Zenon
  <2>6. n + 1 \in Nat
    OBVIOUS
  <2> QED
    BY <2>5, <2>6, Zenon
<1> HIDE DEF N
<1>3. \A n \in Nat : n \in N
  BY <1>1, <1>2, AllNumbers
<1> QED
  BY <1>3 DEF N

LEMMA FlattenedIs ==
  ASSUME NEW s, Len(s) \in Nat, NEW i \in 1..Len(s)
  PROVE  Flattened(s)[i] = IF i = 1 THEN s[i] ELSE Flattened(s)[i - 1] \o s[i]
<1>1. \E f : f = [k \in 1..Len(s) |-> IF k = 1 THEN s[k] ELSE f[k - 1] \o s[k]]
  BY FlattenedExists
<1>2. Flattened(s) = [k \in 1..Len(s) |-> IF k = 1 THEN s[k] ELSE Flattened(s)[k - 1] \o s[k]]
  BY <1>1, Zenon DEF Flattened
<1> QED
  BY <1>2

LEMMA FlattenSeqIs ==
  ASSUME NEW s, Len(s) # 0
  PROVE  FlattenSeq(s) = Flattened(s)[Len(s)]
BY Zenon DEF FlattenSeq, Flattened

\* The texts flattened, and one more behind them.
LEMMA FlattenMore ==
  ASSUME NEW S, NEW s \in Seq(Seq(S)), NEW x \in Seq(S)
  PROVE  FlattenSeq(Append(s, x)) = FlattenSeq(s) \o x
<1> DEFINE t == Append(s, x)
<1>1. /\ Len(s) \in Nat /\ Len(t) = Len(s) + 1
      /\ \A i \in 1..Len(s) : t[i] = s[i]
      /\ t[Len(s) + 1] = x
  OBVIOUS
<1> HIDE DEF t
<1>2. \A i \in Nat : i \in 1..Len(s) => Flattened(t)[i] = Flattened(s)[i]
  <2> DEFINE N == {n \in Nat : n \in 1..Len(s) => Flattened(t)[n] = Flattened(s)[n]}
  <2>1. 0 \in N
    OBVIOUS
  <2>2. ASSUME NEW n \in Nat, n \in N
        PROVE  n + 1 \in N
    <3> SUFFICES ASSUME n + 1 \in 1..Len(s)
                 PROVE  Flattened(t)[n + 1] = Flattened(s)[n + 1]
      OBVIOUS
    <3>1. n + 1 \in 1..Len(t) /\ t[n + 1] = s[n + 1] /\ Len(t) \in Nat /\ Len(s) \in Nat
      BY <1>1
    <3>2. Flattened(t)[n + 1] = IF n + 1 = 1 THEN s[n + 1] ELSE Flattened(t)[(n + 1) - 1] \o s[n + 1]
      BY <3>1, FlattenedIs
    <3>3. Flattened(s)[n + 1] = IF n + 1 = 1 THEN s[n + 1] ELSE Flattened(s)[(n + 1) - 1] \o s[n + 1]
      BY <3>1, FlattenedIs
    <3>4. n + 1 = 1 \/ (n \in 1..Len(s) /\ (n + 1) - 1 = n)
      BY <3>1
    <3>5. CASE n + 1 = 1
      BY <3>2, <3>3, <3>5
    <3>6. CASE n \in 1..Len(s) /\ (n + 1) - 1 = n
      <4>1. Flattened(t)[n] = Flattened(s)[n]
        BY <2>2, <3>6
      <4> QED
        BY <3>2, <3>3, <3>6, <4>1
    <3> QED
      BY <3>4, <3>5, <3>6
  <2> HIDE DEF N
  <2>3. \A n \in Nat : n \in N
    BY <2>1, <2>2, AllNumbers
  <2> QED
    BY <2>3 DEF N
<1>3. /\ Len(t) # 0 /\ Len(t) \in Nat /\ Len(t) \in 1..Len(t) /\ Len(t) - 1 = Len(s)
      /\ t[Len(t)] = x
  BY <1>1
<1>4. FlattenSeq(t) = IF Len(t) = 1 THEN x ELSE Flattened(t)[Len(s)] \o x
  <2>1. Flattened(t)[Len(t)] = IF Len(t) = 1 THEN t[Len(t)] ELSE Flattened(t)[Len(t) - 1] \o t[Len(t)]
    BY <1>3, FlattenedIs
  <2> QED
    BY <1>3, <2>1, FlattenSeqIs
<1>5. CASE Len(s) = 0
  <2>1. s = <<>> /\ Len(t) = 1 /\ <<>> \o x = x
    BY <1>1, <1>5
  <2>2. FlattenSeq(s) = <<>>
    BY <2>1 DEF FlattenSeq
  <2> QED
    BY <1>4, <2>1, <2>2 DEF t
<1>6. CASE Len(s) # 0
  <2>1. Len(s) \in 1..Len(s) /\ Len(s) \in Nat /\ Len(t) # 1
    BY <1>1, <1>6
  <2>2. FlattenSeq(s) = Flattened(s)[Len(s)]
    BY <1>6, FlattenSeqIs
  <2> QED
    BY <1>2, <1>4, <2>1, <2>2 DEF t
<1> QED
  BY <1>5, <1>6

-----------------------------------------------------------------------------
(***************************************************************************)
(* Reading a text, one character after the other.                          *)
(***************************************************************************)

\* The last character is a backslash that escapes the next.
Open(u) == Len(u) # 0 /\ u[Len(u)] = "\\" /\ ~Escaped(u)[Len(u)]

\* Every character escaped so far has a meaning.
Sane(u) ==
  \A i \in 1..Len(u) : u[i] = "\\" /\ ~Escaped(u)[i] => i = Len(u) \/ u[i + 1] \in Special

\* Which of the first so many characters of a text are escaped.
FirstEscaped(w, n, f) == f = [i \in 1..n |-> i > 1 /\ w[i - 1] = "\\" /\ ~f[i - 1]]

LEMMA EscapedExists ==
  ASSUME NEW w
  PROVE  \A n \in Nat : \E f : FirstEscaped(w, n, f)
<1> DEFINE N == {n \in Nat : \E f : FirstEscaped(w, n, f)}
<1>1. 0 \in N
  <2>1. [i \in 1..0 |-> TRUE]
          = [i \in 1..0 |-> i > 1 /\ w[i - 1] = "\\" /\ ~[j \in 1..0 |-> TRUE][i - 1]]
    OBVIOUS
  <2> QED
    BY <2>1 DEF FirstEscaped
<1>2. ASSUME NEW n \in Nat, n \in N
      PROVE  n + 1 \in N
  <2>1. PICK f : f = [i \in 1..n |-> i > 1 /\ w[i - 1] = "\\" /\ ~f[i - 1]]
    BY <1>2 DEF FirstEscaped
  <2> DEFINE g == [i \in 1..(n + 1) |-> i > 1 /\ w[i - 1] = "\\" /\ ~f[i - 1]]
  <2>2. ASSUME NEW i \in 1..n
        PROVE  g[i] = f[i]
    <3>1. f[i] = (i > 1 /\ w[i - 1] = "\\" /\ ~f[i - 1])
      BY <2>1, Zenon
    <3>2. g[i] = (i > 1 /\ w[i - 1] = "\\" /\ ~f[i - 1])
      BY SMT
    <3> QED
      BY <3>1, <3>2
  <2>3. ASSUME NEW i \in 1..(n + 1)
        PROVE  (i > 1 /\ w[i - 1] = "\\" /\ ~f[i - 1]) = (i > 1 /\ w[i - 1] = "\\" /\ ~g[i - 1])
    <3>1. CASE i > 1
      <4>1. i - 1 \in 1..n
        BY <3>1
      <4>2. g[i - 1] = f[i - 1]
        BY <2>2, <4>1
      <4> HIDE DEF g
      <4> QED
        BY <4>2
    <3>2. CASE ~(i > 1)
      BY <3>2
    <3> QED
      BY <3>1, <3>2
  <2>4. g = [i \in 1..(n + 1) |-> i > 1 /\ w[i - 1] = "\\" /\ ~g[i - 1]]
    BY <2>3, Zenon
  <2> HIDE DEF g
  <2>5. \E h : FirstEscaped(w, n + 1, h)
    BY <2>4, Zenon DEF FirstEscaped
  <2>6. n + 1 \in Nat
    OBVIOUS
  <2> QED
    BY <2>5, <2>6, Zenon
<1> HIDE DEF N
<1>3. \A n \in Nat : n \in N
  BY <1>1, <1>2, AllNumbers
<1> QED
  BY <1>3 DEF N

LEMMA EscapedIs ==
  ASSUME NEW S, NEW w \in Seq(S)
  PROVE  \A i \in 1..Len(w) : Escaped(w)[i] = (i > 1 /\ w[i - 1] = "\\" /\ ~Escaped(w)[i - 1])
<1>1. DOMAIN w = 1..Len(w) /\ Len(w) \in Nat
  OBVIOUS
<1>2. \E f : FirstEscaped(w, Len(w), f)
  BY <1>1, EscapedExists, Zenon
<1>3. \E f : f = [i \in DOMAIN w |-> i > 1 /\ w[i - 1] = "\\" /\ ~f[i - 1]]
  BY <1>1, <1>2, Zenon DEF FirstEscaped
<1>4. Escaped(w) = [i \in DOMAIN w |-> i > 1 /\ w[i - 1] = "\\" /\ ~Escaped(w)[i - 1]]
  BY <1>3, Zenon DEF Escaped
<1>5. \A i \in DOMAIN w : Escaped(w)[i] = (i > 1 /\ w[i - 1] = "\\" /\ ~Escaped(w)[i - 1])
  BY <1>4, Zenon
<1> QED
  BY <1>1, <1>5, Zenon

\* One more character leaves the others as escaped as they were.
LEMMA EscapedMore ==
  ASSUME NEW S, NEW u \in Seq(S), NEW c \in S
  PROVE  /\ \A i \in 1..Len(u) : Escaped(Append(u, c))[i] = Escaped(u)[i]
         /\ Escaped(Append(u, c))[Len(u) + 1] = Open(u)
<1> DEFINE v == Append(u, c)
<1>1. /\ v \in Seq(S) /\ Len(u) \in Nat /\ Len(v) = Len(u) + 1
      /\ \A i \in 1..Len(u) : v[i] = u[i]
  OBVIOUS
<1> HIDE DEF v
<1>2. \A i \in 1..Len(v) : Escaped(v)[i] = (i > 1 /\ v[i - 1] = "\\" /\ ~Escaped(v)[i - 1])
  BY <1>1, EscapedIs
<1>3. \A i \in 1..Len(u) : Escaped(u)[i] = (i > 1 /\ u[i - 1] = "\\" /\ ~Escaped(u)[i - 1])
  BY EscapedIs
<1> DEFINE N == {n \in Nat : n \in 1..Len(u) => Escaped(v)[n] = Escaped(u)[n]}
<1>4. 0 \in N
  OBVIOUS
<1>5. ASSUME NEW n \in Nat, n \in N
      PROVE  n + 1 \in N
  <2> SUFFICES ASSUME n + 1 \in 1..Len(u)
               PROVE  Escaped(v)[n + 1] = Escaped(u)[n + 1]
    OBVIOUS
  <2>1. n + 1 \in 1..Len(v) /\ (n + 1) - 1 = n /\ (n + 1 > 1 => n \in 1..Len(u) /\ v[n] = u[n])
    BY <1>1
  <2>2. Escaped(v)[n + 1] = (n + 1 > 1 /\ v[n] = "\\" /\ ~Escaped(v)[n])
    BY <1>2, <2>1
  <2>3. Escaped(u)[n + 1] = (n + 1 > 1 /\ u[n] = "\\" /\ ~Escaped(u)[n])
    BY <1>3, <2>1
  <2>4. n + 1 > 1 => Escaped(v)[n] = Escaped(u)[n]
    BY <1>5, <2>1
  <2> QED
    BY <2>1, <2>2, <2>3, <2>4
<1> HIDE DEF N
<1>6. \A n \in Nat : n \in N
  BY <1>4, <1>5, AllNumbers
<1>7. \A i \in 1..Len(u) : Escaped(v)[i] = Escaped(u)[i]
  BY <1>6 DEF N
<1>8. Escaped(v)[Len(u) + 1] = Open(u)
  <2>1. Len(u) + 1 \in 1..Len(v) /\ (Len(u) + 1) - 1 = Len(u)
        /\ (Len(u) + 1 > 1 <=> Len(u) # 0) /\ (Len(u) # 0 => Len(u) \in 1..Len(u))
    BY <1>1
  <2>2. Escaped(v)[Len(u) + 1] = (Len(u) # 0 /\ v[Len(u)] = "\\" /\ ~Escaped(v)[Len(u)])
    BY <1>2, <2>1
  <2> QED
    BY <1>1, <1>7, <2>1, <2>2 DEF Open
<1> QED
  BY <1>7, <1>8 DEF v

\* The first unescaped delimiter stays the first, and one more that is not escaped
\* is found if there was none.
LEMMA DelimiterMore ==
  ASSUME NEW S, NEW u \in Seq(S), NEW c \in S, NEW d
  PROVE  /\ Delimiter(u, d) \in Nat
         /\ Delimiter(Append(u, c), d) =
              IF Delimiter(u, d) # 0 THEN Delimiter(u, d)
              ELSE IF c = d /\ ~Open(u) THEN Len(u) + 1 ELSE 0
<1> DEFINE v == Append(u, c)
           I == {i \in DOMAIN u : u[i] = d /\ ~Escaped(u)[i]}
           J == {i \in DOMAIN v : v[i] = d /\ ~Escaped(v)[i]}
<1>1. /\ Len(u) \in Nat /\ DOMAIN u = 1..Len(u) /\ DOMAIN v = 1..(Len(u) + 1)
      /\ \A i \in 1..Len(u) : v[i] = u[i]
      /\ v[Len(u) + 1] = c
  OBVIOUS
<1>2. /\ \A i \in 1..Len(u) : Escaped(v)[i] = Escaped(u)[i]
      /\ Escaped(v)[Len(u) + 1] = Open(u)
  BY EscapedMore
<1>3. /\ Delimiter(u, d) = IF I = {} THEN 0 ELSE Min(I)
      /\ Delimiter(v, d) = IF J = {} THEN 0 ELSE Min(J)
  BY Zenon DEF Delimiter
<1> HIDE DEF v
<1>4. J = I \cup (IF c = d /\ ~Open(u) THEN {Len(u) + 1} ELSE {})
  <2>1. ASSUME NEW i \in 1..Len(u)
        PROVE  i \in J <=> i \in I
    <3>1. i \in 1..(Len(u) + 1)
      BY <1>1
    <3> QED
      BY <1>1, <1>2, <3>1
  <2>2. Len(u) + 1 \in J <=> (c = d /\ ~Open(u))
    <3>1. Len(u) + 1 \in 1..(Len(u) + 1)
      BY <1>1
    <3> QED
      BY <1>1, <1>2, <3>1
  <2>3. J \subseteq 1..(Len(u) + 1) /\ I \subseteq 1..Len(u)
    BY <1>1
  <2> HIDE DEF I, J
  <2>4. \A i \in 1..(Len(u) + 1) : i \in 1..Len(u) \/ i = Len(u) + 1
    BY <1>1
  <2> QED
    BY <2>1, <2>2, <2>3, <2>4
<1>5. I \subseteq 1..Len(u) /\ I \in SUBSET Nat /\ J \in SUBSET Nat
  <2>1. I \subseteq 1..Len(u) /\ J \subseteq 1..(Len(u) + 1)
    BY <1>1
  <2> HIDE DEF I, J
  <2> QED
    BY <1>1, <2>1
<1> HIDE DEF I, J
<1>6. CASE I = {}
  <2>1. CASE c = d /\ ~Open(u)
    <3>1. J = {Len(u) + 1}
      BY <1>4, <1>6, <2>1
    <3>2. Min(J) = Len(u) + 1
      BY <1>5, <3>1, MinIsLeast
    <3> QED
      BY <1>3, <1>6, <2>1, <3>1, <3>2 DEF v
  <2>2. CASE ~(c = d /\ ~Open(u))
    <3>1. J = {}
      BY <1>4, <1>6, <2>2
    <3> QED
      BY <1>3, <1>6, <2>2, <3>1 DEF v
  <2> QED
    BY <2>1, <2>2
<1>7. CASE I # {}
  <2>1. /\ Min(I) \in I /\ \A k \in I : Min(I) <= k
        /\ J # {} /\ Min(J) \in J /\ \A k \in J : Min(J) <= k
    BY <1>4, <1>5, <1>7, MinIsLeast
  <2>2. Min(I) \in 1..Len(u) /\ Min(I) \in J /\ Min(J) <= Min(I)
    BY <1>4, <1>5, <2>1
  <2>3. Min(J) \in I
    BY <1>1, <1>4, <1>5, <2>1, <2>2
  <2>4. Min(I) = Min(J)
    <3>1. Min(I) \in Nat /\ Min(J) \in Nat /\ Min(I) <= Min(J) /\ Min(J) <= Min(I)
      BY <1>5, <2>1, <2>2, <2>3, Zenon
    <3>2. \A a, b \in Nat : a <= b /\ b <= a => a = b
      OBVIOUS
    <3> QED
      BY <3>1, <3>2, Zenon
  <2> QED
    BY <1>3, <1>5, <1>7, <2>1, <2>2, <2>4 DEF v
<1> QED
  BY <1>6, <1>7

\* A sequence with one more element.
LEMMA AppendIs ==
  ASSUME NEW S, NEW s \in Seq(S), NEW x \in S
  PROVE  /\ Len(Append(s, x)) = Len(s) + 1
         /\ \A i \in 1..Len(s) : Append(s, x)[i] = s[i]
         /\ Append(s, x)[Len(s) + 1] = x
OBVIOUS

\* A backslash that escapes is left out; every other character is kept.
LEMMA KeptMore ==
  ASSUME NEW S, NEW u \in Seq(S), NEW c \in S
  PROVE  Kept(Append(u, c)) =
           Kept(u) \o (IF c = "\\" /\ ~Open(u) THEN <<>> ELSE <<c>>)
<1> DEFINE v == Append(u, c)
           part(w) == [i \in DOMAIN w |-> IF w[i] = "\\" /\ ~Escaped(w)[i] THEN <<>> ELSE <<w[i]>>]
           last == IF c = "\\" /\ ~Open(u) THEN <<>> ELSE <<c>>
<1>1. /\ Len(u) \in Nat /\ DOMAIN u = 1..Len(u) /\ DOMAIN v = 1..(Len(u) + 1)
      /\ \A i \in 1..Len(u) : v[i] = u[i] /\ u[i] \in S
      /\ v[Len(u) + 1] = c
  OBVIOUS
<1>2. /\ \A i \in 1..Len(u) : Escaped(v)[i] = Escaped(u)[i]
      /\ Escaped(v)[Len(u) + 1] = Open(u)
  BY EscapedMore
<1>3. Kept(u) = FlattenSeq(part(u)) /\ Kept(v) = FlattenSeq(part(v))
  BY Zenon DEF Kept
<1> HIDE DEF v
<1>4. part(u) \in Seq(Seq(S)) /\ Len(part(u)) = Len(u)
  BY <1>1
<1>5. last \in Seq(S)
  OBVIOUS
<1>6. part(v) = Append(part(u), last)
  <2>1. /\ Append(part(u), last) \in Seq(Seq(S))
        /\ Len(Append(part(u), last)) = Len(u) + 1
        /\ \A i \in 1..Len(u) : Append(part(u), last)[i] = part(u)[i]
        /\ Append(part(u), last)[Len(u) + 1] = last
    <3> HIDE DEF part, last
    <3>1. Append(part(u), last) \in Seq(Seq(S))
      BY <1>4, <1>5
    <3>2. /\ Len(Append(part(u), last)) = Len(part(u)) + 1
          /\ \A i \in 1..Len(part(u)) : Append(part(u), last)[i] = part(u)[i]
          /\ Append(part(u), last)[Len(part(u)) + 1] = last
      BY <1>4, <1>5, AppendIs, Zenon
    <3> QED
      BY <1>4, <3>1, <3>2, Zenon
  <2>2. part(v)[Len(u) + 1] = last
    BY <1>1, <1>2
  <2>3. \A i \in 1..Len(u) : part(v)[i] = part(u)[i]
    <3> TAKE i \in 1..Len(u)
    <3>1. i \in 1..(Len(u) + 1)
      BY <1>1
    <3> QED
      BY <1>1, <1>2, <3>1
  <2>4. part(v) \in Seq(Seq(S)) /\ Len(part(v)) = Len(u) + 1
    <3>1. v \in Seq(S) /\ Len(v) = Len(u) + 1
      BY DEF v
    <3>2. \A i \in 1..Len(v) : v[i] \in S
      BY <3>1
    <3> QED
      BY <3>1, <3>2
  <2> HIDE DEF part, last
  <2>5. \A i \in 1..(Len(u) + 1) : i \in 1..Len(u) \/ i = Len(u) + 1
    BY <1>1
  <2>6. \A i \in 1..(Len(u) + 1) : part(v)[i] = Append(part(u), last)[i]
    BY <2>1, <2>2, <2>3, <2>5, Zenon
  <2> QED
    BY <2>1, <2>4, <2>6, SeqEqual, Zenon
<1>7. FlattenSeq(Append(part(u), last)) = FlattenSeq(part(u)) \o last
  <2> HIDE DEF part, last
  <2> QED
    BY <1>4, <1>5, FlattenMore
<1> QED
  BY <1>3, <1>6, <1>7 DEF v

LEMMA SaneMore ==
  ASSUME NEW S, NEW u \in Seq(S), NEW c \in S
  PROVE  /\ Open(Append(u, c)) = (c = "\\" /\ ~Open(u))
         /\ Sane(Append(u, c)) = (Sane(u) /\ (Open(u) => c \in Special))
<1> DEFINE v == Append(u, c)
<1>1. /\ Len(u) \in Nat /\ Len(v) = Len(u) + 1 /\ Len(v) # 0
      /\ \A i \in 1..Len(u) : v[i] = u[i]
      /\ v[Len(u) + 1] = c
  OBVIOUS
<1>2. /\ \A i \in 1..Len(u) : Escaped(v)[i] = Escaped(u)[i]
      /\ Escaped(v)[Len(u) + 1] = Open(u)
  BY EscapedMore
<1> HIDE DEF v
<1>3. Open(v) = (c = "\\" /\ ~Open(u))
  <2>1. Open(v) = (v[Len(v)] = "\\" /\ ~Escaped(v)[Len(v)])
    BY <1>1 DEF Open
  <2>2. v[Len(v)] = c /\ Escaped(v)[Len(v)] = Open(u)
    BY <1>1, <1>2
  <2> QED
    BY <2>1, <2>2
<1>4. ASSUME Sane(u), Open(u) => c \in Special
      PROVE  Sane(v)
  <2> SUFFICES ASSUME NEW i \in 1..Len(v), v[i] = "\\", ~Escaped(v)[i], i # Len(v)
               PROVE  v[i + 1] \in Special
    BY DEF Sane
  <2>1. i \in 1..Len(u) /\ (i = Len(u) \/ i + 1 \in 1..Len(u))
    BY <1>1
  <2>2. u[i] = "\\" /\ ~Escaped(u)[i]
    BY <1>1, <1>2, <2>1
  <2>3. CASE i = Len(u)
    <3>1. Open(u)
      BY <1>1, <2>1, <2>2, <2>3 DEF Open
    <3> QED
      BY <1>1, <1>4, <2>3, <3>1
  <2>4. CASE i # Len(u)
    <3>1. u[i + 1] \in Special
      BY <1>4, <2>1, <2>2, <2>4 DEF Sane
    <3> QED
      BY <1>1, <2>1, <2>4, <3>1
  <2> QED
    BY <2>3, <2>4
<1>5. ASSUME Sane(v)
      PROVE  Sane(u)
  <2> SUFFICES ASSUME NEW i \in 1..Len(u), u[i] = "\\", ~Escaped(u)[i], i # Len(u)
               PROVE  u[i + 1] \in Special
    BY DEF Sane
  <2>1. i \in 1..Len(v) /\ i # Len(v) /\ i + 1 \in 1..Len(u)
    BY <1>1
  <2>2. v[i + 1] \in Special
    BY <1>1, <1>2, <1>5, <2>1 DEF Sane
  <2> QED
    BY <1>1, <2>1, <2>2
<1>6. ASSUME Sane(v), Open(u)
      PROVE  c \in Special
  <2>1. Len(u) \in 1..Len(v) /\ Len(u) # Len(v) /\ Len(u) \in 1..Len(u)
    BY <1>1, <1>6 DEF Open
  <2>2. v[Len(u)] = "\\" /\ ~Escaped(v)[Len(u)]
    BY <1>1, <1>2, <1>6, <2>1 DEF Open
  <2>3. v[Len(u) + 1] \in Special
    BY <1>6, <2>1, <2>2 DEF Sane
  <2> QED
    BY <1>1, <2>3
<1>7. Sane(v) = (Sane(u) /\ (Open(u) => c \in Special))
  <2>1. Sane(u) \in BOOLEAN /\ Sane(v) \in BOOLEAN
    BY DEF Sane
  <2> QED
    BY <1>4, <1>5, <1>6, <2>1
<1> QED
  BY <1>3, <1>7 DEF v

-----------------------------------------------------------------------------
(***************************************************************************)
(* What is escaped, what is left of it, and what is only spaces.           *)
(***************************************************************************)

\* Something other than spaces is in the text.
Ink(u) == \E i \in 1..Len(u) : u[i] # " "

LEMMA InkMore ==
  ASSUME NEW S, NEW u \in Seq(S), NEW c \in S
  PROVE  Ink(Append(u, c)) = (Ink(u) \/ c # " ")
<1> DEFINE v == Append(u, c)
<1>1. /\ Len(u) \in Nat /\ Len(v) = Len(u) + 1
      /\ \A i \in 1..Len(u) : v[i] = u[i]
      /\ v[Len(u) + 1] = c
  OBVIOUS
<1> HIDE DEF v
<1>2. /\ Len(u) + 1 \in 1..Len(v)
      /\ \A i \in 1..Len(u) : i \in 1..Len(v)
      /\ \A i \in 1..Len(v) : i \in 1..Len(u) \/ i = Len(u) + 1
  BY <1>1
<1>3. Ink(v) <=> (Ink(u) \/ c # " ")
  BY <1>1, <1>2 DEF Ink
<1> QED
  BY <1>3 DEF v, Ink

\* Not a space.
Solid(t) == t # " "

\* A text is trimmed to what is between its first character and its last one.
LEMMA TrimmedIs ==
  ASSUME NEW S, NEW w \in Seq(S)
  PROVE  \/ ~Ink(w) /\ Trimmed(w) = <<>>
         \/ \E a \in 1..Len(w), b \in 1..Len(w) :
              /\ Solid(w[a]) /\ Solid(w[b]) /\ a <= b
              /\ \A i \in 1..Len(w) : Solid(w[i]) => a <= i /\ i <= b
              /\ Trimmed(w) = SubSeq(w, a, b)
<1> DEFINE I == {i \in 1..Len(w) : Solid(w[i])}
           first == IF I # {} THEN Min(I) ELSE 0
           last == IF I # {} THEN Max(I) ELSE 0
<1>1. Trimmed(w) = IF first = 0 THEN <<>> ELSE SubSeq(w, first, last)
  BY DEF Trimmed, SelectInSeq, SelectLastInSeq, Solid
<1>2. /\ I # {} <=> Ink(w)
      /\ \A i \in 1..Len(w) : i \in I <=> Solid(w[i])
  BY DEF Ink, Solid
<1>3. I \in SUBSET Nat /\ I \subseteq 1..Len(w) /\ Len(w) \in Nat
  <2> HIDE DEF first, last
  <2>1. I \subseteq 1..Len(w)
    BY Zenon
  <2> HIDE DEF I
  <2>2. Len(w) \in Nat
    OBVIOUS
  <2> QED
    BY <2>1, <2>2
<1> HIDE DEF I
<1>4. CASE I = {}
  BY <1>1, <1>2, <1>4
<1>5. CASE I # {}
  <2>1. Min(I) \in I /\ \A k \in I : Min(I) <= k
    BY <1>3, <1>5, MinIsLeast
  <2>2. Max(I) \in I /\ \A k \in I : k <= Max(I)
    <3> DEFINE J == {Len(w) - i : i \in I}
    <3>1. J \in SUBSET Nat /\ J # {}
      <4>1. \A i \in I : Len(w) - i \in Nat
        BY <1>3
      <4> QED
        BY <1>5, <4>1
    <3>2. Min(J) \in J /\ \A k \in J : Min(J) <= k
      <4> HIDE DEF J
      <4> QED
        BY <3>1, MinIsLeast
    <3>3. PICK m \in I : Min(J) = Len(w) - m
      BY <3>2
    <3>4. \A k \in I : m >= k
      <4> TAKE k \in I
      <4>1. Len(w) - k \in J
        OBVIOUS
      <4>2. Len(w) - m <= Len(w) - k
        BY <3>2, <3>3, <4>1
      <4>3. m \in Nat /\ k \in Nat /\ Len(w) \in Nat
        BY <1>3
      <4>4. \A a, b, c \in Nat : c - a <= c - b => a >= b
        OBVIOUS
      <4> QED
        BY <4>2, <4>3, <4>4, Zenon
    <3>5. Max(I) \in I /\ \A k \in I : Max(I) >= k
      BY <3>4, Zenon DEF Max
    <3> QED
      BY <1>3, <3>5
  <2>3. first = Min(I) /\ last = Max(I)
    BY <1>5
  <2> HIDE DEF first, last
  <2>4. /\ first \in 1..Len(w) /\ last \in 1..Len(w) /\ first \in I /\ last \in I
        /\ first <= last /\ \A i \in I : first <= i /\ i <= last
    BY <1>3, <2>1, <2>2, <2>3
  <2>5. first # 0 /\ Solid(w[first]) /\ Solid(w[last])
    BY <1>2, <2>4
  <2>6. Trimmed(w) = SubSeq(w, first, last)
    BY <1>1, <2>5
  <2>7. \A i \in 1..Len(w) : Solid(w[i]) => first <= i /\ i <= last
    BY <1>2, <2>4
  <2> QED
    BY <2>4, <2>5, <2>6, <2>7, Zenon
<1> QED
  BY <1>4, <1>5

\* A text of spaces alone is trimmed to nothing.
LEMMA TrimmedInk ==
  ASSUME NEW S, NEW w \in Seq(S)
  PROVE  Trimmed(w) = <<>> <=> ~Ink(w)
<1>1. CASE ~Ink(w) /\ Trimmed(w) = <<>>
  BY <1>1
<1>2. ASSUME NEW a \in 1..Len(w), NEW b \in 1..Len(w), Solid(w[a]), a <= b,
             Trimmed(w) = SubSeq(w, a, b)
      PROVE  Ink(w) /\ Trimmed(w) # <<>>
  <2>1. Ink(w)
    BY <1>2, Zenon DEF Ink, Solid
  <2>2. Len(SubSeq(w, a, b)) # 0
    BY <1>2
  <2>3. Len(<<>>) = 0
    OBVIOUS
  <2> QED
    BY <1>2, <2>1, <2>2, <2>3, Zenon
<1> QED
  BY <1>1, <1>2, TrimmedIs

\* Nothing is read from the empty text.
LEMMA NothingRead ==
  /\ ~Open(<<>>) /\ Sane(<<>>) /\ Kept(<<>>) = <<>> /\ Escape(<<>>) = <<>> /\ ~Ink(<<>>)
  /\ \A d : Delimiter(<<>>, d) = 0
<1>1. ~Open(<<>>) /\ Sane(<<>>) /\ ~Ink(<<>>)
  BY DEF Open, Sane, Ink
<1>2. Kept(<<>>) = <<>> /\ Escape(<<>>) = <<>>
  BY DEF Kept, Escape, FlattenSeq
<1>3. \A d : Delimiter(<<>>, d) = 0
  BY DEF Delimiter
<1> QED
  BY <1>1, <1>2, <1>3

LEMMA UnescapedIs ==
  ASSUME NEW S, NEW u \in Seq(S)
  PROVE  Unescaped(u) = IF Sane(u) /\ ~Open(u) THEN {Kept(u)} ELSE {}
<1> DEFINE I == {i \in DOMAIN u : u[i] = "\\" /\ ~Escaped(u)[i]}
<1>1. Unescaped(u) = IF \E i \in I : i = Len(u) \/ u[i + 1] \notin Special THEN {} ELSE {Kept(u)}
  BY Zenon DEF Unescaped
<1>2. (\E i \in I : i = Len(u) \/ u[i + 1] \notin Special) <=> ~(Sane(u) /\ ~Open(u))
  <2>1. DOMAIN u = 1..Len(u) /\ Len(u) \in Nat /\ (Len(u) # 0 <=> Len(u) \in 1..Len(u))
    OBVIOUS
  <2>2. (\E i \in I : i = Len(u)) <=> Open(u)
    BY <2>1 DEF Open
  <2>3. (\E i \in I : i # Len(u) /\ u[i + 1] \notin Special) <=> ~Sane(u)
    BY <2>1 DEF Sane
  <2> QED
    BY <2>2, <2>3
<1> QED
  BY <1>1, <1>2

LEMMA KeptIsText ==
  ASSUME NEW S
  PROVE  \A u \in Seq(S) : Kept(u) \in Seq(S)
<1> DEFINE T == {u \in Seq(S) : Kept(u) \in Seq(S)}
<1>1. <<>> \in T
  <2>1. <<>> \in Seq(S)
    OBVIOUS
  <2> QED
    BY <2>1, NothingRead, Zenon
<1>2. ASSUME NEW u \in Seq(S), NEW c \in S, u \in T
      PROVE  Append(u, c) \in T
  <2>1. Kept(Append(u, c)) = Kept(u) \o (IF c = "\\" /\ ~Open(u) THEN <<>> ELSE <<c>>)
    BY KeptMore
  <2>2. Append(u, c) \in Seq(S) /\ Kept(u) \in Seq(S) /\ <<c>> \in Seq(S) /\ <<>> \in Seq(S)
    BY <1>2
  <2> QED
    BY <2>1, <2>2, ConcatProperties
<1> HIDE DEF T
<1>3. \A u \in Seq(S) : u \in T
  BY <1>1, <1>2, AllTexts
<1> QED
  BY <1>3 DEF T

LEMMA SpecialIsInk == " " \notin Special
BY DEF Special

\* What has a meaning is not a space: unescaping leaves no text blank.
LEMMA KeptInk ==
  ASSUME NEW S
  PROVE  \A u \in Seq(S) : Sane(u) /\ Ink(u) => Open(u) \/ Ink(Kept(u))
<1> DEFINE T == {u \in Seq(S) : Sane(u) /\ Ink(u) => Open(u) \/ Ink(Kept(u))}
<1>1. <<>> \in T
  BY NothingRead
<1>2. ASSUME NEW u \in Seq(S), NEW c \in S, u \in T
      PROVE  Append(u, c) \in T
  <2> DEFINE v == Append(u, c)
  <2>1. /\ Ink(v) = (Ink(u) \/ c # " ") /\ Open(v) = (c = "\\" /\ ~Open(u))
        /\ Sane(v) = (Sane(u) /\ (Open(u) => c \in Special))
        /\ Kept(v) = Kept(u) \o (IF c = "\\" /\ ~Open(u) THEN <<>> ELSE <<c>>)
    <3>1. Ink(v) = (Ink(u) \/ c # " ")
      BY InkMore, Zenon
    <3>2. Open(v) = (c = "\\" /\ ~Open(u)) /\ Sane(v) = (Sane(u) /\ (Open(u) => c \in Special))
      <4> HIDE DEF T
      <4>1. Open(v) = (c = "\\" /\ ~Open(u))
        BY SaneMore
      <4>2. Sane(v) = (Sane(u) /\ (Open(u) => c \in Special))
        BY SaneMore
      <4> QED
        BY <4>1, <4>2
    <3>3. Kept(v) = Kept(u) \o (IF c = "\\" /\ ~Open(u) THEN <<>> ELSE <<c>>)
      BY KeptMore, Zenon
    <3> QED
      BY <3>1, <3>2, <3>3, Zenon
  <2>2. Kept(u) \in Seq(S)
    BY KeptIsText
  <2>3. Kept(u) \o <<c>> = Append(Kept(u), c)
    BY <2>2
  <2>4. Ink(Append(Kept(u), c)) = (Ink(Kept(u)) \/ c # " ")
    BY <2>2, InkMore
  <2>5. v \in Seq(S) /\ (c \in Special => c # " ")
    <3>1. c \in Special => c # " "
      BY SpecialIsInk, Zenon
    <3> QED
      BY <3>1, AppendProperties, Zenon
  <2>6. Sane(u) /\ Ink(u) => Open(u) \/ Ink(Kept(u))
    BY <1>2
  <2> HIDE DEF v, T
  <2>7. ASSUME Sane(v), Ink(v), ~Open(v)
        PROVE  Ink(Kept(v))
    <3>1. Kept(v) = Append(Kept(u), c) /\ Sane(u) /\ (Open(u) => c # " ") /\ (Ink(u) \/ c # " ")
      BY <2>1, <2>3, <2>5, <2>7
    <3> QED
      BY <2>4, <2>6, <3>1
  <2> QED
    BY <2>5, <2>7 DEF v, T
<1> HIDE DEF T
<1>3. \A u \in Seq(S) : u \in T
  BY <1>1, <1>2, AllTexts
<1> QED
  BY <1>3 DEF T

\* A delimiter that is found is found whatever comes behind it.
LEMMA DelimiterStays ==
  ASSUME NEW S, NEW u \in Seq(S), NEW d, Delimiter(u, d) # 0
  PROVE  \A v \in Seq(S) : Delimiter(u \o v, d) = Delimiter(u, d)
<1> DEFINE T == {v \in Seq(S) : Delimiter(u \o v, d) = Delimiter(u, d)}
<1>1. <<>> \in T
  <2>1. u \o <<>> = u
    OBVIOUS
  <2> QED
    BY <2>1
<1>2. ASSUME NEW v \in Seq(S), NEW c \in S, v \in T
      PROVE  Append(v, c) \in T
  <2>1. /\ u \o v \in Seq(S) /\ u \o Append(v, c) = Append(u \o v, c)
        /\ Append(v, c) \in Seq(S) /\ Delimiter(u \o v, d) = Delimiter(u, d)
    BY <1>2
  <2>2. Delimiter(Append(u \o v, c), d) = Delimiter(u \o v, d)
    BY <2>1, DelimiterMore
  <2> QED
    BY <2>1, <2>2
<1> HIDE DEF T
<1>3. \A v \in Seq(S) : v \in T
  BY <1>1, <1>2, AllTexts
<1> QED
  BY <1>3 DEF T

-----------------------------------------------------------------------------
(***************************************************************************)
(* What Escape writes is read as the text that it was given.               *)
(***************************************************************************)

\* A character with a meaning gets a backslash before it.
LEMMA EscapeMore ==
  ASSUME NEW S, Special \subseteq S, NEW w \in Seq(S), NEW c \in S
  PROVE  Escape(Append(w, c)) = Escape(w) \o (IF c \in Special THEN <<"\\", c>> ELSE <<c>>)
<1> DEFINE v == Append(w, c)
           of(k) == IF k \in Special THEN <<"\\", k>> ELSE <<k>>
           part(x) == [i \in DOMAIN x |-> of(x[i])]
<1>1. Escape(w) = FlattenSeq(part(w)) /\ Escape(v) = FlattenSeq(part(v))
  BY Zenon DEF Escape
<1>2. \A k \in S : of(k) \in Seq(S)
  <2>1. "\\" \in S
    BY DEF Special
  <2> QED
    BY <2>1
<1>3. /\ Len(w) \in Nat /\ DOMAIN w = 1..Len(w) /\ DOMAIN v = 1..(Len(w) + 1)
      /\ \A i \in 1..Len(w) : v[i] = w[i] /\ w[i] \in S
      /\ v[Len(w) + 1] = c
  OBVIOUS
<1> HIDE DEF v, of
<1>4. part(w) \in Seq(Seq(S)) /\ Len(part(w)) = Len(w) /\ \A i \in 1..Len(w) : part(w)[i] = of(w[i])
  BY <1>2, <1>3
<1>5. part(v) \in Seq(Seq(S)) /\ Len(part(v)) = Len(w) + 1
  <2>1. \A i \in 1..(Len(w) + 1) : v[i] \in S
    <3>1. \A i \in 1..(Len(w) + 1) : i \in 1..Len(w) \/ i = Len(w) + 1
      BY <1>3
    <3> QED
      BY <1>3, <3>1
  <2> QED
    BY <1>2, <1>3, <2>1
<1>6. \A i \in 1..(Len(w) + 1) : part(v)[i] = of(v[i])
  BY <1>3
<1>7. of(c) \in Seq(S)
  BY <1>2
<1> HIDE DEF part
<1>8. /\ Append(part(w), of(c)) \in Seq(Seq(S))
      /\ Len(Append(part(w), of(c))) = Len(w) + 1
      /\ \A i \in 1..Len(w) : Append(part(w), of(c))[i] = part(w)[i]
      /\ Append(part(w), of(c))[Len(w) + 1] = of(c)
  <2>1. Append(part(w), of(c)) \in Seq(Seq(S))
    BY <1>4, <1>7
  <2>2. /\ Len(Append(part(w), of(c))) = Len(part(w)) + 1
        /\ \A i \in 1..Len(part(w)) : Append(part(w), of(c))[i] = part(w)[i]
        /\ Append(part(w), of(c))[Len(part(w)) + 1] = of(c)
    BY <1>4, <1>7, AppendIs, Zenon
  <2> QED
    BY <1>4, <2>1, <2>2, Zenon
<1>9. \A i \in 1..(Len(w) + 1) : part(v)[i] = Append(part(w), of(c))[i]
  <2>1. \A i \in 1..(Len(w) + 1) : i \in 1..Len(w) \/ i = Len(w) + 1
    BY <1>3
  <2> QED
    BY <1>3, <1>4, <1>6, <1>8, <2>1, Zenon
<1>10. part(v) = Append(part(w), of(c))
  BY <1>5, <1>8, <1>9, SeqEqual, Zenon
<1>11. FlattenSeq(Append(part(w), of(c))) = FlattenSeq(part(w)) \o of(c)
  BY <1>4, <1>7, FlattenMore
<1> QED
  BY <1>1, <1>10, <1>11, Zenon DEF v, of

LEMMA EscapeIsText ==
  ASSUME NEW S, Special \subseteq S
  PROVE  \A w \in Seq(S) : Escape(w) \in Seq(S)
<1> DEFINE T == {w \in Seq(S) : Escape(w) \in Seq(S)}
<1>1. <<>> \in T
  <2>1. <<>> \in Seq(S)
    OBVIOUS
  <2> QED
    BY <2>1, NothingRead, Zenon
<1>2. ASSUME NEW w \in Seq(S), NEW c \in S, w \in T
      PROVE  Append(w, c) \in T
  <2>1. Escape(Append(w, c)) = Escape(w) \o (IF c \in Special THEN <<"\\", c>> ELSE <<c>>)
    BY EscapeMore
  <2>2. "\\" \in S
    BY DEF Special
  <2>3. Append(w, c) \in Seq(S) /\ Escape(w) \in Seq(S) /\ <<c>> \in Seq(S) /\ <<"\\", c>> \in Seq(S)
    BY <1>2, <2>2
  <2> QED
    BY <2>1, <2>3, ConcatProperties
<1> HIDE DEF T
<1>3. \A w \in Seq(S) : w \in T
  BY <1>1, <1>2, AllTexts
<1> QED
  BY <1>3 DEF T

\* What was read before stays as it was, and the text is kept behind it.
Follows(p, w) ==
  LET u == p \o Escape(w) IN
  /\ ~Open(u) /\ Sane(u) = Sane(p) /\ Kept(u) = Kept(p) \o w
  /\ Delimiter(u, ":") = Delimiter(p, ":") /\ Delimiter(u, "=") = Delimiter(p, "=")
  /\ Ink(u) = (Ink(p) \/ Ink(w))

\* The text v is u with one more character.
Longer(u, c, v) ==
  /\ Open(v) = (c = "\\" /\ ~Open(u))
  /\ Sane(v) = (Sane(u) /\ (Open(u) => c \in Special))
  /\ Kept(v) = Kept(u) \o (IF c = "\\" /\ ~Open(u) THEN <<>> ELSE <<c>>)
  /\ Ink(v) = (Ink(u) \/ c # " ")
  /\ \A d : Delimiter(v, d) = IF Delimiter(u, d) # 0 THEN Delimiter(u, d)
                              ELSE IF c = d /\ ~Open(u) THEN Len(u) + 1 ELSE 0

LEMMA OneRead ==
  ASSUME NEW S, NEW u \in Seq(S), NEW c \in S, NEW v, v = Append(u, c)
  PROVE  v \in Seq(S) /\ Longer(u, c, v)
<1>1. Append(u, c) \in Seq(S)
  BY AppendProperties
<1>2. /\ Open(Append(u, c)) = (c = "\\" /\ ~Open(u))
      /\ Sane(Append(u, c)) = (Sane(u) /\ (Open(u) => c \in Special))
  BY SaneMore
<1>3. Kept(Append(u, c)) = Kept(u) \o (IF c = "\\" /\ ~Open(u) THEN <<>> ELSE <<c>>)
  BY KeptMore
<1>4. Ink(Append(u, c)) = (Ink(u) \/ c # " ")
  BY InkMore
<1>5. \A d : Delimiter(Append(u, c), d) =
               IF Delimiter(u, d) # 0 THEN Delimiter(u, d)
               ELSE IF c = d /\ ~Open(u) THEN Len(u) + 1 ELSE 0
  BY DelimiterMore
<1>6. Longer(u, c, Append(u, c))
  BY <1>2, <1>3, <1>4, <1>5, Zenon DEF Longer
<1> QED
  BY <1>1, <1>6, Zenon

LEMMA ReadTypes ==
  ASSUME NEW S, NEW u \in Seq(S)
  PROVE  /\ Sane(u) \in BOOLEAN /\ Open(u) \in BOOLEAN /\ Ink(u) \in BOOLEAN
         /\ Kept(u) \in Seq(S) /\ \A c : Kept(u) \o <<c>> = Append(Kept(u), c)
         /\ Kept(u) \o <<>> = Kept(u)
<1>1. Sane(u) \in BOOLEAN /\ Open(u) \in BOOLEAN /\ Ink(u) \in BOOLEAN
  BY DEF Sane, Open, Ink
<1>2. Kept(u) \in Seq(S)
  BY KeptIsText
<1> HIDE DEF Kept
<1>3. Kept(u) \o <<>> = Kept(u) /\ \A c : Kept(u) \o <<c>> = Append(Kept(u), c)
  BY <1>2
<1> QED
  BY <1>1, <1>2, <1>3

\* Reading v gives one more character than reading u.
Gives(u, c, v) ==
  /\ ~Open(v) /\ Sane(v) = Sane(u) /\ Kept(v) = Append(Kept(u), c)
  /\ Delimiter(v, ":") = Delimiter(u, ":") /\ Delimiter(v, "=") = Delimiter(u, "=")
  /\ Ink(v) = (Ink(u) \/ c # " ")

\* A character without a meaning is kept.
LEMMA PlainReads ==
  ASSUME NEW S, NEW u \in Seq(S), NEW c \in S, ~Open(u), c \notin Special,
         NEW v, v = Append(u, c)
  PROVE  v \in Seq(S) /\ Gives(u, c, v)
<1>1. c # "\\" /\ c # ":" /\ c # "="
  BY DEF Special
<1>2. v \in Seq(S) /\ Longer(u, c, v)
  BY OneRead, Zenon
<1>3. Kept(v) = Append(Kept(u), c)
  BY <1>1, <1>2, ReadTypes, Zenon DEF Longer
<1>4. ~Open(v) /\ Sane(v) = Sane(u)
  BY <1>1, <1>2, ReadTypes, Zenon DEF Longer
<1>5. Delimiter(v, ":") = Delimiter(u, ":") /\ Delimiter(v, "=") = Delimiter(u, "=")
  BY <1>1, <1>2, Zenon DEF Longer
<1>6. Ink(v) = (Ink(u) \/ c # " ")
  BY <1>2, Zenon DEF Longer
<1> QED
  BY <1>2, <1>3, <1>4, <1>5, <1>6, Zenon DEF Gives

\* A character with a meaning is kept if a backslash is before it.
LEMMA PairReads ==
  ASSUME NEW S, Special \subseteq S, NEW u \in Seq(S), NEW c \in Special, ~Open(u),
         NEW x, x = Append(u, "\\"), NEW v, v = Append(x, c)
  PROVE  v \in Seq(S) /\ Gives(u, c, v)
<1>1. "\\" \in Special /\ "\\" # ":" /\ "\\" # "=" /\ "\\" # " "
  BY DEF Special
<1>2. "\\" \in S /\ c \in S
  BY <1>1, Zenon
<1>3. x \in Seq(S) /\ Longer(u, "\\", x)
  BY <1>2, OneRead, Zenon
<1>4. Open(x) /\ Sane(x) = Sane(u) /\ Kept(x) = Kept(u)
  BY <1>3, ReadTypes, Zenon DEF Longer
<1>5. v \in Seq(S) /\ Longer(x, c, v)
  BY <1>2, <1>3, OneRead, Zenon
<1>6. Kept(v) = Append(Kept(u), c)
  BY <1>4, <1>5, ReadTypes, Zenon DEF Longer
<1>7. ~Open(v) /\ Sane(v) = Sane(u)
  BY <1>4, <1>5, ReadTypes, Zenon DEF Longer
<1>8. Delimiter(v, ":") = Delimiter(u, ":") /\ Delimiter(v, "=") = Delimiter(u, "=")
  BY <1>1, <1>3, <1>4, <1>5, Zenon DEF Longer
<1>9. Ink(v) = (Ink(u) \/ c # " ")
  BY <1>1, <1>3, <1>5, SpecialIsInk, ReadTypes, Zenon DEF Longer
<1> QED
  BY <1>5, <1>6, <1>7, <1>8, <1>9, Zenon DEF Gives

\* One character behind two texts.
LEMMA CharacterBehind ==
  ASSUME NEW S, NEW w \in Seq(S), NEW c \in S
  PROVE  \A p \in Seq(S) : Append(p \o w, c) = p \o Append(w, c)
OBVIOUS

\* Whatever was read before, an escaped text is read behind it.
LEMMA EscapeFollows ==
  ASSUME NEW S, Special \subseteq S, NEW p \in Seq(S), ~Open(p)
  PROVE  \A w \in Seq(S) : Follows(p, w)
<1> DEFINE T == {w \in Seq(S) : Follows(p, w)}
<1>1. <<>> \in T
  <2>1. <<>> \in Seq(S) /\ p \o <<>> = p
    OBVIOUS
  <2> QED
    BY <2>1, NothingRead, ReadTypes, Zenon DEF Follows
<1>2. ASSUME NEW w \in Seq(S), NEW c \in S, w \in T
      PROVE  Append(w, c) \in T
  <2> DEFINE u == p \o Escape(w)
             v == p \o Escape(Append(w, c))
  <2>0. Append(w, c) \in Seq(S)
    BY AppendProperties
  <2>1. Escape(w) \in Seq(S)
    BY EscapeIsText
  <2>2. /\ ~Open(u) /\ Sane(u) = Sane(p) /\ Kept(u) = Kept(p) \o w
        /\ Delimiter(u, ":") = Delimiter(p, ":") /\ Delimiter(u, "=") = Delimiter(p, "=")
        /\ Ink(u) = (Ink(p) \/ Ink(w))
    BY <1>2, Zenon DEF Follows
  <2>3. u \in Seq(S)
    BY <2>1
  <2>4. Escape(Append(w, c)) = IF c \in Special THEN Append(Append(Escape(w), "\\"), c)
                              ELSE Append(Escape(w), c)
    <3>1. ASSUME NEW e \in Seq(S)
          PROVE  e \o <<c>> = Append(e, c)
      BY AppendIsConcat
    <3>2. ASSUME NEW e \in Seq(S)
          PROVE  e \o <<"\\", c>> = Append(Append(e, "\\"), c)
      BY DEF Special
    <3>3. \A e \in Seq(S) : /\ e \o <<c>> = Append(e, c)
                          /\ e \o <<"\\", c>> = Append(Append(e, "\\"), c)
      BY <3>1, <3>2
    <3>4. Escape(Append(w, c)) = Escape(w) \o (IF c \in Special THEN <<"\\", c>> ELSE <<c>>)
      BY EscapeMore
    <3> QED
      BY <2>1, <3>3, <3>4
  <2>5. /\ Append(Escape(w), "\\") \in Seq(S)
        /\ "\\" \in S
    BY <2>1, AppendProperties DEF Special
  <2>6. v = IF c \in Special THEN Append(Append(u, "\\"), c) ELSE Append(u, c)
    <3> DEFINE e == Escape(w)
               f == Append(e, "\\")
    <3>1. e \in Seq(S) /\ f \in Seq(S)
      BY <2>1, <2>5
    <3>2. v = IF c \in Special THEN p \o Append(f, c) ELSE p \o Append(e, c)
      BY <2>4, Zenon
    <3>3. u = p \o e
      OBVIOUS
    <3> HIDE DEF e, f, u, v
    <3>4. \A q \in Seq(S) : Append(q \o e, c) = q \o Append(e, c)
      BY <3>1, CharacterBehind, Zenon
    <3>5. \A q \in Seq(S) : Append(q \o e, "\\") = q \o f
      BY <2>5, <3>1, CharacterBehind, Zenon DEF f
    <3>6. \A q \in Seq(S) : Append(q \o f, c) = q \o Append(f, c)
      BY <3>1, CharacterBehind, Zenon
    <3> QED
      BY <3>2, <3>3, <3>4, <3>5, <3>6, Zenon
  <2> HIDE DEF u, v, T
  <2>7. v \in Seq(S) /\ Gives(u, c, v)
    <3>1. CASE c \in Special
      BY <2>2, <2>3, <2>6, <3>1, PairReads, Zenon
    <3>2. CASE c \notin Special
      BY <2>2, <2>3, <2>6, <3>2, PlainReads, Zenon
    <3> QED
      BY <3>1, <3>2, Zenon
  <2>8. Append(Kept(p) \o w, c) = Kept(p) \o Append(w, c)
    <3>1. Kept(p) \in Seq(S)
      BY KeptIsText
    <3>2. \A q \in Seq(S) : Append(q \o w, c) = q \o Append(w, c)
      BY CharacterBehind, Zenon
    <3> QED
      BY <3>1, <3>2, Zenon
  <2>9. Ink(Append(w, c)) = (Ink(w) \/ c # " ")
    BY InkMore
  <2>10. Kept(v) = Kept(p) \o Append(w, c)
    BY <2>2, <2>7, <2>8, Zenon DEF Gives
  <2>11. Ink(v) = (Ink(p) \/ Ink(Append(w, c)))
    <3>1. Ink(p) \in BOOLEAN /\ Ink(w) \in BOOLEAN
      BY DEF Ink
    <3> QED
      BY <2>2, <2>7, <2>9, <3>1, Zenon DEF Gives
  <2>12. Follows(p, Append(w, c))
    BY <2>2, <2>7, <2>10, <2>11, Zenon DEF Follows, Gives, v
  <2> QED
    BY <2>0, <2>12 DEF T
<1> HIDE DEF T
<1>3. \A w \in Seq(S) : w \in T
  BY <1>1, <1>2, AllTexts
<1> QED
  BY <1>3 DEF T

-----------------------------------------------------------------------------
(***************************************************************************)
(* Lines.                                                                  *)
(***************************************************************************)

LEMMA AroundIs ==
  ASSUME NEW S, NEW n \in Seq(S), NEW c \in S, NEW rest \in Seq(S)
  PROVE  Around(n, c, rest) = Append(n, c) \o rest
BY DEF Around

\* A text that is read to its end, in which no such delimiter is found, is what is
\* before the delimiter that follows.
Found(word, c, n, rest) ==
  /\ Delimiter(word, c) # 0 /\ Before(word, Delimiter(word, c)) = n
  /\ After(word, Delimiter(word, c)) = rest

LEMMA FoundBehind ==
  ASSUME NEW S, NEW n \in Seq(S), NEW c \in S, NEW rest \in Seq(S),
         ~Open(n), Delimiter(n, c) = 0, NEW word, word = Around(n, c, rest)
  PROVE  word \in Seq(S) /\ Found(word, c, n, rest)
<1>1. word \in Seq(S) /\ SplitAt(word, Len(n) + 1, n, rest)
  BY SplitAround, Zenon
<1>2. Append(n, c) \in Seq(S) /\ Longer(n, c, Append(n, c))
  BY OneRead, Zenon
<1>3. Delimiter(Append(n, c), c) = Len(n) + 1
  BY <1>2, Zenon DEF Longer
<1>4. Len(n) + 1 # 0
  <2>1. Len(n) \in Nat
    OBVIOUS
  <2>2. \A k \in Nat : k + 1 # 0
    OBVIOUS
  <2> QED
    BY <2>1, <2>2, Zenon
<1>5. Delimiter(Append(n, c) \o rest, c) = Len(n) + 1
  BY <1>2, <1>3, <1>4, DelimiterStays, Zenon
<1>6. word = Append(n, c) \o rest
  BY AroundIs, Zenon
<1> QED
  BY <1>1, <1>4, <1>5, <1>6, Zenon DEF Found, SplitAt

\* An argument of a name, a type and a value.
Named(n, t, v) == [name |-> n, type |-> t, value |-> v]

ReadAs(w, n, t, v) == ParsedLine(w) = {Named(n, t, v)}

\* A line, once its parts are known.
LEMMA UntypedLine ==
  ASSUME NEW w, NEW left, NEW v, Found(w, "=", left, v), Delimiter(left, ":") = 0,
         NEW n, n # <<>>, Unescaped(left) = {n}
  PROVE  ReadAs(w, n, AnyType, v)
<1>1. ParsedLine(w) = {Named(x, y, v) : x \in {n} \ {<<>>}, y \in {AnyType}}
  BY SMT DEF ParsedLine, Named, Found
<1> QED
  BY <1>1 DEF ReadAs

LEMMA TypedLine ==
  ASSUME NEW w, NEW left, NEW v, Found(w, "=", left, v), NEW u, NEW s, Found(left, ":", u, s),
         NEW n, n # <<>>, Unescaped(u) = {n}, NEW t, Unescaped(s) = {t}, Trimmed(s) # <<>>
  PROVE  ReadAs(w, n, t, v)
<1>1. ParsedLine(w) = {Named(x, y, v) : x \in {n} \ {<<>>}, y \in {t}}
  BY SMT DEF ParsedLine, Named, Found
<1> QED
  BY <1>1 DEF ReadAs

\* An argument that can be given.
Proper(n, t) == n # <<>> /\ (t = AnyType \/ Ink(t))

\* The text before the equals sign.
LeftOf(n, t) == IF t = AnyType THEN Escape(n) ELSE Around(Escape(n), ":", Escape(t))

LEMMA LineIs ==
  ASSUME NEW S, Special \subseteq S, NEW n \in Seq(S), NEW v, NEW t \in Seq(S) \cup {AnyType}
  PROVE  LineFor(Named(n, t, v)) = Around(LeftOf(n, t), "=", v)
<1>1. ":" \in S
  BY DEF Special
<1>2. LineFor(Named(n, t, v)) =
        Escape(n) \o (IF t = AnyType THEN <<>> ELSE <<":">> \o Escape(t)) \o <<"=">> \o v
  BY DEF LineFor, Named
<1>3. LeftOf(n, t) = Escape(n) \o (IF t = AnyType THEN <<>> ELSE <<":">> \o Escape(t))
  <2>1. Escape(n) \in Seq(S)
    BY EscapeIsText
  <2>2. CASE t = AnyType
    <3>1. \A e \in Seq(S) : e \o <<>> = e
      OBVIOUS
    <3> QED
      BY <2>1, <2>2, <3>1, Zenon DEF LeftOf
  <2>3. CASE t # AnyType
    <3>1. Escape(t) \in Seq(S)
      BY <2>3, EscapeIsText
    <3>2. \A x, y \in Seq(S) : Around(x, ":", y) = x \o (<<":">> \o y)
      BY <1>1 DEF Around
    <3>3. Around(Escape(n), ":", Escape(t)) = Escape(n) \o (<<":">> \o Escape(t))
      BY <2>1, <3>1, <3>2, Zenon
    <3> QED
      BY <2>3, <3>3 DEF LeftOf
  <2> QED
    BY <2>2, <2>3
<1> QED
  BY <1>2, <1>3 DEF Around

\* A text that is escaped is read as it was.
LEMMA EscapeReads ==
  ASSUME NEW S, Special \subseteq S, NEW w \in Seq(S)
  PROVE  /\ Escape(w) \in Seq(S) /\ ~Open(Escape(w)) /\ Unescaped(Escape(w)) = {w}
         /\ Delimiter(Escape(w), ":") = 0 /\ Delimiter(Escape(w), "=") = 0
         /\ Ink(w) => Trimmed(Escape(w)) # <<>>
<1>1. Escape(w) \in Seq(S) /\ <<>> \in Seq(S) /\ <<>> \o w = w
  BY EscapeIsText
<1>2. <<>> \o Escape(w) = Escape(w)
  BY <1>1
<1>3. Follows(<<>>, w)
  BY <1>1, NothingRead, EscapeFollows, Zenon
<1>4. /\ ~Open(Escape(w)) /\ Sane(Escape(w)) /\ Kept(Escape(w)) = w
      /\ Delimiter(Escape(w), ":") = 0 /\ Delimiter(Escape(w), "=") = 0
  BY <1>1, <1>2, <1>3, NothingRead, ReadTypes, Zenon DEF Follows
<1>5. Ink(w) => Ink(Escape(w))
  BY <1>1, <1>2, <1>3, NothingRead, ReadTypes, Zenon DEF Follows
<1>6. Unescaped(Escape(w)) = {w}
  BY <1>1, <1>4, UnescapedIs
<1>7. Ink(w) => Trimmed(Escape(w)) # <<>>
  BY <1>1, <1>5, TrimmedInk, Zenon
<1> QED
  BY <1>1, <1>4, <1>6, <1>7, Zenon

\* Whatever the argument, its line is read as the argument.
LEMMA LineReadBack ==
  ASSUME NEW S, Special \subseteq S, NEW n \in Seq(S), NEW v \in Seq(S),
         NEW t \in Seq(S) \cup {AnyType}, Proper(n, t)
  PROVE  ReadAs(LineFor(Named(n, t, v)), n, t, v)
<1> DEFINE left == LeftOf(n, t)
           word == Around(left, "=", v)
<1>1. LineFor(Named(n, t, v)) = word
  BY LineIs, Zenon
<1>2. ":" \in S /\ "=" \in S /\ ":" # "=" /\ ":" # "\\"
  BY DEF Special
<1> HIDE DEF left
<1>3. ASSUME left \in Seq(S), ~Open(left), Delimiter(left, "=") = 0
      PROVE  Found(word, "=", left, v)
  BY <1>2, <1>3, FoundBehind, Zenon
<1> HIDE DEF word
<1>4. CASE t = AnyType
  <2>1. left = Escape(n)
    BY <1>4 DEF left, LeftOf
  <2>2. left \in Seq(S) /\ ~Open(left) /\ Delimiter(left, "=") = 0
        /\ Delimiter(left, ":") = 0 /\ Unescaped(left) = {n}
    BY <2>1, EscapeReads, Zenon
  <2>3. n # <<>>
    BY DEF Proper
  <2>4. Found(word, "=", left, v)
    BY <1>3, <2>2
  <2>5. ReadAs(word, n, AnyType, v)
    BY <2>2, <2>3, <2>4, UntypedLine, Zenon
  <2> QED
    BY <1>1, <1>4, <2>5, Zenon
<1>5. CASE t # AnyType
  <2>1. t \in Seq(S) /\ Ink(t) /\ n # <<>>
    BY <1>5 DEF Proper
  <2>2. left = Around(Escape(n), ":", Escape(t))
    BY <1>5 DEF left, LeftOf
  <2>3. /\ Escape(n) \in Seq(S) /\ ~Open(Escape(n)) /\ Unescaped(Escape(n)) = {n}
        /\ Delimiter(Escape(n), ":") = 0 /\ Delimiter(Escape(n), "=") = 0
    BY EscapeReads, Zenon
  <2>4. /\ Escape(t) \in Seq(S) /\ Unescaped(Escape(t)) = {t} /\ Trimmed(Escape(t)) # <<>>
    BY <2>1, EscapeReads, Zenon
  <2>5. left \in Seq(S) /\ Found(left, ":", Escape(n), Escape(t))
    BY <1>2, <2>2, <2>3, <2>4, FoundBehind, Zenon
  <2>6. ~Open(left) /\ Delimiter(left, "=") = 0
    <3> DEFINE p == Append(Escape(n), ":")
    <3>1. p \in Seq(S) /\ Longer(Escape(n), ":", p)
      BY <1>2, <2>3, OneRead, Zenon
    <3>2. left = p \o Escape(t)
      BY <1>2, <2>2, <2>3, <2>4, AroundIs, Zenon
    <3> HIDE DEF p
    <3>3. ~Open(p) /\ Delimiter(p, "=") = 0
      BY <1>2, <2>3, <3>1, Zenon DEF Longer
    <3>4. Follows(p, t)
      BY <2>1, <3>1, <3>3, EscapeFollows, Zenon
    <3> QED
      BY <3>2, <3>3, <3>4, Zenon DEF Follows
  <2>7. Found(word, "=", left, v)
    BY <1>3, <2>5, <2>6
  <2>8. ReadAs(word, n, t, v)
    BY <2>1, <2>3, <2>4, <2>5, <2>7, TypedLine, Zenon
  <2> QED
    BY <1>1, <2>8, Zenon
<1> QED
  BY <1>4, <1>5

\* A delimiter is found in the text, or at no place.
LEMMA DelimiterPlace ==
  ASSUME NEW S, NEW u \in Seq(S), NEW d
  PROVE  Delimiter(u, d) \in 0..Len(u)
<1> DEFINE I == {i \in DOMAIN u : u[i] = d /\ ~Escaped(u)[i]}
<1>1. Delimiter(u, d) = IF I = {} THEN 0 ELSE Min(I)
  BY Zenon DEF Delimiter
<1>2. I \subseteq DOMAIN u
  BY Zenon
<1>3. DOMAIN u = 1..Len(u) /\ Len(u) \in Nat
  OBVIOUS
<1> HIDE DEF I
<1>4. I \in SUBSET Nat
  BY <1>2, <1>3
<1>5. I # {} => Min(I) \in 1..Len(u)
  BY <1>2, <1>3, <1>4, MinIsLeast
<1> QED
  BY <1>1, <1>3, <1>5

\* An argument of whatever name, type and value, of any length, can be given: its
\* line is read as it and nothing else.
THEOREM EveryArgumentReadBack ==
  ASSUME NEW S, Special \subseteq S, NEW n \in Seq(S), NEW v \in Seq(S),
         NEW t \in Seq(S) \cup {AnyType}, n # <<>>, t = AnyType \/ Ink(t)
  PROVE  ParsedLine(LineFor([name |-> n, type |-> t, value |-> v])) =
           {[name |-> n, type |-> t, value |-> v]}
<1>1. Proper(n, t)
  BY DEF Proper
<1>2. ReadAs(LineFor(Named(n, t, v)), n, t, v)
  BY <1>1, LineReadBack, Zenon
<1> QED
  BY <1>2, Zenon DEF ReadAs, Named

\* Whatever is accepted has a name and a type, and could have been given.
LEMMA ParsedIsProper ==
  ASSUME NEW S, NEW w \in Seq(S), NEW a \in ParsedLine(w)
  PROVE  \E n, v \in Seq(S), t \in Seq(S) \cup {AnyType} : a = Named(n, t, v) /\ Proper(n, t)
<1> DEFINE equals == Delimiter(w, "=")
           left == Before(w, equals)
           colon == Delimiter(left, ":")
           behind == After(left, colon)
           first == IF colon = 0 THEN left ELSE Before(left, colon)
           types == IF colon = 0 THEN {AnyType} ELSE Unescaped(behind)
<1>1. PICK n \in Unescaped(first) \ {<<>>}, t \in types : a = Named(n, t, After(w, equals))
  BY SMT DEF ParsedLine, Named
<1>2. colon # 0 => Trimmed(behind) # <<>>
  BY SMT DEF ParsedLine
<1>3. ASSUME NEW u \in Seq(S), NEW d
      PROVE  Before(u, Delimiter(u, d)) \in Seq(S) /\ After(u, Delimiter(u, d)) \in Seq(S)
  <2>1. Delimiter(u, d) \in 0..Len(u)
    BY DelimiterPlace
  <2>2. \A i \in 0..Len(u) : Before(u, i) \in Seq(S) /\ After(u, i) \in Seq(S)
    <3> HIDE DEF equals, left, colon, behind, first, types
    <3> TAKE i \in 0..Len(u)
    <3>1. Len(u) \in Nat /\ i - 1 \in Int /\ i + 1 \in Int
      OBVIOUS
    <3>2. (\A k \in 1..(i - 1) : u[k] \in S) /\ (\A k \in (i + 1)..Len(u) : u[k] \in S)
      BY <3>1
    <3>3. SubSeq(u, 1, i - 1) \in Seq(S) /\ SubSeq(u, i + 1, Len(u)) \in Seq(S)
      BY <3>1, <3>2, SubSeqProperties
    <3> QED
      BY <3>3 DEF Before, After
  <2> QED
    BY <2>1, <2>2, Zenon
<1>4. left \in Seq(S) /\ After(w, equals) \in Seq(S)
  BY <1>3, Zenon
<1> HIDE DEF equals, left
<1>5. behind \in Seq(S) /\ first \in Seq(S)
  BY <1>3, <1>4, Zenon
<1> HIDE DEF behind, first
<1>6. n \in Seq(S) /\ n # <<>>
  BY <1>1, <1>5, UnescapedIs, KeptIsText
<1>7. t = AnyType \/ (t \in Seq(S) /\ Ink(t))
  <2>1. CASE colon = 0
    BY <1>1, <2>1
  <2>2. CASE colon # 0
    <3>1. t \in Unescaped(behind) /\ Trimmed(behind) # <<>>
      BY <1>1, <1>2, <2>2 DEF behind
    <3>2. Sane(behind) /\ ~Open(behind) /\ t = Kept(behind)
      BY <1>5, <3>1, UnescapedIs
    <3>3. Ink(behind)
      BY <1>5, <3>1, TrimmedInk
    <3> QED
      BY <1>5, <3>2, <3>3, KeptInk, KeptIsText
  <2> QED
    BY <2>1, <2>2
<1> QED
  BY <1>1, <1>4, <1>6, <1>7 DEF Proper

\* The characters that are typed.
Typed == Character \cup Special \cup {" "}

\* An argument that is wanted can be given.
LEMMA WantedIsProper ==
  ASSUME NEW w \in DOMAIN Wanted
  PROVE  /\ Wanted[w] # {}
         /\ \A a \in Wanted[w] :
              \E n, v \in Seq(Typed), t \in Seq(Typed) \cup {AnyType} :
                a = Named(n, t, v) /\ Proper(n, t) /\ w = LineFor(a)
<1> DEFINE texts(k) == SeqOf(Character \cup Special, k)
           wanted == [name : texts(2) \ {<<>>}, type : (texts(1) \ {<<>>}) \cup {AnyType}, value : texts(2)]
<1>1. Wanted = [word \in {LineFor(a) : a \in wanted} |-> {a \in wanted : LineFor(a) = word}]
  BY Zenon DEF Wanted
<1>2. ASSUME NEW k \in Nat, NEW s \in texts(k)
      PROVE  s \in Seq(Typed) /\ (s # <<>> => Ink(s))
  <2>1. PICK m \in 0..k : s \in [1..m -> Character \cup Special]
    BY DEF SeqOf
  <2>2. s \in Seq(Character \cup Special) /\ Len(s) = m
    BY <2>1
  <2>3. Character \cup Special \subseteq Typed
    BY DEF Typed
  <2>4. s \in Seq(Typed)
    BY <2>2, <2>3
  <2>5. ASSUME s # <<>> PROVE Ink(s)
    <3>1. 1 \in 1..Len(s) /\ s[1] \in Character \cup Special
      BY <2>2, <2>5
    <3>2. s[1] # " "
      BY <3>1, LineAssumption, SpecialIsInk
    <3> QED
      BY <3>1, <3>2 DEF Ink
  <2> QED
    BY <2>4, <2>5
<1>3. w \in {LineFor(a) : a \in wanted} /\ Wanted[w] = {a \in wanted : LineFor(a) = w}
  BY <1>1
<1> HIDE DEF texts
<1>4. Wanted[w] # {}
  BY <1>3
<1>5. ASSUME NEW a \in Wanted[w]
      PROVE  \E n, v \in Seq(Typed), t \in Seq(Typed) \cup {AnyType} :
               a = Named(n, t, v) /\ Proper(n, t) /\ w = LineFor(a)
  <2>1. /\ a.name \in texts(2) /\ a.name # <<>> /\ a.value \in texts(2)
        /\ a.type = AnyType \/ (a.type \in texts(1) /\ a.type # <<>>)
        /\ a = Named(a.name, a.type, a.value) /\ LineFor(a) = w
    BY <1>3 DEF Named
  <2>2. /\ a.name \in Seq(Typed) /\ a.value \in Seq(Typed)
        /\ a.type = AnyType \/ (a.type \in Seq(Typed) /\ Ink(a.type))
    BY <1>2, <2>1
  <2> QED
    BY <2>1, <2>2 DEF Proper
<1> QED
  BY <1>4, <1>5

LEMMA TypedLines == LineSpec => [](line \in Seq(Typed))
<1>1. LineInit => line \in Seq(Typed)
  BY DEF LineInit
<1>2. line \in Seq(Typed) /\ [LineNext]_line => (line \in Seq(Typed))'
  <2> SUFFICES ASSUME line \in Seq(Typed), [LineNext]_line
               PROVE  line' \in Seq(Typed)
    OBVIOUS
  <2>1. ASSUME NEW c \in Typed, TypeCharacter(c)
        PROVE  line' \in Seq(Typed)
    BY <2>1 DEF TypeCharacter
  <2> QED
    BY <2>1 DEF LineNext, Typed
<1> QED
  BY <1>1, <1>2, PTL DEF LineSpec

\* Whatever the characters are and however long the line: an argument that is wanted
\* is written in a line that is read as it and as no other, and whatever is accepted
\* is, once it is written so, read as itself.
THEOREM LinesReadBack == LineSpec => []ArgumentReadBack
<1>1. Special \subseteq Typed
  BY DEF Typed
<1>2. ASSUME line \in DOMAIN Wanted
      PROVE  ParsedLine(line) = Wanted[line]
  <2>1. ASSUME NEW a \in Wanted[line]
        PROVE  ParsedLine(line) = {a}
    <3>1. PICK n, v \in Seq(Typed), t \in Seq(Typed) \cup {AnyType} :
            a = Named(n, t, v) /\ Proper(n, t) /\ line = LineFor(a)
      BY <1>2, <2>1, WantedIsProper
    <3>2. ReadAs(LineFor(Named(n, t, v)), n, t, v)
      BY <1>1, <3>1, LineReadBack, Zenon
    <3> QED
      BY <3>1, <3>2, Zenon DEF ReadAs
  <2>2. Wanted[line] # {}
    BY <1>2, WantedIsProper
  <2> QED
    BY <2>1, <2>2
<1>3. ASSUME line \in Seq(Typed), NEW a \in ParsedLine(line)
      PROVE  ParsedLine(LineFor(a)) = {a}
  <2>1. PICK n, v \in Seq(Typed), t \in Seq(Typed) \cup {AnyType} : a = Named(n, t, v) /\ Proper(n, t)
    BY <1>3, ParsedIsProper
  <2>2. ReadAs(LineFor(Named(n, t, v)), n, t, v)
    BY <1>1, <2>1, LineReadBack, Zenon
  <2> QED
    BY <2>1, <2>2, Zenon DEF ReadAs
<1>4. line \in Seq(Typed) => ArgumentReadBack
  BY <1>2, <1>3 DEF ArgumentReadBack
<1> QED
  BY <1>4, TypedLines, PTL

-----------------------------------------------------------------------------
(***************************************************************************)
(* Numbers that are made one after the other.                              *)
(***************************************************************************)

\* Numbers that are made one after the other, each from the one before.
Made(n, b, g, f) == f = [k \in 0..n |-> IF k = 0 THEN b ELSE g[k][f[k - 1]]]

Steps(n, g, f) == \A k \in 1..n : f[k] = g[k][f[k - 1]]

IntSteps(g) == \A k \in Nat, v \in Int : g[k][v] \in Int

\* A function of a recursion, which is not known to make numbers.
Recursion(n, b, g, f) ==
  /\ f = [k \in 0..n |-> f[k]] /\ f[0] = b
  /\ \A k \in 1..n : f[k - 1] \in Int => f[k] = g[k][f[k - 1]]

\* Such numbers exist.
LEMMA MadeExists ==
  ASSUME NEW b \in Int, NEW g, IntSteps(g)
  PROVE  \A n \in Nat : \E f \in [0..n -> Int] : Made(n, b, g, f)
<1> DEFINE N == {n \in Nat : \E f \in [0..n -> Int] : Made(n, b, g, f)}
<1>1. 0 \in N
  <2> DEFINE f == [k \in 0..0 |-> b]
  <2>1. f \in [0..0 -> Int]
    OBVIOUS
  <2>2. \A k \in 0..0 : f[k] = IF k = 0 THEN b ELSE g[k][f[k - 1]]
    OBVIOUS
  <2>3. f = [k \in 0..0 |-> IF k = 0 THEN b ELSE g[k][f[k - 1]]]
    BY <2>2
  <2> HIDE DEF f
  <2> QED
    BY <2>1, <2>3 DEF Made
<1>2. ASSUME NEW n \in Nat, n \in N
      PROVE  n + 1 \in N
  <2>1. PICK f \in [0..n -> Int] : f = [k \in 0..n |-> IF k = 0 THEN b ELSE g[k][f[k - 1]]]
    BY <1>2 DEF Made
  <2> DEFINE h == [k \in 0..(n + 1) |-> IF k = n + 1 THEN g[n + 1][f[n]] ELSE f[k]]
  <2>2. h \in [0..(n + 1) -> Int]
    <3>1. g[n + 1][f[n]] \in Int
      BY DEF IntSteps
    <3> QED
      BY <3>1
  <2>3. ASSUME NEW k \in 0..(n + 1)
        PROVE  h[k] = IF k = 0 THEN b ELSE g[k][h[k - 1]]
    <3>1. CASE k = n + 1
      <4>1. k # 0 /\ k - 1 = n /\ n \in 0..(n + 1) /\ n # n + 1
        BY <3>1
      <4>2. h[k] = g[n + 1][f[n]] /\ h[n] = f[n]
        BY <3>1, <4>1
      <4> QED
        BY <3>1, <4>1, <4>2
    <3>2. CASE k # n + 1
      <4>1. k \in 0..n /\ h[k] = f[k]
        BY <3>2
      <4>2. f[k] = IF k = 0 THEN b ELSE g[k][f[k - 1]]
        BY <2>1, <4>1
      <4>3. k # 0 => h[k - 1] = f[k - 1]
        BY <3>2, <4>1
      <4> QED
        BY <4>1, <4>2, <4>3
    <3> QED
      BY <3>1, <3>2
  <2>4. h = [k \in 0..(n + 1) |-> h[k]]
    OBVIOUS
  <2> HIDE DEF h
  <2>5. h = [k \in 0..(n + 1) |-> IF k = 0 THEN b ELSE g[k][h[k - 1]]]
    BY <2>3, <2>4
  <2>6. n + 1 \in Nat
    OBVIOUS
  <2> QED
    BY <2>2, <2>5, <2>6, Zenon DEF Made
<1> HIDE DEF N
<1>3. \A n \in Nat : n \in N
  BY <1>1, <1>2, AllNumbers
<1> QED
  BY <1>3 DEF N

\* They are the same as long as they are made in the same way.
LEMMA MadeAlike ==
  ASSUME NEW n \in Nat, NEW f, NEW h, NEW g, f[0] = h[0], Steps(n, g, f), Steps(n, g, h)
  PROVE  \A k \in 0..n : f[k] = h[k]
<1> DEFINE N == {k \in Nat : k <= n => f[k] = h[k]}
<1>1. 0 \in N
  OBVIOUS
<1>2. ASSUME NEW k \in Nat, k \in N
      PROVE  k + 1 \in N
  <2> SUFFICES ASSUME k + 1 <= n
               PROVE  f[k + 1] = h[k + 1]
    OBVIOUS
  <2>1. k + 1 \in 1..n /\ (k + 1) - 1 = k /\ k <= n
    OBVIOUS
  <2>2. f[k] = h[k]
    BY <1>2, <2>1
  <2>3. f[k + 1] = g[k + 1][f[k]] /\ h[k + 1] = g[k + 1][h[k]]
    BY <2>1 DEF Steps
  <2> QED
    BY <2>2, <2>3
<1> HIDE DEF N
<1>3. \A k \in Nat : k \in N
  BY <1>1, <1>2, AllNumbers
<1> QED
  BY <1>3 DEF N

\* Numbers that are made so, as far as they are numbers.
LEMMA MadeIs ==
  ASSUME NEW b \in Int, NEW g, IntSteps(g), NEW n \in Nat, NEW To, Recursion(n, b, g, To)
  PROVE  To \in [0..n -> Int] /\ Steps(n, g, To)
<1>0. /\ To = [k \in 0..n |-> To[k]] /\ To[0] = b
      /\ \A k \in 1..n : To[k - 1] \in Int => To[k] = g[k][To[k - 1]]
  BY Zenon DEF Recursion
<1> DEFINE N == {k \in Nat : k <= n => To[k] \in Int}
<1>1. 0 \in N
  BY <1>0
<1>2. ASSUME NEW k \in Nat, k \in N
      PROVE  k + 1 \in N
  <2> SUFFICES ASSUME k + 1 <= n
               PROVE  To[k + 1] \in Int
    OBVIOUS
  <2>1. k + 1 \in 1..n /\ (k + 1) - 1 = k /\ k <= n /\ k + 1 \in Nat
    OBVIOUS
  <2>2. To[k] \in Int
    BY <1>2, <2>1
  <2>3. To[k + 1] = g[k + 1][To[k]]
    BY <1>0, <2>1, <2>2
  <2> QED
    BY <2>1, <2>2, <2>3 DEF IntSteps
<1> HIDE DEF N
<1>3. \A k \in Nat : k \in N
  BY <1>1, <1>2, AllNumbers
<1>4. \A k \in 0..n : To[k] \in Int
  BY <1>3 DEF N
<1>5. Steps(n, g, To)
  <2>1. \A k \in 1..n : To[k - 1] \in Int
    BY <1>4
  <2> QED
    BY <1>0, <2>1 DEF Steps
<1>6. To \in [0..n -> Int]
  <2>1. [k \in 0..n |-> To[k]] \in [0..n -> Int]
    BY <1>4, Zenon
  <2> QED
    BY <1>0, <2>1, Zenon
<1> QED
  BY <1>5, <1>6

-----------------------------------------------------------------------------
\* The powers of ten, one after the other.
Powers(n) ==
  LET Power[j \in 0..n] == IF j = 0 THEN 1 ELSE 10 * Power[j - 1]
  IN Power

TenTimes == [k \in Nat |-> [v \in Int |-> 10 * v]]

LEMMA TenTimesIs == IntSteps(TenTimes) /\ \A k \in Nat, v \in Int : TenTimes[k][v] = 10 * v
BY DEF TenTimes, IntSteps

LEMMA PowersAre ==
  ASSUME NEW n \in Nat
  PROVE  Powers(n) \in [0..n -> Int] /\ Powers(n)[0] = 1 /\ Steps(n, TenTimes, Powers(n))
<1> DEFINE To == Powers(n)
<1>1. \E f : f = [j \in 0..n |-> IF j = 0 THEN 1 ELSE 10 * f[j - 1]]
  <2>1. PICK f \in [0..n -> Int] : f = [k \in 0..n |-> IF k = 0 THEN 1 ELSE TenTimes[k][f[k - 1]]]
    <3>1. \E f \in [0..n -> Int] : Made(n, 1, TenTimes, f)
      <4>1. 1 \in Int
        OBVIOUS
      <4> QED
        BY <4>1, TenTimesIs, MadeExists, Zenon
    <3> QED
      BY <3>1, Zenon DEF Made
  <2>2. \A k \in 0..n : (IF k = 0 THEN 1 ELSE TenTimes[k][f[k - 1]])
                          = (IF k = 0 THEN 1 ELSE 10 * f[k - 1])
    <3> TAKE k \in 0..n
    <3>1. k # 0 => k \in Nat /\ k - 1 \in 0..n
      OBVIOUS
    <3>2. k # 0 => f[k - 1] \in Int
      BY <3>1
    <3> QED
      BY TenTimesIs, <3>1, <3>2
  <2> QED
    BY <2>1, <2>2, Zenon
<1>2. To = [j \in 0..n |-> IF j = 0 THEN 1 ELSE 10 * To[j - 1]]
  BY <1>1, Zenon DEF Powers
<1> HIDE DEF To
<1>3. \A j \in 0..n : To[j] = IF j = 0 THEN 1 ELSE 10 * To[j - 1]
  BY <1>2, Zenon
<1>4. To = [j \in 0..n |-> To[j]]
  BY <1>2, <1>3, Zenon
<1>5. To[0] = 1 /\ \A k \in 1..n : To[k - 1] \in Int => To[k] = TenTimes[k][To[k - 1]]
  BY TenTimesIs, <1>3
<1>6. Recursion(n, 1, TenTimes, To)
  BY <1>4, <1>5, Zenon DEF Recursion
<1> QED
  BY <1>5, <1>6, TenTimesIs, MadeIs DEF To

\* Each power of ten is ten times the one before.
LEMMA TenToIs ==
  /\ TenTo(0) = 1
  /\ \A n \in Nat : TenTo(n) \in Nat /\ TenTo(n) # 0 /\ TenTo(n + 1) = 10 * TenTo(n)
<1>1. \A n \in Nat : TenTo(n) = Powers(n)[n]
  BY Zenon DEF TenTo, Powers
<1>2. TenTo(0) = 1
  BY <1>1, PowersAre
<1>3. ASSUME NEW n \in Nat
      PROVE  TenTo(n) \in Int /\ TenTo(n + 1) = 10 * TenTo(n)
  <2> DEFINE f == Powers(n)
             h == Powers(n + 1)
  <2>1. f \in [0..n -> Int] /\ f[0] = 1 /\ Steps(n, TenTimes, f)
    BY PowersAre
  <2>2. h \in [0..(n + 1) -> Int] /\ h[0] = 1 /\ Steps(n + 1, TenTimes, h)
    BY PowersAre
  <2>3. TenTo(n) = f[n] /\ TenTo(n + 1) = h[n + 1]
    BY <1>1
  <2> HIDE DEF f, h
  <2>4. Steps(n, TenTimes, h)
    BY <2>2 DEF Steps
  <2>5. \A k \in 0..n : f[k] = h[k]
    <3>1. f[0] = h[0]
      BY <2>1, <2>2
    <3> QED
      BY <2>1, <2>4, <3>1, MadeAlike, Zenon
  <2>6. f[n] = h[n] /\ f[n] \in Int
    BY <2>1, <2>5
  <2>7. n + 1 \in 1..(n + 1) /\ (n + 1) - 1 = n /\ n + 1 \in Nat
    OBVIOUS
  <2>8. h[n + 1] = TenTimes[n + 1][h[n]]
    BY <2>2, <2>7 DEF Steps
  <2> QED
    BY <2>3, <2>6, <2>7, <2>8 DEF TenTimes
<1> DEFINE N == {n \in Nat : TenTo(n) \in Nat /\ TenTo(n) # 0}
<1>4. 0 \in N
  BY <1>2
<1>5. ASSUME NEW n \in Nat, n \in N
      PROVE  n + 1 \in N
  BY <1>3, <1>5
<1> HIDE DEF N
<1>6. \A n \in Nat : n \in N
  BY <1>4, <1>5, AllNumbers
<1> QED
  BY <1>2, <1>3, <1>6 DEF N

-----------------------------------------------------------------------------
\* The numbers that the first digits make.
Readings(s) ==
  LET Partial[k \in 0..Len(s)] == IF k = 0 THEN 0 ELSE 10 * Partial[k - 1] + DigitOf(s[k])
  IN Partial

ReadStep(s) == [k \in Nat |-> [v \in Int |-> 10 * v + (IF k \in 1..Len(s) THEN DigitOf(s[k]) ELSE 0)]]

LEMMA ReadStepIs ==
  ASSUME NEW s, \A k \in 1..Len(s) : DigitOf(s[k]) \in Int
  PROVE  /\ IntSteps(ReadStep(s))
         /\ \A k \in 1..Len(s), v \in Int : ReadStep(s)[k][v] = 10 * v + DigitOf(s[k])
<1>1. \A k \in Nat, v \in Int : ReadStep(s)[k][v] = 10 * v + (IF k \in 1..Len(s) THEN DigitOf(s[k]) ELSE 0)
  BY Zenon DEF ReadStep
<1>2. \A k \in Nat, v \in Int : 10 * v + (IF k \in 1..Len(s) THEN DigitOf(s[k]) ELSE 0) \in Int
  OBVIOUS
<1>3. IntSteps(ReadStep(s))
  BY <1>1, <1>2 DEF IntSteps
<1>4. \A k \in 1..Len(s) : k \in Nat
  OBVIOUS
<1> QED
  BY <1>1, <1>3, <1>4, Zenon

LEMMA ReadingsIs ==
  ASSUME NEW s, Len(s) \in Nat, \A k \in 1..Len(s) : DigitOf(s[k]) \in Int
  PROVE  Readings(s) \in [0..Len(s) -> Int] /\ Readings(s)[0] = 0 /\ Steps(Len(s), ReadStep(s), Readings(s))
<1> DEFINE n == Len(s)
           g == ReadStep(s)
           To == Readings(s)
<1>0. /\ IntSteps(g)
      /\ \A k \in 1..n, v \in Int : g[k][v] = 10 * v + DigitOf(s[k])
  BY ReadStepIs, Zenon
<1> HIDE DEF g
<1>1. \E f : f = [k \in 0..n |-> IF k = 0 THEN 0 ELSE 10 * f[k - 1] + DigitOf(s[k])]
  <2>1. PICK f \in [0..n -> Int] : f = [k \in 0..n |-> IF k = 0 THEN 0 ELSE g[k][f[k - 1]]]
    <3>1. \E f \in [0..n -> Int] : Made(n, 0, g, f)
      <4>1. 0 \in Int
        OBVIOUS
      <4> QED
        BY <1>0, <4>1, MadeExists, Zenon
    <3> QED
      BY <3>1, Zenon DEF Made
  <2>2. \A k \in 0..n : (IF k = 0 THEN 0 ELSE g[k][f[k - 1]])
                          = (IF k = 0 THEN 0 ELSE 10 * f[k - 1] + DigitOf(s[k]))
    <3> TAKE k \in 0..n
    <3>1. k # 0 => k \in 1..n /\ k - 1 \in 0..n
      OBVIOUS
    <3>2. k # 0 => f[k - 1] \in Int
      BY <3>1
    <3> QED
      BY <1>0, <3>1, <3>2
  <2> QED
    BY <2>1, <2>2, Zenon
<1>2. To = [k \in 0..n |-> IF k = 0 THEN 0 ELSE 10 * To[k - 1] + DigitOf(s[k])]
  BY <1>1, Zenon DEF Readings
<1> HIDE DEF To
<1>3. \A k \in 0..n : To[k] = IF k = 0 THEN 0 ELSE 10 * To[k - 1] + DigitOf(s[k])
  BY <1>2, Zenon
<1>4. To = [k \in 0..n |-> To[k]]
  BY <1>2, <1>3, Zenon
<1>5. To[0] = 0 /\ \A k \in 1..n : To[k - 1] \in Int => To[k] = g[k][To[k - 1]]
  <2>1. \A k \in 1..n : k \in 0..n /\ k # 0
    OBVIOUS
  <2>2. \A k \in 1..n : To[k] = 10 * To[k - 1] + DigitOf(s[k])
    BY <1>3, <2>1, Zenon
  <2>3. To[0] = 0
    BY <1>3
  <2> QED
    BY <1>0, <2>2, <2>3, Zenon
<1>6. Recursion(n, 0, g, To)
  BY <1>4, <1>5, Zenon DEF Recursion
<1>7. To \in [0..n -> Int] /\ Steps(n, g, To)
  <2>1. 0 \in Int /\ n \in Nat
    OBVIOUS
  <2> QED
    BY <1>0, <1>6, <2>1, MadeIs, Zenon
<1> QED
  BY <1>5, <1>7 DEF To, g

\* One more digit makes ten times the number, and the digit.
LEMMA ReadMore ==
  ASSUME NEW S, NEW s \in Seq(S), NEW c \in S, \A x \in S : DigitOf(x) \in Int
  PROVE  NumberOf(s) \in Int /\ NumberOf(Append(s, c)) = 10 * NumberOf(s) + DigitOf(c)
<1> DEFINE t == Append(s, c)
           n == Len(s)
           f == Readings(s)
           h == Readings(t)
<1>1. /\ n \in Nat /\ Len(t) = n + 1 /\ n + 1 \in Nat
      /\ \A k \in 1..n : t[k] = s[k] /\ s[k] \in S
      /\ t[n + 1] = c
  OBVIOUS
<1> HIDE DEF t
<1>2. /\ \A k \in 1..Len(s) : DigitOf(s[k]) \in Int
      /\ \A k \in 1..Len(t) : DigitOf(t[k]) \in Int
  <2>1. \A k \in 1..Len(t) : k \in 1..n \/ k = n + 1
    BY <1>1
  <2>2. \A k \in 1..n : DigitOf(s[k]) \in Int /\ DigitOf(t[k]) \in Int
    BY <1>1
  <2>3. DigitOf(t[n + 1]) \in Int
    BY <1>1
  <2> QED
    BY <2>1, <2>2, <2>3, Zenon
<1>3. NumberOf(s) = f[n] /\ NumberOf(t) = h[n + 1]
  BY <1>1, Zenon DEF NumberOf, Readings
<1>4. f \in [0..n -> Int] /\ f[0] = 0 /\ Steps(n, ReadStep(s), f)
  BY <1>1, <1>2, ReadingsIs
<1>5. h \in [0..(n + 1) -> Int] /\ h[0] = 0 /\ Steps(n + 1, ReadStep(t), h)
  BY <1>1, <1>2, ReadingsIs
<1>6. \A k \in 1..(n + 1), v \in Int : ReadStep(t)[k][v] = 10 * v + DigitOf(t[k])
  <2>1. \A k \in 1..Len(t), v \in Int : ReadStep(t)[k][v] = 10 * v + DigitOf(t[k])
    BY <1>2, ReadStepIs, Zenon
  <2> QED
    BY <1>1, <2>1, Zenon
<1>7. \A k \in 1..n, v \in Int : ReadStep(s)[k][v] = 10 * v + DigitOf(s[k])
  BY <1>2, ReadStepIs, Zenon
<1> HIDE DEF f, h, n
<1>8. Steps(n, ReadStep(t), f)
  <2> SUFFICES ASSUME NEW k \in 1..n
               PROVE  f[k] = ReadStep(t)[k][f[k - 1]]
    BY DEF Steps
  <2>1. k \in 1..(n + 1) /\ f[k - 1] \in Int /\ t[k] = s[k]
    BY <1>1, <1>4
  <2>2. f[k] = ReadStep(s)[k][f[k - 1]]
    BY <1>4 DEF Steps
  <2> QED
    BY <1>6, <1>7, <2>1, <2>2
<1>9. Steps(n, ReadStep(t), h)
  BY <1>1, <1>5 DEF Steps
<1>10. \A k \in 0..n : f[k] = h[k]
  <2>1. f[0] = h[0]
    BY <1>4, <1>5
  <2>2. n \in Nat
    BY <1>1
  <2> QED
    BY <1>8, <1>9, <2>1, <2>2, MadeAlike, Zenon
<1>11. f[n] = h[n] /\ f[n] \in Int
  BY <1>1, <1>4, <1>10
<1>12. n + 1 \in 1..(n + 1) /\ (n + 1) - 1 = n
  BY <1>1
<1>13. h[n + 1] = ReadStep(t)[n + 1][h[n]]
  BY <1>5, <1>12 DEF Steps
<1>14. ReadStep(t)[n + 1][f[n]] = 10 * f[n] + DigitOf(c)
  BY <1>1, <1>6, <1>11, <1>12
<1> QED
  BY <1>3, <1>11, <1>13, <1>14, Zenon DEF t

-----------------------------------------------------------------------------
\* The sums of the first numbers.
Sums(s) ==
  LET Sum[k \in 0..Len(s)] == IF k = 0 THEN 0 ELSE Sum[k - 1] + s[k]
  IN Sum

SumStep(s) == [k \in Nat |-> [v \in Int |-> v + (IF k \in 1..Len(s) THEN s[k] ELSE 0)]]

LEMMA SumStepIs ==
  ASSUME NEW s, \A k \in 1..Len(s) : s[k] \in Int
  PROVE  /\ IntSteps(SumStep(s))
         /\ \A k \in 1..Len(s), v \in Int : SumStep(s)[k][v] = v + s[k]
<1>1. \A k \in Nat, v \in Int : SumStep(s)[k][v] = v + (IF k \in 1..Len(s) THEN s[k] ELSE 0)
  BY Zenon DEF SumStep
<1>2. \A k \in Nat, v \in Int : v + (IF k \in 1..Len(s) THEN s[k] ELSE 0) \in Int
  OBVIOUS
<1>3. IntSteps(SumStep(s))
  BY <1>1, <1>2 DEF IntSteps
<1>4. \A k \in 1..Len(s) : k \in Nat
  OBVIOUS
<1> QED
  BY <1>1, <1>3, <1>4, Zenon

LEMMA SumsIs ==
  ASSUME NEW s, Len(s) \in Nat, \A k \in 1..Len(s) : s[k] \in Int
  PROVE  Sums(s) \in [0..Len(s) -> Int] /\ Sums(s)[0] = 0 /\ Steps(Len(s), SumStep(s), Sums(s))
<1> DEFINE n == Len(s)
           g == SumStep(s)
           To == Sums(s)
<1>0. /\ IntSteps(g)
      /\ \A k \in 1..n, v \in Int : g[k][v] = v + s[k]
  BY SumStepIs, Zenon
<1> HIDE DEF g
<1>1. \E f : f = [k \in 0..n |-> IF k = 0 THEN 0 ELSE f[k - 1] + s[k]]
  <2>1. PICK f \in [0..n -> Int] : f = [k \in 0..n |-> IF k = 0 THEN 0 ELSE g[k][f[k - 1]]]
    <3>1. \E f \in [0..n -> Int] : Made(n, 0, g, f)
      <4>1. 0 \in Int
        OBVIOUS
      <4> QED
        BY <1>0, <4>1, MadeExists, Zenon
    <3> QED
      BY <3>1, Zenon DEF Made
  <2>2. \A k \in 0..n : (IF k = 0 THEN 0 ELSE g[k][f[k - 1]])
                          = (IF k = 0 THEN 0 ELSE f[k - 1] + s[k])
    <3> TAKE k \in 0..n
    <3>1. k # 0 => k \in 1..n /\ k - 1 \in 0..n
      OBVIOUS
    <3>2. k # 0 => f[k - 1] \in Int
      BY <3>1
    <3> QED
      BY <1>0, <3>1, <3>2
  <2> QED
    BY <2>1, <2>2, Zenon
<1>2. To = [k \in 0..n |-> IF k = 0 THEN 0 ELSE To[k - 1] + s[k]]
  BY <1>1, Zenon DEF Sums
<1> HIDE DEF To
<1>3. \A k \in 0..n : To[k] = IF k = 0 THEN 0 ELSE To[k - 1] + s[k]
  BY <1>2, Zenon
<1>4. To = [k \in 0..n |-> To[k]]
  BY <1>2, <1>3, Zenon
<1>5. To[0] = 0 /\ \A k \in 1..n : To[k - 1] \in Int => To[k] = g[k][To[k - 1]]
  <2>1. \A k \in 1..n : k \in 0..n /\ k # 0
    OBVIOUS
  <2>2. \A k \in 1..n : To[k] = To[k - 1] + s[k]
    BY <1>3, <2>1, Zenon
  <2>3. To[0] = 0
    BY <1>3
  <2> QED
    BY <1>0, <2>2, <2>3, Zenon
<1>6. Recursion(n, 0, g, To)
  BY <1>4, <1>5, Zenon DEF Recursion
<1>7. To \in [0..n -> Int] /\ Steps(n, g, To)
  <2>1. 0 \in Int /\ n \in Nat
    OBVIOUS
  <2> QED
    BY <1>0, <1>6, <2>1, MadeIs, Zenon
<1> QED
  BY <1>5, <1>7 DEF To, g

\* One more number is added to the sum.
LEMMA TotalMore ==
  ASSUME NEW S, NEW s \in Seq(S), NEW c \in S, S \subseteq Int
  PROVE  Total(s) \in Int /\ Total(Append(s, c)) = Total(s) + c
<1> DEFINE t == Append(s, c)
           n == Len(s)
           f == Sums(s)
           h == Sums(t)
<1>1. /\ n \in Nat /\ Len(t) = n + 1 /\ n + 1 \in Nat
      /\ \A k \in 1..n : t[k] = s[k] /\ s[k] \in S
      /\ t[n + 1] = c
  OBVIOUS
<1> HIDE DEF t
<1>2. /\ \A k \in 1..Len(s) : s[k] \in Int
      /\ \A k \in 1..Len(t) : t[k] \in Int
  <2>1. \A k \in 1..Len(t) : k \in 1..n \/ k = n + 1
    BY <1>1
  <2>2. \A k \in 1..n : s[k] \in Int /\ t[k] \in Int
    BY <1>1
  <2>3. t[n + 1] \in Int
    BY <1>1
  <2> QED
    BY <2>1, <2>2, <2>3, Zenon
<1>3. Total(s) = f[n] /\ Total(t) = h[n + 1]
  BY <1>1, Zenon DEF Total, Sums
<1>4. f \in [0..n -> Int] /\ f[0] = 0 /\ Steps(n, SumStep(s), f)
  BY <1>1, <1>2, SumsIs
<1>5. h \in [0..(n + 1) -> Int] /\ h[0] = 0 /\ Steps(n + 1, SumStep(t), h)
  BY <1>1, <1>2, SumsIs
<1>6. \A k \in 1..(n + 1), v \in Int : SumStep(t)[k][v] = v + t[k]
  <2>1. \A k \in 1..Len(t), v \in Int : SumStep(t)[k][v] = v + t[k]
    BY <1>2, SumStepIs, Zenon
  <2> QED
    BY <1>1, <2>1, Zenon
<1>7. \A k \in 1..n, v \in Int : SumStep(s)[k][v] = v + s[k]
  BY <1>2, SumStepIs, Zenon
<1> HIDE DEF f, h, n
<1>8. Steps(n, SumStep(t), f)
  <2> SUFFICES ASSUME NEW k \in 1..n
               PROVE  f[k] = SumStep(t)[k][f[k - 1]]
    BY DEF Steps
  <2>1. k \in 1..(n + 1) /\ f[k - 1] \in Int /\ t[k] = s[k]
    BY <1>1, <1>4
  <2>2. f[k] = SumStep(s)[k][f[k - 1]]
    BY <1>4 DEF Steps
  <2> QED
    BY <1>6, <1>7, <2>1, <2>2
<1>9. Steps(n, SumStep(t), h)
  BY <1>1, <1>5 DEF Steps
<1>10. \A k \in 0..n : f[k] = h[k]
  <2>1. f[0] = h[0]
    BY <1>4, <1>5
  <2>2. n \in Nat
    BY <1>1
  <2> QED
    BY <1>8, <1>9, <2>1, <2>2, MadeAlike, Zenon
<1>11. f[n] = h[n] /\ f[n] \in Int
  BY <1>1, <1>4, <1>10
<1>12. n + 1 \in 1..(n + 1) /\ (n + 1) - 1 = n
  BY <1>1
<1>13. h[n + 1] = SumStep(t)[n + 1][h[n]]
  BY <1>5, <1>12 DEF Steps
<1>14. SumStep(t)[n + 1][f[n]] = f[n] + c
  BY <1>1, <1>6, <1>11, <1>12
<1> QED
  BY <1>3, <1>11, <1>13, <1>14, Zenon DEF t

-----------------------------------------------------------------------------
\* Digits.
Figure == {"0", "1", "2", "3", "4", "5", "6", "7", "8", "9"}

\* A digit is one of the ten, and counts as its place says.
LEMMA DigitsAre ==
  /\ \A t : IsDigit(t) <=> t \in Figure
  /\ \A t : DigitOf(t) \in Int
  /\ \A t \in Figure : DigitOf(t) \in 0..9
  /\ \A k \in 0..9 : Numeral[k + 1] \in Figure /\ DigitOf(Numeral[k + 1]) = k
<1>1. /\ Len(Numeral) = 10
      /\ Numeral[1] = "0" /\ Numeral[2] = "1" /\ Numeral[3] = "2" /\ Numeral[4] = "3"
      /\ Numeral[5] = "4" /\ Numeral[6] = "5" /\ Numeral[7] = "6" /\ Numeral[8] = "7"
      /\ Numeral[9] = "8" /\ Numeral[10] = "9"
  BY DEF Numeral
<1>2. \A i \in 1..10 : i = 1 \/ i = 2 \/ i = 3 \/ i = 4 \/ i = 5 \/ i = 6 \/ i = 7 \/ i = 8
                         \/ i = 9 \/ i = 10
  OBVIOUS
<1>3. \A t : IsDigit(t) <=> t \in Figure
  <2>1. \A t : IsDigit(t) <=> \E i \in 1..10 : Numeral[i] = t
    BY <1>1 DEF IsDigit, Contains
  <2> QED
    BY <1>1, <1>2, <2>1 DEF Figure
<1>4. ASSUME NEW t
      PROVE  \/ Position(Numeral, t) = 0 /\ \A k \in 1..10 : Numeral[k] # t
             \/ Position(Numeral, t) \in 1..10 /\ Numeral[Position(Numeral, t)] = t
  <2>1. Len(Numeral) \in Nat
    BY <1>1
  <2>2. \/ Position(Numeral, t) = 0 /\ \A k \in 1..Len(Numeral) : Numeral[k] # t
        \/ /\ Position(Numeral, t) \in 1..Len(Numeral)
           /\ Numeral[Position(Numeral, t)] = t
           /\ \A k \in 1..Len(Numeral) : Numeral[k] = t => Position(Numeral, t) <= k
    BY <2>1, PositionIsFirst, Zenon
  <2> QED
    BY <1>1, <2>2, Zenon
<1>5. \A t : DigitOf(t) \in Int
  BY <1>4 DEF DigitOf
<1>6. ASSUME NEW t \in Figure
      PROVE  DigitOf(t) \in 0..9
  <2>1. \E i \in 1..10 : Numeral[i] = t
    BY <1>1 DEF Figure
  <2>2. Position(Numeral, t) \in 1..10
    BY <1>4, <2>1
  <2> QED
    BY <2>2 DEF DigitOf
<1>7. ASSUME NEW k \in 0..9
      PROVE  Numeral[k + 1] \in Figure /\ DigitOf(Numeral[k + 1]) = k
  <2>1. k + 1 \in 1..10
    OBVIOUS
  <2>2. Numeral[k + 1] \in Figure
    BY <1>1, <1>2, <2>1 DEF Figure
  <2>3. \A i, j \in 1..10 : Numeral[i] = Numeral[j] => i = j
    BY <1>1, <1>2
  <2>4. Position(Numeral, Numeral[k + 1]) = k + 1
    BY <1>4, <2>1, <2>3
  <2> QED
    BY <2>2, <2>4 DEF DigitOf
<1> QED
  BY <1>3, <1>5, <1>6, <1>7

LEMMA DigitIsNumber ==
  ASSUME NEW t, IsDigit(t)
  PROVE  t \in Figure /\ DigitOf(t) \in Nat /\ DigitOf(t) \in 0..9
<1>1. t \in Figure
  BY DigitsAre
<1>2. DigitOf(t) \in 0..9
  BY <1>1, DigitsAre
<1> QED
  BY <1>1, <1>2

-----------------------------------------------------------------------------
\* The characters of a text that are in a set.
Picked(word, K) == FlattenSeq([i \in DOMAIN word |-> IF word[i] \in K THEN <<word[i]>> ELSE <<>>])

LEMMA PickedNone == \A K : Picked(<<>>, K) = <<>>
BY DEF Picked, FlattenSeq

\* One more character is picked if it is in the set.
LEMMA PickedMore ==
  ASSUME NEW S, NEW u \in Seq(S), NEW c \in S, NEW K
  PROVE  Picked(Append(u, c), K) = Picked(u, K) \o (IF c \in K THEN <<c>> ELSE <<>>)
<1> DEFINE v == Append(u, c)
           part(w) == [i \in DOMAIN w |-> IF w[i] \in K THEN <<w[i]>> ELSE <<>>]
           last == IF c \in K THEN <<c>> ELSE <<>>
<1>1. /\ v \in Seq(S) /\ Len(u) \in Nat /\ Len(v) = Len(u) + 1
      /\ DOMAIN u = 1..Len(u) /\ DOMAIN v = 1..(Len(u) + 1)
      /\ \A i \in 1..Len(u) : v[i] = u[i] /\ u[i] \in S
      /\ v[Len(u) + 1] = c
  OBVIOUS
<1>2. \A w : Picked(w, K) = FlattenSeq(part(w))
  BY Zenon DEF Picked
<1> HIDE DEF v
<1>3. \A w \in Seq(S) : part(w) \in Seq(Seq(S)) /\ Len(part(w)) = Len(w)
  <2> TAKE w \in Seq(S)
  <2>1. DOMAIN w = 1..Len(w) /\ Len(w) \in Nat /\ \A i \in 1..Len(w) : w[i] \in S
    OBVIOUS
  <2>2. \A i \in 1..Len(w) : (IF w[i] \in K THEN <<w[i]>> ELSE <<>>) \in Seq(S)
    BY <2>1
  <2> QED
    BY <2>1, <2>2
<1>4. last \in Seq(S)
  OBVIOUS
<1>5. part(v) = Append(part(u), last)
  <2>1. part(v)[Len(u) + 1] = last
    BY <1>1
  <2>2. \A i \in 1..Len(u) : part(v)[i] = part(u)[i]
    <3> TAKE i \in 1..Len(u)
    <3>1. i \in 1..(Len(u) + 1)
      BY <1>1
    <3> QED
      BY <1>1, <3>1
  <2>3. /\ part(u) \in Seq(Seq(S)) /\ part(v) \in Seq(Seq(S))
        /\ Len(part(u)) = Len(u) /\ Len(part(v)) = Len(u) + 1
    BY <1>1, <1>3
  <2> HIDE DEF part, last
  <2>4. /\ Len(Append(part(u), last)) = Len(part(u)) + 1
        /\ \A i \in 1..Len(part(u)) : Append(part(u), last)[i] = part(u)[i]
        /\ Append(part(u), last)[Len(part(u)) + 1] = last
    BY <1>4, <2>3, AppendIs, Zenon
  <2>5. Append(part(u), last) \in Seq(Seq(S))
    BY <1>4, <2>3
  <2>6. \A i \in 1..(Len(u) + 1) : i \in 1..Len(u) \/ i = Len(u) + 1
    BY <1>1
  <2>7. \A i \in 1..(Len(u) + 1) : part(v)[i] = Append(part(u), last)[i]
    BY <2>1, <2>2, <2>3, <2>4, <2>6, Zenon
  <2> QED
    BY <2>3, <2>4, <2>5, <2>7, SeqEqual, Zenon
<1>6. FlattenSeq(Append(part(u), last)) = FlattenSeq(part(u)) \o last
  <2>1. part(u) \in Seq(Seq(S))
    BY <1>3
  <2> HIDE DEF part, last
  <2> QED
    BY <1>4, <2>1, FlattenMore
<1>7. Picked(v, K) = Picked(u, K) \o last
  <2> HIDE DEF part, last
  <2> QED
    BY <1>2, <1>5, <1>6, Zenon
<1> QED
  BY <1>7 DEF v

LEMMA PickedIsText ==
  ASSUME NEW S, NEW K
  PROVE  \A w \in Seq(S) : Picked(w, K) \in Seq(S \cap K)
<1> DEFINE T == {w \in Seq(S) : Picked(w, K) \in Seq(S \cap K)}
<1>1. <<>> \in T
  <2>1. <<>> \in Seq(S) /\ <<>> \in Seq(S \cap K)
    OBVIOUS
  <2> QED
    BY <2>1, PickedNone
<1>2. ASSUME NEW u \in Seq(S), NEW c \in S, u \in T
      PROVE  Append(u, c) \in T
  <2>1. Picked(Append(u, c), K) = Picked(u, K) \o (IF c \in K THEN <<c>> ELSE <<>>)
    BY PickedMore
  <2>2. Picked(u, K) \in Seq(S \cap K)
    BY <1>2
  <2>3. Picked(Append(u, c), K) \in Seq(S \cap K)
    <3>1. CASE c \in K
      <4>1. <<c>> \in Seq(S \cap K)
        BY <3>1
      <4> QED
        BY <2>1, <2>2, <3>1, <4>1, ConcatProperties, Zenon
    <3>2. CASE c \notin K
      <4>1. <<>> \in Seq(S \cap K)
        OBVIOUS
      <4> QED
        BY <2>1, <2>2, <3>2, <4>1, ConcatProperties, Zenon
    <3> QED
      BY <3>1, <3>2
  <2>4. Append(u, c) \in Seq(S)
    OBVIOUS
  <2> QED
    BY <2>3, <2>4
<1> HIDE DEF T
<1>3. \A w \in Seq(S) : w \in T
  BY <1>1, <1>2, AllTexts
<1> QED
  BY <1>3 DEF T

LEMMA PickedInText ==
  ASSUME NEW S, NEW K, NEW w \in Seq(S)
  PROVE  Picked(w, K) \in Seq(S)
<1>1. Picked(w, K) \in Seq(S \cap K)
  BY PickedIsText
<1> HIDE DEF Picked
<1> QED
  BY <1>1

\* What is picked from two texts is picked from each.
LEMMA PickedBoth ==
  ASSUME NEW S, NEW K, NEW u \in Seq(S)
  PROVE  \A v \in Seq(S) : Picked(u \o v, K) = Picked(u, K) \o Picked(v, K)
<1> DEFINE T == {v \in Seq(S) : Picked(u \o v, K) = Picked(u, K) \o Picked(v, K)}
<1>0. \A w \in Seq(S) : Picked(w, K) \in Seq(S)
  BY PickedInText
<1>1. <<>> \in T
  <2>1. Picked(u, K) \in Seq(S) /\ <<>> \in Seq(S)
    BY <1>0
  <2>2. u \o <<>> = u /\ Picked(u, K) \o <<>> = Picked(u, K)
    BY <2>1, ConcatEmptySeq
  <2> QED
    BY <2>1, <2>2, PickedNone
<1>2. ASSUME NEW v \in Seq(S), NEW c \in S, v \in T
      PROVE  Append(v, c) \in T
  <2> DEFINE last == IF c \in K THEN <<c>> ELSE <<>>
  <2>1. u \o Append(v, c) = Append(u \o v, c) /\ u \o v \in Seq(S) /\ last \in Seq(S)
        /\ Append(v, c) \in Seq(S)
    OBVIOUS
  <2> HIDE DEF last
  <2>2. Picked(Append(u \o v, c), K) = Picked(u \o v, K) \o last
    <3> DEFINE w == u \o v
    <3>1. w \in Seq(S)
      BY <2>1
    <3> HIDE DEF w
    <3>2. Picked(Append(w, c), K) = Picked(w, K) \o last
      BY <3>1, PickedMore DEF last
    <3> QED
      BY <3>2 DEF w
  <2>3. Picked(Append(v, c), K) = Picked(v, K) \o last
    BY PickedMore DEF last
  <2>4. Picked(u, K) \in Seq(S) /\ Picked(v, K) \in Seq(S)
    BY <1>0
  <2>5. (Picked(u, K) \o Picked(v, K)) \o last = Picked(u, K) \o (Picked(v, K) \o last)
    <3> DEFINE a == Picked(u, K)
               b == Picked(v, K)
    <3>1. a \in Seq(S) /\ b \in Seq(S) /\ last \in Seq(S)
      BY <2>1, <2>4
    <3> HIDE DEF a, b
    <3>2. (a \o b) \o last = a \o (b \o last)
      BY SMTT(30), <3>1, ConcatAssociative
    <3> QED
      BY <3>2 DEF a, b
  <2>6. Picked(u \o v, K) = Picked(u, K) \o Picked(v, K)
    BY <1>2
  <2> QED
    BY <2>1, <2>2, <2>3, <2>5, <2>6, Zenon
<1> HIDE DEF T
<1>3. \A w \in Seq(S) : w \in T
  BY <1>1, <1>2, AllTexts
<1> QED
  BY <1>3 DEF T

\* What is picked is in the text.
LEMMA PickedAlike ==
  ASSUME NEW S, NEW w \in Seq(S), NEW K, NEW L, \A i \in 1..Len(w) : w[i] \in K <=> w[i] \in L
  PROVE  Picked(w, K) = Picked(w, L)
<1>1. [i \in DOMAIN w |-> IF w[i] \in K THEN <<w[i]>> ELSE <<>>]
        = [i \in DOMAIN w |-> IF w[i] \in L THEN <<w[i]>> ELSE <<>>]
  <2>1. \A i \in DOMAIN w : w[i] \in K <=> w[i] \in L
    OBVIOUS
  <2> QED
    BY <2>1
<1> QED
  BY <1>1, Zenon DEF Picked

\* What is in the text and in the set is picked.
LEMMA PickedHas ==
  ASSUME NEW S, NEW K, NEW c \in K
  PROVE  \A w \in Seq(S) : (\E i \in 1..Len(w) : w[i] = c) =>
           \E i \in 1..Len(Picked(w, K)) : Picked(w, K)[i] = c
<1> DEFINE Has(w) == \E i \in 1..Len(w) : w[i] = c
           T == {w \in Seq(S) : Has(w) => Has(Picked(w, K))}
<1>1. <<>> \in T
  OBVIOUS
<1>2. ASSUME NEW u \in Seq(S), NEW d \in S, u \in T
      PROVE  Append(u, d) \in T
  <2> DEFINE last == IF d \in K THEN <<d>> ELSE <<>>
             p == Picked(u, K)
  <2>1. Picked(Append(u, d), K) = p \o last
    BY PickedMore
  <2>2. p \in Seq(S) /\ last \in Seq(S)
    BY PickedInText
  <2>3. Has(Append(u, d)) => Has(u) \/ d = c
    <3>1. /\ Len(Append(u, d)) = Len(u) + 1 /\ Len(u) \in Nat
          /\ \A i \in 1..Len(u) : Append(u, d)[i] = u[i]
          /\ Append(u, d)[Len(u) + 1] = d
      OBVIOUS
    <3>2. \A i \in 1..(Len(u) + 1) : i \in 1..Len(u) \/ i = Len(u) + 1
      BY <3>1
    <3> QED
      BY <3>1, <3>2
  <2> HIDE DEF p
  <2>4. Has(p) => Has(p \o last)
    <3>1. \A i \in 1..Len(p) : i \in 1..Len(p \o last) /\ (p \o last)[i] = p[i]
      BY <2>2
    <3> QED
      BY <3>1, Zenon
  <2>5. d = c => Has(p \o last)
    <3> SUFFICES ASSUME d = c
                 PROVE  Has(p \o <<d>>)
      OBVIOUS
    <3>1. Len(p) + 1 \in 1..Len(p \o <<d>>) /\ (p \o <<d>>)[Len(p) + 1] = d
      BY <2>2
    <3> QED
      BY <3>1
  <2> QED
    <3>1. Append(u, d) \in Seq(S)
      OBVIOUS
    <3>2. Has(u) => Has(p)
      BY <1>2 DEF p
    <3>3. Has(Append(u, d)) => Has(Picked(Append(u, d), K))
      <4> HIDE DEF Has
      <4> QED
        BY <2>1, <2>3, <2>4, <2>5, <3>2
    <3> QED
      BY <3>1, <3>3
<1> HIDE DEF T
<1>3. \A w \in Seq(S) : w \in T
  BY <1>1, <1>2, AllTexts
<1> QED
  BY <1>3 DEF T

-----------------------------------------------------------------------------
\* The digits of a text, without what stands between them.
Core(word) == Picked(word, Figure)

LEMMA CoreIs ==
  /\ Core(<<>>) = <<>>
  /\ \A S : \A w \in Seq(S) : Core(w) \in Seq(Figure)
<1>1. ASSUME NEW S, NEW w \in Seq(S)
      PROVE  Core(w) \in Seq(Figure)
  <2>1. Core(w) \in Seq(S \cap Figure)
    BY PickedIsText DEF Core
  <2> QED
    BY <2>1
<1> QED
  BY <1>1, PickedNone DEF Core

LEMMA CoreMore ==
  ASSUME NEW S, NEW u \in Seq(S), NEW c \in S
  PROVE  Core(Append(u, c)) = IF IsDigit(c) THEN Append(Core(u), c) ELSE Core(u)
<1> DEFINE p == Core(u)
<1>1. Core(Append(u, c)) = p \o (IF c \in Figure THEN <<c>> ELSE <<>>)
  BY PickedMore DEF Core
<1>2. p \in Seq(Figure)
  BY CoreIs
<1> HIDE DEF p
<1>3. CASE IsDigit(c)
  <2>1. c \in Figure
    BY <1>3, DigitsAre
  <2>2. p \o <<c>> = Append(p, c)
    BY <1>2, <2>1
  <2> QED
    BY <1>1, <1>3, <2>1, <2>2 DEF p
<1>4. CASE ~IsDigit(c)
  <2>1. c \notin Figure
    BY <1>4, DigitsAre
  <2>2. p \o <<>> = p
    BY <1>2, ConcatEmptySeq
  <2> QED
    BY <1>1, <1>4, <2>1, <2>2 DEF p
<1> QED
  BY <1>3, <1>4

-----------------------------------------------------------------------------
\* Digits are counted by a natural number.
LEMMA CountIs ==
  ASSUME NEW S, NEW w \in Seq(S), NEW a \in Nat, NEW b \in Nat
  PROVE  Count(w, a..b) \in Nat /\ IsFiniteSet({i \in a..b : IsDigit(w[i])})
<1>1. IsFiniteSet(a..b)
  BY FS_Interval
<1>2. {i \in a..b : IsDigit(w[i])} \subseteq a..b
  OBVIOUS
<1>3. IsFiniteSet({i \in a..b : IsDigit(w[i])})
  BY <1>1, <1>2, FS_Subset, Zenon
<1> QED
  BY <1>3, FS_CardinalityType DEF Count

\* One more character is counted if it is a digit.
LEMMA CountMore ==
  ASSUME NEW S, NEW u \in Seq(S), NEW c \in S, NEW i \in 1..(Len(u) + 1)
  PROVE  Count(Append(u, c), i..(Len(u) + 1)) =
           Count(u, i..Len(u)) + (IF IsDigit(c) THEN 1 ELSE 0)
<1> DEFINE v == Append(u, c)
           n == Len(u)
           A == {k \in i..n : IsDigit(u[k])}
           B == {k \in i..(n + 1) : IsDigit(v[k])}
<1>1. n \in Nat /\ v[n + 1] = c /\ \A k \in 1..n : v[k] = u[k]
  OBVIOUS
<1>2. Cardinality(A) \in Nat /\ IsFiniteSet(A)
  BY CountIs, FS_CardinalityType
<1>3. Count(v, i..(n + 1)) = Cardinality(B) /\ Count(u, i..n) = Cardinality(A)
  BY Zenon DEF Count
<1> HIDE DEF v, n
<1>4. B = A \cup (IF IsDigit(c) THEN {n + 1} ELSE {})
  <2>1. i..(n + 1) = (i..n) \cup {n + 1} /\ i..n \subseteq 1..n
    BY <1>1 DEF n
  <2>2. \A k \in i..n : v[k] = u[k]
    BY <1>1, <2>1
  <2> QED
    BY <1>1, <2>1, <2>2
<1>5. n + 1 \notin A
  BY <1>1
<1> HIDE DEF A, B
<1>6. CASE IsDigit(c)
  <2>1. B = A \cup {n + 1}
    BY <1>4, <1>6
  <2>2. Cardinality(B) = Cardinality(A) + 1
    BY <1>2, <1>5, <2>1, FS_AddElement
  <2> QED
    BY <1>3, <1>6, <2>2 DEF v, n
<1>7. CASE ~IsDigit(c)
  <2>1. B = A
    BY <1>4, <1>7
  <2> QED
    BY <1>2, <1>3, <1>7, <2>1 DEF v, n
<1> QED
  BY <1>6, <1>7

\* The characters before it are counted as they were.
LEMMA CountStays ==
  ASSUME NEW S, NEW u \in Seq(S), NEW c \in S, NEW i \in 0..Len(u)
  PROVE  Count(Append(u, c), 1..i) = Count(u, 1..i)
<1>1. \A k \in 1..i : Append(u, c)[k] = u[k]
  OBVIOUS
<1>2. {k \in 1..i : IsDigit(Append(u, c)[k])} = {k \in 1..i : IsDigit(u[k])}
  BY <1>1, Zenon
<1> QED
  BY <1>2, Zenon DEF Count

LEMMA CountNone == \A w : \A n \in Nat : Count(w, (n + 1)..n) = 0
<1>1. \A w : \A n \in Nat : {k \in (n + 1)..n : IsDigit(w[k])} = {}
  OBVIOUS
<1> QED
  BY <1>1, FS_EmptySet, Zenon DEF Count

\* There are as many digits as are counted.
LEMMA CoreCounted ==
  ASSUME NEW S
  PROVE  \A w \in Seq(S) : Len(Core(w)) = Count(w, DOMAIN w)
<1> DEFINE T == {w \in Seq(S) : Len(Core(w)) = Count(w, 1..Len(w))}
<1>1. <<>> \in T
  <2>1. Count(<<>>, 1..0) = 0
    BY CountNone
  <2>2. Len(<<>>) = 0 /\ <<>> \in Seq(S)
    OBVIOUS
  <2>3. Len(Core(<<>>)) = Count(<<>>, 1..Len(<<>>))
    BY <2>1, <2>2, CoreIs, Zenon
  <2> QED
    BY <2>2, <2>3, Zenon
<1>2. ASSUME NEW u \in Seq(S), NEW c \in S, u \in T
      PROVE  Append(u, c) \in T
  <2>1. Core(Append(u, c)) = IF IsDigit(c) THEN Append(Core(u), c) ELSE Core(u)
    BY CoreMore
  <2>2. Core(u) \in Seq(Figure) /\ (IsDigit(c) => c \in Figure)
    BY CoreIs, DigitsAre
  <2>3. Len(Append(u, c)) = Len(u) + 1 /\ 1 \in 1..(Len(u) + 1) /\ Append(u, c) \in Seq(S)
    OBVIOUS
  <2>4. Count(Append(u, c), 1..(Len(u) + 1)) = Count(u, 1..Len(u)) + (IF IsDigit(c) THEN 1 ELSE 0)
    BY <2>3, CountMore
  <2>5. Len(Core(u)) = Count(u, 1..Len(u))
    BY <1>2
  <2>6. IsDigit(c) => Len(Append(Core(u), c)) = Len(Core(u)) + 1
    BY <2>2
  <2>7. Len(Core(u)) \in Nat
    BY <2>2
  <2>8. Len(Core(Append(u, c))) = Count(Append(u, c), 1..Len(Append(u, c)))
    BY <2>1, <2>3, <2>4, <2>5, <2>6, <2>7
  <2> QED
    BY <2>3, <2>8, Zenon
<1> HIDE DEF T
<1>3. \A w \in Seq(S) : w \in T
  BY <1>1, <1>2, AllTexts
<1>4. \A w \in Seq(S) : DOMAIN w = 1..Len(w)
  OBVIOUS
<1> QED
  BY <1>3, <1>4, Zenon DEF T

-----------------------------------------------------------------------------
LEMMA TotalNone == Total(<<>>) = 0 /\ NumberOf(<<>>) = 0
<1>1. \A k \in 1..Len(<<>>) : FALSE
  OBVIOUS
<1>2. Len(<<>>) \in Nat /\ Len(<<>>) = 0
  OBVIOUS
<1>3. Sums(<<>>)[0] = 0 /\ Readings(<<>>)[0] = 0
  BY <1>1, <1>2, SumsIs, ReadingsIs, Zenon
<1>4. Total(<<>>) = Sums(<<>>)[Len(<<>>)] /\ NumberOf(<<>>) = Readings(<<>>)[Len(<<>>)]
  BY Zenon DEF Total, Sums, NumberOf, Readings
<1> QED
  BY <1>2, <1>3, <1>4, Zenon

LEMMA TotalIs ==
  \A s \in Seq(Nat) : Total(s) \in Nat
<1> DEFINE T == {s \in Seq(Nat) : Total(s) \in Nat}
<1>1. <<>> \in T
  BY TotalNone
<1>2. ASSUME NEW u \in Seq(Nat), NEW c \in Nat, u \in T
      PROVE  Append(u, c) \in T
  <2>1. Total(Append(u, c)) = Total(u) + c
    BY TotalMore
  <2>2. Append(u, c) \in Seq(Nat)
    OBVIOUS
  <2> QED
    BY <1>2, <2>1, <2>2
<1> HIDE DEF T
<1>3. \A s \in Seq(Nat) : s \in T
  BY <1>1, <1>2, AllTexts
<1> QED
  BY <1>3 DEF T

LEMMA ReadIs ==
  \A s \in Seq(Figure) : NumberOf(s) \in Nat
<1> DEFINE T == {s \in Seq(Figure) : NumberOf(s) \in Nat}
<1>1. <<>> \in T
  BY TotalNone
<1>2. ASSUME NEW u \in Seq(Figure), NEW c \in Figure, u \in T
      PROVE  Append(u, c) \in T
  <2>1. NumberOf(Append(u, c)) = 10 * NumberOf(u) + DigitOf(c) /\ DigitOf(c) \in 0..9
    BY ReadMore, DigitsAre
  <2>2. Append(u, c) \in Seq(Figure)
    OBVIOUS
  <2> QED
    BY <1>2, <2>1, <2>2
<1> HIDE DEF T
<1>3. \A s \in Seq(Figure) : s \in T
  BY <1>1, <1>2, AllTexts
<1> QED
  BY <1>3 DEF T

\* A sum of multiples is a multiple of the sum.
LEMMA TotalScaled ==
  ASSUME NEW m \in Nat
  PROVE  \A s \in Seq(Nat) : Total([i \in DOMAIN s |-> m * s[i]]) = m * Total(s)
<1> DEFINE Scaled(s) == [i \in DOMAIN s |-> m * s[i]]
           T == {s \in Seq(Nat) : Total(Scaled(s)) = m * Total(s)}
<1>1. <<>> \in T
  <2>1. Scaled(<<>>) = <<>> /\ <<>> \in Seq(Nat)
    OBVIOUS
  <2>2. Total(Scaled(<<>>)) = m * Total(<<>>)
    BY <2>1, TotalNone
  <2> QED
    BY <2>1, <2>2, Zenon
<1>2. ASSUME NEW u \in Seq(Nat), NEW c \in Nat, u \in T
      PROVE  Append(u, c) \in T
  <2>1. /\ Scaled(Append(u, c)) = Append(Scaled(u), m * c) /\ Scaled(u) \in Seq(Nat)
        /\ Append(u, c) \in Seq(Nat)
    BY SMTT(60)
  <2>2. Total(Append(u, c)) = Total(u) + c /\ Total(u) \in Nat
    BY TotalMore, TotalIs
  <2>3. m * c \in Nat
    OBVIOUS
  <2>4. Total(Scaled(u)) = m * Total(u)
    BY <1>2
  <2> HIDE DEF Scaled
  <2>5. Total(Append(Scaled(u), m * c)) = Total(Scaled(u)) + m * c
    <3>1. Nat \subseteq Int
      OBVIOUS
    <3> QED
      BY <2>1, <2>3, <3>1, TotalMore, Zenon
  <2>6. m * (Total(u) + c) = m * Total(u) + m * c
    BY <2>2
  <2>7. Total(Scaled(Append(u, c))) = m * Total(Append(u, c))
    BY <2>1, <2>2, <2>4, <2>5, <2>6, Zenon
  <2> QED
    BY <2>1, <2>7, Zenon
<1> HIDE DEF T
<1>3. \A s \in Seq(Nat) : s \in T
  BY <1>1, <1>2, AllTexts
<1> QED
  BY <1>3 DEF T

-----------------------------------------------------------------------------
SizeAt(word, i) ==
  IF IsDigit(word[i]) THEN DigitOf(word[i]) * TenTo(Count(word, (i + 1)..Len(word))) ELSE 0

LEMMA SizeAtIs ==
  ASSUME NEW S, NEW w \in Seq(S), NEW i \in 1..Len(w)
  PROVE  SizeAt(w, i) \in Nat
<1>1. i + 1 \in Nat /\ Len(w) \in Nat
  OBVIOUS
<1>2. Count(w, (i + 1)..Len(w)) \in Nat
  BY <1>1, CountIs
<1>3. TenTo(Count(w, (i + 1)..Len(w))) \in Nat
  BY <1>2, TenToIs
<1>4. IsDigit(w[i]) => DigitOf(w[i]) \in Nat
  BY DigitIsNumber
<1> QED
  BY <1>3, <1>4 DEF SizeAt

\* A digit behind them makes all others worth ten times as much.
LEMMA SizeMore ==
  ASSUME NEW S, NEW u \in Seq(S), NEW c \in S
  PROVE  /\ Size(u) \in Nat
         /\ Size(Append(u, c)) = IF IsDigit(c) THEN 10 * Size(u) + DigitOf(c) ELSE Size(u)
<1> DEFINE v == Append(u, c)
           n == Len(u)
           m == IF IsDigit(c) THEN 10 ELSE 1
           x == IF IsDigit(c) THEN DigitOf(c) ELSE 0
           f == [i \in DOMAIN u |-> SizeAt(u, i)]
           g == [i \in DOMAIN v |-> SizeAt(v, i)]
           h == [i \in DOMAIN f |-> m * f[i]]
<1>1. /\ n \in Nat /\ Len(v) = n + 1 /\ DOMAIN u = 1..n /\ DOMAIN v = 1..(n + 1) /\ v \in Seq(S)
      /\ v[n + 1] = c /\ \A k \in 1..n : v[k] = u[k]
  OBVIOUS
<1>2. m \in Nat /\ x \in Nat
  <2>1. IsDigit(c) => DigitOf(c) \in Nat
    BY DigitIsNumber
  <2> QED
    BY <2>1
<1>3. Size(u) = Total(f) /\ Size(v) = Total(g)
  BY Zenon DEF Size, SizeAt
<1> HIDE DEF v
<1>4. f \in Seq(Nat) /\ g \in Seq(Nat) /\ Len(f) = n /\ Len(g) = n + 1 /\ DOMAIN f = 1..n
  <2>1. \A i \in 1..n : SizeAt(u, i) \in Nat
    BY SizeAtIs
  <2>2. \A i \in 1..(n + 1) : SizeAt(v, i) \in Nat
    BY <1>1, SizeAtIs
  <2> QED
    BY <1>1, <2>1, <2>2
<1>5. ASSUME NEW i \in 1..n
      PROVE  SizeAt(v, i) = m * SizeAt(u, i)
  <2> DEFINE k == Count(u, (i + 1)..n)
  <2>1. i + 1 \in 1..(n + 1) /\ i + 1 \in Nat /\ v[i] = u[i]
    BY <1>1
  <2>2. Count(v, (i + 1)..(n + 1)) = k + (IF IsDigit(c) THEN 1 ELSE 0)
    BY <2>1, CountMore DEF v
  <2>3. k \in Nat
    BY <1>1, <2>1, CountIs
  <2> HIDE DEF k
  <2>4. TenTo(Count(v, (i + 1)..(n + 1))) = m * TenTo(k) /\ TenTo(k) \in Nat
    <3>1. TenTo(k) \in Nat /\ TenTo(k + 1) = 10 * TenTo(k)
      BY <2>3, TenToIs
    <3>2. CASE IsDigit(c)
      BY <2>2, <3>1, <3>2
    <3>3. CASE ~IsDigit(c)
      <4>1. Count(v, (i + 1)..(n + 1)) = k
        BY <2>2, <2>3, <3>3
      <4> QED
        BY <3>1, <3>3, <4>1
    <3> QED
      BY <3>2, <3>3
  <2>5. SizeAt(u, i) = IF IsDigit(u[i]) THEN DigitOf(u[i]) * TenTo(k) ELSE 0
    BY DEF SizeAt, k
  <2>6. SizeAt(v, i) = IF IsDigit(u[i]) THEN DigitOf(u[i]) * (m * TenTo(k)) ELSE 0
    BY <1>1, <2>1, <2>4 DEF SizeAt
  <2>7. DigitOf(u[i]) \in Int
    BY DigitsAre
  <2>8. \A a \in Int, b \in Nat : a * (m * b) = m * (a * b)
    OBVIOUS
  <2> HIDE DEF m
  <2> QED
    BY <1>2, <2>4, <2>5, <2>6, <2>7, <2>8
<1>6. SizeAt(v, n + 1) = x
  <2>1. Count(v, ((n + 1) + 1)..(n + 1)) = 0
    BY <1>1, CountNone
  <2>2. DigitOf(c) \in Int
    BY DigitsAre
  <2> QED
    BY <1>1, <2>1, <2>2, TenToIs DEF SizeAt
<1> HIDE DEF m, x, n
<1>7. g = Append(h, x)
  <2>1. h \in Seq(Nat) /\ Len(h) = n /\ \A i \in 1..n : h[i] = m * SizeAt(u, i)
    <3>1. DOMAIN h = 1..n /\ \A i \in 1..n : h[i] = m * f[i] /\ f[i] = SizeAt(u, i) /\ f[i] \in Nat
      BY <1>1, <1>4
    <3> HIDE DEF f
    <3> QED
      BY <1>1, <1>2, <1>4, <3>1
  <2>2. \A i \in 1..(n + 1) : g[i] = SizeAt(v, i)
    BY <1>1
  <2> HIDE DEF g, h
  <2>3. \A i \in 1..(n + 1) : i \in 1..n \/ i = n + 1
    BY <1>1
  <2>4. /\ Append(h, x) \in Seq(Nat) /\ Len(Append(h, x)) = n + 1 /\ Append(h, x)[n + 1] = x
        /\ \A i \in 1..n : Append(h, x)[i] = h[i]
    BY <1>2, <2>1
  <2>5. \A i \in 1..(n + 1) : g[i] = Append(h, x)[i]
    BY <1>5, <1>6, <2>1, <2>2, <2>3, <2>4
  <2> QED
    BY <1>4, <2>4, <2>5, SeqEqual, Zenon
<1>8. Total(h) = m * Total(f) /\ Total(f) \in Nat /\ h \in Seq(Nat)
  <2>1. h \in Seq(Nat)
    <3> HIDE DEF f
    <3>1. \A i \in 1..n : f[i] \in Nat
      BY <1>4
    <3>2. \A i \in 1..n : m * f[i] \in Nat
      BY <1>2, <3>1
    <3> QED
      BY <1>1, <1>4, <3>2
  <2> HIDE DEF f
  <2> QED
    BY <1>2, <1>4, <2>1, TotalScaled, TotalIs
<1>9. Total(g) = m * Total(f) + x
  <2> HIDE DEF h, f, g
  <2>1. Nat \subseteq Int
    OBVIOUS
  <2>2. Total(Append(h, x)) = Total(h) + x
    BY <1>2, <1>8, <2>1, TotalMore
  <2> QED
    BY <1>7, <1>8, <2>2, Zenon
<1>10. Size(v) = m * Size(u) + x /\ Size(u) \in Nat
  BY <1>3, <1>8, <1>9, Zenon
<1>11. CASE IsDigit(c)
  <2>1. m = 10 /\ x = DigitOf(c)
    BY <1>11 DEF m, x
  <2> QED
    BY <1>10, <1>11, <2>1 DEF v
<1>12. CASE ~IsDigit(c)
  <2>1. m = 1 /\ x = 0
    BY <1>12 DEF m, x
  <2> QED
    BY <1>10, <1>12, <2>1 DEF v
<1> QED
  BY <1>11, <1>12

LEMMA SizeNone == Size(<<>>) = 0 /\ Fraction(<<>>) = 0
<1>1. \A s : DOMAIN s = {} => Total(s) = Total(<<>>)
  <2>1. \A s : DOMAIN s = {} => Len(s) = 0 \/ Len(s) # 0
    OBVIOUS
  <2> QED
    BY <2>1
<1> QED
  BY TotalNone DEF Size, Fraction

\* What is read is what the digits are worth.
LEMMA SizeIsRead ==
  ASSUME NEW S
  PROVE  \A w \in Seq(S) : NumberOf(Core(w)) = Size(w)
<1> DEFINE T == {w \in Seq(S) : NumberOf(Core(w)) = Size(w)}
<1>1. <<>> \in T
  BY CoreIs, TotalNone, SizeNone
<1>2. ASSUME NEW u \in Seq(S), NEW c \in S, u \in T
      PROVE  Append(u, c) \in T
  <2>1. Core(Append(u, c)) = IF IsDigit(c) THEN Append(Core(u), c) ELSE Core(u)
    BY CoreMore
  <2>2. Size(Append(u, c)) = IF IsDigit(c) THEN 10 * Size(u) + DigitOf(c) ELSE Size(u)
    BY SizeMore
  <2>3. Core(u) \in Seq(Figure)
    BY CoreIs
  <2>4. IsDigit(c) => NumberOf(Append(Core(u), c)) = 10 * NumberOf(Core(u)) + DigitOf(c)
    BY <2>3, DigitsAre, ReadMore
  <2>5. Append(u, c) \in Seq(S) /\ NumberOf(Core(u)) = Size(u)
    BY <1>2
  <2> QED
    BY <2>1, <2>2, <2>4, <2>5
<1> HIDE DEF T
<1>3. \A w \in Seq(S) : w \in T
  BY <1>1, <1>2, AllTexts
<1> QED
  BY <1>3 DEF T

-----------------------------------------------------------------------------
Zeros(n) == [i \in 1..n |-> "0"]

LEMMA ZerosMore ==
  ASSUME NEW n \in Nat
  PROVE  Zeros(n) \in Seq(Figure) /\ Len(Zeros(n)) = n /\ Zeros(n + 1) = Append(Zeros(n), "0")
<1>1. \A k \in Nat : Zeros(k) \in Seq(Figure) /\ Len(Zeros(k)) = k
  BY DEF Zeros, Figure
<1>2. \A i \in 1..(n + 1) : i \in 1..n \/ i = n + 1
  OBVIOUS
<1>3. /\ \A i \in 1..n : Zeros(n)[i] = "0"
      /\ \A i \in 1..(n + 1) : Zeros(n + 1)[i] = "0"
  BY DEF Zeros
<1>4. Zeros(n + 1) \in Seq(Figure) /\ Len(Zeros(n + 1)) = n + 1
  BY <1>1
<1>5. "0" \in Figure
  BY DEF Figure
<1>6. /\ Append(Zeros(n), "0") \in Seq(Figure) /\ Len(Append(Zeros(n), "0")) = n + 1
      /\ \A i \in 1..n : Append(Zeros(n), "0")[i] = Zeros(n)[i]
      /\ Append(Zeros(n), "0")[n + 1] = "0"
  BY <1>1, <1>5
<1>7. \A i \in 1..(n + 1) : Zeros(n + 1)[i] = Append(Zeros(n), "0")[i]
  BY <1>2, <1>3, <1>6
<1>8. Zeros(n + 1) = Append(Zeros(n), "0")
  BY <1>4, <1>6, <1>7, SeqEqual, Zenon
<1> QED
  BY <1>1, <1>8

\* Zeros behind a number multiply it by ten each.
LEMMA ReadZeros ==
  ASSUME NEW s \in Seq(Figure)
  PROVE  \A n \in Nat : NumberOf(s \o Zeros(n)) = NumberOf(s) * TenTo(n)
<1> DEFINE N == {n \in Nat : NumberOf(s \o Zeros(n)) = NumberOf(s) * TenTo(n)}
<1>0. NumberOf(s) \in Nat /\ \A n \in Nat : TenTo(n) \in Nat
  BY ReadIs, TenToIs
<1>1. 0 \in N
  <2>1. Zeros(0) = <<>> /\ s \o <<>> = s
    BY ConcatEmptySeq DEF Zeros
  <2>2. NumberOf(s) * 1 = NumberOf(s)
    BY <1>0
  <2> QED
    BY <2>1, <2>2, TenToIs
<1>2. ASSUME NEW n \in Nat, n \in N
      PROVE  n + 1 \in N
  <2>1. Zeros(n) \in Seq(Figure) /\ "0" \in Figure /\ Zeros(n + 1) = Append(Zeros(n), "0")
    BY ZerosMore DEF Figure
  <2>2. s \o Append(Zeros(n), "0") = Append(s \o Zeros(n), "0") /\ s \o Zeros(n) \in Seq(Figure)
    BY <2>1
  <2>3. NumberOf(Append(s \o Zeros(n), "0")) = 10 * NumberOf(s \o Zeros(n)) + DigitOf("0")
    BY <2>1, <2>2, ReadMore, DigitsAre
  <2>4. DigitOf("0") = 0
    <3>1. Numeral[0 + 1] = "0" /\ 0 \in 0..9
      BY DEF Numeral
    <3>2. DigitOf(Numeral[0 + 1]) = 0
      BY <3>1, DigitsAre, Zenon
    <3> QED
      BY <3>1, <3>2
  <2>5. NumberOf(s \o Zeros(n)) = NumberOf(s) * TenTo(n) /\ TenTo(n + 1) = 10 * TenTo(n)
    BY <1>2, TenToIs
  <2>6. 10 * (NumberOf(s) * TenTo(n)) + 0 = NumberOf(s) * (10 * TenTo(n))
    BY <1>0
  <2>7. NumberOf(s \o Zeros(n + 1)) = NumberOf(s) * TenTo(n + 1)
    BY <2>1, <2>2, <2>3, <2>4, <2>5, <2>6
  <2>8. n + 1 \in Nat
    OBVIOUS
  <2> QED
    BY <2>7, <2>8, Zenon
<1> HIDE DEF N
<1>3. \A n \in Nat : n \in N
  BY <1>1, <1>2, AllNumbers
<1> QED
  BY <1>3 DEF N

-----------------------------------------------------------------------------

LEMMA DecimalsIs == Decimals \in Nat /\ Decimals # 0
BY NumberAssumption

FractionAt(word, i) ==
  IF IsDigit(word[i]) THEN DigitOf(word[i]) * TenTo(Decimals - Count(word, 1..i)) ELSE 0

\* No more digits are up to a place than are in the text.
LEMMA CountGrows ==
  ASSUME NEW S, NEW w \in Seq(S), NEW i \in 1..Len(w)
  PROVE  /\ Count(w, 1..i) \in Nat /\ Count(w, 1..Len(w)) \in Nat
         /\ Count(w, 1..i) <= Count(w, 1..Len(w))
<1> DEFINE A == {k \in 1..i : IsDigit(w[k])}
           B == {k \in 1..Len(w) : IsDigit(w[k])}
<1>1. i \in Nat /\ Len(w) \in Nat /\ 1 \in Nat
  OBVIOUS
<1>2. IsFiniteSet(B) /\ Count(w, 1..i) \in Nat /\ Count(w, 1..Len(w)) \in Nat
  BY <1>1, CountIs
<1>3. A \subseteq B
  <2>1. 1..i \subseteq 1..Len(w)
    BY <1>1
  <2> QED
    BY <2>1
<1>4. Cardinality(A) <= Cardinality(B)
  <2> HIDE DEF A, B
  <2> QED
    BY <1>2, <1>3, FS_Subset
<1> QED
  BY <1>2, <1>4 DEF Count

LEMMA FractionAtIs ==
  ASSUME NEW S, NEW w \in Seq(S), NEW i \in 1..Len(w), Count(w, 1..Len(w)) <= Decimals
  PROVE  FractionAt(w, i) \in Nat
<1>1. Decimals - Count(w, 1..i) \in Nat
  BY CountGrows, DecimalsIs
<1>2. TenTo(Decimals - Count(w, 1..i)) \in Nat
  BY <1>1, TenToIs
<1>3. IsDigit(w[i]) => DigitOf(w[i]) \in Nat
  BY DigitIsNumber
<1> QED
  BY <1>2, <1>3 DEF FractionAt

\* One more decimal leaves the others worth what they were.
LEMMA FractionMore ==
  ASSUME NEW S, NEW u \in Seq(S), NEW c \in S, Count(Append(u, c), 1..(Len(u) + 1)) <= Decimals
  PROVE  /\ Fraction(u) \in Nat
         /\ Fraction(Append(u, c)) = Fraction(u) + FractionAt(Append(u, c), Len(u) + 1)
<1> DEFINE v == Append(u, c)
           n == Len(u)
           x == FractionAt(v, n + 1)
           f == [i \in DOMAIN u |-> FractionAt(u, i)]
           g == [i \in DOMAIN v |-> FractionAt(v, i)]
<1>1. /\ n \in Nat /\ Len(v) = n + 1 /\ DOMAIN u = 1..n /\ DOMAIN v = 1..(n + 1) /\ v \in Seq(S)
      /\ v[n + 1] = c /\ \A k \in 1..n : v[k] = u[k]
      /\ n + 1 \in 1..(n + 1) /\ \A i \in 1..n : i \in 0..n /\ i \in 1..(n + 1)
  OBVIOUS
<1>2. Fraction(u) = Total(f) /\ Fraction(v) = Total(g)
  BY Zenon DEF Fraction, FractionAt
<1>3. \A i \in 1..n : FractionAt(v, i) = FractionAt(u, i)
  <2> TAKE i \in 1..n
  <2>1. Count(v, 1..i) = Count(u, 1..i)
    BY <1>1, CountStays
  <2> QED
    BY <1>1, <2>1, Zenon DEF FractionAt
<1> HIDE DEF v, x
<1>4. \A i \in 1..(n + 1) : FractionAt(v, i) \in Nat
  BY <1>1, FractionAtIs DEF v
<1>5. /\ f \in Seq(Nat) /\ Len(f) = n /\ \A i \in 1..n : f[i] = FractionAt(v, i)
      /\ g \in Seq(Nat) /\ Len(g) = n + 1 /\ \A i \in 1..(n + 1) : g[i] = FractionAt(v, i)
      /\ x \in Nat /\ x = FractionAt(v, n + 1)
  <2>1. \A i \in 1..n : FractionAt(u, i) \in Nat
    BY <1>1, <1>3, <1>4
  <2> QED
    BY <1>1, <1>3, <1>4, <2>1 DEF x
<1> HIDE DEF f, g, n
<1>6. g = Append(f, x)
  <2>1. /\ Append(f, x) \in Seq(Nat) /\ Len(Append(f, x)) = n + 1 /\ Append(f, x)[n + 1] = x
        /\ \A i \in 1..n : Append(f, x)[i] = f[i]
    BY <1>5
  <2>2. \A i \in 1..(n + 1) : i \in 1..n \/ i = n + 1
    BY <1>1
  <2>3. \A i \in 1..(n + 1) : g[i] = Append(f, x)[i]
    BY <1>5, <2>1, <2>2, Zenon
  <2> QED
    BY <1>5, <2>1, <2>3, SeqEqual, Zenon
<1>7. Total(g) = Total(f) + x /\ Total(f) \in Nat
  <2>1. Nat \subseteq Int
    OBVIOUS
  <2>2. Total(Append(f, x)) = Total(f) + x
    BY <1>5, <2>1, TotalMore
  <2> QED
    BY <1>5, <1>6, <2>2, TotalIs, Zenon
<1> QED
  BY <1>2, <1>7 DEF v, n, x

\* Decimals are worth what is read, ten times for each that is missing.
LEMMA FractionIsRead ==
  ASSUME NEW S
  PROVE  \A w \in Seq(S) : Count(w, DOMAIN w) <= Decimals =>
           Fraction(w) = NumberOf(Core(w)) * TenTo(Decimals - Count(w, DOMAIN w))
<1> DEFINE T == {w \in Seq(S) : Count(w, 1..Len(w)) <= Decimals =>
                   Fraction(w) = NumberOf(Core(w)) * TenTo(Decimals - Count(w, 1..Len(w)))}
<1>1. <<>> \in T
  <2>1. Count(<<>>, 1..0) = 0
    <3>1. Count(<<>>, (0 + 1)..0) = 0
      BY CountNone
    <3> QED
      BY <3>1
  <2>2. Len(<<>>) = 0 /\ <<>> \in Seq(S)
    OBVIOUS
  <2>3. Fraction(<<>>) = 0 /\ NumberOf(Core(<<>>)) = 0
    BY SizeNone, CoreIs, TotalNone
  <2>4. Decimals - Count(<<>>, 1..Len(<<>>)) = Decimals
    BY <2>1, <2>2, DecimalsIs
  <2>5. 0 = 0 * TenTo(Decimals)
    BY TenToIs, DecimalsIs
  <2> QED
    BY <2>2, <2>3, <2>4, <2>5
<1>2. ASSUME NEW u \in Seq(S), NEW c \in S, u \in T
      PROVE  Append(u, c) \in T
  <2> DEFINE v == Append(u, c)
             n == Len(u)
             k == Count(u, 1..n)
             e == IF IsDigit(c) THEN 1 ELSE 0
  <2>1. n \in Nat /\ Len(v) = n + 1 /\ v \in Seq(S) /\ v[n + 1] = c /\ 1 \in 1..(n + 1)
    OBVIOUS
  <2>2. Count(v, 1..(n + 1)) = k + e
    BY <2>1, CountMore
  <2>3. k \in Nat
    BY <2>1, CountIs
  <2> SUFFICES ASSUME k + e <= Decimals
               PROVE  Fraction(v) = NumberOf(Core(v)) * TenTo(Decimals - (k + e))
    BY <2>1, <2>2
  <2>4. Fraction(v) = Fraction(u) + FractionAt(v, n + 1) /\ Fraction(u) \in Nat
    BY <2>2, FractionMore
  <2>5. Fraction(u) = NumberOf(Core(u)) * TenTo(Decimals - k)
    <3>1. k <= Decimals
      BY <2>3, DecimalsIs
    <3> QED
      BY <1>2, <3>1
  <2>6. Core(v) = IF IsDigit(c) THEN Append(Core(u), c) ELSE Core(u)
    BY CoreMore
  <2>7. FractionAt(v, n + 1) = IF IsDigit(c) THEN DigitOf(c) * TenTo(Decimals - (k + e)) ELSE 0
    BY <2>1, <2>2, Zenon DEF FractionAt
  <2>8. Core(u) \in Seq(Figure) /\ NumberOf(Core(u)) \in Nat
    BY CoreIs, ReadIs
  <2> HIDE DEF v, n, k
  <2>9. CASE IsDigit(c)
    <3> DEFINE p == TenTo(Decimals - (k + 1))
               r == NumberOf(Core(u))
    <3>1. NumberOf(Core(v)) = 10 * r + DigitOf(c)
      BY <2>6, <2>8, <2>9, DigitsAre, ReadMore
    <3>2. TenTo(Decimals - k) = 10 * p /\ p \in Nat
      <4>1. Decimals - (k + 1) \in Nat /\ (Decimals - (k + 1)) + 1 = Decimals - k
        BY <2>3, <2>9, DecimalsIs
      <4> QED
        BY <4>1, TenToIs
    <3>3. DigitOf(c) \in Int /\ r \in Nat
      BY <2>8, DigitsAre
    <3>4. Fraction(v) = r * (10 * p) + DigitOf(c) * p
      BY <2>4, <2>5, <2>7, <2>9, <3>2
    <3>5. k + e = k + 1
      BY <2>9
    <3> HIDE DEF p, r
    <3>6. r * (10 * p) + DigitOf(c) * p = (10 * r + DigitOf(c)) * p
      BY <3>2, <3>3
    <3> QED
      BY <3>1, <3>4, <3>5, <3>6 DEF p
  <2>10. CASE ~IsDigit(c)
    <3>1. k + e = k /\ Core(v) = Core(u) /\ Fraction(v) = Fraction(u)
      BY <2>3, <2>4, <2>6, <2>7, <2>10
    <3> QED
      BY <2>5, <3>1
  <2> QED
    BY <2>9, <2>10
<1> HIDE DEF T
<1>3. \A w \in Seq(S) : w \in T
  BY <1>1, <1>2, AllTexts
<1>4. \A w \in Seq(S) : DOMAIN w = 1..Len(w)
  OBVIOUS
<1> QED
  BY <1>3, <1>4, Zenon DEF T

-----------------------------------------------------------------------------
LEMMA UnderscoreIsNone ==
  /\ Underscore \notin Figure /\ Underscore # "."
  /\ Underscore # "+" /\ Underscore # "-" /\ Underscore # " "
BY Zenon DEF Underscore, Figure

\* All but the underscores is left.
LEMMA UngroupedIs ==
  ASSUME NEW S, NEW w \in Seq(S)
  PROVE  Ungrouped(w) = Picked(w, S \ {Underscore}) /\ Ungrouped(w) \in Seq(S)
<1>1. [i \in DOMAIN w |-> IF w[i] = Underscore THEN <<>> ELSE <<w[i]>>]
        = [i \in DOMAIN w |-> IF w[i] \in S \ {Underscore} THEN <<w[i]>> ELSE <<>>]
  <2>1. \A i \in DOMAIN w : w[i] \in S \ {Underscore} <=> ~(w[i] = Underscore)
    OBVIOUS
  <2> QED
    BY <2>1
<1>2. Ungrouped(w) = Picked(w, S \ {Underscore})
  BY <1>1, Zenon DEF Ungrouped, Picked
<1> QED
  BY <1>2, PickedInText

LEMMA PickedOne ==
  ASSUME NEW S, NEW c \in S, NEW K, c \in K
  PROVE  Picked(<<c>>, K) = <<c>>
<1> DEFINE e == <<>>
<1>1. e \in Seq(S) /\ Append(e, c) = <<c>>
  OBVIOUS
<1>2. Picked(e, K) = <<>>
  BY PickedNone
<1> HIDE DEF e
<1>3. Picked(Append(e, c), K) = Picked(e, K) \o (IF c \in K THEN <<c>> ELSE <<>>)
  BY <1>1, PickedMore
<1>4. <<>> \o <<c>> = <<c>>
  OBVIOUS
<1> QED
  BY <1>1, <1>2, <1>3, <1>4

\* A character that is no underscore stays before what is left of a text behind it.
LEMMA UngroupedBehind ==
  ASSUME NEW S, NEW c \in S, c # Underscore, NEW v \in Seq(S)
  PROVE  Ungrouped(<<c>> \o v) = <<c>> \o Ungrouped(v)
<1> DEFINE K == S \ {Underscore}
           m == <<c>>
<1>1. \A w \in Seq(S) : Ungrouped(w) = Picked(w, K)
  BY UngroupedIs
<1>2. m \in Seq(S) /\ m \o v \in Seq(S) /\ c \in K
  OBVIOUS
<1> HIDE DEF K
<1>3. Picked(m, K) = m
  BY <1>2, PickedOne
<1> HIDE DEF m
<1>4. Picked(m \o v, K) = Picked(m, K) \o Picked(v, K)
  BY <1>2, PickedBoth, Zenon
<1>5. Ungrouped(m \o v) = m \o Ungrouped(v)
  BY <1>1, <1>2, <1>3, <1>4, Zenon
<1> QED
  BY <1>5, Zenon DEF m

\* It stays between what is left of the texts around it.
LEMMA UngroupedParts ==
  ASSUME NEW S, NEW c \in S, c # Underscore, NEW u \in Seq(S), NEW v \in Seq(S)
  PROVE  Ungrouped(Around(u, c, v)) = Around(Ungrouped(u), c, Ungrouped(v))
<1> DEFINE K == S \ {Underscore}
           m == <<c>>
           a == u \o m
<1>1. \A w \in Seq(S) : Ungrouped(w) = Picked(w, K)
  BY UngroupedIs
<1>2. m \in Seq(S) /\ a \in Seq(S) /\ a \o v \in Seq(S) /\ c \in K
  OBVIOUS
<1> HIDE DEF K
<1>3. Picked(m, K) = m
  BY <1>2, PickedOne
<1> HIDE DEF m
<1>4. Picked(u \o m, K) = Picked(u, K) \o Picked(m, K)
  BY <1>2, PickedBoth, Zenon
<1> HIDE DEF a
<1>5. Picked(a \o v, K) = Picked(a, K) \o Picked(v, K)
  BY <1>2, PickedBoth, Zenon
<1>6. Ungrouped(a \o v) = (Ungrouped(u) \o m) \o Ungrouped(v)
  BY <1>1, <1>2, <1>3, <1>4, <1>5, Zenon DEF a
<1> QED
  BY <1>6, Zenon DEF m, a, Around

\* Without the underscores there are only digits exactly if the text is grouped.
LEMMA UngroupedDigits ==
  ASSUME NEW S, NEW w \in Seq(S)
  PROVE  /\ IsGrouped(w) => Ungrouped(w) = Core(w)
         /\ IsGrouped(w) <=> \A i \in DOMAIN Ungrouped(w) : IsDigit(Ungrouped(w)[i])
<1> DEFINE K == S \ {Underscore}
           x == Ungrouped(w)
<1>1. x = Picked(w, K) /\ x \in Seq(S)
  BY UngroupedIs
<1>2. DOMAIN w = 1..Len(w) /\ DOMAIN x = 1..Len(x) /\ \A i \in 1..Len(w) : w[i] \in S
  BY <1>1
<1>3. ASSUME IsGrouped(w)
      PROVE  x = Core(w)
  <2>1. \A i \in 1..Len(w) : w[i] \in K <=> w[i] \in Figure
    <3>1. \A i \in 1..Len(w) : w[i] \in Figure \/ w[i] = Underscore
      BY <1>2, <1>3, DigitsAre DEF IsGrouped
    <3>2. Underscore \notin Figure
      BY UnderscoreIsNone
    <3> QED
      BY <1>2, <3>1, <3>2
  <2> HIDE DEF K
  <2> QED
    BY <1>1, <2>1, PickedAlike DEF Core
<1>4. ASSUME IsGrouped(w)
      PROVE  \A i \in DOMAIN x : IsDigit(x[i])
  <2>1. x \in Seq(Figure)
    BY <1>3, <1>4, CoreIs
  <2> HIDE DEF x
  <2>2. \A i \in DOMAIN x : x[i] \in Figure
    BY <2>1
  <2> QED
    BY <2>2, DigitsAre
<1>5. ASSUME NEW k \in DOMAIN w, ~IsDigit(w[k]), w[k] # Underscore
      PROVE  \E i \in DOMAIN x : ~IsDigit(x[i])
  <2>1. w[k] \in K /\ \E i \in 1..Len(w) : w[i] = w[k]
    BY <1>2, <1>5
  <2> HIDE DEF K, x
  <2>2. \E i \in 1..Len(x) : x[i] = w[k]
    <3> DEFINE d == w[k]
    <3>1. d \in K /\ \E i \in 1..Len(w) : w[i] = d
      BY <2>1
    <3> HIDE DEF d
    <3>2. \E i \in 1..Len(Picked(w, K)) : Picked(w, K)[i] = d
      BY <3>1, PickedHas
    <3> QED
      BY <1>1, <3>2, Zenon DEF d
  <2> QED
    BY <1>2, <1>5, <2>2
<1> QED
  BY <1>3, <1>4, <1>5 DEF IsGrouped

-----------------------------------------------------------------------------
\* A text is split at the first of its points.
LEMMA PointAfter ==
  ASSUME NEW S, "." \in S, NEW x \in Seq(S \ {"."}), NEW y \in Seq(S),
         NEW word, word = Around(x, ".", y)
  PROVE  Before(word, Point(word)) = x /\ After(word, Point(word)) = y
<1> DEFINE i == Len(x) + 1
<1>1. x \in Seq(S) /\ \A k \in 1..Len(x) : x[k] # "."
  OBVIOUS
<1>2. /\ Len(word) = Len(x) + 1 + Len(y) /\ Len(x) \in Nat /\ Len(y) \in Nat
      /\ word[i] = "."
      /\ \A k \in 1..Len(x) : word[k] = x[k]
  BY <1>1 DEF Around
<1>3. SplitAt(word, i, x, y)
  BY <1>1, SplitAround
<1>4. i \in 1..Len(word) /\ Len(word) \in Nat
  BY <1>2
<1>5. \A k \in 1..Len(word) : word[k] = "." => i <= k
  BY <1>1, <1>2
<1> HIDE DEF i
<1>6. /\ Position(word, ".") \in 1..Len(word) /\ word[Position(word, ".")] = "."
      /\ Position(word, ".") <= i
  BY <1>2, <1>4, PositionIsFirst
<1>7. Position(word, ".") = i
  BY <1>4, <1>5, <1>6
<1>8. Point(word) = i
  BY <1>2, <1>4, <1>7 DEF Point, Contains
<1> QED
  BY <1>3, <1>8 DEF SplitAt

\* A text without one is whole.
LEMMA NoPoint ==
  ASSUME NEW S, NEW w \in Seq(S \ {"."})
  PROVE  Before(w, Point(w)) = w /\ After(w, Point(w)) = <<>>
<1>1. Len(w) \in Nat /\ \A k \in 1..Len(w) : w[k] # "."
  OBVIOUS
<1>2. Point(w) = Len(w) + 1
  BY <1>1 DEF Point, Contains
<1>3. (Len(w) + 1) - 1 = Len(w) /\ (Len(w) + 1) + 1 > Len(w)
  BY <1>1
<1>4. SubSeq(w, 1, Len(w)) = w /\ SubSeq(w, (Len(w) + 1) + 1, Len(w)) = <<>>
  OBVIOUS
<1> QED
  BY <1>2, <1>3, <1>4 DEF Before, After

\* Every text is in one of these two forms.
LEMMA TwoForms ==
  ASSUME NEW S, NEW w \in Seq(S)
  PROVE  \/ w \in Seq(S \ {"."})
         \/ /\ "." \in S
            /\ \E x \in Seq(S \ {"."}), y \in Seq(S) : w = Around(x, ".", y)
<1> DEFINE i == Position(w, ".")
<1>1. Len(w) \in Nat /\ \A k \in 1..Len(w) : w[k] \in S
  OBVIOUS
<1>2. CASE i = 0 /\ \A k \in 1..Len(w) : w[k] # "."
  <2>1. w \in Seq(S \ {"."})
    BY <1>1, <1>2
  <2> QED
    BY <2>1
<1>3. CASE i \in 1..Len(w) /\ w[i] = "." /\ \A k \in 1..Len(w) : w[k] = "." => i <= k
  <2> DEFINE x == SubSeq(w, 1, i - 1)
             y == SubSeq(w, i + 1, Len(w))
  <2> HIDE DEF i
  <2>1. /\ x \in Seq(S) /\ Len(x) = i - 1 /\ \A k \in 1..(i - 1) : x[k] = w[k]
        /\ y \in Seq(S) /\ Len(y) = Len(w) - i /\ \A k \in 1..(Len(w) - i) : y[k] = w[i + k]
    BY <1>1, <1>3
  <2> HIDE DEF x, y
  <2>2. x \in Seq(S \ {"."})
    <3>1. \A k \in 1..Len(x) : x[k] \in S \ {"."}
      BY <1>1, <1>3, <2>1
    <3> QED
      BY <2>1, <3>1
  <2>3. "." \in S
    BY <1>1, <1>3
  <2>4. w = Around(x, ".", y)
    <3> DEFINE z == (x \o <<".">>) \o y
    <3>1. /\ z \in Seq(S) /\ Len(z) = Len(w)
          /\ \A k \in 1..Len(w) : z[k] = IF k < i THEN x[k] ELSE IF k = i THEN "." ELSE y[k - i]
      <4> DEFINE a == x \o <<".">>
      <4>1. /\ a \in Seq(S) /\ Len(a) = i
            /\ \A k \in 1..i : a[k] = IF k < i THEN x[k] ELSE "."
        BY <1>1, <1>3, <2>1, <2>3
      <4> HIDE DEF a
      <4>2. /\ a \o y \in Seq(S) /\ Len(a \o y) = Len(w)
            /\ \A k \in 1..Len(w) : (a \o y)[k] = IF k <= i THEN a[k] ELSE y[k - i]
        <5>1. Len(a) + Len(y) = Len(w) /\ Len(a) = i /\ Len(a) \in Nat /\ Len(y) \in Nat
          BY <1>1, <1>3, <2>1, <4>1
        <5>2. a \o y \in Seq(S) /\ Len(a \o y) = Len(a) + Len(y)
          BY <2>1, <4>1, ConcatProperties
        <5>3. \A k \in 1..(Len(a) + Len(y)) : (a \o y)[k] = IF k <= Len(a) THEN a[k] ELSE y[k - Len(a)]
          BY <2>1, <4>1, ConcatProperties
        <5> QED
          BY <5>1, <5>2, <5>3
      <4>3. \A k \in 1..Len(w) :
              (a \o y)[k] = IF k < i THEN x[k] ELSE IF k = i THEN "." ELSE y[k - i]
        BY <1>1, <1>3, <4>1, <4>2
      <4> QED
        BY <4>2, <4>3, Zenon DEF a
    <3> HIDE DEF z
    <3>2. \A k \in 1..Len(w) : z[k] = w[k]
      <4> TAKE k \in 1..Len(w)
      <4>1. CASE k < i
        BY <1>1, <1>3, <2>1, <3>1, <4>1
      <4>2. CASE k = i
        BY <1>1, <1>3, <2>1, <3>1, <4>2
      <4>3. CASE k > i
        <5>1. k - i \in 1..(Len(w) - i) /\ i + (k - i) = k
          BY <1>1, <1>3, <4>3
        <5>2. y[k - i] = w[k]
          BY <2>1, <5>1
        <5> QED
          BY <1>1, <1>3, <3>1, <4>3, <5>2
      <4> QED
        BY <1>1, <1>3, <4>1, <4>2, <4>3
    <3>3. w = z
      BY <3>1, <3>2, SeqEqual, Zenon
    <3> QED
      BY <3>3 DEF z, Around
  <2> QED
    BY <2>1, <2>2, <2>3, <2>4, Zenon
<1>4. \/ i = 0 /\ \A k \in 1..Len(w) : w[k] # "."
      \/ i \in 1..Len(w) /\ w[i] = "." /\ \A k \in 1..Len(w) : w[k] = "." => i <= k
  BY <1>1, PositionIsFirst
<1> QED
  BY <1>2, <1>3, <1>4

\* Underscores may be left out before or after the text is split at the point.
LEMMA UngroupedHalves ==
  ASSUME NEW S, NEW w \in Seq(S)
  PROVE  /\ Before(w, Point(w)) \in Seq(S) /\ After(w, Point(w)) \in Seq(S)
         /\ Before(Ungrouped(w), Point(Ungrouped(w))) = Ungrouped(Before(w, Point(w)))
         /\ After(Ungrouped(w), Point(Ungrouped(w))) = Ungrouped(After(w, Point(w)))
<1>1. CASE w \in Seq(S \ {"."})
  <2>1. Before(w, Point(w)) = w /\ After(w, Point(w)) = <<>>
    BY <1>1, NoPoint
  <2>2. Ungrouped(w) \in Seq(S \ {"."})
    BY <1>1, UngroupedIs
  <2>3. Before(Ungrouped(w), Point(Ungrouped(w))) = Ungrouped(w)
        /\ After(Ungrouped(w), Point(Ungrouped(w))) = <<>>
    BY <2>2, NoPoint
  <2>4. Ungrouped(<<>>) = <<>> /\ <<>> \in Seq(S)
    <3>1. <<>> \in Seq(S)
      OBVIOUS
    <3>2. Ungrouped(<<>>) = Picked(<<>>, S \ {Underscore})
      BY <3>1, UngroupedIs
    <3> QED
      BY <3>1, <3>2, PickedNone
  <2> QED
    BY <2>1, <2>3, <2>4
<1>2. CASE "." \in S /\ \E x \in Seq(S \ {"."}), y \in Seq(S) : w = Around(x, ".", y)
  <2>1. PICK x \in Seq(S \ {"."}), y \in Seq(S) : w = Around(x, ".", y)
    BY <1>2
  <2>2. x \in Seq(S)
    OBVIOUS
  <2>3. Before(w, Point(w)) = x /\ After(w, Point(w)) = y
    BY <1>2, <2>1, PointAfter
  <2>4. Ungrouped(w) = Around(Ungrouped(x), ".", Ungrouped(y))
    <3> DEFINE c == "."
    <3>1. c \in S /\ c # Underscore
      BY <1>2, UnderscoreIsNone
    <3> HIDE DEF c
    <3>2. Ungrouped(Around(x, c, y)) = Around(Ungrouped(x), c, Ungrouped(y))
      BY <2>2, <3>1, UngroupedParts
    <3> QED
      BY <2>1, <3>2 DEF c
  <2>5. Ungrouped(x) \in Seq(S \ {"."}) /\ Ungrouped(y) \in Seq(S)
    BY UngroupedIs
  <2>6. /\ Before(Ungrouped(w), Point(Ungrouped(w))) = Ungrouped(x)
        /\ After(Ungrouped(w), Point(Ungrouped(w))) = Ungrouped(y)
    <3> DEFINE n == Ungrouped(w)
               a == Ungrouped(x)
               b == Ungrouped(y)
    <3>1. a \in Seq(S \ {"."}) /\ b \in Seq(S) /\ n = Around(a, ".", b)
      BY <2>4, <2>5
    <3> HIDE DEF n, a, b
    <3>2. Before(n, Point(n)) = a /\ After(n, Point(n)) = b
      BY <1>2, <3>1, PointAfter
    <3> QED
      BY <3>2 DEF n, a, b
  <2> QED
    BY <2>2, <2>3, <2>6
<1> QED
  BY <1>1, <1>2, TwoForms

-----------------------------------------------------------------------------
(***************************************************************************)
(* Amounts.                                                                *)
(***************************************************************************)

\* Grouped digits are read as what they are worth.
LEMMA GroupIsSize ==
  ASSUME NEW S, NEW w \in Seq(S)
  PROVE  FromDecimal(Ungrouped(w)) = IF IsGrouped(w) THEN {Size(w)} \cap 0..MaxMotes ELSE {}
<1>1. CASE IsGrouped(w)
  <2>1. Ungrouped(w) = Core(w) /\ \A i \in DOMAIN Ungrouped(w) : IsDigit(Ungrouped(w)[i])
    BY <1>1, UngroupedDigits
  <2>2. NumberOf(Core(w)) = Size(w)
    BY SizeIsRead
  <2> QED
    BY <1>1, <2>1, <2>2, Zenon DEF FromDecimal
<1>2. CASE ~IsGrouped(w)
  <2>1. \E i \in DOMAIN Ungrouped(w) : ~IsDigit(Ungrouped(w)[i])
    BY <1>2, UngroupedDigits
  <2> QED
    BY <1>2, <2>1, Zenon DEF FromDecimal
<1> QED
  BY <1>1, <1>2

LEMMA SizeIs ==
  ASSUME NEW S, NEW w \in Seq(S)
  PROVE  Size(w) \in Nat
<1>1. NumberOf(Core(w)) = Size(w)
  BY SizeIsRead
<1> QED
  BY <1>1, CoreIs, ReadIs

\* Grouped digits are as many as are counted.
LEMMA GroupLength ==
  ASSUME NEW S, NEW w \in Seq(S), IsGrouped(w)
  PROVE  Len(Ungrouped(w)) = Count(w, DOMAIN w) /\ Ungrouped(w) \in Seq(Figure)
<1>1. Ungrouped(w) = Core(w)
  BY UngroupedDigits
<1> QED
  BY <1>1, CoreIs, CoreCounted

\* Decimals filled up with zeros are read as what they are worth in motes.
LEMMA PaddedIsFraction ==
  ASSUME NEW S, NEW w \in Seq(S), IsGrouped(w), Count(w, DOMAIN w) <= Decimals
  PROVE  /\ FromDecimal(Padded(Ungrouped(w))) = {Fraction(w)} \cap 0..MaxMotes
         /\ Fraction(w) \in Nat
<1> DEFINE d == Core(w)
           n == Decimals - Len(d)
           p == d \o Zeros(n)
<1>1. Ungrouped(w) = d /\ d \in Seq(Figure) /\ Len(d) = Count(w, DOMAIN w)
  BY UngroupedDigits, CoreIs, CoreCounted
<1>2. n \in Nat
  BY <1>1, DecimalsIs
<1>3. Padded(Ungrouped(w)) = p
  BY <1>1, Zenon DEF Padded, Zeros
<1>4. Zeros(n) \in Seq(Figure)
  BY <1>2, ZerosMore
<1>5. NumberOf(p) = Fraction(w)
  <2>1. NumberOf(p) = NumberOf(d) * TenTo(n)
    BY <1>1, <1>2, ReadZeros
  <2>2. Fraction(w) = NumberOf(d) * TenTo(n)
    BY <1>1, FractionIsRead, Zenon
  <2> QED
    BY <2>1, <2>2
<1> HIDE DEF d
<1>6. p \in Seq(Figure)
  <2> HIDE DEF n
  <2> QED
    BY <1>1, <1>4
<1> HIDE DEF p
<1>7. \A i \in DOMAIN p : IsDigit(p[i])
  <2>1. \A i \in DOMAIN p : p[i] \in Figure
    BY <1>6
  <2> QED
    BY <2>1, DigitsAre
<1>8. NumberOf(p) \in Nat
  BY <1>6, ReadIs
<1> QED
  BY <1>3, <1>5, <1>7, <1>8, Zenon DEF FromDecimal

\* Decimals that are not digits in groups are not read.
LEMMA PaddedIsNone ==
  ASSUME NEW S, NEW w \in Seq(S), ~IsGrouped(w), ~(Len(Ungrouped(w)) > Decimals)
  PROVE  FromDecimal(Padded(Ungrouped(w))) = {}
<1> DEFINE d == Ungrouped(w)
           n == Decimals - Len(d)
           z == Zeros(n)
           p == d \o z
<1>1. d \in Seq(S) /\ \E i \in DOMAIN d : ~IsDigit(d[i])
  BY UngroupedIs, UngroupedDigits
<1>2. Padded(d) = p
  BY Zenon DEF Padded, Zeros
<1> HIDE DEF d
<1>3. n \in Nat
  BY <1>1, DecimalsIs DEF d
<1>4. z \in Seq(Figure)
  BY <1>3, ZerosMore
<1> HIDE DEF z
<1>5. PICK i \in DOMAIN d : ~IsDigit(d[i])
  BY <1>1
<1>6. i \in DOMAIN p /\ p[i] = d[i]
  <2>1. Len(d) \in Nat /\ Len(z) \in Nat /\ i \in 1..Len(d)
    BY <1>1, <1>4, <1>5
  <2>2. Len(p) = Len(d) + Len(z) /\ DOMAIN p = 1..Len(p) /\ p[i] = d[i]
    BY <1>1, <1>4, <2>1
  <2> QED
    BY <2>1, <2>2
<1> HIDE DEF p
<1>7. \E k \in DOMAIN p : ~IsDigit(p[k])
  BY <1>5, <1>6
<1>8. FromDecimal(p) = {}
  BY <1>7, Zenon DEF FromDecimal
<1> QED
  BY <1>2, <1>8 DEF d

LEMMA MotesPerCsprIs == MotesPerCspr \in Nat /\ MotesPerCspr # 0
BY DecimalsIs, TenToIs DEF MotesPerCspr

\* The numbers of a whole part and of decimals together.
Amounts(A, B) == {w * MotesPerCspr + d : w \in A, d \in B} \cap 0..MaxMotes

\* Both are within the width if the number is.
LEMMA AmountsAre ==
  ASSUME NEW a \in Nat, NEW b \in Nat
  PROVE  Amounts({a} \cap 0..MaxMotes, {b} \cap 0..MaxMotes) = {a * MotesPerCspr + b} \cap 0..MaxMotes
<1> DEFINE m == MotesPerCspr
           x == MaxMotes
<1>0. m \in Nat /\ m # 0 /\ x \in Nat
  BY NumberAssumption, MotesPerCsprIs
<1>9. \A A, B : Amounts(A, B) = {w * m + d : w \in A, d \in B} \cap 0..x
  BY DEF Amounts
<1> HIDE DEF m, x
<1>1. a * m \in Nat /\ a <= a * m
  <2>1. m >= 1
    BY <1>0
  <2>2. a * m >= a * 1
    BY <1>0, <2>1
  <2> QED
    BY <1>0, <2>2
<1> DEFINE p == a * m
<1>2. a * m = p
  OBVIOUS
<1> HIDE DEF p
<1>3. p \in Nat /\ a <= p
  BY <1>1, <1>2
<1>4. CASE p + b <= x
  <2>1. a \in 0..x /\ b \in 0..x /\ p + b \in 0..x
    BY <1>0, <1>3, <1>4
  <2>2. {a} \cap 0..x = {a} /\ {b} \cap 0..x = {b}
    BY <2>1
  <2>3. {w * m + d : w \in {a}, d \in {b}} = {a * m + b}
    OBVIOUS
  <2> QED
    BY <1>9, <2>2, <2>3 DEF m, x
<1>5. CASE ~(p + b <= x)
  <2>1. {p + b} \cap 0..x = {}
    BY <1>0, <1>3, <1>5
  <2>2. {w * m + d : w \in {a} \cap 0..x, d \in {b} \cap 0..x} \subseteq {a * m + b}
    OBVIOUS
  <2> QED
    BY <1>9, <1>2, <2>1, <2>2 DEF m, x
<1> QED
  BY <1>4, <1>5

LEMMA NoAmounts == \A A : Amounts({}, A) = {} /\ Amounts(A, {}) = {}
BY DEF Amounts

\* An amount is what the text is worth, or nothing.
LEMMA MotesAreWorth ==
  ASSUME NEW S, NEW word, Trimmed(word) \in Seq(S)
  PROVE  Motes(word) = Worth(Trimmed(word)) \cap 0..MaxMotes
<1> DEFINE w == Trimmed(word)
           a == Before(w, Point(w))
           b == After(w, Point(w))
           x == Ungrouped(a)
           y == Ungrouped(b)
           m == MotesPerCspr
           digits(text) == Count(text, DOMAIN text)
           sums == Amounts(FromDecimal(x), FromDecimal(Padded(y)))
<1>1. /\ a \in Seq(S) /\ b \in Seq(S)
      /\ Before(Ungrouped(w), Point(Ungrouped(w))) = x
      /\ After(Ungrouped(w), Point(Ungrouped(w))) = y
  BY UngroupedHalves
<1>2. Motes(word) = IF x \o y = <<>> \/ Len(y) > Decimals THEN {} ELSE sums
  <2> DEFINE N == Ungrouped(w)
             p == Before(N, Point(N))
             q == After(N, Point(N))
  <2>1. Motes(word) = IF p \o q = <<>> \/ Len(q) > Decimals THEN {}
                      ELSE Amounts(FromDecimal(p), FromDecimal(Padded(q)))
    BY DEF Motes, Amounts
  <2>2. p = x /\ q = y
    BY <1>1
  <2> HIDE DEF p, q, x, y, m
  <2> QED
    BY <2>1, <2>2, Zenon
<1>3. Worth(w) = IF /\ IsGrouped(a) /\ IsGrouped(b)
                    /\ digits(a) + digits(b) # 0 /\ digits(b) <= Decimals
                 THEN {Size(a) * m + Fraction(b)} ELSE {}
  BY Zenon DEF Worth
<1>4. MaxMotes \in Nat /\ m \in Nat /\ m # 0 /\ Decimals \in Nat
  BY NumberAssumption, MotesPerCsprIs
<1> HIDE DEF w, a, b, m, x, y, sums
<1>5. CASE IsGrouped(a) /\ IsGrouped(b)
  <2>1. /\ x \in Seq(Figure) /\ Len(x) = digits(a)
        /\ y \in Seq(Figure) /\ Len(y) = digits(b)
    BY <1>1, <1>5, GroupLength DEF x, y
  <2>2. (x \o y = <<>>) <=> (digits(a) + digits(b) = 0)
    <3>1. /\ Len(x) \in Nat /\ Len(y) \in Nat /\ x \o y \in Seq(Figure)
          /\ Len(x \o y) = Len(x) + Len(y)
      BY <2>1
    <3>2. (x \o y = <<>>) <=> (Len(x \o y) = 0)
      BY <3>1
    <3> QED
      BY <2>1, <3>1, <3>2
  <2>3. Len(y) \in Nat
    BY <2>1
  <2>4. CASE digits(a) + digits(b) = 0 \/ ~(digits(b) <= Decimals)
    <3>1. x \o y = <<>> \/ Len(y) > Decimals
      BY <1>4, <2>1, <2>2, <2>3, <2>4
    <3>2. Motes(word) = {}
      BY <1>2, <3>1, Zenon
    <3>3. Worth(w) = {}
      BY <1>3, <2>4, Zenon
    <3> QED
      BY <3>2, <3>3 DEF w
  <2>5. CASE digits(a) + digits(b) # 0 /\ digits(b) <= Decimals
    <3>1. ~(x \o y = <<>> \/ Len(y) > Decimals)
      BY <1>4, <2>1, <2>2, <2>3, <2>5
    <3>2. Motes(word) = sums
      BY <1>2, <3>1, Zenon
    <3>3. FromDecimal(x) = {Size(a)} \cap 0..MaxMotes /\ Size(a) \in Nat
      BY <1>1, <1>5, GroupIsSize, SizeIs DEF x
    <3>4. FromDecimal(Padded(y)) = {Fraction(b)} \cap 0..MaxMotes /\ Fraction(b) \in Nat
      BY <1>1, <1>5, <2>5, PaddedIsFraction DEF y
    <3>5. Worth(w) = {Size(a) * m + Fraction(b)}
      BY <1>3, <1>5, <2>5, Zenon
    <3>6. sums = {Size(a) * m + Fraction(b)} \cap 0..MaxMotes
      <4>1. sums = Amounts({Size(a)} \cap 0..MaxMotes, {Fraction(b)} \cap 0..MaxMotes)
        BY <3>3, <3>4, Zenon DEF sums
      <4>2. Amounts({Size(a)} \cap 0..MaxMotes, {Fraction(b)} \cap 0..MaxMotes)
              = {Size(a) * m + Fraction(b)} \cap 0..MaxMotes
        BY <3>3, <3>4, AmountsAre, Zenon DEF m
      <4> QED
        BY <4>1, <4>2, Zenon
    <3> QED
      BY <3>2, <3>5, <3>6 DEF w
  <2> QED
    BY <2>4, <2>5
<1>6. CASE ~(IsGrouped(a) /\ IsGrouped(b))
  <2>1. Worth(w) = {}
    BY <1>3, <1>6, Zenon
  <2>2. CASE x \o y = <<>> \/ Len(y) > Decimals
    <3>1. Motes(word) = {}
      BY <1>2, <2>2, Zenon
    <3> QED
      BY <2>1, <3>1 DEF w
  <2>3. CASE ~(x \o y = <<>> \/ Len(y) > Decimals)
    <3>1. FromDecimal(x) = {} \/ FromDecimal(Padded(y)) = {}
      <4>1. CASE ~IsGrouped(a)
        BY <1>1, <4>1, GroupIsSize DEF x
      <4>2. CASE ~IsGrouped(b)
        BY <1>1, <2>3, <4>2, PaddedIsNone DEF y
      <4> QED
        BY <1>6, <4>1, <4>2
    <3>2. sums = {}
      BY <3>1, NoAmounts, Zenon DEF sums
    <3>3. Motes(word) = {}
      BY <1>2, <2>3, <3>2, Zenon
    <3> QED
      BY <2>1, <3>3 DEF w
  <2> QED
    BY <2>2, <2>3
<1> QED
  BY <1>5, <1>6

-----------------------------------------------------------------------------
\* A trimmed text is a text.
LEMMA TrimmedIsText ==
  ASSUME NEW S, NEW w \in Seq(S)
  PROVE  Trimmed(w) \in Seq(S)
<1>1. CASE Trimmed(w) = <<>>
  BY <1>1
<1>2. ASSUME NEW a \in 1..Len(w), NEW b \in 1..Len(w), Trimmed(w) = SubSeq(w, a, b)
      PROVE  Trimmed(w) \in Seq(S)
  <2>1. SubSeq(w, a, b) \in Seq(S)
    OBVIOUS
  <2> QED
    BY <1>2, <2>1
<1> QED
  BY <1>1, <1>2, TrimmedIs

\* A text with no space at its ends is left as it is.
LEMMA TrimmedAlready ==
  ASSUME NEW S, NEW w \in Seq(S), Len(w) # 0, Solid(w[1]), Solid(w[Len(w)])
  PROVE  Trimmed(w) = w
<1>1. Len(w) \in Nat /\ 1 \in 1..Len(w) /\ Len(w) \in 1..Len(w)
  OBVIOUS
<1>2. Ink(w)
  BY <1>1, Zenon DEF Ink, Solid
<1>3. PICK a \in 1..Len(w), b \in 1..Len(w) :
        /\ \A i \in 1..Len(w) : Solid(w[i]) => a <= i /\ i <= b
        /\ Trimmed(w) = SubSeq(w, a, b)
  BY <1>2, TrimmedIs
<1>4. a = 1 /\ b = Len(w)
  BY <1>1, <1>3
<1>5. SubSeq(w, 1, Len(w)) = w
  OBVIOUS
<1> QED
  BY <1>3, <1>4, <1>5

-----------------------------------------------------------------------------
(***************************************************************************)
(* Numbers printed.                                                        *)
(***************************************************************************)

\* A printed number, from the printed numbers that are smaller.
Printed(f, k) ==
  IF k < 10 THEN <<Numeral[k + 1]>> ELSE Append(f[k \div 10], Numeral[(k % 10) + 1])

Prints(n) ==
  LET DigitsFrom[k \in 0..n] ==
        IF k < 10 THEN <<Numeral[k + 1]>>
        ELSE Append(DigitsFrom[k \div 10], Numeral[(k % 10) + 1])
  IN DigitsFrom

LEMMA Tens ==
  ASSUME NEW k \in Nat
  PROVE  /\ k \div 10 \in Nat /\ k % 10 \in 0..9 /\ k = 10 * (k \div 10) + (k % 10)
         /\ k \div 10 <= k
         /\ k >= 10 => k \div 10 < k
OBVIOUS

LEMMA PrintIsText ==
  ASSUME NEW f, NEW k \in Nat, k >= 10 => f[k \div 10] \in Seq(Figure)
  PROVE  Printed(f, k) \in Seq(Figure)
<1>1. CASE k < 10
  <2>1. k \in 0..9
    BY <1>1
  <2>2. Numeral[k + 1] \in Figure
    BY <2>1, DigitsAre
  <2> DEFINE c == Numeral[k + 1]
  <2> HIDE DEF c
  <2>3. <<c>> \in Seq(Figure)
    BY <2>2 DEF c
  <2> QED
    BY <1>1, <2>3, Zenon DEF Printed, c
<1>2. CASE ~(k < 10)
  <2> DEFINE c == Numeral[(k % 10) + 1]
             u == f[k \div 10]
  <2>1. c \in Figure /\ u \in Seq(Figure)
    <3>1. k % 10 \in 0..9 /\ k >= 10
      BY <1>2
    <3> QED
      BY <3>1, DigitsAre, Zenon
  <2>2. Printed(f, k) = Append(u, c)
    BY <1>2, Zenon DEF Printed
  <2> HIDE DEF c, u
  <2> QED
    BY <2>1, <2>2
<1> QED
  BY <1>1, <1>2

\* The printed numbers up to a number exist.
LEMMA PrintsExist ==
  \A n \in Nat : \E f \in [0..n -> Seq(Figure)] : f = [k \in 0..n |-> Printed(f, k)]
<1> DEFINE N == {n \in Nat : \E f \in [0..n -> Seq(Figure)] : f = [k \in 0..n |-> Printed(f, k)]}
<1>1. 0 \in N
  <2> DEFINE p == Printed(<<>>, 0)
             f == [k \in 0..0 |-> p]
  <2>1. p \in Seq(Figure)
    BY PrintIsText
  <2>2. \A g : Printed(g, 0) = p
    BY DEF Printed
  <2> HIDE DEF p
  <2>3. f \in [0..0 -> Seq(Figure)]
    BY <2>1
  <2>4. \A k \in 0..0 : Printed(f, k) = p
    BY <2>2
  <2>5. f = [k \in 0..0 |-> Printed(f, k)]
    BY <2>4
  <2> HIDE DEF f
  <2> QED
    BY <2>3, <2>5
<1>2. ASSUME NEW n \in Nat, n \in N
      PROVE  n + 1 \in N
  <2>1. PICK f \in [0..n -> Seq(Figure)] : f = [k \in 0..n |-> Printed(f, k)]
    BY <1>2
  <2> DEFINE p == Printed(f, n + 1)
             h == [k \in 0..(n + 1) |-> IF k = n + 1 THEN p ELSE f[k]]
  <2>2. n + 1 \in Nat /\ (n + 1) \div 10 \in 0..n
    BY Tens
  <2>3. p \in Seq(Figure)
    <3>1. f[(n + 1) \div 10] \in Seq(Figure)
      BY <2>2
    <3> QED
      BY <2>2, <3>1, PrintIsText
  <2>4. \A k \in 0..(n + 1) : Printed(h, k) = Printed(f, k)
    <3> TAKE k \in 0..(n + 1)
    <3>1. CASE k < 10
      BY <3>1 DEF Printed
    <3>2. CASE ~(k < 10)
      <4> HIDE DEF p
      <4>1. k \div 10 \in 0..n /\ k \div 10 \in 0..(n + 1) /\ k \div 10 # n + 1
        BY <3>2, Tens
      <4>2. h[k \div 10] = f[k \div 10]
        BY <4>1
      <4> HIDE DEF h
      <4> QED
        BY <3>2, <4>2, Zenon DEF Printed
    <3> QED
      BY <3>1, <3>2
  <2>5. \A k \in 0..(n + 1) : h[k] = Printed(h, k)
    <3> TAKE k \in 0..(n + 1)
    <3>1. CASE k = n + 1
      <4>1. h[k] = p
        BY <3>1
      <4> QED
        BY <2>4, <3>1, <4>1
    <3>2. CASE k # n + 1
      <4>1. k \in 0..n /\ h[k] = f[k]
        BY <3>2
      <4>2. f[k] = Printed(f, k)
        BY <2>1, <4>1
      <4> QED
        BY <2>4, <4>1, <4>2
    <3> QED
      BY <3>1, <3>2
  <2>6. h \in [0..(n + 1) -> Seq(Figure)]
    <3> HIDE DEF p
    <3> QED
      BY <2>3
  <2>7. h = [k \in 0..(n + 1) |-> h[k]]
    OBVIOUS
  <2> HIDE DEF h
  <2>8. h = [k \in 0..(n + 1) |-> Printed(h, k)]
    BY <2>5, <2>7, Zenon
  <2> QED
    BY <2>2, <2>6, <2>8
<1> HIDE DEF N
<1>3. \A n \in Nat : n \in N
  BY <1>1, <1>2, AllNumbers
<1> QED
  BY <1>3 DEF N

LEMMA PrintsIs ==
  ASSUME NEW n \in Nat
  PROVE  \A k \in 0..n : Prints(n)[k] = Printed(Prints(n), k)
<1> DEFINE P == Prints(n)
<1>1. \E f : f = [k \in 0..n |-> Printed(f, k)]
  BY PrintsExist, Zenon
<1>2. P = [k \in 0..n |-> Printed(P, k)]
  BY <1>1, Zenon DEF Prints, Printed
<1> HIDE DEF P
<1> QED
  BY <1>2, Zenon DEF P

-----------------------------------------------------------------------------
\* A number printed with no more digits than it needs.
Good(s, k) ==
  /\ s \in Seq(Figure) /\ Len(s) # 0 /\ NumberOf(s) = k
  /\ \A m \in Nat : m # 0 /\ k < TenTo(m) => Len(s) <= m

\* A number is printed well if the tenth of it is.
LEMMA PrintIsGood ==
  ASSUME NEW f, NEW k \in Nat, k >= 10 => Good(f[k \div 10], k \div 10)
  PROVE  Good(Printed(f, k), k)
<1>1. CASE k < 10
  <2> DEFINE c == Numeral[k + 1]
             e == <<>>
             s == Append(e, c)
  <2>1. c \in Figure /\ DigitOf(c) = k
    <3>1. k \in 0..9
      BY <1>1
    <3> QED
      BY <3>1, DigitsAre
  <2>2. Printed(f, k) = s
    <3>1. Printed(f, k) = <<c>>
      BY <1>1, Zenon DEF Printed
    <3> HIDE DEF c
    <3>2. <<c>> = s
      OBVIOUS
    <3> QED
      BY <3>1, <3>2
  <2>3. e \in Seq(Figure) /\ NumberOf(e) = 0
    BY TotalNone
  <2> HIDE DEF c, e
  <2>4. NumberOf(s) = 10 * NumberOf(e) + DigitOf(c)
    BY <2>1, <2>3, ReadMore, DigitsAre
  <2>5. NumberOf(s) = k
    BY <2>1, <2>3, <2>4
  <2>6. s \in Seq(Figure) /\ Len(s) = 1
    BY <2>1, <2>3 DEF e
  <2> HIDE DEF s
  <2>7. \A m \in Nat : m # 0 => Len(s) <= m
    BY <2>6
  <2> QED
    BY <2>2, <2>5, <2>6, <2>7 DEF Good
<1>2. CASE ~(k < 10)
  <2> DEFINE q == k \div 10
             r == k % 10
             c == Numeral[r + 1]
             u == f[q]
             s == Append(u, c)
  <2>1. q \in Nat /\ r \in 0..9 /\ k = 10 * q + r
    BY Tens
  <2>2. Good(u, q)
    BY <1>2
  <2>3. Printed(f, k) = s
    BY <1>2, Zenon DEF Printed
  <2> HIDE DEF q, r
  <2>4. c \in Figure /\ DigitOf(c) = r
    BY <2>1, DigitsAre
  <2> HIDE DEF c, u
  <2>5. u \in Seq(Figure) /\ NumberOf(u) = q /\ Len(u) # 0
    BY <2>2 DEF Good
  <2>6. NumberOf(s) = 10 * NumberOf(u) + DigitOf(c)
    BY <2>4, <2>5, ReadMore, DigitsAre
  <2>7. NumberOf(s) = k
    BY <2>1, <2>4, <2>5, <2>6
  <2>8. s \in Seq(Figure) /\ Len(s) = Len(u) + 1 /\ Len(u) \in Nat
    BY <2>4, <2>5
  <2> HIDE DEF s
  <2>9. ASSUME NEW m \in Nat, m # 0, k < TenTo(m)
        PROVE  Len(s) <= m
    <3>1. TenTo(1) = 10
      <4>1. TenTo(0 + 1) = 10 * TenTo(0) /\ TenTo(0) = 1
        BY TenToIs
      <4>2. 0 + 1 = 1
        OBVIOUS
      <4>3. 10 * 1 = 10
        OBVIOUS
      <4> QED
        BY <4>1, <4>2, <4>3
    <3>2. m # 1
      BY <1>2, <2>9, <3>1
    <3> DEFINE l == m - 1
    <3>3. l \in Nat /\ l # 0 /\ l + 1 = m
      BY <2>9, <3>2
    <3> HIDE DEF l
    <3>4. TenTo(m) = 10 * TenTo(l) /\ TenTo(l) \in Nat
      BY <3>3, TenToIs
    <3>5. q < TenTo(l)
      BY <2>1, <2>9, <3>4
    <3>6. Len(u) <= l
      BY <2>2, <3>3, <3>5 DEF Good
    <3> QED
      BY <2>8, <3>3, <3>6
  <2>10. Len(s) # 0
    BY <2>8
  <2> QED
    BY <2>3, <2>7, <2>8, <2>9, <2>10 DEF Good
<1> QED
  BY <1>1, <1>2

\* Every number is printed well.
LEMMA PrintsAreGood ==
  ASSUME NEW n \in Nat
  PROVE  Good(Prints(n)[n], n)
<1> DEFINE P == Prints(n)
           N == {j \in Nat : \A k \in 0..n : k <= j => Good(P[k], k)}
<1>0. \A k \in 0..n : P[k] = Printed(P, k)
  BY PrintsIs
<1> HIDE DEF P
<1>1. 0 \in N
  <2>1. ASSUME NEW k \in 0..n, k <= 0
        PROVE  Good(P[k], k)
    <3>1. k \in Nat /\ ~(k >= 10)
      BY <2>1
    <3> QED
      BY <1>0, <3>1, PrintIsGood
  <2> QED
    BY <2>1
<1>2. ASSUME NEW j \in Nat, j \in N
      PROVE  j + 1 \in N
  <2>1. ASSUME NEW k \in 0..n, k <= j + 1
        PROVE  Good(P[k], k)
    <3>1. k \in Nat
      OBVIOUS
    <3>2. k >= 10 => Good(P[k \div 10], k \div 10)
      <4>1. k >= 10 => k \div 10 \in 0..n /\ k \div 10 <= j
        BY <2>1, <3>1, Tens
      <4> QED
        BY <1>2, <4>1
    <3> QED
      BY <1>0, <3>1, <3>2, PrintIsGood
  <2>2. j + 1 \in Nat
    OBVIOUS
  <2> QED
    BY <2>1, <2>2
<1>3. \A j \in Nat : j \in N
  <2> HIDE DEF N
  <2> QED
    BY <1>1, <1>2, AllNumbers
<1> QED
  BY <1>3 DEF P

\* Zeros before a number change nothing.
LEMMA LeadingZeros ==
  ASSUME NEW z \in Seq(Figure), NumberOf(z) = 0
  PROVE  \A s \in Seq(Figure) : NumberOf(z \o s) = NumberOf(s)
<1> DEFINE T == {s \in Seq(Figure) : NumberOf(z \o s) = NumberOf(s)}
<1>1. <<>> \in T
  <2>1. z \o <<>> = z /\ <<>> \in Seq(Figure)
    OBVIOUS
  <2> QED
    BY <2>1, TotalNone
<1>2. ASSUME NEW u \in Seq(Figure), NEW c \in Figure, u \in T
      PROVE  Append(u, c) \in T
  <2>1. z \o Append(u, c) = Append(z \o u, c) /\ z \o u \in Seq(Figure) /\ Append(u, c) \in Seq(Figure)
    OBVIOUS
  <2>2. NumberOf(Append(z \o u, c)) = 10 * NumberOf(z \o u) + DigitOf(c)
    BY <2>1, ReadMore, DigitsAre
  <2>3. NumberOf(Append(u, c)) = 10 * NumberOf(u) + DigitOf(c)
    BY ReadMore, DigitsAre
  <2>4. NumberOf(z \o u) = NumberOf(u)
    BY <1>2
  <2> QED
    BY <2>1, <2>2, <2>3, <2>4
<1> HIDE DEF T
<1>3. \A s \in Seq(Figure) : s \in T
  BY <1>1, <1>2, AllTexts
<1> QED
  BY <1>3 DEF T

\* Printed digits are read as the number, and are as many as wanted if it fits.
LEMMA DigitsReadBack ==
  ASSUME NEW n \in Nat, NEW width \in Nat
  PROVE  /\ Digits(n, width) \in Seq(Figure) /\ Len(Digits(n, width)) # 0
         /\ NumberOf(Digits(n, width)) = n
         /\ width # 0 /\ n < TenTo(width) => Len(Digits(n, width)) = width
<1> DEFINE s == Prints(n)[n]
           j == width - Len(s)
           z == Zeros(j)
<1>1. Digits(n, width) = z \o s
  BY Zenon DEF Digits, Prints, Zeros
<1>2. /\ s \in Seq(Figure) /\ Len(s) # 0 /\ NumberOf(s) = n
      /\ width # 0 /\ n < TenTo(width) => Len(s) <= width
  BY PrintsAreGood DEF Good
<1> HIDE DEF s
<1>3. CASE j \in Nat
  <2>1. z \in Seq(Figure) /\ Len(z) = j
    BY <1>3, ZerosMore
  <2>2. NumberOf(z) = 0
    <3> DEFINE e == <<>>
    <3>1. e \in Seq(Figure) /\ NumberOf(e) = 0 /\ e \o z = z
      BY <2>1, TotalNone
    <3> HIDE DEF e, z
    <3>2. NumberOf(e \o z) = NumberOf(e) * TenTo(j)
      BY <1>3, <3>1, ReadZeros DEF z
    <3>3. TenTo(j) \in Nat /\ 0 * TenTo(j) = 0
      <4>1. TenTo(j) \in Nat
        BY <1>3, TenToIs
      <4> HIDE DEF j
      <4> QED
        BY <4>1
    <3> QED
      BY <3>1, <3>2, <3>3
  <2> HIDE DEF z
  <2>3. NumberOf(z \o s) = n
    BY <1>2, <2>1, <2>2, LeadingZeros
  <2>4. z \o s \in Seq(Figure) /\ Len(z \o s) = j + Len(s) /\ Len(s) \in Nat
    BY <1>2, <2>1
  <2>5. Len(z \o s) = width
    BY <2>4
  <2> QED
    BY <1>1, <1>2, <1>3, <2>3, <2>4, <2>5
<1>4. CASE j \notin Nat
  <2>1. Len(s) \in Nat
    BY <1>2
  <2>2. j < 1 /\ Len(s) > width
    BY <1>4, <2>1
  <2>3. z = <<>>
    BY <2>1, <2>2 DEF Zeros
  <2>4. <<>> \o s = s
    BY <1>2
  <2>5. z \o s = s
    BY <2>3, <2>4
  <2> HIDE DEF j, z
  <2>6. Digits(n, width) = s
    BY <1>1, <2>5, Zenon
  <2>7. ~(width # 0 /\ n < TenTo(width))
    BY <1>2, <2>1, <2>2
  <2> QED
    BY <1>2, <2>6, <2>7
<1> QED
  BY <1>3, <1>4

\* Digits alone are their own digits.
LEMMA CoreOfDigits ==
  /\ \A s \in Seq(Figure) : Core(s) = s
  /\ \A s \in Seq(Figure) : IsGrouped(s)
<1> DEFINE T == {s \in Seq(Figure) : Core(s) = s}
<1>1. <<>> \in T
  <2>1. <<>> \in Seq(Figure)
    OBVIOUS
  <2> QED
    BY <2>1, CoreIs
<1>2. ASSUME NEW u \in Seq(Figure), NEW c \in Figure, u \in T
      PROVE  Append(u, c) \in T
  <2>1. Append(u, c) \in Seq(Figure)
    OBVIOUS
  <2>2. Core(Append(u, c)) = Append(Core(u), c)
    BY CoreMore, DigitsAre
  <2> QED
    BY <1>2, <2>1, <2>2
<1> HIDE DEF T
<1>3. \A s \in Seq(Figure) : s \in T
  BY <1>1, <1>2, AllTexts
<1>4. ASSUME NEW s \in Seq(Figure)
      PROVE  IsGrouped(s)
  <2>1. \A i \in DOMAIN s : s[i] \in Figure
    OBVIOUS
  <2> QED
    BY <2>1, DigitsAre DEF IsGrouped
<1> QED
  BY <1>3, <1>4 DEF T

\* An amount in the width that is printed is read as the same amount.
LEMMA PrintedIsWorth ==
  ASSUME NEW n \in Nat
  PROVE  Trimmed(FormatCspr(n)) \in Seq(Figure \cup {"."}) /\ Worth(Trimmed(FormatCspr(n))) = {n}
<1> DEFINE m == MotesPerCspr
           q == n \div m
           r == n % m
           a == Digits(q, 1)
           b == Digits(r, Decimals)
           t == "."
           S == Figure \cup {t}
           w == Around(a, t, b)
           digits(text) == Count(text, DOMAIN text)
<1>1. FormatCspr(n) = w
  BY Zenon DEF FormatCspr, Around
<1>2. m \in Nat /\ m # 0 /\ m = TenTo(Decimals)
  BY MotesPerCsprIs DEF MotesPerCspr
<1>3. Decimals \in Nat /\ Decimals # 0
  BY DecimalsIs
<1> HIDE DEF m
<1>4. q \in Nat /\ r \in Nat /\ r < m /\ n = q * m + r
  BY <1>2
<1> HIDE DEF q, r
<1>5. a \in Seq(Figure) /\ Len(a) # 0 /\ NumberOf(a) = q
  BY <1>4, DigitsReadBack
<1>6. b \in Seq(Figure) /\ Len(b) = Decimals /\ NumberOf(b) = r
  BY <1>2, <1>3, <1>4, DigitsReadBack
<1> HIDE DEF a, b
<1>7. t \notin Figure /\ Solid(t) /\ \A c \in Figure : Solid(c)
  <2>1. t \notin Figure
    BY DEF Figure
  <2>2. Solid(t)
    BY Zenon DEF Solid
  <2>3. \A c \in Figure : c # " "
    BY Zenon DEF Figure
  <2> QED
    BY <2>1, <2>2, <2>3, Zenon DEF Solid
<1>8. t \in S /\ a \in Seq(S) /\ b \in Seq(S) /\ a \in Seq(S \ {t})
  <2>1. \A c \in Figure : c \in S /\ c \in S \ {t}
    BY <1>7
  <2> HIDE DEF S
  <2>2. t \in S
    BY DEF S
  <2> QED
    BY <1>5, <1>6, <2>1, <2>2
<1> HIDE DEF S
<1>9. /\ w \in Seq(S) /\ Len(w) = Len(a) + 1 + Len(b) /\ Len(a) \in Nat /\ Len(b) \in Nat
      /\ w[1] = a[1] /\ w[Len(w)] = b[Len(b)]
  <2> DEFINE l == <<t>>
             p == a \o l
  <2>1. l \in Seq(S) /\ Len(l) = 1 /\ Len(a) \in Nat /\ Len(b) \in Nat
    BY <1>8
  <2> HIDE DEF t, l
  <2>2. p \in Seq(S) /\ Len(p) = Len(a) + 1 /\ p[1] = a[1]
    <3>1. a \o l \in Seq(S) /\ Len(a \o l) = Len(a) + Len(l)
      BY <1>8, <2>1, ConcatProperties
    <3>2. (a \o l)[1] = a[1]
      <4>1. 1 \in 1..(Len(a) + Len(l)) /\ 1 <= Len(a)
        BY <1>5, <2>1
      <4> QED
        BY <1>8, <2>1, <4>1, ConcatProperties
    <3> QED
      BY <2>1, <3>1, <3>2
  <2> HIDE DEF p
  <2>3. p \o b \in Seq(S) /\ Len(p \o b) = Len(p) + Len(b)
    BY <1>8, <2>2
  <2>4. (p \o b)[1] = p[1] /\ (p \o b)[Len(p) + Len(b)] = b[Len(b)]
    BY <1>3, <1>6, <1>8, <2>1, <2>2
  <2>5. w = p \o b
    BY Zenon DEF Around, p, l
  <2> QED
    BY <2>1, <2>2, <2>3, <2>4, <2>5
<1>10. Trimmed(w) = w
  <2>1. a[1] \in Figure /\ b[Len(b)] \in Figure
    BY <1>3, <1>5, <1>6
  <2>2. Len(w) # 0 /\ Solid(w[1]) /\ Solid(w[Len(w)])
    BY <1>7, <1>9, <2>1
  <2> HIDE DEF w
  <2> QED
    BY <1>9, <2>2, TrimmedAlready
<1>11. Before(w, Point(w)) = a /\ After(w, Point(w)) = b
  BY <1>8, PointAfter
<1>12. /\ IsGrouped(a) /\ IsGrouped(b) /\ Core(a) = a /\ Core(b) = b
       /\ digits(a) = Len(a) /\ digits(b) = Decimals
       /\ Size(a) = q
  BY <1>5, <1>6, CoreOfDigits, CoreCounted, SizeIsRead
<1>13. Fraction(b) = r
  <2>1. Fraction(b) = NumberOf(Core(b)) * TenTo(Decimals - Decimals)
    BY <1>3, <1>6, <1>12, FractionIsRead
  <2>2. Decimals - Decimals = 0 /\ r * 1 = r
    BY <1>3, <1>4
  <2> QED
    BY <1>6, <1>12, <2>1, <2>2, TenToIs
<1>14. Worth(w) = {Size(a) * m + Fraction(b)}
  <2>1. /\ IsGrouped(a) /\ IsGrouped(b) /\ digits(a) + digits(b) # 0 /\ digits(b) <= Decimals
    BY <1>3, <1>5, <1>9, <1>12
  <2>2. Worth(w) = IF /\ IsGrouped(a) /\ IsGrouped(b)
                      /\ digits(a) + digits(b) # 0 /\ digits(b) <= Decimals
                   THEN {Size(a) * m + Fraction(b)} ELSE {}
    <3> HIDE DEF w
    <3> QED
      BY <1>11, Zenon DEF Worth, m
  <2> QED
    BY <2>1, <2>2, Zenon
<1> QED
  BY <1>1, <1>4, <1>9, <1>10, <1>12, <1>13, <1>14, Zenon DEF S

\* Amounts are exact, for every text of characters.
LEMMA AmountsExact ==
  ASSUME NEW S, typed \in Seq(S)
  PROVE  AmountExact
<1> DEFINE w == Trimmed(typed)
<1>0. MaxMotes \in Nat /\ MaxPayment \in Nat /\ MaxPayment <= MaxMotes
  BY NumberAssumption
<1>1. Motes(typed) = Worth(w) \cap 0..MaxMotes
  BY TrimmedIsText, MotesAreWorth
<1>2. Payment(typed) = Worth(w) \cap 0..MaxPayment
  <2>1. 0..MaxPayment = 0..MaxMotes \cap 0..MaxPayment
    BY <1>0
  <2> HIDE DEF w
  <2> QED
    BY <1>1, <2>1 DEF Payment
<1>3. ASSUME NEW n \in Motes(typed)
      PROVE  Motes(FormatCspr(n)) = {n}
  <2>1. n \in 0..MaxMotes
    BY <1>1
  <2>2. n \in Nat
    BY <1>0, <2>1
  <2>3. Trimmed(FormatCspr(n)) \in Seq(Figure \cup {"."}) /\ Worth(Trimmed(FormatCspr(n))) = {n}
    BY <2>2, PrintedIsWorth
  <2>4. Motes(FormatCspr(n)) = {n} \cap 0..MaxMotes
    BY <2>3, MotesAreWorth, Zenon
  <2> QED
    BY <2>1, <2>4
<1> QED
  BY <1>1, <1>2, <1>3 DEF AmountExact

-----------------------------------------------------------------------------
(***************************************************************************)
(* Integers.                                                               *)
(***************************************************************************)
Plus == "+"
Minus == "-"

LEMMA SignsAre ==
  /\ Plus # Minus /\ Plus # Underscore /\ Minus # Underscore
  /\ ~IsDigit(Plus) /\ ~IsDigit(Minus)
<1>1. Plus # Minus /\ Plus \notin Figure /\ Minus \notin Figure
  BY Zenon DEF Plus, Minus, Figure
<1>2. Plus # Underscore /\ Minus # Underscore
  BY UnderscoreIsNone, Zenon DEF Plus, Minus
<1> QED
  BY <1>1, <1>2, DigitsAre

Half == (MaxPayment + 1) \div 2

\* The values of a text that has been normalized.
Value(n) ==
  IF n[1] = Minus THEN {0 - x : x \in FromDecimal(Tail(n))}
  ELSE FromDecimal(IF n[1] = Plus THEN Tail(n) ELSE n)

Bare(n) == IF n # <<>> /\ n[1] = Plus THEN Tail(n) ELSE n

\* What is read of all the normalized texts.
Values(word) == {Value(n) : n \in Normalized(word) \ {<<>>}}
Narrows(word) == {FromDecimal(n) : n \in Unsigned(word) \ {<<>>}}
Wides(word) == {FromDecimal(n) : n \in Unsigned(word)}

\* The readers of integers, in the words used here.
LEMMA ReadersAre ==
  ASSUME NEW word
  PROVE  /\ Signed(word) = (UNION Values(word)) \cap (0 - Half)..(Half - 1)
         /\ Unsigned(word) = {Bare(n) : n \in {x \in Normalized(word) : x = <<>> \/ x[1] # Minus}}
         /\ Narrow(word) = (UNION Narrows(word)) \cap 0..MaxPayment
         /\ Wide(word) = UNION Wides(word)
<1>1. Signed(word) = (UNION Values(word)) \cap (0 - Half)..(Half - 1)
  BY Zenon DEF Signed, Values, Value, Half, Plus, Minus
<1>2. Unsigned(word) = {Bare(n) : n \in {x \in Normalized(word) : x = <<>> \/ x[1] # Minus}}
  BY Zenon DEF Unsigned, Bare, Plus, Minus
<1>3. /\ Narrow(word) = (UNION Narrows(word)) \cap 0..MaxPayment
      /\ Wide(word) = UNION Wides(word)
  BY Zenon DEF Narrow, Wide, Narrows, Wides
<1> QED
  BY <1>1, <1>2, <1>3, Zenon

\* Nothing is read of a text that has no normal form.
LEMMA ReadNone ==
  ASSUME NEW word, Normalized(word) = {}
  PROVE  Signed(word) = {} /\ Narrow(word) = {} /\ Wide(word) = {}
<1> DEFINE N == Normalized(word)
           U == Unsigned(word)
<1>1. U = {}
  BY ReadersAre
<1>2. Signed(word) = {}
  BY ReadersAre DEF Values
<1> HIDE DEF U
<1>3. Narrow(word) = {} /\ Wide(word) = {}
  BY <1>1, ReadersAre DEF U, Narrows, Wides
<1> QED
  BY <1>2, <1>3

\* What is read of one normalized text that is not empty.
LEMMA ReadMinus ==
  ASSUME NEW word, NEW n, Normalized(word) = {n}, n # <<>>, n[1] = Minus
  PROVE  /\ Signed(word) = {0 - x : x \in FromDecimal(Tail(n))} \cap (0 - Half)..(Half - 1)
         /\ Narrow(word) = {} /\ Wide(word) = {}
<1> DEFINE V == Value(n)
           U == Unsigned(word)
<1>1. Signed(word) = V \cap (0 - Half)..(Half - 1)
  <2>1. Values(word) = {V}
    BY DEF Values
  <2>2. UNION {V} = V
    OBVIOUS
  <2> QED
    BY <2>1, <2>2, ReadersAre, Zenon
<1>2. V = {0 - x : x \in FromDecimal(Tail(n))}
  BY Zenon DEF Value
<1>3. U = {}
  <2>1. {x \in Normalized(word) : x = <<>> \/ x[1] # Minus} = {}
    OBVIOUS
  <2>2. {Bare(x) : x \in {}} = {}
    OBVIOUS
  <2> QED
    BY <2>1, <2>2, ReadersAre, Zenon
<1> HIDE DEF U, V
<1>4. Narrow(word) = {} /\ Wide(word) = {}
  BY <1>3, ReadersAre DEF U, Narrows, Wides
<1> QED
  BY <1>1, <1>2, <1>4, Zenon

\* Without one all integers are read from the same digits.
LEMMA ReadUnsigned ==
  ASSUME NEW word, NEW n, Normalized(word) = {n}, n # <<>>, n[1] # Minus,
         NEW digits, digits = Bare(n), digits # <<>>
  PROVE  /\ Signed(word) = FromDecimal(digits) \cap (0 - Half)..(Half - 1)
         /\ Narrow(word) = FromDecimal(digits) \cap 0..MaxPayment
         /\ Wide(word) = FromDecimal(digits)
<1> DEFINE V == Value(n)
           F == FromDecimal(digits)
           U == Unsigned(word)
<1>1. Signed(word) = V \cap (0 - Half)..(Half - 1)
  <2>1. Values(word) = {V}
    BY DEF Values
  <2>2. UNION {V} = V
    OBVIOUS
  <2> QED
    BY <2>1, <2>2, ReadersAre, Zenon
<1>2. V = F
  BY Zenon DEF Value, Bare
<1>3. U = {digits}
  <2>1. {x \in Normalized(word) : x = <<>> \/ x[1] # Minus} = {n}
    OBVIOUS
  <2>2. {Bare(x) : x \in {n}} = {digits}
    OBVIOUS
  <2> QED
    BY <2>1, <2>2, ReadersAre, Zenon
<1> HIDE DEF U, V
<1>4. Narrows(word) = {F} /\ Wides(word) = {F}
  BY <1>3 DEF Narrows, Wides, U
<1> HIDE DEF F
<1>5. UNION {F} = F
  OBVIOUS
<1>6. Narrow(word) = F \cap 0..MaxPayment /\ Wide(word) = F
  BY <1>4, <1>5, ReadersAre, Zenon
<1> QED
  BY <1>1, <1>2, <1>6, Zenon DEF F

\* Of no digits at all only a wide integer is read.
LEMMA ReadEmpty ==
  ASSUME NEW word, Normalized(word) = {<<>>}
  PROVE  Signed(word) = {} /\ Narrow(word) = {} /\ Wide(word) = {0}
<1> DEFINE U == Unsigned(word)
           e == <<>>
<1>1. Signed(word) = {}
  BY ReadersAre DEF Values
<1>2. U = {e}
  <2>1. {x \in Normalized(word) : x = <<>> \/ x[1] # Minus} = {e}
    OBVIOUS
  <2>2. Bare(e) = e
    BY Zenon DEF Bare
  <2>3. {Bare(x) : x \in {e}} = {e}
    BY <2>2
  <2> QED
    BY <2>1, <2>3, ReadersAre, Zenon
<1>3. FromDecimal(e) = {0}
  <2>1. NumberOf(e) = 0
    BY TotalNone
  <2>2. DOMAIN e = {}
    OBVIOUS
  <2>3. 0 \in 0..MaxMotes
    BY NumberAssumption
  <2> HIDE DEF e
  <2> QED
    BY <2>1, <2>2, <2>3 DEF FromDecimal
<1> HIDE DEF U
<1>4. Narrow(word) = {}
  BY <1>2, ReadersAre DEF U, Narrows
<1>5. Wide(word) = {0}
  <2>1. Wides(word) = {{0}}
    <3>1. Wides(word) = {FromDecimal(e)}
      <4> HIDE DEF e
      <4> QED
        BY <1>2 DEF Wides, U
    <3> QED
      BY <1>3, <3>1, Zenon
  <2>2. UNION {{0}} = {0}
    OBVIOUS
  <2> QED
    BY <2>1, <2>2, ReadersAre, Zenon
<1> QED
  BY <1>1, <1>4, <1>5

\* Within a range of the signed and of the unsigned integers.
LEMMA RangesAre ==
  /\ MaxMotes \in Nat /\ MaxPayment \in Nat /\ MaxPayment <= MaxMotes
  /\ Half \in Nat /\ Half <= MaxMotes
<1>1. MaxMotes \in Nat /\ MaxPayment \in Nat /\ MaxPayment <= MaxMotes
  BY NumberAssumption
<1>2. Half \in Nat /\ Half <= MaxPayment
  BY <1>1 DEF Half
<1> QED
  BY <1>1, <1>2

\* The width of the widest integers takes nothing from the others.
LEMMA InRange ==
  ASSUME NEW s \in Nat
  PROVE  LET F == {s} \cap 0..MaxMotes
             R == (0 - Half)..(Half - 1)
         IN /\ F \cap R = {s} \cap R
            /\ {0 - x : x \in F} \cap R = {0 - s} \cap R
            /\ F \cap 0..MaxPayment = {s} \cap 0..MaxPayment
<1> DEFINE h == Half
           m == MaxMotes
           p == MaxPayment
           F == {s} \cap 0..m
           R == (0 - h)..(h - 1)
<1>1. m \in Nat /\ p \in Nat /\ h \in Nat /\ p <= m /\ h <= m
  BY RangesAre
<1> HIDE DEF h, m, p
<1>2. F \cap R = {s} \cap R
  BY <1>1
<1>3. {0 - x : x \in F} \cap R = {0 - s} \cap R
  <2>1. CASE s \in 0..m
    <3>1. F = {s}
      BY <2>1
    <3> HIDE DEF F, R
    <3>2. {0 - x : x \in F} = {0 - s}
      BY <3>1
    <3> QED
      BY <3>2
  <2>2. CASE s \notin 0..m
    <3>1. F = {}
      BY <2>2
    <3>2. 0 - s \notin R
      BY <1>1, <2>2
    <3> HIDE DEF F, R
    <3>3. {0 - x : x \in F} = {}
      BY <3>1
    <3> QED
      BY <3>2, <3>3
  <2> QED
    BY <2>1, <2>2
<1>4. F \cap 0..p = {s} \cap 0..p
  BY <1>1
<1> QED
  BY <1>2, <1>3, <1>4, Zenon DEF h, m, p

\* A text of one token before others.
LEMMA BehindIs ==
  ASSUME NEW S, NEW w \in Seq(S), w # <<>>
  PROVE  /\ w[1] \in S /\ Tail(w) \in Seq(S) /\ w = <<w[1]>> \o Tail(w)
         /\ Len(w) \in Nat /\ Len(w) = Len(Tail(w)) + 1
         /\ \A i \in 1..Len(Tail(w)) : Tail(w)[i] = w[i + 1]
<1>1. Len(w) \in Nat /\ Len(w) # 0
  OBVIOUS
<1>2. Tail(w) \in Seq(S) /\ Len(Tail(w)) = Len(w) - 1 /\ \A i \in 1..Len(Tail(w)) : Tail(w)[i] = w[i + 1]
  BY <1>1
<1>3. w[1] \in S
  BY <1>1
<1>4. w = <<w[1]>> \o Tail(w)
  <2> DEFINE c == w[1]
             l == <<c>>
             v == Tail(w)
             z == l \o v
  <2>1. l \in Seq(S) /\ Len(l) = 1 /\ l[1] = c
    <3> HIDE DEF c
    <3> QED
      BY <1>3 DEF c
  <2> HIDE DEF l, v
  <2>2. v \in Seq(S) /\ Len(v) = Len(w) - 1 /\ \A i \in 1..Len(v) : v[i] = w[i + 1]
    BY <1>2 DEF v
  <2>3. /\ z \in Seq(S) /\ Len(z) = Len(l) + Len(v)
        /\ \A i \in 1..(Len(l) + Len(v)) : z[i] = IF i <= Len(l) THEN l[i] ELSE v[i - Len(l)]
    <3>1. l \in Seq(S) /\ v \in Seq(S)
      BY <2>1, <2>2
    <3>2. z \in Seq(S) /\ Len(z) = Len(l) + Len(v)
      BY <3>1, ConcatProperties
    <3>3. \A i \in 1..(Len(l) + Len(v)) : z[i] = IF i <= Len(l) THEN l[i] ELSE v[i - Len(l)]
      BY <3>1, ConcatProperties
    <3> QED
      BY <3>2, <3>3, Zenon
  <2> HIDE DEF z
  <2>4. ASSUME NEW i \in 1..Len(w)
        PROVE  z[i] = w[i]
    <3>1. CASE i = 1
      BY <1>1, <2>1, <2>2, <2>3, <3>1
    <3>2. CASE i # 1
      <4>1. i - 1 \in 1..Len(v) /\ (i - 1) + 1 = i
        BY <1>1, <2>2, <3>2
      <4>2. z[i] = v[i - 1]
        BY <1>1, <2>1, <2>2, <2>3, <3>2
      <4> QED
        BY <2>2, <4>1, <4>2
    <3> QED
      BY <3>1, <3>2
  <2>5. Len(z) = Len(w)
    BY <1>1, <2>1, <2>2, <2>3
  <2>6. w = z
    BY <2>3, <2>4, <2>5, SeqEqual, Zenon
  <2> QED
    BY <2>6 DEF z, l, v
<1> QED
  BY <1>1, <1>2, <1>3, <1>4

\* Something is at a wrong place in a trimmed text.
Misplaced(w) ==
  \E i \in DOMAIN w :
    ~IsDigit(w[i]) /\ w[i] # Underscore /\ ~(i = 1 /\ w[i] \in {Plus, Minus})

LEMMA NormalizedIs ==
  ASSUME NEW word
  PROVE  LET w == Trimmed(word)
             n == Ungrouped(w)
         IN Normalized(word) = IF w = <<>> \/ n \in {<<Plus>>, <<Minus>>} \/ Misplaced(w) THEN {} ELSE {n}
BY Zenon DEF Normalized, Misplaced, Plus, Minus

IsSign(c) == c \in {Plus, Minus}

\* Nothing is misplaced exactly if the digits behind the sign are grouped.
LEMMA MisplacedIs ==
  ASSUME NEW S, NEW w \in Seq(S), w # <<>>
  PROVE  /\ IsSign(w[1]) => (Misplaced(w) <=> ~IsGrouped(Tail(w)))
         /\ ~IsSign(w[1]) => (Misplaced(w) <=> ~IsGrouped(w))
<1> DEFINE v == Tail(w)
           Wrong(c) == ~IsDigit(c) /\ c # Underscore
<1>1. /\ Len(w) \in Nat /\ Len(w) = Len(v) + 1 /\ Len(v) \in Nat
      /\ DOMAIN w = 1..Len(w) /\ DOMAIN v = 1..Len(v)
      /\ \A i \in 1..Len(v) : v[i] = w[i + 1]
  BY BehindIs
<1>2. /\ Misplaced(w) <=> \E i \in 1..Len(w) : Wrong(w[i]) /\ ~(i = 1 /\ IsSign(w[i]))
      /\ IsGrouped(w) <=> ~\E i \in 1..Len(w) : Wrong(w[i])
      /\ IsGrouped(v) <=> ~\E i \in 1..Len(v) : Wrong(v[i])
  BY <1>1 DEF Misplaced, IsGrouped, IsSign
<1> HIDE DEF v, Wrong
<1>3. ASSUME IsSign(w[1])
      PROVE  Misplaced(w) <=> ~IsGrouped(v)
  <2>1. ASSUME NEW i \in 1..Len(w), Wrong(w[i]), ~(i = 1 /\ IsSign(w[i]))
        PROVE  \E j \in 1..Len(v) : Wrong(v[j])
    <3>1. i # 1
      BY <1>3, <2>1
    <3>2. i - 1 \in 1..Len(v) /\ (i - 1) + 1 = i
      BY <1>1, <3>1
    <3>3. v[i - 1] = w[i]
      BY <1>1, <3>2
    <3> QED
      BY <2>1, <3>2, <3>3
  <2>2. ASSUME NEW j \in 1..Len(v), Wrong(v[j])
        PROVE  \E i \in 1..Len(w) : Wrong(w[i]) /\ ~(i = 1 /\ IsSign(w[i]))
    <3>1. j + 1 \in 1..Len(w) /\ j + 1 # 1 /\ w[j + 1] = v[j]
      BY <1>1
    <3> QED
      BY <2>2, <3>1
  <2> QED
    BY <1>2, <2>1, <2>2
<1>4. ASSUME ~IsSign(w[1])
      PROVE  Misplaced(w) <=> ~IsGrouped(w)
  BY <1>2, <1>4
<1> QED
  BY <1>3, <1>4 DEF v

\* What the reference says of a text.
Whole(word, negative, body) ==
  IF IsGrouped(body) /\ Count(body, DOMAIN body) # 0 THEN {[negative |-> negative, size |-> Size(body)]} ELSE {}

\* The reference, by the sign.
LEMMA MeantIs ==
  ASSUME NEW w
  PROVE  /\ w = <<>> => Meant(w) = Whole(w, FALSE, w)
         /\ w # <<>> /\ w[1] = Minus => Meant(w) = Whole(w, TRUE, Tail(w))
         /\ w # <<>> /\ w[1] = Plus => Meant(w) = Whole(w, FALSE, Tail(w))
         /\ w # <<>> /\ ~IsSign(w[1]) => Meant(w) = Whole(w, FALSE, w)
<1> DEFINE signed == w # <<>> /\ w[1] \in {Plus, Minus}
           negative == signed /\ w[1] = Minus
           body == IF signed THEN Tail(w) ELSE w
<1>1. Meant(w) = Whole(w, negative, body)
  BY Zenon DEF Meant, Whole, Plus, Minus
<1>2. CASE w = <<>> \/ ~IsSign(w[1])
  <2>1. signed = FALSE /\ negative = FALSE /\ body = w
    BY <1>2, Zenon DEF IsSign
  <2>2. Meant(w) = Whole(w, FALSE, w)
    BY <1>1, <2>1, Zenon
  <2> QED
    BY <1>2, <2>2, Zenon DEF IsSign
<1>3. CASE w # <<>> /\ w[1] = Minus
  <2>1. negative = TRUE /\ body = Tail(w)
    BY <1>3, Zenon
  <2>2. Meant(w) = Whole(w, TRUE, Tail(w))
    BY <1>1, <2>1, Zenon
  <2> QED
    BY <1>3, <2>2, SignsAre, Zenon DEF IsSign
<1>4. CASE w # <<>> /\ w[1] = Plus
  <2>1. negative = FALSE /\ body = Tail(w)
    BY <1>4, SignsAre, Zenon
  <2>2. Meant(w) = Whole(w, FALSE, Tail(w))
    BY <1>1, <2>1, Zenon
  <2> QED
    BY <1>4, <2>2, SignsAre, Zenon DEF IsSign
<1> QED
  BY <1>2, <1>3, <1>4, Zenon DEF IsSign

\* The integers of the reference.
SignedMeant(M) == {IF m.negative THEN 0 - m.size ELSE m.size : m \in M}
UnsignedMeant(M) == {m.size : m \in {x \in M : ~x.negative}}

LEMMA MeantNumbers ==
  /\ SignedMeant({}) = {} /\ UnsignedMeant({}) = {}
  /\ \A s : /\ SignedMeant({[negative |-> TRUE, size |-> s]}) = {0 - s}
            /\ UnsignedMeant({[negative |-> TRUE, size |-> s]}) = {}
            /\ SignedMeant({[negative |-> FALSE, size |-> s]}) = {s}
            /\ UnsignedMeant({[negative |-> FALSE, size |-> s]}) = {s}
<1>1. SignedMeant({}) = {} /\ UnsignedMeant({}) = {}
  BY DEF SignedMeant, UnsignedMeant
<1>2. ASSUME NEW s
      PROVE  /\ SignedMeant({[negative |-> TRUE, size |-> s]}) = {0 - s}
             /\ UnsignedMeant({[negative |-> TRUE, size |-> s]}) = {}
  <2> DEFINE r == [negative |-> TRUE, size |-> s]
  <2>1. r.negative = TRUE /\ r.size = s
    BY Zenon
  <2> HIDE DEF r
  <2>2. (IF r.negative THEN 0 - r.size ELSE r.size) = 0 - s
    BY <2>1, Zenon
  <2>3. {x \in {r} : ~x.negative} = {}
    BY <2>1, Zenon
  <2>4. SignedMeant({r}) = {0 - s}
    BY <2>2, Zenon DEF SignedMeant
  <2>5. UnsignedMeant({r}) = {}
    BY <2>3, Zenon DEF UnsignedMeant
  <2> QED
    BY <2>4, <2>5, Zenon DEF r
<1>3. ASSUME NEW s
      PROVE  /\ SignedMeant({[negative |-> FALSE, size |-> s]}) = {s}
             /\ UnsignedMeant({[negative |-> FALSE, size |-> s]}) = {s}
  <2> DEFINE r == [negative |-> FALSE, size |-> s]
  <2>1. r.negative = FALSE /\ r.size = s
    BY Zenon
  <2> HIDE DEF r
  <2>2. (IF r.negative THEN 0 - r.size ELSE r.size) = s
    BY <2>1, Zenon
  <2>3. {x \in {r} : ~x.negative} = {r}
    BY <2>1, Zenon
  <2>4. SignedMeant({r}) = {s}
    BY <2>2, Zenon DEF SignedMeant
  <2>5. UnsignedMeant({r}) = {s}
    BY <2>1, <2>3, Zenon DEF UnsignedMeant
  <2> QED
    BY <2>4, <2>5, Zenon DEF r
<1> QED
  BY <1>1, <1>2, <1>3, Zenon

\* Underscores alone.
Nothing(w) == IF w # <<>> /\ \A i \in DOMAIN w : w[i] = Underscore THEN {0} ELSE {}

\* The integers of a text are those that are meant.
Exact(word, w) ==
  /\ Signed(word) = SignedMeant(Meant(w)) \cap (0 - Half)..(Half - 1)
  /\ Narrow(word) = UnsignedMeant(Meant(w)) \cap 0..MaxPayment
  /\ Wide(word) = (UnsignedMeant(Meant(w)) \cap 0..MaxMotes) \cup Nothing(w)

\* A text that means nothing and is not read.
LEMMA ExactNone ==
  ASSUME NEW word, NEW w, Normalized(word) = {}, Meant(w) = {}, Nothing(w) = {}
  PROVE  Exact(word, w)
<1> DEFINE I == SignedMeant(Meant(w))
           N == UnsignedMeant(Meant(w))
<1>1. I = {} /\ N = {}
  BY MeantNumbers, Zenon
<1>2. Signed(word) = {} /\ Narrow(word) = {} /\ Wide(word) = {}
  BY ReadNone, Zenon
<1> HIDE DEF I, N
<1>3. /\ I \cap (0 - Half)..(Half - 1) = {} /\ N \cap 0..MaxPayment = {}
      /\ (N \cap 0..MaxMotes) \cup {} = {}
  BY <1>1, Zenon
<1> QED
  BY <1>2, <1>3, Zenon DEF Exact, I, N

\* A negative integer.
LEMMA ExactMinus ==
  ASSUME NEW word, NEW w, Nothing(w) = {}, NEW n, Normalized(word) = {n}, n # <<>>, n[1] = Minus,
         NEW s \in Nat, FromDecimal(Tail(n)) = {s} \cap 0..MaxMotes,
         Meant(w) = {[negative |-> TRUE, size |-> s]}
  PROVE  Exact(word, w)
<1> DEFINE I == SignedMeant(Meant(w))
           N == UnsignedMeant(Meant(w))
           R == (0 - Half)..(Half - 1)
           F == FromDecimal(Tail(n))
<1>1. I = {0 - s} /\ N = {}
  BY MeantNumbers, Zenon
<1>2. Signed(word) = {0 - x : x \in F} \cap R /\ Narrow(word) = {} /\ Wide(word) = {}
  BY ReadMinus, Zenon
<1>3. {0 - x : x \in F} \cap R = {0 - s} \cap R
  BY InRange, Zenon
<1> HIDE DEF I, N, R, F
<1>4. N \cap 0..MaxPayment = {} /\ (N \cap 0..MaxMotes) \cup {} = {}
  BY <1>1, Zenon
<1>5. Signed(word) = I \cap R
  BY <1>1, <1>2, <1>3, Zenon
<1> QED
  BY <1>2, <1>4, <1>5, Zenon DEF Exact, I, N, R

\* Any other integer.
LEMMA ExactUnsigned ==
  ASSUME NEW word, NEW w, Nothing(w) = {}, NEW n, Normalized(word) = {n}, n # <<>>, n[1] # Minus,
         NEW x, x = Bare(n), x # <<>>,
         NEW s \in Nat, FromDecimal(x) = {s} \cap 0..MaxMotes,
         Meant(w) = {[negative |-> FALSE, size |-> s]}
  PROVE  Exact(word, w)
<1> DEFINE I == SignedMeant(Meant(w))
           N == UnsignedMeant(Meant(w))
           R == (0 - Half)..(Half - 1)
           F == FromDecimal(x)
<1>1. I = {s} /\ N = {s}
  BY MeantNumbers, Zenon
<1>2. Signed(word) = F \cap R /\ Narrow(word) = F \cap 0..MaxPayment /\ Wide(word) = F
  BY ReadUnsigned, Zenon
<1>3. F \cap R = {s} \cap R /\ F \cap 0..MaxPayment = {s} \cap 0..MaxPayment
  BY InRange, Zenon
<1> HIDE DEF I, N, R
<1>4. (N \cap 0..MaxMotes) \cup {} = F
  BY <1>1
<1> HIDE DEF F
<1>5. Signed(word) = I \cap R /\ Narrow(word) = N \cap 0..MaxPayment
  BY <1>1, <1>2, <1>3, Zenon
<1> QED
  BY <1>2, <1>4, <1>5, Zenon DEF Exact, I, N, R

\* Underscores alone.
LEMMA ExactEmpty ==
  ASSUME NEW word, NEW w, Normalized(word) = {<<>>}, Meant(w) = {}, Nothing(w) = {0}
  PROVE  Exact(word, w)
<1> DEFINE I == SignedMeant(Meant(w))
           N == UnsignedMeant(Meant(w))
<1>1. I = {} /\ N = {}
  BY MeantNumbers, Zenon
<1>2. Signed(word) = {} /\ Narrow(word) = {} /\ Wide(word) = {0}
  BY ReadEmpty, Zenon
<1> HIDE DEF I, N
<1>3. /\ I \cap (0 - Half)..(Half - 1) = {} /\ N \cap 0..MaxPayment = {}
      /\ (N \cap 0..MaxMotes) \cup {0} = {0}
  BY <1>1, Zenon
<1> QED
  BY <1>2, <1>3, Zenon DEF Exact, I, N

\* Digits grouped behind a sign.
LEMMA SignedText ==
  ASSUME NEW S, NEW word, NEW w \in Seq(S), w = Trimmed(word), w # <<>>, IsSign(w[1])
  PROVE  Exact(word, w)
<1> DEFINE c == w[1]
           v == Tail(w)
           x == Ungrouped(v)
           n == <<c>> \o x
           k == Count(v, DOMAIN v)
<1>1. c \in S /\ v \in Seq(S) /\ w = <<c>> \o v
  BY BehindIs
<1>2. c # Underscore /\ (c = Plus \/ c = Minus)
  BY SignsAre DEF IsSign
<1>3. x \in Seq(S)
  BY <1>1, UngroupedIs
<1>4. Misplaced(w) <=> ~IsGrouped(v)
  BY MisplacedIs
<1>5. Nothing(w) = {}
  <2>1. 1 \in DOMAIN w
    OBVIOUS
  <2> QED
    BY <1>2, <2>1, Zenon DEF Nothing
<1>6. Meant(w) = Whole(w, c = Minus, v)
  <2>1. CASE c = Minus
    <3>1. (c = Minus) = TRUE
      BY <2>1, Zenon
    <3>2. Meant(w) = Whole(w, TRUE, v)
      BY <2>1, MeantIs, Zenon
    <3> QED
      BY <3>1, <3>2, Zenon
  <2>2. CASE c = Plus
    <3>1. (c = Minus) = FALSE
      BY <2>2, SignsAre, Zenon
    <3>2. Meant(w) = Whole(w, FALSE, v)
      BY <2>2, MeantIs, Zenon
    <3> QED
      BY <3>1, <3>2, Zenon
  <2> QED
    BY <1>2, <2>1, <2>2
<1> HIDE DEF c, v
<1>7. Ungrouped(w) = n
  BY <1>1, <1>2, UngroupedBehind
<1>8. Normalized(word) = IF w = <<>> \/ n \in {<<Plus>>, <<Minus>>} \/ Misplaced(w) THEN {} ELSE {n}
  BY <1>7, NormalizedIs, Zenon
<1> HIDE DEF x
<1>9. n \in Seq(S) /\ n # <<>> /\ n[1] = c /\ Len(n) = Len(x) + 1 /\ Tail(n) = x /\ Len(x) \in Nat
  BY <1>1, <1>3
<1> HIDE DEF n
<1>10. CASE IsGrouped(v) /\ k # 0
  <2>1. Len(x) = k
    BY <1>1, <1>10, GroupLength DEF x
  <2>2. x # <<>> /\ Len(n) # 1
    BY <1>9, <1>10, <2>1
  <2>3. n \notin {<<Plus>>, <<Minus>>}
    BY <2>2
  <2>4. Normalized(word) = {n}
    BY <1>4, <1>8, <1>10, <2>3, Zenon
  <2>5. FromDecimal(x) = {Size(v)} \cap 0..MaxMotes /\ Size(v) \in Nat
    BY <1>1, <1>10, GroupIsSize, SizeIs DEF x
  <2>6. Meant(w) = {[negative |-> c = Minus, size |-> Size(v)]}
    BY <1>6, <1>10, Zenon DEF Whole
  <2>7. CASE c = Minus
    <3>1. (c = Minus) = TRUE
      BY <2>7, Zenon
    <3>2. Meant(w) = {[negative |-> TRUE, size |-> Size(v)]}
      BY <2>6, <3>1, Zenon
    <3> QED
      BY <1>5, <1>9, <2>4, <2>5, <2>7, <3>2, ExactMinus, Zenon
  <2>8. CASE c = Plus
    <3>1. (c = Minus) = FALSE
      BY <2>8, SignsAre, Zenon
    <3>2. Meant(w) = {[negative |-> FALSE, size |-> Size(v)]}
      BY <2>6, <3>1, Zenon
    <3>3. x = Bare(n)
      BY <1>9, <2>8, Zenon DEF Bare
    <3>4. n[1] # Minus
      BY <1>9, <2>8, SignsAre, Zenon
    <3> QED
      BY <1>5, <1>9, <2>2, <2>4, <2>5, <3>2, <3>3, <3>4, ExactUnsigned, Zenon
  <2> QED
    BY <1>2, <2>7, <2>8
<1>11. CASE ~(IsGrouped(v) /\ k # 0)
  <2>1. Meant(w) = {}
    BY <1>6, <1>11, Zenon DEF Whole
  <2>2. Normalized(word) = {}
    <3>1. CASE ~IsGrouped(v)
      BY <1>4, <1>8, <3>1, Zenon
    <3>2. CASE IsGrouped(v)
      <4>1. Len(x) = 0
        BY <1>1, <1>11, <3>2, GroupLength DEF x
      <4>2. x = <<>>
        BY <1>3, <4>1
      <4>3. n = <<c>>
        BY <1>1, <4>2 DEF n
      <4>4. n \in {<<Plus>>, <<Minus>>}
        BY <1>2, <4>3
      <4> QED
        BY <1>8, <4>4, Zenon
    <3> QED
      BY <3>1, <3>2
  <2> QED
    BY <1>5, <2>1, <2>2, ExactNone
<1> QED
  BY <1>10, <1>11

\* No text at all.
LEMMA EmptyText ==
  ASSUME NEW word, Trimmed(word) = <<>>
  PROVE  Exact(word, <<>>)
<1> DEFINE e == <<>>
<1>1. Normalized(word) = {}
  BY NormalizedIs, Zenon
<1>2. Count(e, DOMAIN e) = 0
  <2>1. e \in Seq(Figure) /\ Len(e) = 0
    OBVIOUS
  <2>2. Core(e) = e
    BY CoreIs
  <2> QED
    BY <2>1, <2>2, CoreCounted
<1>3. Meant(e) = {}
  BY <1>2, MeantIs, Zenon DEF Whole
<1>4. Nothing(e) = {}
  BY Zenon DEF Nothing
<1> QED
  BY <1>1, <1>3, <1>4, ExactNone, Zenon

\* No digit is counted exactly if none is in the text.
LEMMA CountedIsThere ==
  ASSUME NEW S, NEW w \in Seq(S)
  PROVE  (Count(w, DOMAIN w) = 0) <=> ~\E i \in DOMAIN w : IsDigit(w[i])
<1>1. ASSUME NEW i \in DOMAIN w, IsDigit(w[i])
      PROVE  Count(w, DOMAIN w) # 0
  <2> DEFINE c == w[i]
             x == Core(w)
  <2>1. c \in Figure /\ \E j \in 1..Len(w) : w[j] = c
    <3>1. c \in Figure
      BY <1>1, DigitsAre
    <3>2. i \in 1..Len(w)
      OBVIOUS
    <3> QED
      BY <3>1, <3>2
  <2> HIDE DEF c
  <2>2. \E j \in 1..Len(x) : x[j] = c
    BY <2>1, PickedHas DEF Core
  <2>3. Len(x) # 0
    BY <2>2
  <2> QED
    BY <2>3, CoreCounted
<1>2. ASSUME ~\E i \in DOMAIN w : IsDigit(w[i])
      PROVE  Count(w, DOMAIN w) = 0
  <2>1. {i \in DOMAIN w : IsDigit(w[i])} = {}
    BY <1>2
  <2> QED
    BY <2>1, FS_EmptySet, Zenon DEF Count
<1> QED
  BY <1>1, <1>2

\* Digits grouped without a sign, or other text.
LEMMA UnsignedText ==
  ASSUME NEW S, NEW word, NEW w \in Seq(S), w = Trimmed(word), w # <<>>, ~IsSign(w[1])
  PROVE  Exact(word, w)
<1> DEFINE x == Ungrouped(w)
           k == Count(w, DOMAIN w)
<1>1. Meant(w) = Whole(w, FALSE, w)
  BY MeantIs, Zenon
<1>2. Misplaced(w) <=> ~IsGrouped(w)
  BY MisplacedIs
<1>3. Normalized(word) = IF w = <<>> \/ x \in {<<Plus>>, <<Minus>>} \/ Misplaced(w) THEN {} ELSE {x}
  BY NormalizedIs, Zenon
<1>4. (k = 0) <=> ~\E i \in DOMAIN w : IsDigit(w[i])
  BY CountedIsThere
<1>5. Underscore \notin Figure
  BY UnderscoreIsNone
<1> HIDE DEF k, x
<1>6. CASE ~IsGrouped(w)
  <2>1. Normalized(word) = {}
    BY <1>2, <1>3, <1>6, Zenon
  <2>2. Meant(w) = {}
    BY <1>1, <1>6, Zenon DEF Whole
  <2>3. Nothing(w) = {}
    BY <1>6, Zenon DEF Nothing, IsGrouped
  <2> QED
    BY <2>1, <2>2, <2>3, ExactNone
<1>7. CASE IsGrouped(w)
  <2>1. x \in Seq(Figure) /\ Len(x) = k
    BY <1>7, GroupLength DEF x, k
  <2>2. x \notin {<<Plus>>, <<Minus>>}
    <3>1. ~(Plus \in Figure) /\ ~(Minus \in Figure)
      BY SignsAre, DigitsAre
    <3>2. ASSUME NEW c, x = <<c>>
          PROVE  c \in Figure
      <4>1. Len(x) = 1 /\ x[1] = c
        BY <3>2
      <4>2. \A i \in 1..Len(x) : x[i] \in Figure
        BY <2>1
      <4>3. 1 \in 1..Len(x)
        BY <4>1
      <4> QED
        BY <4>1, <4>2, <4>3
    <3> QED
      BY <3>1, <3>2
  <2>3. Normalized(word) = {x}
    BY <1>2, <1>3, <1>7, <2>2, Zenon
  <2>4. CASE k = 0
    <3>1. x = <<>>
      BY <2>1, <2>4
    <3>2. Meant(w) = {}
      BY <1>1, <2>4, Zenon DEF Whole, k
    <3>3. Nothing(w) = {0}
      <4>1. \A i \in DOMAIN w : w[i] = Underscore
        BY <1>4, <1>7, <2>4, Zenon DEF IsGrouped
      <4> QED
        BY <4>1, Zenon DEF Nothing
    <3> QED
      BY <2>3, <3>1, <3>2, <3>3, ExactEmpty
  <2>5. CASE k # 0
    <3>1. Nothing(w) = {}
      <4>1. ~\A i \in DOMAIN w : w[i] = Underscore
        BY <1>4, <1>5, <2>5, DigitsAre
      <4> QED
        BY <4>1, Zenon DEF Nothing
    <3>2. Meant(w) = {[negative |-> FALSE, size |-> Size(w)]}
      BY <1>1, <1>7, <2>5, Zenon DEF Whole, k
    <3>3. x # <<>> /\ x[1] \in Figure
      <4>1. Len(x) # 0 /\ Len(x) \in Nat
        BY <2>1, <2>5
      <4> QED
        BY <2>1, <4>1
    <3>4. x[1] # Minus /\ x[1] # Plus
      BY <3>3, SignsAre, DigitsAre
    <3>5. x = Bare(x)
      BY <3>4, Zenon DEF Bare
    <3>6. FromDecimal(x) = {Size(w)} \cap 0..MaxMotes /\ Size(w) \in Nat
      BY <1>7, GroupIsSize, SizeIs DEF x
    <3> QED
      BY <2>3, <3>1, <3>2, <3>3, <3>4, <3>5, <3>6, ExactUnsigned, Zenon
  <2> QED
    BY <2>4, <2>5
<1> QED
  BY <1>6, <1>7

\* Integers are exact, for every text of characters.
LEMMA IntegersExact ==
  ASSUME NEW S, typed \in Seq(S)
  PROVE  IntegerExact
<1> DEFINE w == Trimmed(typed)
<1>1. w \in Seq(S)
  BY TrimmedIsText
<1>2. Exact(typed, w)
  <2>1. CASE w = <<>>
    BY <2>1, EmptyText
  <2>2. CASE w # <<>> /\ IsSign(w[1])
    BY <1>1, <2>2, SignedText
  <2>3. CASE w # <<>> /\ ~IsSign(w[1])
    BY <1>1, <2>3, UnsignedText
  <2> QED
    BY <2>1, <2>2, <2>3
<1> QED
  BY <1>2, Zenon DEF IntegerExact, Exact, SignedMeant, UnsignedMeant, Nothing, Half

-----------------------------------------------------------------------------
Typeable == TypedDigit \cup {".", Underscore, "+", "-", " "}

\* A text is typed of the keys.
LEMMA TypedNumbers == NumberSpec => [](typed \in Seq(Typeable))
<1>1. NumberInit => typed \in Seq(Typeable)
  BY DEF NumberInit
<1>2. typed \in Seq(Typeable) /\ [NumberNext]_typed => (typed \in Seq(Typeable))'
  <2> SUFFICES ASSUME typed \in Seq(Typeable), [NumberNext]_typed
               PROVE  typed' \in Seq(Typeable)
    OBVIOUS
  <2>1. CASE UNCHANGED typed
    BY <2>1
  <2>2. ASSUME NEW key \in Typeable, TypeKey(key)
        PROVE  typed' \in Seq(Typeable)
    <3>1. typed' = Append(typed, key)
      BY <2>2 DEF TypeKey
    <3> HIDE DEF Typeable
    <3> QED
      BY <3>1
  <2> QED
    BY <2>1, <2>2 DEF NumberNext, Typeable
<1> QED
  BY <1>1, <1>2, PTL DEF NumberSpec

THEOREM NumbersAreExact == NumberSpec => []NumbersExact
<1>1. typed \in Seq(Typeable) => NumbersExact
  <2> SUFFICES ASSUME typed \in Seq(Typeable)
               PROVE  NumbersExact
    OBVIOUS
  <2> QED
    BY AmountsExact, IntegersExact DEF NumbersExact
<1> QED
  BY <1>1, TypedNumbers, PTL
===============================================================================
