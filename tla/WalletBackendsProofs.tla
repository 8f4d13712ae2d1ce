------------------------ MODULE WalletBackendsProofs ------------------------
(***************************************************************************)
(* Theorems about WalletBackends, for any processes, wallets and choices   *)
(* of backends.                                                            *)
(***************************************************************************)
EXTENDS WalletBackends, TLAPS

(***************************************************************************)
(* Proofs.                                                                 *)
(***************************************************************************)

\* What a command has in hand where it needs it.
HandInv ==
  \A p \in Proc : pc[p] = "store" => held[p] # None

\* The type invariant is inductive with what the commands have in hand.
LEMMA TypeInvariant == Spec => [](TypeOK /\ HandInv)
<1>1. Init => TypeOK /\ HandInv
  <2>0. PICK n \in Name : TRUE
    BY BackendAssumption
  <2>1. <<n, "file">> \in Name \X Backend
    BY DEF Backend
  <2>2. (CHOOSE c \in Name \X Backend : TRUE) \in Name \X Backend
    BY <2>1
  <2> QED
    BY <2>2 DEF Init, TypeOK, HandInv, Location, Backend
<1>2. TypeOK /\ HandInv /\ [Next]_vars => (TypeOK /\ HandInv)'
  <2> SUFFICES ASSUME TypeOK, HandInv, [Next]_vars PROVE TypeOK' /\ HandInv'
    OBVIOUS
  <2> USE DEF TypeOK, HandInv, Location
  <2>1. ASSUME NEW p \in Proc, NEW n \in Name, NEW b \in Backend, BeginCreate(p, n, b)
        PROVE  TypeOK' /\ HandInv'
    <3>1. PICK r \in Root : held' = [held EXCEPT ![p] = [root |-> r, storage |-> b]]
      BY <2>1 DEF BeginCreate
    <3>2. [root |-> r, storage |-> b] \in Metadata
      BY DEF Metadata
    <3>3. <<n, b>> \in Name \X Backend
      OBVIOUS
    <3> QED
      BY <2>1, <3>1, <3>2, <3>3, BackendAssumption DEF BeginCreate, Start, Goto, files
  <2>2. ASSUME NEW p \in Proc, NEW n \in Name, NEW b \in Backend, BeginUse(p, n, b)
        PROVE  TypeOK' /\ HandInv'
    BY <2>2 DEF BeginUse, Start, Goto, files
  <2>3. ASSUME NEW p \in Proc, NEW n \in Name, NEW b \in Backend, BeginDelete(p, n, b)
        PROVE  TypeOK' /\ HandInv'
    BY <2>3 DEF BeginDelete, Start, Goto, files
  <2>w. ASSUME NEW p \in Proc
        PROVE  name(p) \in Name /\ backend(p) \in Backend
    BY DEF name, backend
  <2>4. ASSUME NEW p \in Proc, StoreSecret(p) PROVE TypeOK' /\ HandInv'
    <3>1. held[p].root \in Root
      BY <2>4 DEF StoreSecret, Metadata
    <3>2. secret' \in [Backend -> [Name -> Root \cup {None}]]
      BY <2>4, <2>w, <3>1 DEF StoreSecret
    <3> QED
      BY <2>4, <3>2 DEF StoreSecret, Goto, locals
  <2>5. ASSUME NEW p \in Proc, LoadIndex(p) PROVE TypeOK' /\ HandInv'
    BY <2>5 DEF LoadIndex, Goto, files, Afterwards
  <2>6. ASSUME NEW p \in Proc, SaveIndex(p) PROVE TypeOK' /\ HandInv'
    BY <2>6, <2>w DEF SaveIndex, NewIndex, Goto, locals, Afterwards
  <2>7. ASSUME NEW p \in Proc, SaveMetadata(p) PROVE TypeOK' /\ HandInv'
    BY <2>7, <2>w DEF SaveMetadata, Stop, Goto
  <2>8. ASSUME NEW p \in Proc, Sign(p) PROVE TypeOK' /\ HandInv'
    BY <2>8 DEF Sign, Stop, Goto, files
  <2>9. ASSUME NEW p \in Proc, Derive(p) PROVE TypeOK' /\ HandInv'
    BY <2>9 DEF Derive, Goto, files, locals
  <2>10. ASSUME NEW p \in Proc, DeleteSecret(p) PROVE TypeOK' /\ HandInv'
    <3>1. secret' \in [Backend -> [Name -> Root \cup {None}]]
      BY <2>10, <2>w DEF DeleteSecret, Removed
    <3> QED
      BY <2>10, <3>1 DEF DeleteSecret, Goto, locals
  <2>11. ASSUME NEW p \in Proc, RemoveMetadata(p) PROVE TypeOK' /\ HandInv'
    BY <2>11, <2>w DEF RemoveMetadata, Stop, Goto
  <2>12. ASSUME NEW p \in Proc, Quit(p) PROVE TypeOK' /\ HandInv'
    BY <2>12, <2>w DEF Quit, Stop, Goto, files
  <2>13. CASE UNCHANGED vars
    BY <2>13 DEF vars, files, locals
  <2> QED
    BY <2>1, <2>2, <2>3, <2>4, <2>5, <2>6, <2>7, <2>8, <2>9, <2>10, <2>11, <2>12, <2>13
    DEF Next
<1> QED
  BY <1>1, <1>2, PTL DEF Spec

\* Every variable keeps its type, whatever overlaps and is killed.
THEOREM TypeCorrect == Spec => []TypeOK
BY TypeInvariant, PTL

-----------------------------------------------------------------------------
(***************************************************************************)
(* One command at a time.                                                  *)
(***************************************************************************)

\* Only one process runs a command.
AloneInv ==
  \A p, q \in Proc : pc[p] # "idle" /\ pc[q] # "idle" => p = q

\* What a command is about at its program points.
PointInv ==
  \A p \in Proc :
    /\ pc[p] = "store" => cmd[p] = "create"
    /\ pc[p] \in {"load_index", "save_index"} =>
         cmd[p] \in {"create", "delete"} /\ backend(p) = "keyring"
    /\ pc[p] = "save" => cmd[p] \in {"create", "use"}
    /\ pc[p] = "unlock" => cmd[p] = "use"
    /\ pc[p] \in {"delete", "remove"} => cmd[p] = "delete"

\* What it has in hand: a new wallet that has no metadata yet, or the metadata
\* in the file.
HoldInv ==
  \A p \in Proc :
    /\ pc[p] \in {"store", "load_index", "save_index", "save"} /\ cmd[p] = "create" =>
         meta[name(p)] = None /\ held[p].storage = backend(p)
    /\ pc[p] \in {"unlock", "save"} /\ cmd[p] = "use" => held[p] = meta[name(p)]

\* How far the change of the index is.
ViewInv ==
  \A p \in Proc :
    /\ pc[p] = "save_index" => view[p] = index
    /\ pc[p] \in {"load_index", "save_index"} =>
         (secret["keyring"][name(p)] = None <=> cmd[p] = "delete")
    /\ pc[p] = "save" /\ cmd[p] = "create" /\ backend(p) = "keyring" => name(p) \in index

\* A usable wallet of the keyring is in the index.
ListedInv ==
  \A n \in Name :
    meta[n] # None /\ meta[n].storage = "keyring" /\ secret["keyring"][n] # None
      => n \in index

\* The index names the wallets that have a credential, save those whose
\* commands were cut short and the one whose entry is being changed.
Changing(n) == \E p \in Proc : pc[p] \in {"load_index", "save_index"} /\ name(p) = n

ExactInv ==
  \A n \in Name \ spoiled :
    ~Changing(n) => (n \in index <=> secret["keyring"][n] # None)

AloneInvariants ==
  /\ TypeOK /\ HandInv
  /\ AloneInv /\ PointInv /\ HoldInv /\ ViewInv
  /\ ListedInv /\ ExactInv

\* While a process runs a command, the others do not.
LEMMA OthersIdle ==
  ASSUME AloneInv, NEW p \in Proc, pc[p] # "idle", NEW q \in Proc, q # p
  PROVE  pc[q] = "idle"
BY DEF AloneInv
\* A command begins when no other runs.
LEMMA BeginAlone ==
  ASSUME AloneInvariants, ~Overlap, NEW p \in Proc, NEW n \in Name, NEW b \in Backend,
         BeginCreate(p, n, b) \/ BeginUse(p, n, b) \/ BeginDelete(p, n, b)
  PROVE  (AloneInv /\ PointInv /\ HoldInv /\ ViewInv /\ ListedInv /\ ExactInv)'
<1> USE DEF AloneInvariants, TypeOK, Location
<1>1. /\ \A q \in Proc : pc[q] = "idle"
      /\ \A q \in Proc \ {p} : pc'[q] = "idle"
      /\ pc'[p] \in {"store", "unlock", "delete"}
  BY DEF BeginCreate, BeginUse, BeginDelete, Start, Goto
<1>2. name(p)' = n /\ backend(p)' = b
  BY DEF BeginCreate, BeginUse, BeginDelete, Start, name, backend
<1>3. UNCHANGED <<meta, secret, index, spoiled>>
  BY DEF BeginCreate, BeginUse, BeginDelete, Start, files
<1>4. AloneInv'
  BY <1>1 DEF AloneInv
<1>5. PointInv'
  BY <1>1 DEF PointInv, BeginCreate, BeginUse, BeginDelete, Start, Goto
<1>6. HoldInv'
  <2>1. ASSUME NEW q \in Proc \ {p} PROVE pc'[q] = "idle"
    BY <1>1
  <2>2. CASE BeginCreate(p, n, b)
    BY <1>2, <1>3, <2>1, <2>2 DEF HoldInv, BeginCreate, WalletAbsent, Start, Goto
  <2>3. CASE BeginUse(p, n, b)
    BY <1>2, <1>3, <2>1, <2>3 DEF HoldInv, BeginUse, Start, Goto
  <2>4. CASE BeginDelete(p, n, b)
    BY <2>1, <2>4 DEF HoldInv, BeginDelete, Start, Goto
  <2> QED
    BY <2>2, <2>3, <2>4
<1>7. ViewInv'
  BY <1>1 DEF ViewInv
<1>8. ListedInv'
  BY <1>3 DEF ListedInv
<1>9. ExactInv'
  BY <1>1, <1>3 DEF ExactInv, Changing
<1> QED
  BY <1>4, <1>5, <1>6, <1>7, <1>8, <1>9

\* The secret is stored, but the wallet has no metadata yet.
LEMMA StoreSecretAlone ==
  ASSUME AloneInvariants, NEW p \in Proc, StoreSecret(p)
  PROVE  (AloneInv /\ PointInv /\ HoldInv /\ ViewInv /\ ListedInv /\ ExactInv)'
<1> USE DEF AloneInvariants, TypeOK, Location
<1>1. pc[p] # "idle" /\ \A q \in Proc \ {p} : pc[q] = "idle" /\ pc'[q] = "idle"
  BY OthersIdle DEF StoreSecret, Goto, locals
<1>2. /\ name(p) \in Name /\ backend(p) \in Backend
      /\ \A q \in Proc : name(q)' = name(q) /\ backend(q)' = backend(q)
  BY DEF name, backend, StoreSecret, Goto, locals
<1>3. AloneInv'
  BY <1>1 DEF AloneInv
<1>4. PointInv'
  BY <1>1, <1>2 DEF PointInv, StoreSecret, Goto, locals
<1>5. HoldInv'
  BY <1>1, <1>2 DEF HoldInv, PointInv, StoreSecret, Goto, locals
<1>6. ViewInv'
  <2>1. held[p].root # None
    BY BackendAssumption DEF StoreSecret, HandInv, Metadata
  <2>2. backend(p) = "keyring" => secret'["keyring"][name(p)] # None
    BY <1>2, <2>1 DEF StoreSecret
  <2>3. /\ cmd'[p] = "create" /\ pc'[p] \in {"load_index", "save"}
        /\ pc'[p] = "load_index" <=> backend(p) = "keyring"
    BY DEF StoreSecret, PointInv, Goto, locals
  <2> QED
    BY <1>1, <1>2, <2>2, <2>3 DEF ViewInv
<1>7. ListedInv'
  <2>1. meta' = meta /\ index' = index /\ meta[name(p)] = None
    BY DEF StoreSecret, PointInv, HoldInv
  <2>2. \A n \in Name \ {name(p)} : secret'["keyring"][n] = secret["keyring"][n]
    BY <1>2 DEF StoreSecret, Backend
  <2> QED
    BY <2>1, <2>2 DEF ListedInv
<1>8. ExactInv'
  BY <1>1, <1>2 DEF ExactInv, Changing, PointInv, ViewInv, StoreSecret, Goto, locals
<1> QED
  BY <1>3, <1>4, <1>5, <1>6, <1>7, <1>8

\* The index is loaded.
LEMMA LoadIndexAlone ==
  ASSUME AloneInvariants, NEW p \in Proc, LoadIndex(p)
  PROVE  (AloneInv /\ PointInv /\ HoldInv /\ ViewInv /\ ListedInv /\ ExactInv)'
<1> USE DEF AloneInvariants, TypeOK, Location
<1>1. pc[p] # "idle" /\ \A q \in Proc \ {p} : pc[q] = "idle" /\ pc'[q] = "idle"
  BY OthersIdle DEF LoadIndex, Goto, files, Afterwards
<1>2. /\ name(p) \in Name /\ backend(p) \in Backend
      /\ \A q \in Proc : name(q)' = name(q) /\ backend(q)' = backend(q)
  BY DEF name, backend, LoadIndex, Goto, files, Afterwards
<1>3. AloneInv'
  BY <1>1 DEF AloneInv
<1>4. PointInv'
  BY <1>1, <1>2 DEF PointInv, LoadIndex, Goto, files, Afterwards
<1>5. HoldInv'
  BY <1>1, <1>2 DEF HoldInv, PointInv, LoadIndex, Goto, files, Afterwards
<1>6. ViewInv'
  BY <1>1, <1>2 DEF ViewInv, PointInv, LoadIndex, Goto, files, Afterwards
<1>7. ListedInv'
  BY <1>1, <1>2 DEF ListedInv, PointInv, HoldInv, ViewInv, LoadIndex, Goto, files, Afterwards
<1>8. ExactInv'
  BY <1>1, <1>2 DEF ExactInv, Changing, PointInv, ViewInv, LoadIndex, Goto, files, Afterwards
<1> QED
  BY <1>3, <1>4, <1>5, <1>6, <1>7, <1>8

\* What was loaded is still the index, so that only the one entry changes.
LEMMA SaveIndexAlone ==
  ASSUME AloneInvariants, NEW p \in Proc, SaveIndex(p)
  PROVE  (AloneInv /\ PointInv /\ HoldInv /\ ViewInv /\ ListedInv /\ ExactInv)'
<1> USE DEF AloneInvariants, TypeOK, Location
<1>1. pc[p] # "idle" /\ \A q \in Proc \ {p} : pc[q] = "idle" /\ pc'[q] = "idle"
  BY OthersIdle DEF SaveIndex, Goto, locals, Afterwards
<1>2. /\ name(p) \in Name /\ backend(p) \in Backend
      /\ \A q \in Proc : name(q)' = name(q) /\ backend(q)' = backend(q)
  BY DEF name, backend, SaveIndex, Goto, locals, Afterwards
<1>3. AloneInv'
  BY <1>1 DEF AloneInv
<1>4. PointInv'
  BY <1>1, <1>2 DEF PointInv, SaveIndex, Goto, locals, Afterwards
<1>5. HoldInv'
  BY <1>1, <1>2 DEF HoldInv, PointInv, SaveIndex, NewIndex, Goto, locals, Afterwards
<1>6. ViewInv'
  BY <1>1, <1>2 DEF ViewInv, PointInv, SaveIndex, NewIndex, Goto, locals, Afterwards
<1>7. ListedInv'
  BY <1>1, <1>2 DEF ListedInv, PointInv, HoldInv, ViewInv, SaveIndex, NewIndex, Goto, locals, Afterwards
<1>8. ExactInv'
  BY <1>1, <1>2 DEF ExactInv, Changing, PointInv, ViewInv, SaveIndex, NewIndex, Goto, locals, Afterwards
<1> QED
  BY <1>3, <1>4, <1>5, <1>6, <1>7, <1>8

\* The metadata of a new wallet is saved after its entry.
LEMMA SaveMetadataAlone ==
  ASSUME AloneInvariants, NEW p \in Proc, SaveMetadata(p)
  PROVE  (AloneInv /\ PointInv /\ HoldInv /\ ViewInv /\ ListedInv /\ ExactInv)'
<1> USE DEF AloneInvariants, TypeOK, Location
<1>1. pc[p] # "idle" /\ \A q \in Proc \ {p} : pc[q] = "idle" /\ pc'[q] = "idle"
  BY OthersIdle DEF SaveMetadata, Stop, Goto
<1>2. /\ name(p) \in Name /\ backend(p) \in Backend
      /\ \A q \in Proc : name(q)' = name(q) /\ backend(q)' = backend(q)
  BY DEF name, backend, SaveMetadata, Stop, Goto
<1>3. AloneInv'
  BY <1>1 DEF AloneInv
<1>4. PointInv'
  BY <1>1, <1>2 DEF PointInv, SaveMetadata, Stop, Goto
<1>5. HoldInv'
  BY <1>1, <1>2 DEF HoldInv, PointInv, SaveMetadata, Stop, Goto
<1>6. ViewInv'
  BY <1>1, <1>2 DEF ViewInv, PointInv, SaveMetadata, Stop, Goto
<1>7. ListedInv'
  BY <1>1, <1>2 DEF ListedInv, PointInv, HoldInv, ViewInv, SaveMetadata, Stop, Goto
<1>8. ExactInv'
  BY <1>1, <1>2 DEF ExactInv, Changing, PointInv, ViewInv, SaveMetadata, Stop, Goto
<1> QED
  BY <1>3, <1>4, <1>5, <1>6, <1>7, <1>8

\* Signing changes nothing.
LEMMA SignAlone ==
  ASSUME AloneInvariants, NEW p \in Proc, Sign(p)
  PROVE  (AloneInv /\ PointInv /\ HoldInv /\ ViewInv /\ ListedInv /\ ExactInv)'
<1> USE DEF AloneInvariants, TypeOK, Location
<1>1. pc[p] # "idle" /\ \A q \in Proc \ {p} : pc[q] = "idle" /\ pc'[q] = "idle"
  BY OthersIdle DEF Sign, Stop, Goto, files
<1>2. /\ name(p) \in Name /\ backend(p) \in Backend
      /\ \A q \in Proc : name(q)' = name(q) /\ backend(q)' = backend(q)
  BY DEF name, backend, Sign, Stop, Goto, files
<1>3. AloneInv'
  BY <1>1 DEF AloneInv
<1>4. PointInv'
  BY <1>1, <1>2 DEF PointInv, Sign, Stop, Goto, files
<1>5. HoldInv'
  BY <1>1, <1>2 DEF HoldInv, PointInv, Sign, Stop, Goto, files
<1>6. ViewInv'
  BY <1>1, <1>2 DEF ViewInv, PointInv, Sign, Stop, Goto, files
<1>7. ListedInv'
  BY DEF ListedInv, Sign, Stop, Goto, files
<1>8. ExactInv'
  BY <1>1, <1>2 DEF ExactInv, Changing, PointInv, ViewInv, Sign, Stop, Goto, files
<1> QED
  BY <1>3, <1>4, <1>5, <1>6, <1>7, <1>8

\* Nor does loading the secret to derive.
LEMMA DeriveAlone ==
  ASSUME AloneInvariants, NEW p \in Proc, Derive(p)
  PROVE  (AloneInv /\ PointInv /\ HoldInv /\ ViewInv /\ ListedInv /\ ExactInv)'
<1> USE DEF AloneInvariants, TypeOK, Location
<1>1. pc[p] # "idle" /\ \A q \in Proc \ {p} : pc[q] = "idle" /\ pc'[q] = "idle"
  BY OthersIdle DEF Derive, Goto, files, locals
<1>2. /\ name(p) \in Name /\ backend(p) \in Backend
      /\ \A q \in Proc : name(q)' = name(q) /\ backend(q)' = backend(q)
  BY DEF name, backend, Derive, Goto, files, locals
<1>3. AloneInv'
  BY <1>1 DEF AloneInv
<1>4. PointInv'
  BY <1>1, <1>2 DEF PointInv, Derive, Goto, files, locals
<1>5. HoldInv'
  BY <1>1, <1>2 DEF HoldInv, PointInv, Derive, Goto, files, locals
<1>6. ViewInv'
  BY <1>1, <1>2 DEF ViewInv, PointInv, Derive, Goto, files, locals
<1>7. ListedInv'
  BY DEF ListedInv, Derive, Goto, files, locals
<1>8. ExactInv'
  BY <1>1, <1>2 DEF ExactInv, Changing, PointInv, ViewInv, Derive, Goto, files, locals
<1> QED
  BY <1>3, <1>4, <1>5, <1>6, <1>7, <1>8

\* The credential is deleted before its entry.
LEMMA DeleteSecretAlone ==
  ASSUME AloneInvariants, NEW p \in Proc, DeleteSecret(p)
  PROVE  (AloneInv /\ PointInv /\ HoldInv /\ ViewInv /\ ListedInv /\ ExactInv)'
<1> USE DEF AloneInvariants, TypeOK, Location
<1>1. pc[p] # "idle" /\ \A q \in Proc \ {p} : pc[q] = "idle" /\ pc'[q] = "idle"
  BY OthersIdle DEF DeleteSecret, Goto, locals
<1>2. /\ name(p) \in Name /\ backend(p) \in Backend
      /\ \A q \in Proc : name(q)' = name(q) /\ backend(q)' = backend(q)
  BY DEF name, backend, DeleteSecret, Goto, locals
<1>3. AloneInv'
  BY <1>1 DEF AloneInv
<1>4. PointInv'
  BY <1>1, <1>2 DEF PointInv, DeleteSecret, Removed, IndexFollows, Goto, locals
<1>5. HoldInv'
  BY <1>1, <1>2 DEF HoldInv, PointInv, DeleteSecret, Removed, IndexFollows, Goto, locals
<1>6. ViewInv'
  BY <1>1, <1>2 DEF ViewInv, PointInv, DeleteSecret, Removed, IndexFollows, Goto, locals
<1>7. ListedInv'
  <2>1. meta' = meta /\ index' = index
    BY DEF DeleteSecret
  <2>2. \A n \in Name : secret'["keyring"][n] # None => secret["keyring"][n] # None
    BY <1>2 DEF DeleteSecret, Removed, Backend
  <2> QED
    BY <2>1, <2>2 DEF ListedInv
<1>8. ExactInv'
  BY <1>1, <1>2 DEF ExactInv, Changing, PointInv, ViewInv, DeleteSecret, Removed, IndexFollows, Goto, locals
<1> QED
  BY <1>3, <1>4, <1>5, <1>6, <1>7, <1>8

\* Without metadata there is no wallet to be listed.
LEMMA RemoveMetadataAlone ==
  ASSUME AloneInvariants, NEW p \in Proc, RemoveMetadata(p)
  PROVE  (AloneInv /\ PointInv /\ HoldInv /\ ViewInv /\ ListedInv /\ ExactInv)'
<1> USE DEF AloneInvariants, TypeOK, Location
<1>1. pc[p] # "idle" /\ \A q \in Proc \ {p} : pc[q] = "idle" /\ pc'[q] = "idle"
  BY OthersIdle DEF RemoveMetadata, Stop, Goto
<1>2. /\ name(p) \in Name /\ backend(p) \in Backend
      /\ \A q \in Proc : name(q)' = name(q) /\ backend(q)' = backend(q)
  BY DEF name, backend, RemoveMetadata, Stop, Goto
<1>3. AloneInv'
  BY <1>1 DEF AloneInv
<1>4. PointInv'
  BY <1>1, <1>2 DEF PointInv, RemoveMetadata, Stop, Goto
<1>5. HoldInv'
  BY <1>1, <1>2 DEF HoldInv, PointInv, RemoveMetadata, Stop, Goto
<1>6. ViewInv'
  BY <1>1, <1>2 DEF ViewInv, PointInv, RemoveMetadata, Stop, Goto
<1>7. ListedInv'
  BY <1>1, <1>2 DEF ListedInv, PointInv, HoldInv, ViewInv, RemoveMetadata, Stop, Goto
<1>8. ExactInv'
  BY <1>1, <1>2 DEF ExactInv, Changing, PointInv, ViewInv, RemoveMetadata, Stop, Goto
<1> QED
  BY <1>3, <1>4, <1>5, <1>6, <1>7, <1>8

\* A command that is cut short leaves all other entries as they are.
LEMMA QuitAlone ==
  ASSUME AloneInvariants, NEW p \in Proc, Quit(p)
  PROVE  (AloneInv /\ PointInv /\ HoldInv /\ ViewInv /\ ListedInv /\ ExactInv)'
<1> USE DEF AloneInvariants, TypeOK, Location
<1>1. pc[p] # "idle" /\ \A q \in Proc \ {p} : pc[q] = "idle" /\ pc'[q] = "idle"
  BY OthersIdle DEF Quit, Stop, Goto, files
<1>2. /\ name(p) \in Name /\ backend(p) \in Backend
      /\ \A q \in Proc : name(q)' = name(q) /\ backend(q)' = backend(q)
  BY DEF name, backend, Quit, Stop, Goto, files
<1>3. AloneInv'
  BY <1>1 DEF AloneInv
<1>4. PointInv'
  BY <1>1, <1>2 DEF PointInv, Quit, Stop, Goto, files
<1>5. HoldInv'
  BY <1>1, <1>2 DEF HoldInv, PointInv, Quit, Stop, Goto, files
<1>6. ViewInv'
  BY <1>1, <1>2 DEF ViewInv, PointInv, Quit, Stop, Goto, files
<1>7. ListedInv'
  BY DEF ListedInv, Quit, Stop, Goto, files
<1>8. ExactInv'
  BY <1>1, <1>2 DEF ExactInv, Changing, PointInv, ViewInv, Quit, Stop, Goto, files
<1> QED
  BY <1>3, <1>4, <1>5, <1>6, <1>7, <1>8

\* All of them are kept by every step.
LEMMA AloneInvariant ==
  ASSUME ~Overlap
  PROVE  Spec => []AloneInvariants
<1>1. Init => AloneInv /\ PointInv /\ HoldInv /\ ViewInv /\ ListedInv /\ ExactInv
  <2> SUFFICES ASSUME Init
               PROVE  AloneInv /\ PointInv /\ HoldInv /\ ViewInv /\ ListedInv /\ ExactInv
    OBVIOUS
  <2>1. AloneInv /\ PointInv /\ HoldInv /\ ViewInv
    BY DEF Init, AloneInv, PointInv, HoldInv, ViewInv
  <2>2. ListedInv /\ ExactInv
    BY DEF Init, ListedInv, ExactInv, Changing, Backend
  <2> QED
    BY <2>1, <2>2
<1>2. AloneInvariants /\ [Next]_vars =>
        (AloneInv /\ PointInv /\ HoldInv /\ ViewInv /\ ListedInv /\ ExactInv)'
  <2> SUFFICES ASSUME AloneInvariants, [Next]_vars
               PROVE  (AloneInv /\ PointInv /\ HoldInv /\ ViewInv /\ ListedInv /\ ExactInv)'
    OBVIOUS
  <2>1. CASE UNCHANGED vars
    BY <2>1 DEF vars, files, locals, AloneInvariants, AloneInv, PointInv, HoldInv, ViewInv,
                ListedInv, ExactInv, Changing, name, backend
  <2>2. CASE Next
    BY <2>2, BeginAlone, StoreSecretAlone, LoadIndexAlone, SaveIndexAlone, SaveMetadataAlone,
       SignAlone, DeriveAlone, DeleteSecretAlone, RemoveMetadataAlone, QuitAlone DEF Next
  <2> QED
    BY <2>1, <2>2
<1> QED
  BY <1>1, <1>2, TypeInvariant, PTL DEF Spec, AloneInvariants

\* Of commands that run one at a time no choice of backends and no kill makes a
\* wallet that can be used disappear from `wallet list`.
THEOREM UsableListed ==
  ASSUME ~Overlap
  PROVE  Spec => []UsableIsListed
<1>1. AloneInvariants => UsableIsListed
  BY DEF AloneInvariants, ListedInv, UsableIsListed, Listed, Backend
<1> QED
  BY <1>1, AloneInvariant, PTL

\* Then the index of the keyring is exact but for the wallets whose commands
\* were cut short.
THEOREM IndexIsExact ==
  ASSUME ~Overlap
  PROVE  Spec => []IndexExact
<1>1. AloneInvariants => IndexExact
  BY DEF AloneInvariants, ExactInv, Changing, IndexExact, Idle
<1> QED
  BY <1>1, AloneInvariant, PTL

-----------------------------------------------------------------------------
(***************************************************************************)
(* One backend to a wallet.                                                *)
(***************************************************************************)

\* The users keep to one backend for each wallet.
OneBackend == \A c, d \in Choice : c[1] = d[1] => c[2] = d[2]

\* Secrets and metadata are where the users put them, and a secret that lies
\* beside metadata is the one that the metadata is of.
OwnInv ==
  /\ \A n \in Name, b \in Backend : secret[b][n] # None => <<n, b>> \in Choice
  /\ \A n \in Name : meta[n] # None =>
       /\ <<n, meta[n].storage>> \in Choice
       /\ secret[meta[n].storage][n] \in {None, meta[n].root}

\* What a command knows of the secret of its wallet at its program points.
RunInv ==
  \A p \in Proc :
    /\ pc[p] # "idle" => wallet[p] \in Choice
    /\ pc[p] = "store" => secret[backend(p)][name(p)] = None
    /\ pc[p] \in {"load_index", "save_index", "save"} /\ cmd[p] = "create" =>
         held[p] \in Metadata /\ secret[backend(p)][name(p)] = held[p].root
    /\ pc[p] = "unlock" => held[p] \in Metadata
    /\ pc[p] \in {"load_index", "save_index", "remove"} /\ cmd[p] = "delete" =>
         secret[backend(p)][name(p)] = None

\* The storage that metadata names is the backend that the wallet is used with.
LEMMA OwnStorage ==
  ASSUME TypeOK, OneBackend, OwnInv, NEW n \in Name, NEW b \in Backend, <<n, b>> \in Choice,
         meta[n] # None
  PROVE  meta[n] \in Metadata /\ meta[n].storage = b
BY DEF TypeOK, OneBackend, OwnInv

\* What RunInv says of the process that runs is all it says.
LEMMA RunAlone ==
  ASSUME NEW p \in Proc, \A q \in Proc \ {p} : pc'[q] = "idle",
         /\ pc'[p] # "idle" => wallet'[p] \in Choice
         /\ pc'[p] = "store" => secret'[backend(p)'][name(p)'] = None
         /\ pc'[p] \in {"load_index", "save_index", "save"} /\ cmd'[p] = "create" =>
              held'[p] \in Metadata /\ secret'[backend(p)'][name(p)'] = held'[p].root
         /\ pc'[p] = "unlock" => held'[p] \in Metadata
         /\ pc'[p] \in {"load_index", "save_index", "remove"} /\ cmd'[p] = "delete" =>
              secret'[backend(p)'][name(p)'] = None
  PROVE  RunInv'
<1> SUFFICES ASSUME NEW q \in Proc, pc'[q] # "idle" PROVE q = p
  BY DEF RunInv
<1> QED
  OBVIOUS

\* A command begins with the secret and the metadata as the others left them.
LEMMA BeginOwn ==
  ASSUME AloneInvariants, ~Overlap, OneBackend, OwnInv, RunInv,
         NEW p \in Proc, NEW n \in Name, NEW b \in Backend,
         BeginCreate(p, n, b) \/ BeginUse(p, n, b) \/ BeginDelete(p, n, b)
  PROVE  OwnInv' /\ RunInv'
<1> USE DEF AloneInvariants, TypeOK, Location
<1>1. /\ \A q \in Proc \ {p} : pc'[q] = "idle"
      /\ wallet'[p] = <<n, b>> /\ <<n, b>> \in Choice
      /\ pc'[p] \in {"store", "unlock", "delete"}
      /\ UNCHANGED <<meta, secret>>
  BY DEF BeginCreate, BeginUse, BeginDelete, Start, Goto, files
<1>2. name(p)' = n /\ backend(p)' = b
  BY <1>1 DEF name, backend
<1>3. OwnInv'
  BY <1>1 DEF OwnInv
<1>4. pc'[p] = "store" => secret[b][n] = None
  BY DEF BeginCreate, BeginUse, BeginDelete, Start, Goto, WalletAbsent
<1>5. pc'[p] = "unlock" => held'[p] \in Metadata
  BY DEF BeginCreate, BeginUse, BeginDelete, Start, Goto
<1> QED
  BY <1>1, <1>2, <1>3, <1>4, <1>5, RunAlone

\* The other steps, of the process that runs.
LEMMA StepOwn ==
  ASSUME AloneInvariants, OneBackend, OwnInv, RunInv, NEW p \in Proc,
         \/ StoreSecret(p) \/ LoadIndex(p) \/ SaveIndex(p) \/ SaveMetadata(p)
         \/ Sign(p) \/ Derive(p) \/ DeleteSecret(p) \/ RemoveMetadata(p) \/ Quit(p)
  PROVE  OwnInv' /\ RunInv'
<1> USE DEF AloneInvariants, TypeOK, Location
<1>1. /\ pc[p] # "idle" /\ UNCHANGED wallet
      /\ \A q \in Proc \ {p} : pc'[q] = pc[q]
  BY DEF StoreSecret, LoadIndex, SaveIndex, SaveMetadata, Sign, Derive, DeleteSecret,
         RemoveMetadata, Quit, Stop, Goto, files, locals
<1>2. \A q \in Proc \ {p} : pc'[q] = "idle"
  BY <1>1, OthersIdle
<1>3. /\ name(p)' = name(p) /\ backend(p)' = backend(p)
      /\ name(p) \in Name /\ backend(p) \in Backend
      /\ wallet[p] \in Choice /\ <<name(p), backend(p)>> \in Choice
  <2>1. wallet[p] = <<name(p), backend(p)>>
    BY DEF name, backend
  <2> QED
    BY <1>1, <2>1 DEF name, backend, RunInv
<1> DEFINE n == name(p)
           b == backend(p)
<1>4. CASE StoreSecret(p)
  <2>1. /\ cmd[p] = "create" /\ meta[n] = None /\ held[p] \in Metadata
        /\ UNCHANGED <<meta, cmd, held>> /\ pc'[p] \in {"load_index", "save"}
        /\ secret' = [secret EXCEPT ![b][n] = held[p].root]
    BY <1>4 DEF StoreSecret, PointInv, HoldInv, HandInv, Goto, locals
  <2>2. /\ secret'[b][n] = held[p].root
        /\ \A m \in Name, c \in Backend : m # n \/ c # b => secret'[c][m] = secret[c][m]
    BY <1>3, <2>1
  <2> HIDE DEF n, b
  <2>3. OwnInv'
    <3>1. ASSUME NEW m \in Name, meta[m] # None
          PROVE  secret'[meta[m].storage][m] = secret[meta[m].storage][m]
      BY <2>1, <2>2, <3>1 DEF Metadata
    <3>2. ASSUME NEW m \in Name, NEW c \in Backend, secret'[c][m] # None
          PROVE  <<m, c>> \in Choice
      BY <1>3, <2>2, <3>2 DEF OwnInv, n, b
    <3> QED
      BY <2>1, <3>1, <3>2 DEF OwnInv
  <2>4. held'[p] \in Metadata /\ secret'[backend(p)'][name(p)'] = held'[p].root
    BY <1>3, <2>1, <2>2 DEF n, b
  <2>5. RunInv'
    BY <1>1, <1>2, <1>3, <2>1, <2>4, RunAlone
  <2> QED
    BY <2>3, <2>5
<1>5. CASE LoadIndex(p) \/ SaveIndex(p) \/ Derive(p)
  <2>1. UNCHANGED <<meta, secret, cmd, held>>
    BY <1>5 DEF LoadIndex, SaveIndex, Derive, files, locals
  <2>2. OwnInv'
    BY <2>1 DEF OwnInv
  <2>3. /\ pc'[p] \in {"save_index", "save", "remove"}
        /\ pc[p] \in {"load_index", "save_index"} \/ (pc[p] = "unlock" /\ cmd[p] = "use")
        /\ pc'[p] = "remove" => cmd[p] # "create"
        /\ cmd[p] \in {"create", "delete", "use"}
    BY <1>5 DEF LoadIndex, SaveIndex, Derive, Goto, Afterwards, PointInv
  <2>4. pc'[p] \in {"save_index", "save"} /\ cmd[p] = "create" =>
          held'[p] \in Metadata /\ secret'[backend(p)'][name(p)'] = held'[p].root
    BY <1>3, <2>1, <2>3 DEF RunInv
  <2>5. pc'[p] \in {"save_index", "remove"} /\ cmd[p] = "delete" =>
          secret'[backend(p)'][name(p)'] = None
    BY <1>3, <2>1, <2>3 DEF RunInv
  <2>6. RunInv'
    BY <1>1, <1>2, <1>3, <2>1, <2>3, <2>4, <2>5, RunAlone
  <2> QED
    BY <2>2, <2>6
<1>6. CASE SaveMetadata(p)
  <2>1. pc[p] = "save" /\ pc'[p] = "idle" /\ UNCHANGED secret
        /\ meta' = [meta EXCEPT ![n] = held[p]] /\ cmd[p] \in {"create", "use"}
    BY <1>6 DEF SaveMetadata, Stop, Goto, PointInv
  <2>2. CASE cmd[p] = "use"
    <3>1. meta' = meta
      BY <1>3, <2>1, <2>2 DEF HoldInv
    <3> QED
      BY <1>2, <2>1, <3>1, RunAlone DEF OwnInv
  <2>3. CASE cmd[p] = "create"
    <3>1. held[p] \in Metadata /\ held[p].storage = b /\ secret[b][n] = held[p].root
      BY <2>1, <2>3 DEF RunInv, HoldInv
    <3> HIDE DEF n, b
    <3>2. OwnInv'
      BY <1>3, <2>1, <3>1 DEF OwnInv, n, b
    <3> QED
      BY <1>2, <2>1, <3>2, RunAlone
  <2> QED
    BY <2>1, <2>2, <2>3
<1>7. CASE Sign(p) \/ Quit(p)
  <2>1. UNCHANGED <<meta, secret>> /\ pc'[p] = "idle"
    BY <1>7 DEF Sign, Quit, Stop, Goto, files
  <2> QED
    BY <1>2, <2>1, RunAlone DEF OwnInv
<1>8. CASE DeleteSecret(p)
  <2>1. /\ cmd[p] = "delete" /\ UNCHANGED <<meta, cmd, held>>
        /\ pc'[p] \in {"load_index", "remove"}
        /\ secret' = [secret EXCEPT ![b][n] = None]
    BY <1>8 DEF DeleteSecret, Removed, PointInv, Goto, locals
  <2>2. /\ secret'[b][n] = None
        /\ \A m \in Name, c \in Backend : m # n \/ c # b => secret'[c][m] = secret[c][m]
    BY <1>3, <2>1
  <2> HIDE DEF n, b
  <2>3. OwnInv'
    <3>1. ASSUME NEW m \in Name, meta[m] # None
          PROVE  secret'[meta[m].storage][m] \in {None, meta[m].root}
      BY <2>2, <3>1 DEF OwnInv, Metadata
    <3>2. \A m \in Name, c \in Backend : secret'[c][m] # None => secret[c][m] # None
      BY <2>2
    <3> QED
      BY <2>1, <3>1, <3>2 DEF OwnInv
  <2>4. secret'[backend(p)'][name(p)'] = None
    BY <1>3, <2>2 DEF n, b
  <2>5. wallet'[p] \in Choice /\ cmd'[p] # "create" /\ pc'[p] \notin {"store", "unlock"}
    BY <1>1, <1>3, <2>1
  <2>6. RunInv'
    BY <1>2, <2>4, <2>5, RunAlone
  <2> QED
    BY <2>3, <2>6
<1>9. CASE RemoveMetadata(p)
  <2>1. pc'[p] = "idle" /\ UNCHANGED secret /\ meta' = [meta EXCEPT ![n] = None]
    BY <1>9 DEF RemoveMetadata, Stop, Goto
  <2>2. OwnInv'
    BY <1>3, <2>1 DEF OwnInv
  <2> QED
    BY <1>2, <2>1, <2>2, RunAlone
<1> QED
  BY <1>4, <1>5, <1>6, <1>7, <1>8, <1>9

\* Both are kept by every step.
LEMMA OwnInvariant ==
  ASSUME ~Overlap, OneBackend
  PROVE  Spec => [](OwnInv /\ RunInv)
<1>1. Init => OwnInv /\ RunInv
  BY DEF Init, OwnInv, RunInv, Backend
<1>2. AloneInvariants /\ OwnInv /\ RunInv /\ [Next]_vars => (OwnInv /\ RunInv)'
  <2> SUFFICES ASSUME AloneInvariants, OwnInv, RunInv, [Next]_vars PROVE OwnInv' /\ RunInv'
    OBVIOUS
  <2>1. CASE UNCHANGED vars
    BY <2>1 DEF vars, files, locals, OwnInv, RunInv, name, backend
  <2>2. CASE Next
    BY <2>2, BeginOwn, StepOwn DEF Next
  <2> QED
    BY <2>1, <2>2
<1> QED
  BY <1>1, <1>2, AloneInvariant, PTL DEF Spec

\* Commands that run one at a time, and keep to one backend for each wallet, sign
\* and derive with the root that their metadata is of, whatever was killed before.
THEOREM OwnRootIsUsed ==
  ASSUME ~Overlap, OneBackend
  PROVE  Spec => []UsesOwnRoot
<1>1. AloneInvariants /\ OwnInv /\ RunInv => UsesOwnRoot
  <2> SUFFICES ASSUME AloneInvariants, OwnInv, RunInv, NEW p \in Proc, pc[p] = "unlock",
                      secret[backend(p)][name(p)] # None
               PROVE  secret[backend(p)][name(p)] = held[p].root
    BY DEF UsesOwnRoot
  <2>1. /\ name(p) \in Name /\ backend(p) \in Backend
        /\ wallet[p] = <<name(p), backend(p)>> /\ wallet[p] \in Choice
    BY DEF name, backend, RunInv, AloneInvariants, TypeOK
  <2>2. held[p] = meta[name(p)] /\ meta[name(p)] \in Metadata
    BY DEF AloneInvariants, HoldInv, PointInv, RunInv
  <2>3. meta[name(p)].storage = backend(p)
    BY <2>1, <2>2, OwnStorage, BackendAssumption DEF AloneInvariants
  <2> QED
    BY <2>1, <2>2, <2>3, BackendAssumption DEF OwnInv
<1> QED
  BY <1>1, AloneInvariant, OwnInvariant, PTL

\* And when delete removes the metadata, no secret that belongs to it is left in
\* either backend.
THEOREM SecretIsRemoved ==
  ASSUME ~Overlap, OneBackend
  PROVE  Spec => DeleteRemovesSecret
<1>1. ASSUME AloneInvariants, OwnInv, RunInv, NEW p \in Proc, RemoveMetadata(p),
             meta[name(p)] # None
      PROVE  secret[meta[name(p)].storage][name(p)] = None
  <2>1. /\ name(p) \in Name /\ backend(p) \in Backend
        /\ wallet[p] = <<name(p), backend(p)>> /\ wallet[p] \in Choice
        /\ secret[backend(p)][name(p)] = None
    BY <1>1 DEF name, backend, RunInv, AloneInvariants, TypeOK, RemoveMetadata, PointInv
  <2> QED
    BY <1>1, <2>1, OwnStorage DEF AloneInvariants
<1>2. AloneInvariants /\ OwnInv /\ RunInv =>
        [\A p \in Proc : RemoveMetadata(p) /\ meta[name(p)] # None
           => secret[meta[name(p)].storage][name(p)] = None]_vars
  BY <1>1
<1> QED
  BY <1>2, AloneInvariant, OwnInvariant, PTL DEF DeleteRemovesSecret
=============================================================================
