--------------------------- MODULE WalletBackends ---------------------------
(***************************************************************************)
(* The wallets of two storage backends that keep their metadata in the     *)
(* same directory, and the index of the wallets in the OS keyring.         *)
(*                                                                         *)
(* A step is one call to the keyring or one file operation.  How a file is *)
(* written, and what happens inside one wallet, is WalletStore's business. *)
(***************************************************************************)
EXTENDS FiniteSets

CONSTANTS
  Proc,    \* the command processes
  Name,    \* wallet names
  Root,    \* root secrets
  Choice,  \* the <<name, backend>> pairs that users use
  Overlap, \* whether commands run at the same time
  None     \* no metadata, no secret

Backend == {"file", "keyring"}

Metadata == [root : Root, storage : Backend]

ASSUME BackendAssumption ==
  /\ Name # {}
  /\ Choice \subseteq Name \X Backend
  /\ Overlap \in BOOLEAN
  /\ None \notin Root \cup Metadata

VARIABLES
  meta,    \* meta[n]: the metadata file of wallet n
  secret,  \* secret[b][n]: the secret of wallet n in backend b
  index,   \* the wallets that the index credential of the keyring names
  pc,      \* pc[p]: the program point of process p
  cmd,     \* cmd[p]: the command it runs
  wallet,  \* wallet[p]: the <<name, backend>> it was started with
  held,    \* held[p]: the metadata it is about to write, or has loaded
  view,    \* view[p]: the index as it has loaded it
  spoiled  \* for the properties: wallets whose commands were cut short

files  == <<meta, secret, index>>
locals == <<cmd, wallet, held, view>>
vars   == <<files, pc, locals, spoiled>>

Location ==
  {"idle", "store", "load_index", "save_index", "save", "unlock", "delete", "remove"}

TypeOK ==
  /\ meta \in [Name -> Metadata \cup {None}]
  /\ secret \in [Backend -> [Name -> Root \cup {None}]]
  /\ index \in SUBSET Name
  /\ pc \in [Proc -> Location]
  /\ cmd \in [Proc -> {"create", "use", "delete"}]
  /\ wallet \in [Proc -> Name \X Backend]
  /\ held \in [Proc -> Metadata \cup {None}]
  /\ view \in [Proc -> SUBSET Name]
  /\ spoiled \in SUBSET Name

Init ==
  /\ meta = [n \in Name |-> None]
  /\ secret = [b \in Backend |-> [n \in Name |-> None]]
  /\ index = {}
  /\ pc = [p \in Proc |-> "idle"]
  /\ cmd = [p \in Proc |-> "use"]
  /\ wallet \in [Proc -> {CHOOSE c \in Name \X Backend : TRUE}]
  /\ held = [p \in Proc |-> None]
  /\ view = [p \in Proc |-> {}]
  /\ spoiled = {}

name(p)    == wallet[p][1]
backend(p) == wallet[p][2]

Goto(p, location) == pc' = [pc EXCEPT ![p] = location]

\* The process is gone, and what it had in memory.
Stop(p) ==
  /\ Goto(p, "idle")
  /\ held' = [held EXCEPT ![p] = None]
  /\ view' = [view EXCEPT ![p] = {}]
  /\ UNCHANGED <<cmd, wallet>>

-----------------------------------------------------------------------------
(***************************************************************************)
(* Starting a command: its checks on metadata and secret.                  *)
(***************************************************************************)

Start(p, c, n, b, location) ==
  /\ pc[p] = "idle"
  /\ Overlap \/ \A q \in Proc : pc[q] = "idle"
  /\ <<n, b>> \in Choice
  /\ cmd' = [cmd EXCEPT ![p] = c]
  /\ wallet' = [wallet EXCEPT ![p] = <<n, b>>]
  /\ Goto(p, location)
  /\ UNCHANGED <<files, view, spoiled>>

\* Mutant: rests of metadata do not matter.
NoSecret(n, b) == secret[b][n] = None

\* ensure_wallet_absent, for the backend that is configured.
WalletAbsent(n, b) == meta[n] = None /\ secret[b][n] = None

\* create, recover, import-legacy.
BeginCreate(p, n, b) ==
  /\ WalletAbsent(n, b)
  /\ Start(p, "create", n, b, "store")
  /\ \E r \in Root : held' = [held EXCEPT ![p] = [root |-> r, storage |-> b]]

\* ensure_wallet_exists, and the metadata, whatever backend it names.
BeginUse(p, n, b) ==
  /\ meta[n] # None /\ secret[b][n] # None
  /\ Start(p, "use", n, b, "unlock")
  /\ held' = [held EXCEPT ![p] = meta[n]]

BeginDelete(p, n, b) ==
  /\ meta[n] # None \/ secret[b][n] # None
  /\ Start(p, "delete", n, b, "delete")
  /\ UNCHANGED held

-----------------------------------------------------------------------------
\* SecureStorage::store, the credential or the file.
StoreSecret(p) ==
  /\ pc[p] = "store"
  /\ secret' = [secret EXCEPT ![backend(p)][name(p)] = held[p].root]
  /\ Goto(p, IF backend(p) = "keyring" THEN "load_index" ELSE "save")
  /\ UNCHANGED <<meta, index, locals, spoiled>>

\* After the index: create saves the metadata, delete removes it.
Afterwards(p) == IF cmd[p] = "create" THEN "save" ELSE "remove"

\* load_index; add_to_index saves nothing when the wallet is listed already.
LoadIndex(p) ==
  /\ pc[p] = "load_index"
  /\ view' = [view EXCEPT ![p] = index]
  /\ Goto(p, IF cmd[p] = "create" /\ name(p) \in index THEN Afterwards(p) ELSE "save_index")
  /\ UNCHANGED <<files, cmd, wallet, held, spoiled>>

\* Mutant: the other wallets are forgotten when one is added.
OwnName(p) == IF cmd[p] = "create" THEN {name(p)} ELSE view[p] \ {name(p)}

\* What add_to_index and remove_from_index write back.
NewIndex(p) ==
  IF cmd[p] = "create" THEN view[p] \cup {name(p)} ELSE view[p] \ {name(p)}

SaveIndex(p) ==
  /\ pc[p] = "save_index"
  /\ index' = NewIndex(p)
  /\ Goto(p, Afterwards(p))
  /\ UNCHANGED <<meta, secret, locals, spoiled>>

\* save_metadata, and the success report.
SaveMetadata(p) ==
  /\ pc[p] = "save"
  /\ meta' = [meta EXCEPT ![name(p)] = held[p]]
  /\ Stop(p)
  /\ UNCHANGED <<secret, index, spoiled>>

\* The secret that belongs to the metadata at hand is loaded, to sign ...
Sign(p) ==
  /\ pc[p] = "unlock"
  /\ secret[backend(p)][name(p)] # None
  /\ Stop(p)
  /\ UNCHANGED <<files, spoiled>>

\* ... or to derive, which saves the metadata again.
Derive(p) ==
  /\ pc[p] = "unlock"
  /\ secret[backend(p)][name(p)] # None
  /\ Goto(p, "save")
  /\ UNCHANGED <<files, locals, spoiled>>

\* Mutant: secrets are taken to be in files.
OnlyFile(p) == [secret EXCEPT !["file"][name(p)] = None]

\* The secret of the configured backend, not of the one in the metadata.
Removed(p) == [secret EXCEPT ![backend(p)][name(p)] = None]

\* Mutant: the index is left to the next creation.
IndexStays(p) == FALSE

\* The index is changed only when there was a credential.
IndexFollows(p) == backend(p) = "keyring" /\ secret["keyring"][name(p)] # None

\* SecureStorage::delete.
DeleteSecret(p) ==
  /\ pc[p] = "delete"
  /\ secret' = Removed(p)
  /\ Goto(p, IF IndexFollows(p) THEN "load_index" ELSE "remove")
  /\ UNCHANGED <<meta, index, locals, spoiled>>

\* The metadata is removed, and success reported.
RemoveMetadata(p) ==
  /\ pc[p] = "remove"
  /\ meta' = [meta EXCEPT ![name(p)] = None]
  /\ Stop(p)
  /\ UNCHANGED <<secret, index, spoiled>>

\* The command ends before its next step: a call that fails, an interrupt at a
\* prompt, a kill.
Quit(p) ==
  /\ pc[p] # "idle"
  /\ spoiled' = IF cmd[p] = "use" \/ pc[p] \in {"store", "delete"} THEN spoiled
                ELSE spoiled \cup {name(p)}
  /\ Stop(p)
  /\ UNCHANGED files

Next ==
  \E p \in Proc :
    \/ \E n \in Name, b \in Backend :
         BeginCreate(p, n, b) \/ BeginUse(p, n, b) \/ BeginDelete(p, n, b)
    \/ StoreSecret(p) \/ LoadIndex(p) \/ SaveIndex(p) \/ SaveMetadata(p)
    \/ Sign(p) \/ Derive(p)
    \/ DeleteSecret(p) \/ RemoveMetadata(p)
    \/ Quit(p)

Spec == Init /\ [][Next]_vars
-----------------------------------------------------------------------------
(***************************************************************************)
(* Properties.                                                             *)
(***************************************************************************)

Idle == \A p \in Proc : pc[p] = "idle"

\* SecureStorage::list, which `wallet list` prints.
Listed(b) ==
  IF b = "keyring" THEN index
  ELSE {n \in Name : meta[n] # None /\ meta[n].storage = "file"}

\* README: `wallet list` lists all wallets.  A wallet that can be used is
\* listed, wherever creations and deletions before were cut short.
UsableIsListed ==
  \A n \in Name, b \in Backend :
    meta[n] # None /\ meta[n].storage = b /\ secret[b][n] # None => n \in Listed(b)

\* A command that is cut short spoils at most the entry of its own wallet: of
\* all others the index names just those whose secret is in the keyring.
IndexExact ==
  Idle => \A n \in Name \ spoiled : n \in index <=> secret["keyring"][n] # None

\* A command derives and signs with the root that its metadata is of, although
\* both backends keep the metadata of a name in one place.
UsesOwnRoot ==
  \A p \in Proc :
    pc[p] = "unlock" /\ secret[backend(p)][name(p)] # None
      => secret[backend(p)][name(p)] = held[p].root

\* README: `wallet delete` deletes the metadata and the secret: no secret that
\* belongs to the removed metadata is left in either backend.
DeleteRemovesSecret ==
  [][\A p \in Proc :
       RemoveMetadata(p) /\ meta[name(p)] # None
         => secret[meta[name(p)].storage][name(p)] = None]_vars
=============================================================================
