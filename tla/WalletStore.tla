---------------------------- MODULE WalletStore ----------------------------
(***************************************************************************)
(* One file-backed wallet and the commands that run on it.                 *)
(*                                                                         *)
(* A wallet is two files: the metadata wallets/<name>.json and the secret  *)
(* secrets/<name>.enc, beside which `wallet password` keeps a lock file.   *)
(* Each command is a process that does one file operation per step; user   *)
(* prompts and key derivation happen between the steps.  Wallets of        *)
(* different names share no file, so one name is enough.                   *)
(***************************************************************************)
EXTENDS Naturals, FiniteSets

CONSTANTS
  Proc,        \* the command processes that may run at the same time
  Root,        \* the root secrets a wallet may hold: mnemonics, seeds, PEMs
  LegacyRoot,  \* those of Root that are an imported PEM key
  Index,       \* derivation indexes
  Name,        \* account names
  Password,    \* nonempty wallet passwords
  Plain,       \* the protection of an unencrypted secret
  Hd,          \* the wallet type of a wallet that derives accounts
  Absent,      \* there is no such file
  Empty,       \* the metadata file is open for writing and still empty
  Mangled,     \* the metadata file holds the overlay of two writes
  NoProc,      \* nobody holds the lock
  Overlapping, \* the pairs of commands the users let run at the same time
  QuitPoints   \* the program points at which a command may end early

Command == {"create", "derive", "vanity", "rename", "password", "delete", "sign"}

\* The commands that make a wallet or remove it; "create" stands for create,
\* recover and import-legacy, which store their files the same way.
Lifecycle == {"create", "delete"}

(***************************************************************************)
(* The program points of a command: what it does next.                     *)
(***************************************************************************)
Location ==
  { "idle", "store", "save", "write", "load", "unlock", "lock", "read",
    "swap", "persist", "rollback", "remove_secret", "remove_metadata" }

\* The points where the handlers themselves give up: on a prompt, on a file
\* that cannot be read, on a check that fails.
EarlyReturns == {"store", "load", "unlock", "lock", "read", "swap"}

Protection == Password \cup {Plain}
Secret     == [root : Root, protection : Protection]

\* An account's public key is determined by the root and the index it was
\* derived from, so these two stand for it and for the derivation path.
Account  == [index : Index, name : Name, root : Root]
Metadata == [encrypted : BOOLEAN, type : LegacyRoot \cup {Hd},
             accounts : SUBSET Account]

ASSUME ProcAssumption == NoProc \notin Proc
ASSUME RootAssumption == LegacyRoot \subseteq Root /\ Hd \notin LegacyRoot
ASSUME IndexAssumption == Index \subseteq Nat
ASSUME PasswordAssumption == Plain \notin Password
ASSUME FileAssumption ==
  /\ {Absent, Empty, Mangled} \cap Metadata = {}
  /\ Absent \notin Secret
  /\ Absent \notin {Empty, Mangled}
  /\ Empty # Mangled
  /\ Absent \notin [root : Root, protection : Protection, encrypted : BOOLEAN,
                   accounts : SUBSET Account]
ASSUME OverlapAssumption ==
  /\ Overlapping \subseteq Command \X Command
  /\ \A pair \in Overlapping : <<pair[2], pair[1]>> \in Overlapping
ASSUME QuitAssumption ==
  /\ EarlyReturns \subseteq QuitPoints
  /\ QuitPoints \subseteq Location \ {"idle"}

VARIABLES
  meta,       \* what the metadata path holds
  writers,    \* the processes whose open metadata file is still at that path
  secret,     \* what the secret path holds
  lock,       \* the holder of the wallet's advisory file lock
  pc,         \* pc[p]: the program point of process p
  cmd,        \* cmd[p]: the command p runs, or ran last
  view,       \* view[p]: the metadata p has in memory
  original,   \* original[p]: the secret `wallet password` read under the lock
  \* What the users have been told, for the properties only:
  told,       \* the protection last chosen, or reported to be restored
  saved       \* the indexes of the accounts reported as derived

files  == <<meta, writers, secret, lock>>
locals == <<cmd, view, original>>
ghosts == <<told, saved>>
vars   == <<files, pc, locals, ghosts>>

TypeOK ==
  /\ meta \in Metadata \cup {Absent, Empty, Mangled}
  /\ writers \in SUBSET Proc
  /\ secret \in Secret \cup {Absent}
  /\ lock \in Proc \cup {NoProc}
  /\ pc \in [Proc -> Location]
  /\ cmd \in [Proc -> Command]
  /\ view \in [Proc -> Metadata \cup {Absent}]
  /\ original \in [Proc -> Secret \cup {Absent}]
  /\ told \in Protection
  /\ saved \in SUBSET Index

\* No wallet has been made yet.
Init ==
  /\ meta = Absent
  /\ writers = {}
  /\ secret = Absent
  /\ lock = NoProc
  /\ pc = [p \in Proc |-> "idle"]
  /\ cmd = [p \in Proc |-> "create"]
  /\ view = [p \in Proc |-> Absent]
  /\ original = [p \in Proc |-> Absent]
  /\ told = Plain
  /\ saved = {}

-----------------------------------------------------------------------------
(***************************************************************************)
(* Operators of the data.                                                  *)
(***************************************************************************)

\* The file parses as metadata: neither half written nor overlaid.
Readable(file) == file \notin {Absent, Empty, Mangled}

TypeOfRoot(r) == IF r \in LegacyRoot THEN r ELSE Hd

Names(accounts)   == {a.name : a \in accounts}
Indexes(accounts) == {a.index : a \in accounts}

\* start .. start + count - 1 within the index space; empty for count = 0.
Range(start, count) == {i \in Index : start <= i /\ i < start + count}

\* Mutant: the account of each index is recorded for the one after it.
DerivedOffByOne(r, f) ==
  {[index |-> i + 1, name |-> f[i], root |-> r] : i \in DOMAIN f}

\* The accounts that naming the indexes of a set by f adds for root r.
Derived(r, f) == {[index |-> i, name |-> f[i], root |-> r] : i \in DOMAIN f}

\* Mutant: the names already in the metadata are not looked at.
NameSomeRepeated(taken, indexes) == [indexes -> Name]

\* The name templates' outcomes that pass the duplicate check: a name for each
\* index, no two equal and none already taken.
FreshNames(taken, indexes) ==
  {f \in [indexes -> Name \ taken] :
     \A i, j \in indexes : f[i] = f[j] => i = j}

\* The accounts after one of them got a new name.
Renamed(accounts, a, new) == (accounts \ {a}) \cup {[a EXCEPT !.name = new]}

\* What fs::write leaves when the file it has open holds `old`: its own text,
\* unless another process has meanwhile written a longer one.
Overlay(old, new) == IF old \in {Empty, new} THEN {new} ELSE {new, Mangled}

\* Leave the files to the other processes and be done.
Stop(p) ==
  /\ pc' = [pc EXCEPT ![p] = "idle"]
  /\ view' = [view EXCEPT ![p] = Absent]
  /\ original' = [original EXCEPT ![p] = Absent]
  /\ UNCHANGED cmd

Goto(p, location) == pc' = [pc EXCEPT ![p] = location]

-----------------------------------------------------------------------------
(***************************************************************************)
(* Starting a command: its checks on which files exist.                    *)
(***************************************************************************)

Start(p, c, location) ==
  /\ pc[p] = "idle"
  /\ \A q \in Proc \ {p} : pc[q] = "idle" \/ <<c, cmd[q]>> \in Overlapping
  /\ cmd' = [cmd EXCEPT ![p] = c]
  /\ Goto(p, location)

\* Mutants: only one of the two files is looked at.
NoMetadata == meta = Absent
NoSecret   == secret = Absent

\* ensure_wallet_absent: neither file exists.
WalletAbsent == meta = Absent /\ secret = Absent

\* ensure_wallet_exists: both files exist.
WalletExists == meta # Absent /\ secret # Absent

\* create, recover and import-legacy.  The user picks the root (or has it
\* generated) and the protection; the metadata to be saved is built first.
BeginCreate(p) ==
  /\ WalletAbsent
  /\ Start(p, "create", "store")
  /\ \E r \in Root, encrypted \in BOOLEAN :
       /\ view' = [view EXCEPT ![p] = [encrypted |-> encrypted,
                                       type |-> TypeOfRoot(r),
                                       accounts |-> {}]]
       /\ \E k \in IF encrypted THEN Password ELSE {Plain} :
            original' = [original EXCEPT ![p] = [root |-> r, protection |-> k]]
  /\ UNCHANGED <<files, ghosts>>

\* The commands that load an existing wallet's metadata first.
BeginUse(p, c) ==
  /\ WalletExists
  /\ Start(p, c, "load")
  /\ UNCHANGED <<files, view, original, ghosts>>

\* delete goes ahead when either file exists, and parses neither.
BeginDelete(p) ==
  /\ meta # Absent \/ secret # Absent
  /\ Start(p, "delete", "remove_secret")
  /\ UNCHANGED <<files, view, original, ghosts>>

-----------------------------------------------------------------------------
(***************************************************************************)
(* Storing the secret and saving the metadata.                             *)
(***************************************************************************)

\* FileSecureStorage::store: an atomic replacement of the secret file.
StoreSecret(p) ==
  /\ pc[p] = "store"
  /\ secret' = original[p]
  /\ Goto(p, "save")
  /\ UNCHANGED <<meta, writers, lock, locals, ghosts>>

\* save_metadata, the open of fs::write: create the file or truncate it.
OpenMetadata(p) ==
  /\ pc[p] = "save"
  /\ meta' = Empty
  /\ writers' = writers \cup {p}
  /\ Goto(p, "write")
  /\ UNCHANGED <<secret, lock, locals, ghosts>>

\* save_metadata, the write of fs::write, and the success report.  When the
\* open file has been replaced or removed meanwhile the write goes nowhere.
WriteMetadata(p) ==
  /\ pc[p] = "write"
  /\ IF p \in writers THEN meta' \in Overlay(meta, view[p])
                      ELSE UNCHANGED meta
  /\ writers' = writers \ {p}
  /\ told' = IF cmd[p] = "create" THEN original[p].protection ELSE told
  /\ saved' = IF cmd[p] = "create" THEN {}
              ELSE saved \cup Indexes(view[p].accounts)
  /\ Stop(p)
  /\ UNCHANGED <<secret, lock>>

-----------------------------------------------------------------------------
(***************************************************************************)
(* Loading the metadata, and what each command makes of it.                *)
(***************************************************************************)

Loads(p, c) == pc[p] = "load" /\ cmd[p] = c /\ Readable(meta)

\* derive and derive-vanity refuse a legacy wallet.
LoadToDerive(p) ==
  /\ Loads(p, "derive") \/ Loads(p, "vanity")
  /\ meta.type = Hd
  /\ view' = [view EXCEPT ![p] = meta]
  /\ Goto(p, "unlock")
  /\ UNCHANGED <<files, cmd, original, ghosts>>

\* rename: the new name is in use nowhere, the first account of the old name
\* gets it, and the metadata is saved.
LoadToRename(p) ==
  /\ Loads(p, "rename")
  /\ meta.type = Hd
  /\ \E a \in meta.accounts, new \in Name \ Names(meta.accounts) :
       view' = [view EXCEPT ![p] =
                  [meta EXCEPT !.accounts = Renamed(@, a, new)]]
  /\ Goto(p, "save")
  /\ UNCHANGED <<files, cmd, original, ghosts>>

\* Mutant: the metadata is rebuilt and its accounts are left behind.
AccountsDropped(file, encrypted) ==
  [file EXCEPT !.encrypted = encrypted, !.accounts = {}]

\* password: only the flag of the loaded metadata is changed.
WithFlag(file, encrypted) == [file EXCEPT !.encrypted = encrypted]

\* password: the replacement metadata is prepared in a temporary file before
\* the lock is taken.
LoadToChangePassword(p) ==
  /\ Loads(p, "password")
  /\ \E encrypted \in BOOLEAN :
       view' = [view EXCEPT ![p] = WithFlag(meta, encrypted)]
  /\ Goto(p, "lock")
  /\ UNCHANGED <<files, cmd, original, ghosts>>

\* Signing: `<wallet>:<account>` looks the account up by name, `<wallet>`
\* alone stands for the key of a legacy wallet.  Only what was found is kept.
LoadToSign(p) ==
  /\ Loads(p, "sign")
  /\ \/ /\ meta.type = Hd
        /\ \E a \in meta.accounts :
             view' = [view EXCEPT ![p] = [meta EXCEPT !.accounts = {a}]]
     \/ /\ meta.type # Hd
        /\ view' = [view EXCEPT ![p] = meta]
  /\ Goto(p, "unlock")
  /\ UNCHANGED <<files, cmd, original, ghosts>>

-----------------------------------------------------------------------------
(***************************************************************************)
(* Loading the secret: deriving accounts and signing.                      *)
(***************************************************************************)

\* Mutant: the new accounts replace those of the loaded metadata.
OnlyNewAccounts(accounts, new) == new

\* add_account pushes each new account whose path the loaded ones do not have.
AddAccounts(accounts, new) ==
  accounts \cup {a \in new : a.index \notin Indexes(accounts)}

\* SecureStorage::load finds the secret and the password opens it.
Unlocks(p, c) == pc[p] = "unlock" /\ cmd[p] = c /\ secret # Absent

\* Derive the accounts of `indexes` from the secret and add them to the loaded
\* metadata; nothing is saved when there is none.
DeriveAccounts(p, indexes) ==
  /\ secret.root \notin LegacyRoot
  /\ \E f \in FreshNames(Names(view[p].accounts), indexes) :
       IF indexes = {}
       THEN Stop(p)
       ELSE /\ view' = [view EXCEPT ![p].accounts =
                          AddAccounts(@, Derived(secret.root, f))]
            /\ Goto(p, "save")
            /\ UNCHANGED <<cmd, original>>
  /\ UNCHANGED <<files, ghosts>>

\* derive refuses a range that holds an index of the loaded metadata.
RangeIsFree(indexes, accounts) == indexes \cap Indexes(accounts) = {}

DeriveRange(p) ==
  /\ Unlocks(p, "derive")
  /\ \E start \in Index, count \in 0 .. Cardinality(Index) :
       /\ RangeIsFree(Range(start, count), view[p].accounts)
       /\ DeriveAccounts(p, Range(start, count))

\* derive-vanity: any matches the search may find, existing paths excluded.
DeriveMatches(p) ==
  /\ Unlocks(p, "vanity")
  /\ \E matches \in SUBSET (Index \ Indexes(view[p].accounts)) :
       DeriveAccounts(p, matches)

\* The signing key is derived from the stored root, for the account found.
Sign(p) ==
  /\ Unlocks(p, "sign")
  /\ (view[p].type = Hd) = (secret.root \notin LegacyRoot)
  /\ Stop(p)
  /\ UNCHANGED <<files, ghosts>>

-----------------------------------------------------------------------------
(***************************************************************************)
(* Changing the password.                                                  *)
(***************************************************************************)

\* Mutant: the lock is taken whoever holds it.
LockTaken(p) == TRUE

\* The lock file's try_lock succeeds.
LockIsFree(p) == lock = NoProc

TryLock(p) ==
  /\ pc[p] = "lock"
  /\ LockIsFree(p)
  /\ lock' = p
  /\ Goto(p, "read")
  /\ UNCHANGED <<meta, writers, secret, locals, ghosts>>

\* Read the secret file; it is kept for the rollback.
ReadOriginal(p) ==
  /\ pc[p] = "read"
  /\ secret # Absent
  /\ original' = [original EXCEPT ![p] = secret]
  /\ Goto(p, "swap")
  /\ UNCHANGED <<files, cmd, view, ghosts>>

\* The user has given the current password and the new one: replace the
\* secret file by the same root under the new protection.
SwapSecret(p) ==
  /\ pc[p] = "swap"
  /\ \E k \in IF view[p].encrypted THEN Password ELSE {Plain} :
       /\ secret' = [original[p] EXCEPT !.protection = k]
       /\ told' = k
  /\ Goto(p, "persist")
  /\ UNCHANGED <<meta, writers, lock, locals, saved>>

\* Mutant: the lock outlives the command.
KeepLock(p) == lock

\* Dropping the lock file, also by the end of the process, releases the lock.
Release(p) == IF lock = p THEN NoProc ELSE lock

\* Rename the prepared metadata over the path, and report success.
PersistMetadata(p) ==
  /\ pc[p] = "persist"
  /\ meta' = view[p]
  /\ writers' = {}
  /\ lock' = Release(p)
  /\ Stop(p)
  /\ UNCHANGED <<secret, ghosts>>

\* The rename fails; the original secret is to be put back.
PersistFails(p) ==
  /\ pc[p] = "persist"
  /\ Goto(p, "rollback")
  /\ UNCHANGED <<files, locals, ghosts>>

\* Mutant: the failed command reports its error and leaves the new secret.
NoRestore(p) == secret

\* What the rollback writes.
Restored(p) == original[p]

Rollback(p) ==
  /\ pc[p] = "rollback"
  /\ secret' = Restored(p)
  /\ told' = original[p].protection
  /\ lock' = Release(p)
  /\ Stop(p)
  /\ UNCHANGED <<meta, writers, saved>>

-----------------------------------------------------------------------------
(***************************************************************************)
(* Deleting the wallet, and ending early.                                  *)
(***************************************************************************)

\* The secret file is removed whatever the state of the metadata.
RemoveSecret(p) ==
  /\ pc[p] = "remove_secret"
  /\ secret' = Absent
  /\ Goto(p, "remove_metadata")
  /\ UNCHANGED <<meta, writers, lock, locals, ghosts>>

RemoveMetadata(p) ==
  /\ pc[p] = "remove_metadata"
  /\ meta' = Absent
  /\ writers' = {}
  /\ saved' = {}
  /\ Stop(p)
  /\ UNCHANGED <<secret, lock, told>>

\* The command ends before its next step: an early return, an error of the
\* file system, an interrupt at a prompt, or the end of the process.
Quit(p) ==
  /\ pc[p] \in QuitPoints
  /\ writers' = writers \ {p}
  /\ lock' = Release(p)
  /\ Stop(p)
  /\ UNCHANGED <<meta, secret, ghosts>>

-----------------------------------------------------------------------------
Begin(p) ==
  \/ BeginCreate(p)
  \/ \E c \in Command \ Lifecycle : BeginUse(p, c)
  \/ BeginDelete(p)

Load(p) ==
  \/ LoadToDerive(p)
  \/ LoadToRename(p)
  \/ LoadToChangePassword(p)
  \/ LoadToSign(p)

Step(p) ==
  \/ StoreSecret(p) \/ OpenMetadata(p) \/ WriteMetadata(p)
  \/ Load(p)
  \/ DeriveRange(p) \/ DeriveMatches(p) \/ Sign(p)
  \/ TryLock(p) \/ ReadOriginal(p) \/ SwapSecret(p)
  \/ PersistMetadata(p) \/ PersistFails(p) \/ Rollback(p)
  \/ RemoveSecret(p) \/ RemoveMetadata(p)
  \/ Quit(p)

Next == \E p \in Proc : Begin(p) \/ Step(p)

Spec == Init /\ [][Next]_vars

\* A command that has begun goes on to its end; nobody has to begin one.
FairSpec == Spec /\ \A p \in Proc : WF_vars(Step(p))
-----------------------------------------------------------------------------
(***************************************************************************)
(* Properties.                                                             *)
(***************************************************************************)

Unambiguous(accounts) ==
  \A a, b \in accounts : a.name = b.name \/ a.index = b.index => a = b

\* No two accounts of the metadata share a name or an index, so that a name
\* given to `<wallet>:<account>` selects one key: the duplicate checks of
\* derive, derive-vanity and rename, each made on a copy of the metadata.
UniqueAccounts == Readable(meta) => Unambiguous(meta.accounts)

Describes(m, s) ==
  /\ m.type = TypeOfRoot(s.root)
  /\ \A a \in m.accounts : a.root = s.root

\* Metadata and secret are of the same wallet whenever both are there: an
\* account recorded by derive can be signed for, also after any sequence of
\* interrupted creations, deletions and password changes, and where a delete has
\* run beside a command that then writes one of the two files again.
MetadataDescribesSecret ==
  Readable(meta) /\ secret # Absent => Describes(meta, secret)

\* Nothing but delete takes the root of a wallet away: what a creation past its
\* checks, a password change or its rollback writes over a secret has the root of
\* that secret, over all that killed commands and deletions have left.
RootKept ==
  [][secret # Absent /\ secret' # Absent => secret'.root = secret.root]_vars

\* delete leaves neither file when it reports success, whatever an earlier
\* command that was cut short had left behind, and in whatever state another
\* command has the metadata.
DeleteLeavesNothing ==
  [][\A p \in Proc : RemoveMetadata(p) => (meta = Absent /\ secret = Absent)']_vars

Critical == {"read", "swap", "persist", "rollback"}

\* change_password runs from the read of the secret to the end of the rollback
\* in one process at a time.
LockExclusion ==
  \A p, q \in Proc : pc[p] \in Critical /\ pc[q] \in Critical => p = q

\* No password change has replaced the secret and not yet settled the metadata.
Settled == \A p \in Proc : pc[p] \notin {"persist", "rollback"}

IsEncrypted(s) == s.protection # Plain

\* The `encrypted` flag that info shows is that of the secret file, whether
\* the password changes before succeeded, failed or were rolled back.
FlagAgreement ==
  Settled /\ Readable(meta) /\ secret # Absent
    => meta.encrypted = IsEncrypted(secret)

\* A change of the password that goes through leaves the flag that fits the secret
\* file, also after an earlier change that was killed between the two files, and
\* beside other changes, rewrites of the metadata and a delete.
ChangeSettlesFlag ==
  [][\A p \in Proc : PersistMetadata(p) /\ secret # Absent
       => meta'.encrypted = IsEncrypted(secret)]_vars

\* The secret opens with the password that was last chosen and not reported as
\* restored: a failed change leaves the very password that was there before.
UserKnowsPassword ==
  /\ Settled
  /\ secret # Absent
  /\ \A p \in Proc : ~(cmd[p] = "create" /\ pc[p] \in {"save", "write"})
  => secret.protection = told

\* An account that derive reported stays in the metadata until the wallet is
\* deleted, and the metadata of a wallet stays readable.
NoAccountLost ==
  WalletExists /\ (\A p \in Proc : pc[p] # "write")
    => Readable(meta) /\ saved \subseteq Indexes(meta.accounts)

\* README, wallet password: a change of the password changes neither the
\* derived accounts nor their names.
PasswordKeepsAccounts ==
  [][\A p \in Proc : PersistMetadata(p) =>
       Readable(meta) /\ meta'.accounts = meta.accounts]_vars

\* The lock of a password change is released at last, however the command
\* ends: no later change finds the wallet locked for good.
LockReleased == lock # NoProc ~> lock = NoProc

-----------------------------------------------------------------------------
\* The metadata that is there, or just being written.
CurrentMetadata ==
  IF meta = Empty /\ writers # {} THEN view[CHOOSE p \in writers : TRUE] ELSE meta

\* A new password counts from the moment the metadata goes with it.
CurrentSecret ==
  IF Settled THEN secret
  ELSE original[CHOOSE p \in Proc : pc[p] \in {"persist", "rollback"}]

\* Both files make a wallet; one alone does not.
CurrentWallet ==
  IF secret = Absent \/ ~Readable(CurrentMetadata) THEN Absent
  ELSE [root |-> CurrentSecret.root, protection |-> CurrentSecret.protection,
        encrypted |-> CurrentMetadata.encrypted, accounts |-> CurrentMetadata.accounts]

Atomic == INSTANCE AtomicWallet WITH wallet <- CurrentWallet, Nothing <- Absent

\* A wallet changes as if each command were one step: create, derive, rename,
\* password and delete take effect at once or, when they fail or end early,
\* not at all, for all that they write two files one after the other and read
\* what they change long before.  No two commands that rewrite the metadata
\* may overlap, and none may be killed in between (see the findings).
IsAtomic == Atomic!Spec
=============================================================================
