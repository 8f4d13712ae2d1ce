------------------------- MODULE WalletStoreProofs -------------------------
(***************************************************************************)
(* Theorems about WalletStore, for any number of processes, roots,         *)
(* indexes, names and passwords.                                           *)
(***************************************************************************)
EXTENDS WalletStore, TLAPS

-----------------------------------------------------------------------------
(***************************************************************************)
(* Type correctness.                                                       *)
(***************************************************************************)

USE DEF Goto, Stop, files, locals, ghosts

\* Naming indexes and adding the accounts yields accounts of the model.
LEMMA AddAccountsType ==
  ASSUME NEW accounts \in SUBSET Account, NEW r \in Root,
         NEW indexes \in SUBSET Index,
         NEW f \in FreshNames(Names(accounts), indexes)
  PROVE  AddAccounts(accounts, Derived(r, f)) \in SUBSET Account
  BY DEF AddAccounts, Derived, FreshNames, Account

\* Renaming one account yields accounts of the model.
LEMMA RenamedType ==
  ASSUME NEW accounts \in SUBSET Account, NEW a \in accounts, NEW new \in Name
  PROVE  Renamed(accounts, a, new) \in SUBSET Account
  BY DEF Renamed, Account

\* What a command has in memory at each of its program points.
InHand ==
  \A p \in Proc :
    /\ pc[p] \in {"store", "save", "write", "unlock"} \cup {"lock"} \cup Critical
         => view[p] \in Metadata
    /\ pc[p] \in {"swap", "persist", "rollback"} => original[p] \in Secret
    /\ cmd[p] = "create" /\ pc[p] \in {"store", "save", "write"}
         => original[p] \in Secret

TypeInv == TypeOK /\ InHand

\* TypeOK holds because a command reads from memory only what it has put there.
LEMMA TypeInvariant == Spec => []TypeInv
<1>1. Init => TypeInv
  BY PasswordAssumption DEF Init, TypeInv, TypeOK, InHand, Critical, Location, Command, Protection
<1>2. TypeInv /\ [Next]_vars => TypeInv'
  <2> SUFFICES ASSUME TypeInv, [Next]_vars PROVE TypeInv'
    OBVIOUS
  <2> USE DEF TypeInv, TypeOK, InHand, Location, Critical
  <2>0. CASE UNCHANGED vars
    BY <2>0 DEF vars
  <2> SUFFICES ASSUME NEW p \in Proc, Begin(p) \/ Step(p) PROVE TypeInv'
    BY <2>0 DEF Next
  <2>1. CASE BeginCreate(p)
    <3>1. PICK r \in Root, encrypted \in BOOLEAN :
            /\ view' = [view EXCEPT ![p] = [encrypted |-> encrypted,
                                            type |-> TypeOfRoot(r),
                                            accounts |-> {}]]
            /\ \E k \in IF encrypted THEN Password ELSE {Plain} :
                 original' = [original EXCEPT ![p] = [root |-> r, protection |-> k]]
      BY <2>1 DEF BeginCreate
    <3>2. PICK k \in Protection :
                 original' = [original EXCEPT ![p] = [root |-> r, protection |-> k]]
      BY <3>1 DEF Protection
    <3>3. view'[p] \in Metadata /\ original'[p] \in Secret
      BY <3>1, <3>2 DEF TypeOfRoot, Metadata, Secret
    <3> QED
      BY <2>1, <3>1, <3>2, <3>3 DEF BeginCreate, Start, Command
  <2>2. ASSUME NEW c \in Command \ Lifecycle, BeginUse(p, c) PROVE TypeInv'
    BY <2>2 DEF BeginUse, Start
  <2>3. CASE BeginDelete(p)
    BY <2>3 DEF BeginDelete, Start, Command
  <2>4. CASE StoreSecret(p)
    BY <2>4 DEF StoreSecret
  <2>5. CASE OpenMetadata(p)
    BY <2>5 DEF OpenMetadata
  <2>6. CASE WriteMetadata(p)
    <3>1. meta' \in Metadata \cup {Absent, Empty, Mangled}
      BY <2>6 DEF WriteMetadata, Overlay
    <3>2. told' \in Protection
      BY <2>6 DEF WriteMetadata, Secret
    <3>3. saved' \in SUBSET Index
      BY <2>6 DEF WriteMetadata, Metadata, Account, Indexes
    <3> QED
      BY <2>6, <3>1, <3>2, <3>3 DEF WriteMetadata
  <2>7. CASE LoadToDerive(p)
    BY <2>7 DEF LoadToDerive, Loads, Readable
  <2>8. CASE LoadToRename(p)
    <3>1. meta \in Metadata
      BY <2>8 DEF LoadToRename, Loads, Readable
    <3>2. PICK a \in meta.accounts, new \in Name :
            view' = [view EXCEPT ![p] =
                       [meta EXCEPT !.accounts = Renamed(meta.accounts, a, new)]]
      BY <2>8 DEF LoadToRename
    <3>3. Renamed(meta.accounts, a, new) \in SUBSET Account
      BY <3>1, RenamedType DEF Metadata
    <3>4. view'[p] \in Metadata
      BY <3>1, <3>2, <3>3 DEF Metadata
    <3> QED
      BY <2>8, <3>2, <3>4 DEF LoadToRename, Loads
  <2>9. CASE LoadToChangePassword(p)
    BY <2>9 DEF LoadToChangePassword, Loads, Readable, WithFlag, Metadata
  <2>10. CASE LoadToSign(p)
    <3>1. meta \in Metadata
      BY <2>10 DEF LoadToSign, Loads, Readable
    <3>2. view' = [view EXCEPT ![p] = view'[p]] /\ view'[p] \in Metadata
      BY <2>10, <3>1 DEF LoadToSign, Metadata
    <3> QED
      BY <2>10, <3>2 DEF LoadToSign, Loads
  <2>11. ASSUME NEW indexes \in SUBSET Index,
                Unlocks(p, "derive") \/ Unlocks(p, "vanity"),
                DeriveAccounts(p, indexes)
         PROVE  TypeInv'
    <3>1. CASE indexes = {}
      BY <2>11, <3>1 DEF DeriveAccounts
    <3>2. CASE indexes # {}
      <4>1. view[p] \in Metadata /\ secret \in Secret
        BY <2>11 DEF Unlocks
      <4>2. PICK f \in FreshNames(Names(view[p].accounts), indexes) :
              /\ view' = [view EXCEPT ![p].accounts =
                            AddAccounts(@, Derived(secret.root, f))]
              /\ Goto(p, "save")
              /\ UNCHANGED <<cmd, original>>
        BY <2>11, <3>2 DEF DeriveAccounts
      <4>3. AddAccounts(view[p].accounts, Derived(secret.root, f)) \in SUBSET Account
        BY <4>1, AddAccountsType DEF Metadata, Secret
      <4>4. view'[p] \in Metadata
        BY <4>1, <4>2, <4>3 DEF Metadata
      <4>5. view' \in [Proc -> Metadata \cup {Absent}]
        BY <4>2, <4>4
      <4> QED
        BY <2>11, <4>2, <4>4, <4>5 DEF DeriveAccounts, Unlocks
    <3> QED
      BY <3>1, <3>2
  <2>12. CASE DeriveRange(p)
    BY <2>11, <2>12 DEF DeriveRange, Range
  <2>13. CASE DeriveMatches(p)
    BY <2>11, <2>13 DEF DeriveMatches
  <2>14. CASE Sign(p)
    BY <2>14 DEF Sign
  <2>15. CASE TryLock(p)
    BY <2>15 DEF TryLock
  <2>16. CASE ReadOriginal(p)
    BY <2>16 DEF ReadOriginal
  <2>17. CASE SwapSecret(p)
    <3>1. PICK k \in Protection :
            secret' = [original[p] EXCEPT !.protection = k] /\ told' = k
      BY <2>17 DEF SwapSecret, Protection
    <3>2. secret' \in Secret
      BY <2>17, <3>1 DEF SwapSecret, Secret
    <3> QED
      BY <2>17, <3>1, <3>2 DEF SwapSecret
  <2>18. CASE PersistMetadata(p)
    BY <2>18 DEF PersistMetadata, Release
  <2>19. CASE PersistFails(p)
    BY <2>19 DEF PersistFails
  <2>20. CASE Rollback(p)
    BY <2>20 DEF Rollback, Restored, Release, Secret
  <2>21. CASE RemoveSecret(p)
    BY <2>21 DEF RemoveSecret
  <2>22. CASE RemoveMetadata(p)
    BY <2>22 DEF RemoveMetadata
  <2>23. CASE Quit(p)
    BY <2>23 DEF Quit, Release
  <2> QED
    BY <2>1, <2>2, <2>3, <2>4, <2>5, <2>6, <2>7, <2>8, <2>9, <2>10, <2>12, <2>13, <2>14,
       <2>15, <2>16, <2>17, <2>18, <2>19, <2>20, <2>21, <2>22, <2>23
       DEF Begin, Load, Step
<1>3. QED
  BY <1>1, <1>2, PTL DEF Spec

\* Every variable keeps its type.
THEOREM TypeCorrect == Spec => []TypeOK
  BY TypeInvariant, PTL DEF TypeInv

-----------------------------------------------------------------------------
(***************************************************************************)
(* The lock of a password change excludes other password changes.          *)
(***************************************************************************)

\* A process in the critical section holds the lock.
LockInv == \A p \in Proc : pc[p] \in Critical => lock = p

\* A password change enters with the lock and releases it as it leaves.
LEMMA LockInvariant == Spec => []LockInv
<1>1. Init => LockInv
  BY DEF Init, LockInv, Critical
<1>2. TypeInv /\ LockInv /\ [Next]_vars => LockInv'
  <2> SUFFICES ASSUME TypeInv, LockInv, [Next]_vars PROVE LockInv'
    OBVIOUS
  <2> USE ProcAssumption DEF TypeInv, TypeOK, LockInv, Critical
  <2>0. CASE UNCHANGED vars
    BY <2>0 DEF vars
  <2> SUFFICES ASSUME NEW p \in Proc, Begin(p) \/ Step(p) PROVE LockInv'
    BY <2>0 DEF Next
  <2>1. CASE Begin(p)
    BY <2>1 DEF Begin, BeginCreate, BeginUse, BeginDelete, Start
  <2>2. CASE StoreSecret(p) \/ OpenMetadata(p) \/ WriteMetadata(p)
    BY <2>2 DEF StoreSecret, OpenMetadata, WriteMetadata
  <2>3. CASE Load(p)
    BY <2>3 DEF Load, LoadToDerive, LoadToRename, LoadToChangePassword, LoadToSign
  <2>4. CASE DeriveRange(p) \/ DeriveMatches(p) \/ Sign(p)
    <3>1. UNCHANGED lock /\ pc' \in {[pc EXCEPT ![p] = "save"], [pc EXCEPT ![p] = "idle"]}
      BY <2>4 DEF DeriveRange, DeriveMatches, DeriveAccounts, Sign
    <3> QED
      BY <3>1
  <2>5. CASE TryLock(p)
    BY <2>5 DEF TryLock, LockIsFree
  <2>6. CASE ReadOriginal(p) \/ SwapSecret(p) \/ PersistFails(p)
    BY <2>6 DEF ReadOriginal, SwapSecret, PersistFails
  <2>7. CASE PersistMetadata(p) \/ Rollback(p) \/ Quit(p)
    BY <2>7 DEF PersistMetadata, Rollback, Quit, Release
  <2>8. CASE RemoveSecret(p) \/ RemoveMetadata(p)
    BY <2>8 DEF RemoveSecret, RemoveMetadata
  <2> QED
    BY <2>1, <2>2, <2>3, <2>4, <2>5, <2>6, <2>7, <2>8 DEF Step
<1>3. QED
  BY <1>1, <1>2, TypeInvariant, PTL DEF Spec

\* At most one process is between reading the secret and settling the change,
\* wherever processes are killed and whatever else runs.
THEOREM LockExcludes == Spec => []LockExclusion
<1>1. LockInv => LockExclusion
  BY DEF LockInv, LockExclusion
<1>2. QED
  BY <1>1, LockInvariant, PTL

-----------------------------------------------------------------------------
(***************************************************************************)
(* Account names and indexes stay unambiguous.                             *)
(***************************************************************************)

\* Naming new indexes by fresh names keeps the accounts unambiguous.
LEMMA AddAccountsUnambiguous ==
  ASSUME NEW accounts \in SUBSET Account, Unambiguous(accounts),
         NEW r \in Root, NEW indexes \in SUBSET Index,
         NEW f \in FreshNames(Names(accounts), indexes)
  PROVE  Unambiguous(AddAccounts(accounts, Derived(r, f)))
<1> DEFINE new == {a \in Derived(r, f) : a.index \notin Indexes(accounts)}
<1>1. \A a \in new : /\ a.index \in indexes /\ a.name = f[a.index] /\ a.root = r
                     /\ a = [index |-> a.index, name |-> a.name, root |-> a.root]
  BY DEF Derived, FreshNames
<1>2. \A a, b \in new : a.name = b.name \/ a.index = b.index => a = b
  BY <1>1 DEF FreshNames
<1>3. \A a \in accounts, b \in new : a.name # b.name /\ a.index # b.index
  BY <1>1 DEF FreshNames, Names, Indexes
<1> QED
  BY <1>2, <1>3 DEF Unambiguous, AddAccounts

\* So does renaming an account to a name that is in use nowhere.
LEMMA RenamedUnambiguous ==
  ASSUME NEW accounts \in SUBSET Account, Unambiguous(accounts),
         NEW a \in accounts, NEW new \in Name \ Names(accounts)
  PROVE  Unambiguous(Renamed(accounts, a, new))
  BY DEF Unambiguous, Renamed, Names, Account

\* The metadata in memory is as unambiguous as the file.
UniqueInv ==
  /\ UniqueAccounts
  /\ \A p \in Proc :
       pc[p] \in {"store", "save", "write", "unlock", "lock"} \cup Critical
         => Unambiguous(view[p].accounts)

\* Each metadata that is read or prepared is one that was checked.
LEMMA UniqueInvariant == Spec => []UniqueInv
<1>1. Init => UniqueInv
  BY DEF Init, UniqueInv, UniqueAccounts, Readable, Critical
<1>2. TypeInv /\ UniqueInv /\ [Next]_vars => UniqueInv'
  <2> SUFFICES ASSUME TypeInv, UniqueInv, [Next]_vars PROVE UniqueInv'
    OBVIOUS
  <2> USE DEF TypeInv, TypeOK, InHand, UniqueInv, UniqueAccounts, Critical, Readable
  <2>0. CASE UNCHANGED vars
    BY <2>0 DEF vars
  <2> SUFFICES ASSUME NEW p \in Proc, Begin(p) \/ Step(p) PROVE UniqueInv'
    BY <2>0 DEF Next
  <2>1. CASE BeginCreate(p)
    <3>1. view'[p].accounts = {} /\ view' = [view EXCEPT ![p] = view'[p]]
      BY <2>1 DEF BeginCreate
    <3>2. Unambiguous({})
      BY DEF Unambiguous
    <3> QED
      BY <2>1, <3>1, <3>2 DEF BeginCreate, Start
  <2>2. CASE BeginDelete(p) \/ \E c \in Command \ Lifecycle : BeginUse(p, c)
    BY <2>2 DEF BeginUse, BeginDelete, Start
  <2>3. CASE StoreSecret(p) \/ OpenMetadata(p)
    BY <2>3 DEF StoreSecret, OpenMetadata
  <2>4. CASE WriteMetadata(p)
    BY <2>4 DEF WriteMetadata, Overlay
  <2>5. CASE LoadToDerive(p)
    BY <2>5 DEF LoadToDerive, Loads
  <2>6. CASE LoadToRename(p)
    <3>1. meta \in Metadata /\ Unambiguous(meta.accounts)
      BY <2>6 DEF LoadToRename, Loads
    <3>2. PICK a \in meta.accounts, new \in Name \ Names(meta.accounts) :
            view' = [view EXCEPT ![p] =
                       [meta EXCEPT !.accounts = Renamed(meta.accounts, a, new)]]
      BY <2>6 DEF LoadToRename
    <3>3. Unambiguous(Renamed(meta.accounts, a, new))
      BY <3>1, RenamedUnambiguous DEF Metadata
    <3>4. Unambiguous(view'[p].accounts)
      BY <3>1, <3>2, <3>3 DEF Metadata
    <3> QED
      BY <2>6, <3>2, <3>4 DEF LoadToRename
  <2>7. CASE LoadToChangePassword(p)
    <3>1. view' = [view EXCEPT ![p] = view'[p]] /\ view'[p].accounts = meta.accounts
      BY <2>7 DEF LoadToChangePassword, Loads, WithFlag, Metadata
    <3> QED
      BY <2>7, <3>1 DEF LoadToChangePassword, Loads
  <2>8. CASE LoadToSign(p)
    <3>1. /\ view' = [view EXCEPT ![p] = view'[p]]
          /\ view'[p].accounts \subseteq meta.accounts
      BY <2>8 DEF LoadToSign, Loads, Metadata
    <3>2. Unambiguous(view'[p].accounts)
      BY <2>8, <3>1 DEF LoadToSign, Loads, Unambiguous
    <3> QED
      BY <2>8, <3>1, <3>2 DEF LoadToSign
  <2>9. ASSUME NEW indexes \in SUBSET Index,
               Unlocks(p, "derive") \/ Unlocks(p, "vanity"),
               DeriveAccounts(p, indexes)
        PROVE  UniqueInv'
    <3>1. CASE indexes = {}
      BY <2>9, <3>1 DEF DeriveAccounts
    <3>2. CASE indexes # {}
      <4>1. /\ view[p] \in Metadata /\ secret \in Secret
            /\ Unambiguous(view[p].accounts)
        BY <2>9 DEF Unlocks
      <4>2. PICK f \in FreshNames(Names(view[p].accounts), indexes) :
              /\ view' = [view EXCEPT ![p].accounts =
                            AddAccounts(@, Derived(secret.root, f))]
              /\ Goto(p, "save")
        BY <2>9, <3>2 DEF DeriveAccounts
      <4>3. Unambiguous(AddAccounts(view[p].accounts, Derived(secret.root, f)))
        BY <4>1, AddAccountsUnambiguous DEF Metadata, Secret
      <4>4. Unambiguous(view'[p].accounts)
        BY <4>1, <4>2, <4>3 DEF Metadata
      <4> QED
        BY <2>9, <4>2, <4>4 DEF DeriveAccounts
    <3> QED
      BY <3>1, <3>2
  <2>10. CASE DeriveRange(p) \/ DeriveMatches(p)
    BY <2>9, <2>10 DEF DeriveRange, DeriveMatches, Range
  <2>11. CASE Sign(p)
    BY <2>11 DEF Sign
  <2>12. CASE TryLock(p) \/ ReadOriginal(p) \/ SwapSecret(p) \/ PersistFails(p)
    BY <2>12 DEF TryLock, ReadOriginal, SwapSecret, PersistFails
  <2>13. CASE PersistMetadata(p)
    BY <2>13 DEF PersistMetadata
  <2>14. CASE Rollback(p) \/ Quit(p)
    BY <2>14 DEF Rollback, Quit
  <2>15. CASE RemoveSecret(p) \/ RemoveMetadata(p)
    BY <2>15 DEF RemoveSecret, RemoveMetadata
  <2> QED
    BY <2>1, <2>2, <2>3, <2>4, <2>5, <2>6, <2>7, <2>8, <2>10, <2>11, <2>12, <2>13, <2>14,
       <2>15 DEF Begin, Load, Step
<1>3. QED
  BY <1>1, <1>2, TypeInvariant, PTL DEF Spec

\* Every readable metadata file is unambiguous, even where concurrent commands
\* overwrite one another's accounts: each file written is one that was checked.
THEOREM AccountsUnique == Spec => []UniqueAccounts
  BY UniqueInvariant, PTL DEF UniqueInv

-----------------------------------------------------------------------------
(***************************************************************************)
(* Which commands run together.                                            *)
(***************************************************************************)

\* The users make and delete a wallet with nothing else running on it.
LifecycleAlone == \A pair \in Overlapping : pair[1] \notin Lifecycle

\* Beside a password change they run only signing and password changes.
PasswordsApart ==
  \A pair \in Overlapping : pair[1] = "password" => pair[2] \in {"password", "sign"}

\* Each program point belongs to certain commands, and two commands that are
\* running are a pair the users let overlap.
ControlInv ==
  /\ \A p \in Proc :
       /\ pc[p] = "store" => cmd[p] = "create"
       /\ pc[p] \in {"save", "write"} => cmd[p] \in {"create", "derive", "vanity", "rename"}
       /\ pc[p] = "load" => cmd[p] \notin Lifecycle
       /\ pc[p] = "unlock" => cmd[p] \in {"derive", "vanity", "sign"}
       /\ pc[p] \in {"lock"} \cup Critical => cmd[p] = "password"
       /\ pc[p] \in {"remove_secret", "remove_metadata"} => cmd[p] = "delete"
  /\ \A p, q \in Proc :
       p # q /\ pc[p] # "idle" /\ pc[q] # "idle" => <<cmd[p], cmd[q]>> \in Overlapping

\* No command reaches a program point of another, or starts beside a command it
\* is not to overlap.
LEMMA ControlInvariant == Spec => []ControlInv
<1>1. Init => ControlInv
  BY DEF Init, ControlInv, Critical
<1>2. TypeInv /\ ControlInv /\ [Next]_vars => ControlInv'
  <2> SUFFICES ASSUME TypeInv, ControlInv, [Next]_vars PROVE ControlInv'
    OBVIOUS
  <2> USE DEF TypeInv, TypeOK, ControlInv, Critical, Lifecycle
  <2>0. CASE UNCHANGED vars
    BY <2>0 DEF vars
  <2> SUFFICES ASSUME NEW p \in Proc, Begin(p) \/ Step(p) PROVE ControlInv'
    BY <2>0 DEF Next
  <2>1. ASSUME NEW c \in Command, NEW location, Start(p, c, location),
               \/ c = "create" /\ location = "store"
               \/ c = "delete" /\ location = "remove_secret"
               \/ c \notin Lifecycle /\ location = "load"
        PROVE  ControlInv'
    <3>1. \A q \in Proc \ {p} : pc[q] # "idle" =>
            <<c, cmd[q]>> \in Overlapping /\ <<cmd[q], c>> \in Overlapping
      BY <2>1, OverlapAssumption DEF Start
    <3> QED
      BY <2>1, <3>1 DEF Start
  <2>2. CASE Begin(p)
    BY <2>1, <2>2 DEF Begin, BeginCreate, BeginUse, BeginDelete, Command
  <2>3. CASE StoreSecret(p) \/ OpenMetadata(p) \/ WriteMetadata(p)
    BY <2>3 DEF StoreSecret, OpenMetadata, WriteMetadata
  <2>4. CASE Load(p)
    BY <2>4 DEF Load, LoadToDerive, LoadToRename, LoadToChangePassword, LoadToSign, Loads
  <2>5. CASE DeriveRange(p) \/ DeriveMatches(p) \/ Sign(p)
    <3>1. /\ UNCHANGED cmd
          /\ \/ pc' = [pc EXCEPT ![p] = "save"] /\ cmd[p] \in {"derive", "vanity"}
             \/ pc' = [pc EXCEPT ![p] = "idle"]
          /\ pc[p] # "idle"
      BY <2>5 DEF DeriveRange, DeriveMatches, DeriveAccounts, Sign, Unlocks
    <3> QED
      BY <3>1
  <2>6. CASE TryLock(p) \/ ReadOriginal(p) \/ SwapSecret(p) \/ PersistFails(p)
    BY <2>6 DEF TryLock, ReadOriginal, SwapSecret, PersistFails
  <2>7. CASE PersistMetadata(p) \/ Rollback(p) \/ Quit(p)
    BY <2>7 DEF PersistMetadata, Rollback, Quit
  <2>8. CASE RemoveSecret(p) \/ RemoveMetadata(p)
    BY <2>8 DEF RemoveSecret, RemoveMetadata
  <2> QED
    BY <2>2, <2>3, <2>4, <2>5, <2>6, <2>7, <2>8 DEF Step
<1>3. QED
  BY <1>1, <1>2, TypeInvariant, PTL DEF Spec

\* A command that makes or deletes the wallet runs alone.
LEMMA Alone ==
  ASSUME LifecycleAlone, ControlInv, NEW p \in Proc, cmd[p] \in Lifecycle,
         pc[p] # "idle", NEW q \in Proc, q # p
  PROVE  pc[q] = "idle"
<1>1. pc[q] # "idle" => <<cmd[p], cmd[q]>> \in Overlapping
  BY DEF ControlInv
<1>2. <<cmd[p], cmd[q]>>[1] = cmd[p]
  OBVIOUS
<1> QED
  BY <1>1, <1>2 DEF LifecycleAlone

\* A command that finds another one running is not one of them.
LEMMA StartAlone ==
  ASSUME LifecycleAlone, TypeInv, NEW p \in Proc, NEW c \in Lifecycle, NEW location,
         Start(p, c, location), NEW q \in Proc, q # p
  PROVE  pc[q] = "idle" /\ pc'[q] = "idle"
<1>1. pc[q] # "idle" => <<c, cmd[q]>> \in Overlapping
  BY DEF Start
<1>2. <<c, cmd[q]>>[1] = c
  OBVIOUS
<1>3. pc[q] = "idle"
  BY <1>1, <1>2 DEF LifecycleAlone
<1> QED
  BY <1>3 DEF Start, TypeInv, TypeOK

-----------------------------------------------------------------------------
(***************************************************************************)
(* Metadata and secret are of the same wallet.                             *)
(***************************************************************************)

\* What a command remembers of the two files it still agrees with.
DescribeInv ==
  /\ MetadataDescribesSecret
  /\ \A p \in Proc :
       /\ pc[p] \in {"load", "save", "write", "unlock", "lock"} \cup Critical => secret # Absent
       /\ pc[p] \in {"save", "write", "unlock", "lock"} \cup Critical => Describes(view[p], secret)
       /\ pc[p] \in {"swap", "persist", "rollback"} => original[p].root = secret.root
       /\ pc[p] = "store" => WalletAbsent /\ Describes(view[p], original[p])
       /\ pc[p] = "save" /\ cmd[p] = "create" => meta = Absent
       /\ pc[p] = "remove_metadata" => secret = Absent

\* Adding accounts derived from the stored root keeps the description true.
LEMMA AddAccountsDescribes ==
  ASSUME NEW m \in Metadata, NEW s \in Secret, Describes(m, s),
         NEW indexes \in SUBSET Index,
         NEW f \in FreshNames(Names(m.accounts), indexes)
  PROVE  Describes([m EXCEPT !.accounts = AddAccounts(@, Derived(s.root, f))], s)
<1>1. \A a \in AddAccounts(m.accounts, Derived(s.root, f)) : a.root = s.root
  BY DEF AddAccounts, Derived, Describes
<1> QED
  BY <1>1 DEF Describes, Metadata

\* Each step of each command keeps the two files of the same wallet, and what a
\* command remembers of them true.
LEMMA DescribeStep ==
  ASSUME LifecycleAlone, TypeInv, ControlInv, DescribeInv, [Next]_vars
  PROVE  DescribeInv'
<1> USE DEF TypeInv, TypeOK, InHand, Critical, DescribeInv, MetadataDescribesSecret, Readable
<1>0. CASE UNCHANGED vars
  BY <1>0 DEF vars, Describes, WalletAbsent
<1> SUFFICES ASSUME NEW p \in Proc, Begin(p) \/ Step(p) PROVE DescribeInv'
  BY <1>0 DEF Next
<1>1. CASE BeginCreate(p)
  <2>1. \A q \in Proc : q # p => pc'[q] = "idle"
    BY <1>1, StartAlone DEF BeginCreate, Lifecycle
  <2>2. Describes(view'[p], original'[p])
    BY <1>1 DEF BeginCreate, Describes
  <2> QED
    BY <1>1, <2>1, <2>2 DEF BeginCreate, Start, WalletAbsent
<1>2. ASSUME NEW c \in Command \ Lifecycle, BeginUse(p, c) PROVE DescribeInv'
  BY <1>2 DEF BeginUse, Start, WalletExists, WalletAbsent, Lifecycle
<1>3. CASE BeginDelete(p)
  BY <1>3 DEF BeginDelete, Start, WalletAbsent
<1>4. CASE StoreSecret(p)
  <2>1. \A q \in Proc : q # p => pc[q] = "idle"
    BY <1>4, Alone DEF StoreSecret, ControlInv, Lifecycle
  <2>2. secret' \in Secret /\ cmd[p] = "create"
    BY <1>4 DEF StoreSecret, ControlInv
  <2> QED
    BY <1>4, <2>1, <2>2, FileAssumption DEF StoreSecret, WalletAbsent
<1>5. CASE OpenMetadata(p)
  <2>1. \A q \in Proc : pc[q] = "store" => FALSE
    <3> SUFFICES ASSUME NEW q \in Proc, pc[q] = "store" PROVE FALSE
      OBVIOUS
    <3> QED
      BY <1>5, Alone DEF OpenMetadata, ControlInv, Lifecycle
  <2>2. \A q \in Proc : q # p /\ cmd[q] = "create" => pc[q] = "idle"
    <3> SUFFICES ASSUME NEW q \in Proc, q # p, cmd[q] = "create", pc[q] # "idle" PROVE FALSE
      OBVIOUS
    <3> QED
      BY <1>5, Alone DEF OpenMetadata, Lifecycle
  <2> QED
    BY <1>5, <2>1, <2>2 DEF OpenMetadata
<1>6. CASE WriteMetadata(p)
  <2>1. \A q \in Proc : q # p /\ cmd[q] = "create" => pc[q] = "idle"
    <3> SUFFICES ASSUME NEW q \in Proc, q # p, cmd[q] = "create", pc[q] # "idle" PROVE FALSE
      OBVIOUS
    <3> QED
      BY <1>6, Alone DEF WriteMetadata, Lifecycle
  <2>2. meta' \in {meta, view[p], Mangled}
    BY <1>6 DEF WriteMetadata, Overlay
  <2> QED
    BY <1>6, <2>1, <2>2 DEF WriteMetadata, ControlInv
<1>7. CASE Load(p)
  <2>1. /\ pc[p] = "load" /\ Readable(meta) /\ UNCHANGED <<meta, secret, cmd, original>>
        /\ \E location \in {"save", "lock", "unlock"} :
             /\ pc' = [pc EXCEPT ![p] = location]
             /\ location = "save" => cmd[p] = "rename"
    BY <1>7 DEF Load, Loads, LoadToDerive, LoadToRename, LoadToChangePassword, LoadToSign
  <2>2. Describes(meta, secret)
    BY <2>1
  <2>3. view' = [view EXCEPT ![p] = view'[p]] /\ Describes(view'[p], secret)
    <3>1. CASE LoadToDerive(p)
      BY <2>2, <3>1 DEF LoadToDerive
    <3>2. CASE LoadToRename(p)
      <4>1. PICK a \in meta.accounts, new \in Name :
              view' = [view EXCEPT ![p] =
                         [meta EXCEPT !.accounts = Renamed(meta.accounts, a, new)]]
        BY <3>2 DEF LoadToRename
      <4>2. \A b \in Renamed(meta.accounts, a, new) : b.root = secret.root
        BY <2>1, <2>2 DEF Renamed, Describes, Metadata, Account
      <4> QED
        BY <2>1, <2>2, <4>1, <4>2 DEF Describes, Metadata
    <3>3. CASE LoadToChangePassword(p)
      BY <2>1, <2>2, <3>3 DEF LoadToChangePassword, WithFlag, Describes, Metadata
    <3>4. CASE LoadToSign(p)
      BY <2>1, <2>2, <3>4 DEF LoadToSign, Describes, Metadata
    <3> QED
      BY <1>7, <3>1, <3>2, <3>3, <3>4 DEF Load
  <2> QED
    BY <2>1, <2>3 DEF WalletAbsent
<1>8. ASSUME NEW indexes \in SUBSET Index,
             Unlocks(p, "derive") \/ Unlocks(p, "vanity"),
             DeriveAccounts(p, indexes)
      PROVE  DescribeInv'
  <2>1. CASE indexes = {}
    BY <1>8, <2>1 DEF DeriveAccounts, WalletAbsent
  <2>2. CASE indexes # {}
    <3>1. view[p] \in Metadata /\ secret \in Secret /\ Describes(view[p], secret)
      BY <1>8 DEF Unlocks
    <3>2. PICK f \in FreshNames(Names(view[p].accounts), indexes) :
            /\ view' = [view EXCEPT ![p].accounts =
                          AddAccounts(@, Derived(secret.root, f))]
            /\ Goto(p, "save")
            /\ UNCHANGED <<cmd, original>>
      BY <1>8, <2>2 DEF DeriveAccounts
    <3>3. Describes([view[p] EXCEPT !.accounts =
                       AddAccounts(@, Derived(secret.root, f))], secret)
      BY <3>1, AddAccountsDescribes
    <3>4. Describes(view'[p], secret)
      BY <3>2, <3>3
    <3> QED
      BY <1>8, <3>2, <3>4 DEF DeriveAccounts, Unlocks, WalletAbsent
  <2> QED
    BY <2>1, <2>2
<1>9. CASE DeriveRange(p) \/ DeriveMatches(p)
  BY <1>8, <1>9 DEF DeriveRange, DeriveMatches, Range
<1>10. CASE Sign(p)
  BY <1>10 DEF Sign, WalletAbsent
<1>11. CASE TryLock(p)
  BY <1>11 DEF TryLock, WalletAbsent
<1>12. CASE ReadOriginal(p)
  BY <1>12 DEF ReadOriginal, WalletAbsent
<1>13. CASE SwapSecret(p)
  <2>1. secret' \in Secret /\ secret'.root = secret.root
    BY <1>13 DEF SwapSecret, Secret, Protection
  <2>2. \A q \in Proc : pc[q] \notin {"store", "remove_metadata"}
    <3> SUFFICES ASSUME NEW q \in Proc, pc[q] \in {"store", "remove_metadata"} PROVE FALSE
      OBVIOUS
    <3> QED
      BY <1>13, Alone DEF SwapSecret, ControlInv, Lifecycle
  <2> QED
    BY <1>13, <2>1, <2>2, FileAssumption DEF SwapSecret, Describes
<1>14. CASE PersistMetadata(p)
  <2>1. \A q \in Proc : cmd[q] \in Lifecycle => pc[q] = "idle"
    <3> SUFFICES ASSUME NEW q \in Proc, cmd[q] \in Lifecycle, pc[q] # "idle" PROVE FALSE
      OBVIOUS
    <3> QED
      BY <1>14, Alone DEF PersistMetadata, ControlInv, Lifecycle
  <2> QED
    BY <1>14, <2>1 DEF PersistMetadata, ControlInv, Lifecycle
<1>15. CASE PersistFails(p)
  BY <1>15 DEF PersistFails, WalletAbsent
<1>16. CASE Rollback(p)
  <2>1. secret' \in Secret /\ secret'.root = secret.root
    BY <1>16 DEF Rollback, Restored
  <2>2. \A q \in Proc : pc[q] \notin {"store", "remove_metadata"}
    <3> SUFFICES ASSUME NEW q \in Proc, pc[q] \in {"store", "remove_metadata"} PROVE FALSE
      OBVIOUS
    <3> QED
      BY <1>16, Alone DEF Rollback, ControlInv, Lifecycle
  <2> QED
    BY <1>16, <2>1, <2>2, FileAssumption DEF Rollback, Describes
<1>17. CASE RemoveSecret(p)
  <2>1. \A q \in Proc : q # p => pc[q] = "idle"
    BY <1>17, Alone DEF RemoveSecret, ControlInv, Lifecycle
  <2> QED
    BY <1>17, <2>1 DEF RemoveSecret
<1>18. CASE RemoveMetadata(p)
  <2>1. \A q \in Proc : q # p => pc[q] = "idle"
    BY <1>18, Alone DEF RemoveMetadata, ControlInv, Lifecycle
  <2> QED
    BY <1>18, <2>1 DEF RemoveMetadata
<1>19. CASE Quit(p)
  BY <1>19 DEF Quit, WalletAbsent
<1> QED
  BY <1>1, <1>2, <1>3, <1>4, <1>5, <1>6, <1>7, <1>9, <1>10, <1>11, <1>12, <1>13, <1>14,
     <1>15, <1>16, <1>17, <1>18, <1>19 DEF Begin, Step

\* So they are of the same wallet always.
LEMMA DescribeInvariant == LifecycleAlone => (Spec => []DescribeInv)
<1> SUFFICES ASSUME LifecycleAlone PROVE Spec => []DescribeInv
  OBVIOUS
<1>1. Init => DescribeInv
  BY DEF Init, DescribeInv, MetadataDescribesSecret, Critical
<1>2. TypeInv /\ ControlInv /\ DescribeInv /\ [Next]_vars => DescribeInv'
  BY DescribeStep
<1>3. QED
  BY <1>1, <1>2, TypeInvariant, ControlInvariant, PTL DEF Spec

-----------------------------------------------------------------------------
(***************************************************************************)
(* One root at a time.                                                     *)
(***************************************************************************)

\* The users make a wallet beside nothing that writes its files: signing and
\* deleting may go on.
CreationsApart ==
  \A pair \in Overlapping : pair[1] = "create" => pair[2] \in {"sign", "delete"}

\* The metadata m is that of a wallet with the root r.
OfRoot(m, r) ==
  /\ m.type = TypeOfRoot(r)
  /\ \A a \in m.accounts : a.root = r

\* What p has in memory to write, or to derive accounts for; a signer only reads.
InUse(p) ==
  \/ pc[p] \in {"store", "save", "write", "lock"} \cup Critical
  \/ pc[p] = "unlock" /\ cmd[p] # "sign"

\* The two files, and all that anybody may still write to them, have the root r.
OneRoot(r) ==
  /\ secret # Absent => secret.root = r
  /\ Readable(meta) => OfRoot(meta, r)
  /\ \A p \in Proc :
       /\ InUse(p) => OfRoot(view[p], r)
       /\ pc[p] \in {"store", "swap", "persist", "rollback"} => original[p].root = r

\* There is such a root, also where a deleted secret is put back by a password
\* change, or deleted metadata by a derive; before the first wallet it is any.
RootInv == \E r \in Root \cup {Absent} : OneRoot(r)

\* Whoever runs beside a creation, at its begin or later, signs or deletes.
LEMMA BesideCreation ==
  ASSUME CreationsApart, ControlInv, NEW q \in Proc,
         <<"create", cmd[q]>> \in Overlapping
  PROVE  /\ ~InUse(q)
         /\ pc[q] \notin {"store", "swap", "persist", "rollback"}
<1>1. /\ <<"create", cmd[q]>>[1] = "create"
      /\ <<"create", cmd[q]>>[2] = cmd[q]
  OBVIOUS
<1>2. cmd[q] \in {"sign", "delete"}
  BY <1>1 DEF CreationsApart
<1>3. pc[q] \notin {"store", "save", "write", "lock"} \cup Critical
  BY <1>2 DEF ControlInv
<1>4. pc[q] = "unlock" => cmd[q] = "sign"
  BY <1>2 DEF ControlInv
<1> QED
  BY <1>3, <1>4 DEF InUse, Critical

\* A creation starts with nothing there and nobody about to write: the root is
\* the one that it brings.
LEMMA CreationBrings ==
  ASSUME CreationsApart, TypeInv, ControlInv, NEW p \in Proc, BeginCreate(p)
  PROVE  RootInv'
<1> USE DEF TypeInv, TypeOK, Critical
<1>1. PICK r \in Root, encrypted \in BOOLEAN :
        /\ view' = [view EXCEPT ![p] = [encrypted |-> encrypted,
                                        type |-> TypeOfRoot(r),
                                        accounts |-> {}]]
        /\ \E k \in IF encrypted THEN Password ELSE {Plain} :
             original' = [original EXCEPT ![p] = [root |-> r, protection |-> k]]
  BY DEF BeginCreate
<1>2. OfRoot(view'[p], r) /\ original'[p].root = r
  BY <1>1 DEF OfRoot
<1>3. \A q \in Proc : q # p =>
        /\ view'[q] = view[q] /\ original'[q] = original[q]
        /\ pc'[q] = pc[q] /\ cmd'[q] = cmd[q]
  BY <1>1 DEF BeginCreate, Start
<1>4. \A q \in Proc : q # p =>
        ~InUse(q)' /\ pc'[q] \notin {"store", "swap", "persist", "rollback"}
  <2> SUFFICES ASSUME NEW q \in Proc, q # p
               PROVE  ~InUse(q)' /\ pc'[q] \notin {"store", "swap", "persist", "rollback"}
    OBVIOUS
  <2>1. pc[q] = "idle" \/ <<"create", cmd[q]>> \in Overlapping
    BY DEF BeginCreate, Start
  <2>2. ~InUse(q) /\ pc[q] \notin {"store", "swap", "persist", "rollback"}
    BY <2>1, BesideCreation DEF InUse
  <2> QED
    BY <1>3, <2>2 DEF InUse
<1>5. secret' = Absent /\ meta' = Absent
  BY DEF BeginCreate, WalletAbsent
<1>6. OneRoot(r)'
  BY <1>2, <1>4, <1>5 DEF OneRoot, Readable
<1> QED
  BY <1>6 DEF RootInv

\* Every other step writes and remembers the root that is there.
LEMMA RootStep ==
  ASSUME TypeInv, ControlInv, NEW p \in Proc,
         Begin(p) \/ Step(p), ~BeginCreate(p),
         NEW r, OneRoot(r)
  PROVE  OneRoot(r)'
<1> USE DEF TypeInv, TypeOK, InHand, Critical, OneRoot, InUse, Readable
<1>1. ASSUME NEW c \in Command \ Lifecycle, BeginUse(p, c) PROVE OneRoot(r)'
  BY <1>1 DEF BeginUse, Start
<1>2. CASE BeginDelete(p)
  BY <1>2 DEF BeginDelete, Start
<1>3. CASE StoreSecret(p)
  BY <1>3 DEF StoreSecret
<1>4. CASE OpenMetadata(p)
  BY <1>4 DEF OpenMetadata
<1>5. CASE WriteMetadata(p)
  <2>1. meta' \in {meta, view[p], Mangled}
    BY <1>5 DEF WriteMetadata, Overlay
  <2> QED
    BY <1>5, <2>1 DEF WriteMetadata
<1>6. CASE Load(p)
  <2>1. /\ pc[p] = "load" /\ Readable(meta) /\ UNCHANGED <<meta, secret, cmd, original>>
        /\ \E location \in {"save", "lock", "unlock"} :
             pc' = [pc EXCEPT ![p] = location]
    BY <1>6 DEF Load, Loads, LoadToDerive, LoadToRename, LoadToChangePassword, LoadToSign
  <2>2. OfRoot(meta, r) /\ meta \in Metadata
    BY <2>1
  <2>3. view' = [view EXCEPT ![p] = view'[p]] /\ OfRoot(view'[p], r)
    <3>1. CASE LoadToDerive(p)
      BY <2>2, <3>1 DEF LoadToDerive
    <3>2. CASE LoadToRename(p)
      <4>1. PICK a \in meta.accounts, new \in Name :
              view' = [view EXCEPT ![p] =
                         [meta EXCEPT !.accounts = Renamed(meta.accounts, a, new)]]
        BY <3>2 DEF LoadToRename
      <4>2. \A b \in Renamed(meta.accounts, a, new) : b.root = r
        BY <2>2, <4>1 DEF Renamed, OfRoot, Metadata, Account
      <4> QED
        BY <2>2, <4>1, <4>2 DEF OfRoot, Metadata
    <3>3. CASE LoadToChangePassword(p)
      BY <2>2, <3>3 DEF LoadToChangePassword, WithFlag, OfRoot, Metadata
    <3>4. CASE LoadToSign(p)
      BY <2>2, <3>4 DEF LoadToSign, OfRoot, Metadata
    <3> QED
      BY <1>6, <3>1, <3>2, <3>3, <3>4 DEF Load
  <2> QED
    BY <2>1, <2>3
<1>7. ASSUME NEW indexes \in SUBSET Index,
             Unlocks(p, "derive") \/ Unlocks(p, "vanity"),
             DeriveAccounts(p, indexes)
      PROVE  OneRoot(r)'
  <2>1. CASE indexes = {}
    BY <1>7, <2>1 DEF DeriveAccounts
  <2>2. CASE indexes # {}
    <3>1. view[p] \in Metadata /\ secret.root = r /\ OfRoot(view[p], r)
      BY <1>7 DEF Unlocks
    <3>2. PICK f \in FreshNames(Names(view[p].accounts), indexes) :
            /\ view' = [view EXCEPT ![p].accounts =
                          AddAccounts(@, Derived(secret.root, f))]
            /\ Goto(p, "save")
            /\ UNCHANGED <<cmd, original>>
      BY <1>7, <2>2 DEF DeriveAccounts
    <3>3. \A a \in AddAccounts(view[p].accounts, Derived(r, f)) : a.root = r
      BY <3>1 DEF AddAccounts, Derived, OfRoot
    <3>4. OfRoot(view'[p], r)
      BY <3>1, <3>2, <3>3 DEF OfRoot, Metadata
    <3> QED
      BY <1>7, <3>2, <3>4 DEF DeriveAccounts
  <2> QED
    BY <2>1, <2>2
<1>8. CASE DeriveRange(p) \/ DeriveMatches(p)
  BY <1>7, <1>8 DEF DeriveRange, DeriveMatches, Range
<1>9. CASE Sign(p)
  BY <1>9 DEF Sign
<1>10. CASE TryLock(p)
  BY <1>10 DEF TryLock
<1>11. CASE ReadOriginal(p)
  BY <1>11 DEF ReadOriginal
<1>12. CASE SwapSecret(p)
  <2>1. secret'.root = original[p].root
    BY <1>12 DEF SwapSecret, Secret
  <2> QED
    BY <1>12, <2>1 DEF SwapSecret
<1>13. CASE PersistMetadata(p)
  BY <1>13 DEF PersistMetadata
<1>14. CASE PersistFails(p)
  BY <1>14 DEF PersistFails
<1>15. CASE Rollback(p)
  BY <1>15 DEF Rollback, Restored
<1>16. CASE RemoveSecret(p)
  BY <1>16 DEF RemoveSecret
<1>17. CASE RemoveMetadata(p)
  BY <1>17 DEF RemoveMetadata
<1>18. CASE Quit(p)
  BY <1>18 DEF Quit
<1> QED
  BY <1>1, <1>2, <1>3, <1>4, <1>5, <1>6, <1>8, <1>9, <1>10, <1>11, <1>12, <1>13, <1>14,
     <1>15, <1>16, <1>17, <1>18 DEF Begin, Step

\* So there is one root at a time.
LEMMA RootInvariant == CreationsApart => (Spec => []RootInv)
<1> SUFFICES ASSUME CreationsApart PROVE Spec => []RootInv
  OBVIOUS
<1>1. Init => RootInv
  <2> SUFFICES ASSUME Init PROVE OneRoot(Absent)
    BY DEF RootInv
  <2> QED
    BY DEF Init, OneRoot, InUse, Readable, Critical
<1>2. TypeInv /\ ControlInv /\ RootInv /\ [Next]_vars => RootInv'
  <2> SUFFICES ASSUME TypeInv, ControlInv, RootInv, [Next]_vars PROVE RootInv'
    OBVIOUS
  <2>1. CASE UNCHANGED vars
    BY <2>1 DEF vars, RootInv, OneRoot, InUse
  <2>2. ASSUME NEW p \in Proc, Begin(p) \/ Step(p) PROVE RootInv'
    <3>1. CASE BeginCreate(p)
      BY <3>1, CreationBrings
    <3>2. CASE ~BeginCreate(p)
      <4>1. PICK r \in Root \cup {Absent} : OneRoot(r)
        BY DEF RootInv
      <4>2. OneRoot(r)'
        BY <2>2, <3>2, <4>1, RootStep
      <4> QED
        BY <4>2 DEF RootInv
    <3> QED
      BY <3>1, <3>2
  <2> QED
    BY <2>1, <2>2 DEF Next
<1>3. QED
  BY <1>1, <1>2, TypeInvariant, ControlInvariant, PTL DEF Spec

\* When the users make a wallet beside no command that writes its files, the two
\* files describe the same wallet, whatever else overlaps, deletions among it,
\* and wherever commands are killed.
THEOREM FilesAgree == CreationsApart => (Spec => []MetadataDescribesSecret)
<1>1. RootInv => MetadataDescribesSecret
  BY DEF RootInv, OneRoot, OfRoot, MetadataDescribesSecret, Describes
<1>2. QED
  BY <1>1, RootInvariant, PTL

\* Under the same condition no command writes a secret over that of another
\* root: a wallet is never lost but by a deletion.
THEOREM RootStays == CreationsApart => (Spec => RootKept)
<1> SUFFICES ASSUME CreationsApart PROVE Spec => RootKept
  OBVIOUS
<1>1. TypeInv /\ ControlInv /\ RootInv /\ [Next]_vars =>
        [secret # Absent /\ secret' # Absent => secret'.root = secret.root]_vars
  <2> SUFFICES ASSUME TypeInv, ControlInv, RootInv, Next,
                      secret # Absent, secret' # Absent
               PROVE  secret'.root = secret.root
    BY DEF vars
  <2>1. PICK r \in Root \cup {Absent} : OneRoot(r)
    BY DEF RootInv
  <2>2. PICK p \in Proc : Begin(p) \/ Step(p)
    BY DEF Next
  <2>3. ~BeginCreate(p)
    BY DEF BeginCreate, WalletAbsent
  <2>4. OneRoot(r)'
    BY <2>1, <2>2, <2>3, RootStep
  <2> QED
    BY <2>1, <2>4 DEF OneRoot
<1>2. QED
  BY <1>1, TypeInvariant, ControlInvariant, RootInvariant, PTL DEF Spec, RootKept

-----------------------------------------------------------------------------
(***************************************************************************)
(* A password change that goes through.                                    *)
(***************************************************************************)

\* Between the replacement of the secret and that of the metadata the flag to be
\* saved is that of the secret: whoever else could replace it needs the lock, or
\* is a creation.
FitsInv ==
  \A p \in Proc :
    pc[p] = "persist" /\ secret # Absent => view[p].encrypted = IsEncrypted(secret)

LEMMA FitsInvariant == CreationsApart => (Spec => []FitsInv)
<1> SUFFICES ASSUME CreationsApart PROVE Spec => []FitsInv
  OBVIOUS
<1>1. Init => FitsInv
  BY DEF Init, FitsInv
<1>2. TypeInv /\ ControlInv /\ LockInv /\ FitsInv /\ [Next]_vars => FitsInv'
  <2> SUFFICES ASSUME TypeInv, ControlInv, LockInv, FitsInv, [Next]_vars PROVE FitsInv'
    OBVIOUS
  <2> USE DEF TypeInv, TypeOK, InHand, FitsInv
  <2>0. CASE UNCHANGED vars
    BY <2>0 DEF vars
  <2> SUFFICES ASSUME NEW p \in Proc, Begin(p) \/ Step(p) PROVE FitsInv'
    BY <2>0 DEF Next
  <2>1. CASE StoreSecret(p)
    <3>1. \A q \in Proc : pc[q] # "persist"
      <4> SUFFICES ASSUME NEW q \in Proc, pc[q] = "persist" PROVE FALSE
        OBVIOUS
      <4>1. cmd[p] = "create" /\ cmd[q] = "password" /\ p # q /\ pc[p] # "idle"
        BY <2>1 DEF StoreSecret, ControlInv, Critical
      <4>2. <<cmd[p], cmd[q]>> \in Overlapping
        BY <4>1 DEF ControlInv
      <4>3. <<"create", cmd[q]>> \in Overlapping
        BY <4>1, <4>2
      <4> QED
        BY <4>3, BesideCreation
    <3> QED
      BY <2>1, <3>1 DEF StoreSecret
  <2>2. CASE SwapSecret(p)
    <3>1. \A q \in Proc : q # p => pc[q] # "persist"
      BY <2>2 DEF SwapSecret, LockInv, Critical
    <3>2. IsEncrypted(secret') = view[p].encrypted
      <4>1. view[p].encrypted \in BOOLEAN /\ original[p] \in Secret
        BY <2>2 DEF SwapSecret, Metadata, Critical
      <4>2. CASE view[p].encrypted
        BY <2>2, <4>1, <4>2, PasswordAssumption DEF SwapSecret, IsEncrypted, Secret, Protection
      <4>3. CASE ~view[p].encrypted
        BY <2>2, <4>1, <4>3 DEF SwapSecret, IsEncrypted, Secret, Protection
      <4> QED
        BY <4>1, <4>2, <4>3
    <3> QED
      BY <2>2, <3>1, <3>2 DEF SwapSecret
  <2>3. CASE Rollback(p)
    <3>1. \A q \in Proc : q # p => pc[q] # "persist"
      BY <2>3 DEF Rollback, LockInv, Critical
    <3> QED
      BY <2>3, <3>1 DEF Rollback
  <2>4. CASE Begin(p)
    BY <2>4 DEF Begin, BeginCreate, BeginUse, BeginDelete, Start
  <2>5. CASE OpenMetadata(p) \/ WriteMetadata(p)
    BY <2>5 DEF OpenMetadata, WriteMetadata
  <2>6. CASE Load(p)
    BY <2>6 DEF Load, Loads, LoadToDerive, LoadToRename, LoadToChangePassword, LoadToSign
  <2>7. CASE DeriveRange(p) \/ DeriveMatches(p) \/ Sign(p)
    BY <2>7 DEF DeriveRange, DeriveMatches, DeriveAccounts, Unlocks, Sign
  <2>8. CASE TryLock(p) \/ ReadOriginal(p) \/ PersistMetadata(p) \/ PersistFails(p)
    BY <2>8 DEF TryLock, ReadOriginal, PersistMetadata, PersistFails
  <2>9. CASE RemoveSecret(p) \/ RemoveMetadata(p) \/ Quit(p)
    BY <2>9 DEF RemoveSecret, RemoveMetadata, Quit
  <2> QED
    BY <2>1, <2>2, <2>3, <2>4, <2>5, <2>6, <2>7, <2>8, <2>9 DEF Step
<1>3. QED
  BY <1>1, <1>2, TypeInvariant, ControlInvariant, LockInvariant, PTL DEF Spec

\* A change of the password that goes through leaves the flag that fits the
\* secret, whatever earlier changes were killed between the two files, and
\* beside anything but a creation.
THEOREM ChangeSettles == CreationsApart => (Spec => ChangeSettlesFlag)
<1>1. FitsInv =>
        [\A p \in Proc : PersistMetadata(p) /\ secret # Absent
           => meta'.encrypted = IsEncrypted(secret)]_vars
  BY DEF FitsInv, PersistMetadata
<1>2. QED
  BY <1>1, FitsInvariant, PTL DEF ChangeSettlesFlag

-----------------------------------------------------------------------------
(***************************************************************************)
(* What a delete leaves.                                                   *)
(***************************************************************************)

\* The users delete a wallet beside nothing that writes its secret.
DeletionsApart ==
  \A pair \in Overlapping : pair[1] = "delete" => pair[2] \notin {"create", "password"}

\* The secret that a delete has removed stays removed until it is done.
RemovedInv == \A p \in Proc : pc[p] = "remove_metadata" => secret = Absent

LEMMA RemovedInvariant == DeletionsApart => (Spec => []RemovedInv)
<1> SUFFICES ASSUME DeletionsApart PROVE Spec => []RemovedInv
  OBVIOUS
<1>1. Init => RemovedInv
  BY DEF Init, RemovedInv
<1>2. TypeInv /\ ControlInv /\ RemovedInv /\ [Next]_vars => RemovedInv'
  <2> SUFFICES ASSUME TypeInv, ControlInv, RemovedInv, [Next]_vars PROVE RemovedInv'
    OBVIOUS
  <2> USE DEF TypeInv, TypeOK, RemovedInv
  <2>0. CASE UNCHANGED vars
    BY <2>0 DEF vars
  <2> SUFFICES ASSUME NEW p \in Proc, Begin(p) \/ Step(p) PROVE RemovedInv'
    BY <2>0 DEF Next
  <2>1. ASSUME NEW q \in Proc, pc[q] = "remove_metadata",
               pc[p] \in {"store", "swap", "persist", "rollback"}
        PROVE  FALSE
    <3>1. cmd[q] = "delete" /\ cmd[p] \in {"create", "password"} /\ p # q
      BY <2>1 DEF ControlInv, Critical
    <3>2. <<cmd[q], cmd[p]>> \in Overlapping
      BY <2>1, <3>1 DEF ControlInv
    <3>3. <<cmd[q], cmd[p]>>[1] = cmd[q] /\ <<cmd[q], cmd[p]>>[2] = cmd[p]
      OBVIOUS
    <3> QED
      BY <3>1, <3>2, <3>3 DEF DeletionsApart
  <2>2. CASE StoreSecret(p)
    BY <2>1, <2>2 DEF StoreSecret
  <2>3. CASE SwapSecret(p)
    BY <2>1, <2>3 DEF SwapSecret
  <2>4. CASE Rollback(p)
    BY <2>1, <2>4 DEF Rollback
  <2>5. CASE RemoveSecret(p)
    BY <2>5 DEF RemoveSecret
  <2>6. CASE Begin(p)
    BY <2>6 DEF Begin, BeginCreate, BeginUse, BeginDelete, Start
  <2>7. CASE OpenMetadata(p) \/ WriteMetadata(p) \/ Load(p)
    BY <2>7 DEF OpenMetadata, WriteMetadata, Load, LoadToDerive, LoadToRename,
                LoadToChangePassword, LoadToSign
  <2>8. CASE DeriveRange(p) \/ DeriveMatches(p) \/ Sign(p)
    BY <2>8 DEF DeriveRange, DeriveMatches, DeriveAccounts, Sign
  <2>9. CASE TryLock(p) \/ ReadOriginal(p) \/ PersistMetadata(p) \/ PersistFails(p)
    BY <2>9 DEF TryLock, ReadOriginal, PersistMetadata, PersistFails
  <2>10. CASE RemoveMetadata(p) \/ Quit(p)
    BY <2>10 DEF RemoveMetadata, Quit
  <2> QED
    BY <2>2, <2>3, <2>4, <2>5, <2>6, <2>7, <2>8, <2>9, <2>10 DEF Step
<1>3. QED
  BY <1>1, <1>2, TypeInvariant, ControlInvariant, PTL DEF Spec

\* When the users delete a wallet beside no command that writes its secret, a
\* delete that reports success leaves nothing behind, whatever else overlaps and
\* wherever commands are killed.
THEOREM NothingLeft == DeletionsApart => (Spec => DeleteLeavesNothing)
<1>1. RemovedInv =>
        [\A p \in Proc : RemoveMetadata(p) => (meta = Absent /\ secret = Absent)']_vars
  BY DEF RemovedInv, RemoveMetadata
<1>2. QED
  BY <1>1, RemovedInvariant, PTL DEF DeleteLeavesNothing

-----------------------------------------------------------------------------
(***************************************************************************)
(* The encrypted flag agrees with the secret file.                         *)
(***************************************************************************)

\* No command is killed between replacing the secret and settling the metadata.
NoKillInChange == QuitPoints \cap {"persist", "rollback"} = {}

\* The flags in memory, and what each stage of a password change knows.
FlagInv ==
  /\ FlagAgreement
  /\ \A p \in Proc :
       /\ pc[p] = "swap" => original[p] = secret
       /\ pc[p] = "persist" => view[p].encrypted = IsEncrypted(secret)
       /\ pc[p] \in {"persist", "rollback"} /\ Readable(meta)
            => meta.encrypted = IsEncrypted(original[p])
       /\ pc[p] \in {"unlock", "save", "write"} /\ cmd[p] # "sign" /\ secret # Absent
            => view[p].encrypted = IsEncrypted(secret)
       /\ pc[p] = "store" => view[p].encrypted = IsEncrypted(original[p])

\* Beside a process in the middle of a password change no other is about to
\* save metadata, to make or delete the wallet, or to change the password.
LEMMA ChangeApart ==
  ASSUME LifecycleAlone, PasswordsApart, TypeInv, ControlInv, LockInv,
         NEW p \in Proc, pc[p] \in Critical, NEW q \in Proc, q # p
  PROVE  /\ pc[q] \in {"idle", "load", "lock", "unlock"}
         /\ pc[q] # "idle" => cmd[q] \in {"password", "sign"}
<1>1. cmd[p] = "password" /\ pc[p] # "idle"
  BY DEF ControlInv, Critical
<1>2. pc[q] # "idle" => <<cmd[p], cmd[q]>> \in Overlapping
  BY <1>1 DEF ControlInv
<1>3. <<cmd[p], cmd[q]>>[1] = cmd[p] /\ <<cmd[p], cmd[q]>>[2] = cmd[q]
  OBVIOUS
<1>4. pc[q] # "idle" => cmd[q] \in {"password", "sign"}
  BY <1>1, <1>2, <1>3 DEF PasswordsApart
<1>5. pc[q] \notin Critical
  BY DEF LockInv
<1> QED
  BY <1>4, <1>5 DEF ControlInv, Critical, TypeInv, TypeOK, Location, Lifecycle

\* Each step keeps the flags in memory and in the file those of the secret, or
\* keeps the original to put it back.
LEMMA FlagStep ==
  ASSUME LifecycleAlone, PasswordsApart, NoKillInChange,
         TypeInv, ControlInv, LockInv, DescribeInv, FlagInv, [Next]_vars
  PROVE  FlagInv'
<1> USE DEF TypeInv, TypeOK, InHand, Critical, FlagInv, FlagAgreement, Settled, Readable
<1>0. CASE UNCHANGED vars
  BY <1>0 DEF vars, IsEncrypted
<1> SUFFICES ASSUME NEW p \in Proc, Begin(p) \/ Step(p) PROVE FlagInv'
  BY <1>0 DEF Next
<1>a. ASSUME NEW q \in Proc, q # p, pc[q] \in Critical
      PROVE  /\ pc[p] \in {"idle", "load", "lock", "unlock"}
             /\ pc[p] # "idle" => cmd[p] \in {"password", "sign"}
  BY <1>a, ChangeApart
<1>b. ASSUME pc[p] # "idle", cmd[p] \in Lifecycle, NEW q \in Proc, q # p PROVE pc[q] = "idle"
  BY <1>b, Alone
<1>c. ASSUME Stop(p), UNCHANGED <<meta, secret>>, pc[p] \notin {"persist", "rollback"}
      PROVE  FlagInv'
  <2>1. \A q \in Proc : q # p => /\ pc'[q] = pc[q] /\ cmd'[q] = cmd[q]
                                /\ view'[q] = view[q] /\ original'[q] = original[q]
    BY <1>c
  <2>2. pc'[p] = "idle"
    BY <1>c
  <2> QED
    BY <1>c, <2>1, <2>2 DEF IsEncrypted
<1>1. CASE BeginCreate(p)
  <2>1. view'[p].encrypted = IsEncrypted(original'[p])
    BY <1>1, PasswordAssumption DEF BeginCreate, IsEncrypted
  <2>2. \A q \in Proc : q # p => pc'[q] = "idle"
    BY <1>1, StartAlone DEF BeginCreate, Lifecycle
  <2> QED
    BY <1>1, <2>1, <2>2 DEF BeginCreate, Start, WalletAbsent
<1>2. CASE BeginDelete(p) \/ \E c \in Command \ Lifecycle : BeginUse(p, c)
  BY <1>2 DEF BeginUse, BeginDelete, Start, IsEncrypted
<1>3. CASE StoreSecret(p)
  BY <1>3, <1>b DEF StoreSecret, ControlInv, Lifecycle, DescribeInv, WalletAbsent, IsEncrypted
<1>4. CASE OpenMetadata(p)
  BY <1>4, <1>a DEF OpenMetadata, IsEncrypted
<1>5. CASE WriteMetadata(p)
  <2>1. meta' \in {meta, view[p], Mangled}
    BY <1>5 DEF WriteMetadata, Overlay
  <2> QED
    BY <1>5, <1>a, <2>1 DEF WriteMetadata, ControlInv, IsEncrypted
<1>6. CASE LoadToDerive(p) \/ LoadToRename(p)
  <2>1. /\ Settled /\ pc[p] = "load"
        /\ Readable(meta) /\ meta \in Metadata
        /\ UNCHANGED <<meta, secret, cmd, original>>
    BY <1>6, <1>a DEF LoadToDerive, LoadToRename, Loads
  <2>2. pc' \in {[pc EXCEPT ![p] = "unlock"], [pc EXCEPT ![p] = "save"]}
    BY <1>6 DEF LoadToDerive, LoadToRename
  <2>3. view' = [view EXCEPT ![p] = view'[p]] /\ view'[p].encrypted = meta.encrypted
    BY <1>6, <2>1 DEF LoadToDerive, LoadToRename, Metadata
  <2> QED
    BY <2>1, <2>2, <2>3 DEF IsEncrypted
<1>7. CASE LoadToChangePassword(p) \/ LoadToSign(p)
  <2>1. /\ UNCHANGED <<meta, secret, cmd, original>>
        /\ pc[p] = "load" /\ cmd[p] \in {"password", "sign"}
        /\ \/ pc' = [pc EXCEPT ![p] = "lock"]
           \/ pc' = [pc EXCEPT ![p] = "unlock"] /\ cmd[p] = "sign"
        /\ view' = [view EXCEPT ![p] = view'[p]]
    BY <1>7 DEF LoadToChangePassword, LoadToSign, Loads
  <2> QED
    BY <2>1 DEF IsEncrypted
<1>8. ASSUME NEW indexes \in SUBSET Index,
             Unlocks(p, "derive") \/ Unlocks(p, "vanity"),
             DeriveAccounts(p, indexes)
      PROVE  FlagInv'
  <2>1. CASE indexes = {}
    BY <1>8, <1>c, <2>1 DEF DeriveAccounts, Unlocks
  <2>2. CASE indexes # {}
    <3>1. view' = [view EXCEPT ![p] = view'[p]] /\ view'[p].encrypted = view[p].encrypted
      BY <1>8, <2>2 DEF DeriveAccounts, Unlocks, Metadata
    <3> QED
      BY <1>8, <2>2, <3>1 DEF DeriveAccounts, Unlocks, IsEncrypted
  <2> QED
    BY <2>1, <2>2
<1>9. CASE DeriveRange(p) \/ DeriveMatches(p)
  BY <1>8, <1>9 DEF DeriveRange, DeriveMatches, Range
<1>10. CASE Sign(p)
  BY <1>10, <1>c DEF Sign, Unlocks
<1>11. CASE TryLock(p)
  BY <1>11 DEF TryLock, IsEncrypted
<1>12. CASE ReadOriginal(p)
  BY <1>12 DEF ReadOriginal, IsEncrypted
<1>13. CASE SwapSecret(p)
  <2>1. view[p].encrypted = IsEncrypted(secret')
    BY <1>13, PasswordAssumption DEF SwapSecret, IsEncrypted, Secret, Protection, Metadata
  <2>2. original[p] = secret /\ secret \in Secret /\ Settled
    BY <1>13, <1>a DEF SwapSecret
  <2>3. \A q \in Proc : q # p => \/ pc[q] \in {"idle", "load", "lock"}
                                 \/ pc[q] = "unlock" /\ cmd[q] = "sign"
    BY <1>13, ChangeApart DEF SwapSecret, ControlInv
  <2> QED
    BY <1>13, <2>1, <2>2, <2>3, FileAssumption DEF SwapSecret
<1>14. CASE PersistMetadata(p)
  <2>1. \A q \in Proc : q # p => \/ pc[q] \in {"idle", "load", "lock"}
                                 \/ pc[q] = "unlock" /\ cmd[q] = "sign"
    BY <1>14, ChangeApart DEF PersistMetadata, ControlInv
  <2> QED
    BY <1>14, <2>1 DEF PersistMetadata
<1>15. CASE PersistFails(p)
  BY <1>15 DEF PersistFails, IsEncrypted
<1>16. CASE Rollback(p)
  <2>1. \A q \in Proc : q # p => \/ pc[q] \in {"idle", "load", "lock"}
                                 \/ pc[q] = "unlock" /\ cmd[q] = "sign"
    BY <1>16, ChangeApart DEF Rollback, ControlInv
  <2> QED
    BY <1>16, <2>1 DEF Rollback, Restored
<1>17. CASE RemoveSecret(p)
  <2>1. \A q \in Proc : q # p => pc[q] = "idle"
    BY <1>17, <1>b DEF RemoveSecret, ControlInv, Lifecycle
  <2> QED
    BY <1>17, <2>1 DEF RemoveSecret
<1>18. CASE RemoveMetadata(p)
  <2>1. \A q \in Proc : q # p => pc[q] = "idle"
    BY <1>18, <1>b DEF RemoveMetadata, ControlInv, Lifecycle
  <2> QED
    BY <1>18, <2>1 DEF RemoveMetadata
<1>19. CASE Quit(p)
  <2>1. pc[p] \notin {"persist", "rollback"}
    BY <1>19 DEF Quit, NoKillInChange
  <2> QED
    BY <1>19, <1>c, <2>1 DEF Quit
<1> QED
  BY <1>1, <1>2, <1>3, <1>4, <1>5, <1>6, <1>7, <1>9, <1>10, <1>11, <1>12, <1>13, <1>14,
     <1>15, <1>16, <1>17, <1>18, <1>19 DEF Begin, Load, Step

\* So the flags agree always.
LEMMA FlagInvariant ==
  LifecycleAlone /\ PasswordsApart /\ NoKillInChange => (Spec => []FlagInv)
<1> SUFFICES ASSUME LifecycleAlone, PasswordsApart, NoKillInChange
             PROVE  Spec => []FlagInv
  OBVIOUS
<1>1. Init => FlagInv
  BY DEF Init, FlagInv, FlagAgreement, Readable, IsEncrypted
<1>2. TypeInv /\ ControlInv /\ LockInv /\ DescribeInv /\ FlagInv /\ [Next]_vars => FlagInv'
  BY FlagStep
<1>3. Spec => []DescribeInv
  BY DescribeInvariant
<1>4. QED
  BY <1>1, <1>2, <1>3, TypeInvariant, ControlInvariant, LockInvariant, PTL DEF Spec

\* When nothing rewrites the metadata beside a password change, and none is
\* killed half way, metadata and secret agree on whether the secret is
\* encrypted, across failed and rolled back changes too.
THEOREM FlagsAgree ==
  LifecycleAlone /\ PasswordsApart /\ NoKillInChange => (Spec => []FlagAgreement)
<1>1. FlagInv => FlagAgreement
  BY DEF FlagInv
<1>2. QED
  BY <1>1, FlagInvariant, PTL

-----------------------------------------------------------------------------
(***************************************************************************)
(* A password change keeps the accounts.                                   *)
(***************************************************************************)

\* The metadata a password change has prepared has the accounts of the file.
AccountsInv ==
  \A p \in Proc :
    pc[p] \in {"lock"} \cup Critical => Readable(meta) /\ view[p].accounts = meta.accounts

\* Beside a password change nothing is about to write or remove a file, but
\* another password change.
LEMMA PasswordApart ==
  ASSUME LifecycleAlone, PasswordsApart, TypeInv, ControlInv,
         NEW p \in Proc, pc[p] \in {"lock"} \cup Critical, NEW q \in Proc, q # p
  PROVE  pc[q] \in {"idle", "load", "unlock", "lock"} \cup Critical
<1>1. cmd[p] = "password" /\ pc[p] # "idle"
  BY DEF ControlInv, Critical
<1>2. pc[q] # "idle" => <<cmd[p], cmd[q]>> \in Overlapping
  BY <1>1 DEF ControlInv
<1>3. <<cmd[p], cmd[q]>>[1] = cmd[p] /\ <<cmd[p], cmd[q]>>[2] = cmd[q]
  OBVIOUS
<1>4. pc[q] # "idle" => cmd[q] \in {"password", "sign"}
  BY <1>1, <1>2, <1>3 DEF PasswordsApart
<1> QED
  BY <1>4 DEF ControlInv, Critical, TypeInv, TypeOK, Location, Lifecycle

\* Nothing changes the accounts that a password change has loaded.
LEMMA AccountsStep ==
  ASSUME LifecycleAlone, PasswordsApart, TypeInv, ControlInv, AccountsInv, [Next]_vars
  PROVE  AccountsInv'
<1> USE DEF TypeInv, TypeOK, InHand, Critical, AccountsInv, Readable
<1>0. CASE UNCHANGED vars
  BY <1>0 DEF vars
<1> SUFFICES ASSUME NEW p \in Proc, Begin(p) \/ Step(p) PROVE AccountsInv'
  BY <1>0 DEF Next
<1>a. ASSUME pc[p] \notin {"idle", "load", "unlock", "lock"} \cup Critical, NEW q \in Proc
      PROVE  pc[q] \notin {"lock"} \cup Critical
  BY <1>a, PasswordApart
<1>1. CASE Begin(p)
  BY <1>1 DEF Begin, BeginCreate, BeginUse, BeginDelete, Start
<1>2. CASE StoreSecret(p)
  BY <1>2 DEF StoreSecret
<1>3. CASE OpenMetadata(p)
  BY <1>3, <1>a DEF OpenMetadata
<1>4. CASE WriteMetadata(p)
  BY <1>4, <1>a DEF WriteMetadata
<1>5. CASE LoadToDerive(p) \/ LoadToRename(p) \/ LoadToSign(p)
  BY <1>5 DEF LoadToDerive, LoadToRename, LoadToSign
<1>6. CASE LoadToChangePassword(p)
  <2>1. /\ view' = [view EXCEPT ![p] = view'[p]] /\ view'[p].accounts = meta.accounts
        /\ Readable(meta)
    BY <1>6 DEF LoadToChangePassword, Loads, WithFlag, Metadata
  <2> QED
    BY <1>6, <2>1 DEF LoadToChangePassword
<1>7. CASE DeriveRange(p) \/ DeriveMatches(p) \/ Sign(p)
  <2>1. /\ UNCHANGED meta
        /\ view' = [view EXCEPT ![p] = view'[p]]
        /\ pc' \in {[pc EXCEPT ![p] = "save"], [pc EXCEPT ![p] = "idle"]}
    BY <1>7 DEF DeriveRange, DeriveMatches, DeriveAccounts, Sign
  <2> QED
    BY <2>1
<1>8. CASE TryLock(p) \/ ReadOriginal(p) \/ SwapSecret(p) \/ PersistFails(p)
  BY <1>8 DEF TryLock, ReadOriginal, SwapSecret, PersistFails
<1>9. CASE PersistMetadata(p)
  BY <1>9, FileAssumption DEF PersistMetadata
<1>10. CASE Rollback(p) \/ Quit(p)
  BY <1>10 DEF Rollback, Quit
<1>11. CASE RemoveSecret(p)
  BY <1>11 DEF RemoveSecret
<1>12. CASE RemoveMetadata(p)
  BY <1>12, <1>a DEF RemoveMetadata
<1> QED
  BY <1>1, <1>2, <1>3, <1>4, <1>5, <1>6, <1>7, <1>8, <1>9, <1>10, <1>11, <1>12
     DEF Step, Load

\* So a password change has the accounts of the file in hand always.
LEMMA AccountsInvariant ==
  LifecycleAlone /\ PasswordsApart => (Spec => []AccountsInv)
<1> SUFFICES ASSUME LifecycleAlone, PasswordsApart PROVE Spec => []AccountsInv
  OBVIOUS
<1>1. Init => AccountsInv
  BY DEF Init, AccountsInv, Critical
<1>2. TypeInv /\ ControlInv /\ AccountsInv /\ [Next]_vars => AccountsInv'
  BY AccountsStep
<1>3. QED
  BY <1>1, <1>2, TypeInvariant, ControlInvariant, PTL DEF Spec

\* When nothing rewrites the metadata beside a password change, the accounts and
\* their names are after it what they were before, wherever commands are killed.
THEOREM ChangeKeepsAccounts ==
  LifecycleAlone /\ PasswordsApart => (Spec => PasswordKeepsAccounts)
<1>1. AccountsInv =>
        [\A p \in Proc : PersistMetadata(p) =>
           Readable(meta) /\ meta'.accounts = meta.accounts]_vars
  BY DEF AccountsInv, PersistMetadata, Critical
<1>2. QED
  BY <1>1, AccountsInvariant, PTL DEF PasswordKeepsAccounts

-----------------------------------------------------------------------------
(***************************************************************************)
(* That a wallet, two files changed one after the other, is one thing to   *)
(* its users: no account is lost, the password is the one last reported,   *)
(* and WalletStore implements AtomicWallet.                                *)
(***************************************************************************)

\* The commands that read the metadata and save it again.
Rewrites == {"derive", "vanity", "rename"}

\* Beside a command that rewrites the metadata the users run only signing.
RewritesApart ==
  \A pair \in Overlapping : pair[1] \in Rewrites => pair[2] = "sign"

\* No command is killed inside a write of the metadata.
NoKillInWrite == "write" \notin QuitPoints

\* No creation is killed between storing the secret and its report.
NoKillInSave == QuitPoints \cap {"save", "write"} = {}

-----------------------------------------------------------------------------
(***************************************************************************)
(* What a command that saves metadata makes of the file.                   *)
(***************************************************************************)

\* v is m with more accounts.
Extends(v, m) ==
  /\ m \in Metadata
  /\ v.type = m.type /\ v.type = Hd
  /\ v.encrypted = m.encrypted
  /\ m.accounts \subseteq v.accounts

\* v is m with another name for one of its accounts.
IsRenaming(v, m) ==
  /\ m \in Metadata
  /\ v.type = m.type /\ v.type = Hd
  /\ v.encrypted = m.encrypted
  /\ \E a \in m.accounts, new \in Name \ Names(m.accounts) :
       v.accounts = Renamed(m.accounts, a, new)

\* The file is open for one process only, which will fill it; what is saved is
\* the file with more accounts, with one renamed, or a new wallet without any.
SaveInv ==
  /\ meta \in Metadata \cup {Absent} \/ \E p \in Proc : pc[p] = "write"
  /\ \A p \in Proc :
       /\ p \in writers <=> pc[p] = "write"
       /\ pc[p] = "write" => meta = Empty /\ writers = {p}
       /\ pc[p] = "unlock" /\ cmd[p] # "sign" => Extends(view[p], meta)
       /\ pc[p] = "save" /\ cmd[p] \in {"derive", "vanity"} => Extends(view[p], meta)
       /\ pc[p] = "save" /\ cmd[p] = "rename" => IsRenaming(view[p], meta)
       /\ pc[p] \in {"store", "save"} /\ cmd[p] = "create" => view[p].accounts = {}

\* The accounts that were reported are in the file, or in what is being written
\* to it.
SavedInv ==
  /\ meta \in Metadata => saved \subseteq Indexes(meta.accounts)
  /\ meta = Absent => saved = {}
  /\ \A p \in Proc :
       pc[p] = "write" /\ cmd[p] # "create" => saved \subseteq Indexes(view[p].accounts)

\* The users have been told of each secret that is stored but for that of a
\* wallet being made.
ToldInv ==
  /\ secret # Absent /\ (\A p \in Proc : ~(cmd[p] = "create" /\ pc[p] \in {"save", "write"}))
       => secret.protection = told
  /\ \A p \in Proc : cmd[p] = "create" /\ pc[p] \in {"save", "write"} => original[p] = secret

-----------------------------------------------------------------------------
(***************************************************************************)
(* Who runs beside whom.                                                   *)
(***************************************************************************)

\* Whoever lets nothing but signing run beside a rewrite lets no rewrite run
\* beside a password change.
LEMMA ApartIsApart ==
  ASSUME LifecycleAlone, RewritesApart
  PROVE  PasswordsApart
<1> SUFFICES ASSUME NEW pair \in Overlapping, pair[1] = "password"
             PROVE  pair[2] \in {"password", "sign"}
  BY DEF PasswordsApart
<1> DEFINE back == <<pair[2], pair[1]>>
<1>1. back \in Overlapping /\ back[1] = pair[2] /\ back[2] = pair[1] /\ pair[2] \in Command
  BY OverlapAssumption
<1>2. pair[2] \notin Lifecycle
  BY <1>1 DEF LifecycleAlone
<1>3. pair[2] \in Rewrites => pair[1] = "sign"
  BY <1>1 DEF RewritesApart
<1> QED
  BY <1>1, <1>2, <1>3 DEF Command, Lifecycle, Rewrites

\* Beside a command that makes, rewrites or deletes the wallet only signing runs.
LEMMA WriterApart ==
  ASSUME LifecycleAlone, RewritesApart, TypeInv, ControlInv,
         NEW p \in Proc, pc[p] # "idle", cmd[p] \in Rewrites \cup Lifecycle,
         NEW q \in Proc, q # p
  PROVE  /\ pc[q] \in {"idle", "load", "unlock"}
         /\ pc[q] # "idle" => cmd[q] = "sign"
<1>1. pc[q] # "idle" => <<cmd[p], cmd[q]>> \in Overlapping
  BY DEF ControlInv
<1>2. <<cmd[p], cmd[q]>>[1] = cmd[p] /\ <<cmd[p], cmd[q]>>[2] = cmd[q]
  OBVIOUS
<1>3. pc[q] # "idle" => cmd[q] = "sign"
  BY <1>1, <1>2 DEF LifecycleAlone, RewritesApart
<1> QED
  BY <1>3 DEF ControlInv, Critical, TypeInv, TypeOK, Location, Lifecycle

\* So a command that is past reading works beside no other that makes,
\* rewrites or deletes the wallet.
LEMMA OthersRead ==
  ASSUME LifecycleAlone, RewritesApart, TypeInv, ControlInv,
         NEW p \in Proc, pc[p] \notin {"idle", "load", "unlock"},
         NEW q \in Proc, q # p
  PROVE  /\ pc[q] \notin {"store", "save", "write", "remove_secret", "remove_metadata"}
         /\ pc[q] # "idle" => cmd[q] \notin Rewrites \cup Lifecycle
<1>1. pc[q] # "idle" => cmd[q] \notin Rewrites \cup Lifecycle
  BY WriterApart
<1> QED
  BY <1>1 DEF ControlInv, Rewrites, Lifecycle

-----------------------------------------------------------------------------
(***************************************************************************)
(* The metadata file is saved by one process at a time.                    *)
(***************************************************************************)

\* Each step keeps the file as one command has found it until that has saved it.
LEMMA SaveStep ==
  ASSUME LifecycleAlone, RewritesApart, NoKillInWrite,
         TypeInv, ControlInv, DescribeInv, AccountsInv, SaveInv, [Next]_vars
  PROVE  SaveInv'
<1> USE DEF TypeInv, TypeOK, InHand, Critical, SaveInv, Readable
<1>0. CASE UNCHANGED vars
  BY <1>0 DEF vars, Extends, IsRenaming
<1> SUFFICES ASSUME NEW p \in Proc, Begin(p) \/ Step(p) PROVE SaveInv'
  BY <1>0 DEF Next
<1>a. ASSUME pc[p] \notin {"idle", "load", "unlock"}, NEW q \in Proc, q # p
      PROVE  /\ pc[q] \notin {"store", "save", "write"}
             /\ pc[q] = "unlock" => cmd[q] = "sign"
  BY <1>a, OthersRead DEF ControlInv, Rewrites
<1>b. ASSUME UNCHANGED <<meta, writers>>, pc[p] # "write", pc'[p] # "write",
             pc' = [pc EXCEPT ![p] = pc'[p]],
             \A q \in Proc \ {p} : cmd'[q] = cmd[q] /\ view'[q] = view[q],
             /\ pc'[p] = "unlock" /\ cmd'[p] # "sign" => Extends(view'[p], meta)
             /\ pc'[p] = "save" /\ cmd'[p] \in {"derive", "vanity"} => Extends(view'[p], meta)
             /\ pc'[p] = "save" /\ cmd'[p] = "rename" => IsRenaming(view'[p], meta)
             /\ pc'[p] \in {"store", "save"} /\ cmd'[p] = "create" => view'[p].accounts = {}
      PROVE  SaveInv'
  <2>1. \A q \in Proc : pc'[q] = "write" <=> pc[q] = "write"
    BY <1>b
  <2>2. ASSUME NEW q \in Proc, q # p PROVE pc'[q] = pc[q] /\ cmd'[q] = cmd[q] /\ view'[q] = view[q]
    BY <1>b, <2>2
  <2> QED
    BY <1>b, <2>1, <2>2 DEF Extends, IsRenaming
<1>1. CASE BeginCreate(p)
  <2>1. view'[p].accounts = {}
    BY <1>1 DEF BeginCreate
  <2>2. /\ UNCHANGED <<meta, writers>>
        /\ pc[p] = "idle" /\ pc' = [pc EXCEPT ![p] = "store"]
        /\ \A q \in Proc \ {p} : cmd'[q] = cmd[q] /\ view'[q] = view[q]
    BY <1>1 DEF BeginCreate, Start
  <2> QED
    BY <1>b, <2>1, <2>2
<1>2. CASE BeginDelete(p) \/ \E c \in Command \ Lifecycle : BeginUse(p, c)
  BY <1>2, <1>b DEF BeginUse, BeginDelete, Start
<1>3. CASE StoreSecret(p)
  BY <1>3, <1>b DEF StoreSecret, ControlInv
<1>4. CASE OpenMetadata(p)
  <2>1. \A q \in Proc \ {p} : pc'[q] = pc[q] /\ cmd'[q] = cmd[q] /\ view'[q] = view[q]
    BY <1>4 DEF OpenMetadata
  <2>2. writers = {}
    BY <1>4, <1>a DEF OpenMetadata
  <2>3. pc'[p] = "write" /\ meta' = Empty /\ writers' = {p}
    BY <1>4, <2>2 DEF OpenMetadata
  <2> QED
    BY <1>4, <1>a, <2>1, <2>3 DEF OpenMetadata
<1>5. CASE WriteMetadata(p)
  <2>1. meta = Empty /\ writers = {p}
    BY <1>5 DEF WriteMetadata
  <2>2. meta' = view[p] /\ view[p] \in Metadata /\ writers' = {}
    BY <1>5, <2>1 DEF WriteMetadata, Overlay
  <2>3. \A q \in Proc \ {p} : pc'[q] = pc[q] /\ cmd'[q] = cmd[q] /\ view'[q] = view[q]
    BY <1>5 DEF WriteMetadata
  <2> QED
    BY <1>5, <1>a, <2>2, <2>3 DEF WriteMetadata
<1>6. CASE LoadToDerive(p)
  <2>1. Extends(meta, meta)
    BY <1>6 DEF LoadToDerive, Loads, Extends
  <2> QED
    BY <1>6, <1>b, <2>1 DEF LoadToDerive, Loads
<1>7. CASE LoadToRename(p)
  <2>1. meta \in Metadata
    BY <1>7 DEF LoadToRename, Loads
  <2>2. PICK a \in meta.accounts, new \in Name \ Names(meta.accounts) :
          view' = [view EXCEPT ![p] =
                     [meta EXCEPT !.accounts = Renamed(meta.accounts, a, new)]]
    BY <1>7 DEF LoadToRename
  <2>3. IsRenaming(view'[p], meta)
    BY <1>7, <2>1, <2>2 DEF LoadToRename, IsRenaming, Metadata
  <2> QED
    BY <1>7, <1>b, <2>2, <2>3 DEF LoadToRename, Loads
<1>8. CASE LoadToChangePassword(p) \/ LoadToSign(p)
  <2>1. /\ UNCHANGED <<meta, writers, cmd>> /\ pc[p] = "load"
        /\ \/ pc' = [pc EXCEPT ![p] = "lock"]
           \/ pc' = [pc EXCEPT ![p] = "unlock"] /\ cmd[p] = "sign"
        /\ view' = [view EXCEPT ![p] = view'[p]]
    BY <1>8 DEF LoadToChangePassword, LoadToSign, Loads
  <2> QED
    BY <1>b, <2>1
<1>9. ASSUME NEW indexes \in SUBSET Index,
             Unlocks(p, "derive") \/ Unlocks(p, "vanity"),
             DeriveAccounts(p, indexes)
      PROVE  SaveInv'
  <2>1. CASE indexes = {}
    BY <1>9, <1>b, <2>1 DEF DeriveAccounts, Unlocks
  <2>2. CASE indexes # {}
    <3>1. PICK f \in FreshNames(Names(view[p].accounts), indexes) :
            /\ view' = [view EXCEPT ![p].accounts =
                          AddAccounts(@, Derived(secret.root, f))]
            /\ pc' = [pc EXCEPT ![p] = "save"]
            /\ UNCHANGED <<cmd, original>>
      BY <1>9, <2>2 DEF DeriveAccounts
    <3>2. Extends(view[p], meta) /\ view[p] \in Metadata
      BY <1>9 DEF Unlocks
    <3>3. Extends(view'[p], meta)
      BY <3>1, <3>2 DEF Extends, AddAccounts, Metadata
    <3> QED
      BY <1>9, <1>b, <3>1, <3>3 DEF DeriveAccounts, Unlocks
  <2> QED
    BY <2>1, <2>2
<1>10. CASE DeriveRange(p) \/ DeriveMatches(p)
  BY <1>9, <1>10 DEF DeriveRange, DeriveMatches, Range
<1>11. CASE Sign(p)
  BY <1>11, <1>b DEF Sign, Unlocks
<1>12. CASE TryLock(p) \/ ReadOriginal(p) \/ SwapSecret(p) \/ PersistFails(p) \/ RemoveSecret(p)
  BY <1>12, <1>b DEF TryLock, ReadOriginal, SwapSecret, PersistFails, RemoveSecret
<1>13. CASE PersistMetadata(p)
  <2>1. \A q \in Proc \ {p} : pc'[q] = pc[q] /\ cmd'[q] = cmd[q] /\ view'[q] = view[q]
    BY <1>13 DEF PersistMetadata
  <2>2. pc'[p] = "idle" /\ meta' \in Metadata /\ writers' = {}
    BY <1>13 DEF PersistMetadata
  <2> QED
    BY <1>13, <1>a, <2>1, <2>2 DEF PersistMetadata
<1>14. CASE Rollback(p)
  BY <1>14, <1>b DEF Rollback
<1>15. CASE RemoveMetadata(p)
  <2>1. \A q \in Proc \ {p} : pc'[q] = pc[q] /\ cmd'[q] = cmd[q] /\ view'[q] = view[q]
    BY <1>15 DEF RemoveMetadata
  <2>2. pc'[p] = "idle" /\ meta' = Absent /\ writers' = {}
    BY <1>15 DEF RemoveMetadata
  <2> QED
    BY <1>15, <1>a, <2>1, <2>2 DEF RemoveMetadata
<1>16. CASE Quit(p)
  <2>1. pc[p] # "write" /\ writers' = writers
    BY <1>16 DEF Quit, NoKillInWrite
  <2> QED
    BY <1>16, <1>b, <2>1 DEF Quit
<1> QED
  BY <1>1, <1>2, <1>3, <1>4, <1>5, <1>6, <1>7, <1>8, <1>10, <1>11, <1>12, <1>13, <1>14,
     <1>15, <1>16 DEF Begin, Load, Step

\* So it is saved by one process at a time always.
LEMMA SaveInvariant ==
  LifecycleAlone /\ RewritesApart /\ NoKillInWrite => (Spec => []SaveInv)
<1> SUFFICES ASSUME LifecycleAlone, RewritesApart, NoKillInWrite PROVE Spec => []SaveInv
  OBVIOUS
<1>1. Init => SaveInv
  BY DEF Init, SaveInv
<1>2. TypeInv /\ ControlInv /\ DescribeInv /\ AccountsInv /\ SaveInv /\ [Next]_vars
        => SaveInv'
  BY SaveStep
<1>3. Spec => []DescribeInv /\ []AccountsInv
  BY DescribeInvariant, AccountsInvariant, ApartIsApart
<1>4. QED
  BY <1>1, <1>2, <1>3, TypeInvariant, ControlInvariant, PTL DEF Spec

-----------------------------------------------------------------------------
(***************************************************************************)
(* No account is lost.                                                     *)
(***************************************************************************)

\* More accounts have more indexes.
LEMMA ExtendsIndexes ==
  ASSUME NEW v, NEW m, Extends(v, m)
  PROVE  Indexes(m.accounts) \subseteq Indexes(v.accounts)
  BY DEF Extends, Indexes

\* A new name leaves the indexes as they are.
LEMMA RenamingIndexes ==
  ASSUME NEW v, NEW m, IsRenaming(v, m)
  PROVE  Indexes(m.accounts) \subseteq Indexes(v.accounts)
<1>1. PICK a \in m.accounts, new \in Name :
        v.accounts = Renamed(m.accounts, a, new)
  BY DEF IsRenaming
<1>2. a \in Account
  BY DEF IsRenaming, Metadata
<1>3. [a EXCEPT !.name = new].index = a.index
  BY <1>2 DEF Account
<1> QED
  BY <1>1, <1>3 DEF Indexes, Renamed

\* Each step keeps the accounts that were reported.
LEMMA SavedStep ==
  ASSUME LifecycleAlone, RewritesApart, NoKillInWrite,
         TypeInv, ControlInv, DescribeInv, AccountsInv, SaveInv, SavedInv, [Next]_vars
  PROVE  SavedInv'
<1> USE FileAssumption DEF TypeInv, TypeOK, InHand, Critical, SavedInv, Readable
<1>0. CASE UNCHANGED vars
  BY <1>0 DEF vars
<1> SUFFICES ASSUME NEW p \in Proc, Begin(p) \/ Step(p) PROVE SavedInv'
  BY <1>0 DEF Next
<1>a. ASSUME pc[p] \notin {"idle", "load", "unlock"}, NEW q \in Proc, q # p
      PROVE  pc[q] # "write"
  BY <1>a, OthersRead
<1>b. ASSUME UNCHANGED <<meta, saved>>, pc'[p] # "write", pc' = [pc EXCEPT ![p] = pc'[p]],
             \A q \in Proc \ {p} : cmd'[q] = cmd[q] /\ view'[q] = view[q]
      PROVE  SavedInv'
  <2>1. ASSUME NEW q \in Proc, pc'[q] = "write"
        PROVE  q # p /\ pc[q] = "write" /\ cmd'[q] = cmd[q] /\ view'[q] = view[q]
    BY <1>b, <2>1
  <2> QED
    BY <1>b, <2>1
<1>1. CASE Begin(p)
  BY <1>1, <1>b DEF Begin, BeginCreate, BeginUse, BeginDelete, Start
<1>2. CASE StoreSecret(p)
  BY <1>2, <1>b DEF StoreSecret
<1>3. CASE OpenMetadata(p)
  <2>1. cmd[p] # "create" => saved \subseteq Indexes(view[p].accounts)
    <3> SUFFICES ASSUME cmd[p] # "create" PROVE saved \subseteq Indexes(view[p].accounts)
      OBVIOUS
    <3>1. Extends(view[p], meta) \/ IsRenaming(view[p], meta)
      BY <1>3 DEF OpenMetadata, ControlInv, SaveInv
    <3>2. saved \subseteq Indexes(meta.accounts)
      BY <3>1 DEF Extends, IsRenaming
    <3> QED
      BY <3>1, <3>2, ExtendsIndexes, RenamingIndexes
  <2>2. \A q \in Proc : pc'[q] = "write" => q = p
    BY <1>3, <1>a DEF OpenMetadata
  <2> QED
    BY <1>3, <2>1, <2>2 DEF OpenMetadata
<1>4. CASE WriteMetadata(p)
  <2>1. meta = Empty /\ p \in writers
    BY <1>4 DEF WriteMetadata, SaveInv
  <2>2. meta' = view[p] /\ view[p] \in Metadata
    BY <1>4, <2>1 DEF WriteMetadata, Overlay
  <2>3. saved' \subseteq Indexes(view[p].accounts)
    BY <1>4 DEF WriteMetadata
  <2>4. \A q \in Proc : pc'[q] # "write"
    BY <1>4, <1>a DEF WriteMetadata
  <2> QED
    BY <2>2, <2>3, <2>4
<1>5. CASE Load(p)
  BY <1>5, <1>b DEF Load, LoadToDerive, LoadToRename, LoadToChangePassword, LoadToSign
<1>6. CASE DeriveRange(p) \/ DeriveMatches(p) \/ Sign(p)
  <2>1. /\ UNCHANGED <<meta, saved, cmd>>
        /\ view' = [view EXCEPT ![p] = view'[p]]
        /\ pc' \in {[pc EXCEPT ![p] = "save"], [pc EXCEPT ![p] = "idle"]}
    BY <1>6 DEF DeriveRange, DeriveMatches, DeriveAccounts, Sign
  <2> QED
    BY <2>1, <1>b
<1>7. CASE TryLock(p) \/ ReadOriginal(p) \/ SwapSecret(p) \/ PersistFails(p)
  BY <1>7, <1>b DEF TryLock, ReadOriginal, SwapSecret, PersistFails
<1>8. CASE PersistMetadata(p)
  <2>1. meta \in Metadata /\ view[p] \in Metadata /\ view[p].accounts = meta.accounts
    BY <1>8 DEF PersistMetadata, AccountsInv
  <2>2. \A q \in Proc : pc'[q] # "write"
    BY <1>8, <1>a DEF PersistMetadata
  <2> QED
    BY <1>8, <2>1, <2>2 DEF PersistMetadata
<1>9. CASE Rollback(p) \/ Quit(p)
  BY <1>9, <1>b DEF Rollback, Quit
<1>10. CASE RemoveSecret(p)
  BY <1>10, <1>b DEF RemoveSecret
<1>11. CASE RemoveMetadata(p)
  <2>1. \A q \in Proc : pc'[q] # "write"
    BY <1>11, <1>a DEF RemoveMetadata
  <2> QED
    BY <1>11, <2>1 DEF RemoveMetadata
<1> QED
  BY <1>1, <1>2, <1>3, <1>4, <1>5, <1>6, <1>7, <1>8, <1>9, <1>10, <1>11 DEF Step

\* When wallets are made and deleted alone, nothing but signing runs beside a
\* rewrite of the metadata, and none is killed inside its write, every account that
\* derive reported stays, across renames, password changes and kills elsewhere.
THEOREM AccountsStay ==
  LifecycleAlone /\ RewritesApart /\ NoKillInWrite => (Spec => []NoAccountLost)
<1> SUFFICES ASSUME LifecycleAlone, RewritesApart, NoKillInWrite
             PROVE  Spec => []NoAccountLost
  OBVIOUS
<1>1. Init => SavedInv
  BY FileAssumption DEF Init, SavedInv
<1>2. TypeInv /\ ControlInv /\ DescribeInv /\ AccountsInv /\ SaveInv /\ SavedInv /\ [Next]_vars
        => SavedInv'
  BY SavedStep
<1>3. SaveInv /\ SavedInv => NoAccountLost
  BY FileAssumption DEF SaveInv, SavedInv, NoAccountLost, WalletExists, Readable
<1>4. Spec => []DescribeInv /\ []AccountsInv /\ []SaveInv
  BY DescribeInvariant, AccountsInvariant, ApartIsApart, SaveInvariant
<1>5. QED
  BY <1>1, <1>2, <1>3, <1>4, TypeInvariant, ControlInvariant, PTL DEF Spec

-----------------------------------------------------------------------------
(***************************************************************************)
(* The users know the password.                                            *)
(***************************************************************************)

\* Each step that replaces the secret tells the users its protection, or is that
\* of a creation, which tells them at its end.
LEMMA ToldStep ==
  ASSUME LifecycleAlone, NoKillInSave, TypeInv, ControlInv, ToldInv, [Next]_vars
  PROVE  ToldInv'
<1> USE DEF TypeInv, TypeOK, InHand, ToldInv
<1>0. CASE UNCHANGED vars
  BY <1>0 DEF vars
<1> SUFFICES ASSUME NEW p \in Proc, Begin(p) \/ Step(p) PROVE ToldInv'
  BY <1>0 DEF Next
<1>a. ASSUME pc[p] # "idle", NEW q \in Proc, q # p
      PROVE  ~(cmd[q] = "create" /\ pc[q] \in {"save", "write"})
  BY <1>a, Alone DEF Lifecycle
<1>b. ASSUME UNCHANGED <<secret, told>>, pc' = [pc EXCEPT ![p] = pc'[p]],
             cmd'[p] = "create" => pc'[p] \notin {"save", "write"},
             cmd[p] = "create" => pc[p] \notin {"save", "write"},
             \A q \in Proc \ {p} : cmd'[q] = cmd[q] /\ original'[q] = original[q]
      PROVE  ToldInv'
  <2>1. ASSUME NEW q \in Proc
        PROVE  cmd'[q] = "create" /\ pc'[q] \in {"save", "write"}
                 <=> cmd[q] = "create" /\ pc[q] \in {"save", "write"}
    BY <1>b, <2>1
  <2>2. ASSUME NEW q \in Proc, cmd'[q] = "create", pc'[q] \in {"save", "write"}
        PROVE  original'[q] = original[q]
    BY <1>b, <2>2
  <2> QED
    BY <1>b, <2>1, <2>2
<1>1. CASE Begin(p)
  BY <1>1, <1>b DEF Begin, BeginCreate, BeginUse, BeginDelete, Start
<1>2. CASE StoreSecret(p)
  BY <1>2, <1>a DEF StoreSecret, ControlInv
<1>3. CASE OpenMetadata(p)
  BY <1>3, <1>a DEF OpenMetadata
<1>4. CASE WriteMetadata(p)
  BY <1>4, <1>a DEF WriteMetadata
<1>5. CASE Load(p)
  <2>1. /\ UNCHANGED <<secret, told, cmd, original>>
        /\ pc[p] = "load" /\ cmd[p] # "create" /\ pc' = [pc EXCEPT ![p] = pc'[p]]
    BY <1>5 DEF Load, LoadToDerive, LoadToRename, LoadToChangePassword, LoadToSign, Loads
  <2> QED
    BY <1>b, <2>1
<1>6. CASE DeriveRange(p) \/ DeriveMatches(p) \/ Sign(p)
  <2>1. /\ UNCHANGED <<secret, told, cmd>> /\ cmd[p] # "create"
        /\ pc' \in {[pc EXCEPT ![p] = "save"], [pc EXCEPT ![p] = "idle"]}
        /\ original' = [original EXCEPT ![p] = original'[p]]
    BY <1>6 DEF DeriveRange, DeriveMatches, DeriveAccounts, Sign, Unlocks
  <2> QED
    BY <1>b, <2>1
<1>7. CASE TryLock(p) \/ ReadOriginal(p) \/ PersistFails(p) \/ PersistMetadata(p)
  BY <1>7, <1>b DEF TryLock, ReadOriginal, PersistFails, PersistMetadata
<1>8. CASE SwapSecret(p)
  <2>1. secret'.protection = told' /\ UNCHANGED <<cmd, original>>
    BY <1>8 DEF SwapSecret, Secret
  <2>2. \A q \in Proc : ~(cmd'[q] = "create" /\ pc'[q] \in {"save", "write"})
    BY <1>8, <1>a DEF SwapSecret
  <2> QED
    BY <2>1, <2>2
<1>9. CASE Rollback(p)
  <2>1. secret'.protection = told'
    BY <1>9 DEF Rollback, Restored
  <2>2. \A q \in Proc : ~(cmd'[q] = "create" /\ pc'[q] \in {"save", "write"})
    BY <1>9, <1>a DEF Rollback
  <2> QED
    BY <2>1, <2>2
<1>10. CASE RemoveSecret(p)
  <2>1. \A q \in Proc : ~(cmd'[q] = "create" /\ pc'[q] \in {"save", "write"})
    BY <1>10, <1>a DEF RemoveSecret, ControlInv
  <2> QED
    BY <1>10, <2>1 DEF RemoveSecret
<1>11. CASE RemoveMetadata(p)
  BY <1>11, <1>b DEF RemoveMetadata
<1>12. CASE Quit(p)
  <2>1. pc[p] \notin {"save", "write"}
    BY <1>12 DEF Quit, NoKillInSave
  <2> QED
    BY <1>12, <1>b, <2>1 DEF Quit
<1> QED
  BY <1>1, <1>2, <1>3, <1>4, <1>5, <1>6, <1>7, <1>8, <1>9, <1>10, <1>11, <1>12 DEF Step

\* When wallets are made alone, and no creation is killed before its report, the
\* secret opens with the password that the users were told last: whatever
\* overlaps a password change, and wherever that fails, is rolled back or killed.
THEOREM PasswordIsKnown ==
  LifecycleAlone /\ NoKillInSave => (Spec => []UserKnowsPassword)
<1> SUFFICES ASSUME LifecycleAlone, NoKillInSave PROVE Spec => []UserKnowsPassword
  OBVIOUS
<1>1. Init => ToldInv
  BY DEF Init, ToldInv
<1>2. TypeInv /\ ControlInv /\ ToldInv /\ [Next]_vars => ToldInv'
  BY ToldStep
<1>3. ToldInv => UserKnowsPassword
  BY DEF ToldInv, UserKnowsPassword
<1>4. QED
  BY <1>1, <1>2, <1>3, TypeInvariant, ControlInvariant, PTL DEF Spec

-----------------------------------------------------------------------------
(***************************************************************************)
(* A wallet is one thing.                                                  *)
(***************************************************************************)

\* The metadata and the secret that count, without a choice of process.
CurrentInv ==
  /\ (\A p \in Proc : pc[p] # "write") => CurrentMetadata = meta
  /\ Settled => CurrentSecret = secret
  /\ \A p \in Proc :
       /\ pc[p] = "write" => CurrentMetadata = view[p]
       /\ pc[p] \in {"persist", "rollback"} => CurrentSecret = original[p]

\* There is but one process to choose.
LEMMA CurrentIsUnique ==
  ASSUME LockInv, SaveInv PROVE CurrentInv
<1>1. ASSUME \A p \in Proc : pc[p] # "write" PROVE CurrentMetadata = meta
  <2>1. CASE meta = Empty
    BY <1>1, <2>1, FileAssumption DEF SaveInv
  <2> QED
    BY <2>1 DEF CurrentMetadata
<1>2. Settled => CurrentSecret = secret
  BY DEF CurrentSecret
<1>3. ASSUME NEW p \in Proc, pc[p] = "write" PROVE CurrentMetadata = view[p]
  <2>1. meta = Empty /\ writers = {p}
    BY <1>3 DEF SaveInv
  <2>2. (CHOOSE q \in writers : TRUE) = p
    BY <2>1
  <2> QED
    BY <2>1, <2>2 DEF CurrentMetadata
<1>4. ASSUME NEW p \in Proc, pc[p] \in {"persist", "rollback"} PROVE CurrentSecret = original[p]
  <2>1. \A q \in Proc : pc[q] \in {"persist", "rollback"} => q = p
    BY <1>4 DEF LockInv, Critical
  <2>2. (CHOOSE q \in Proc : pc[q] \in {"persist", "rollback"}) = p
    BY <1>4, <2>1
  <2> QED
    BY <1>4, <2>2 DEF CurrentSecret, Settled
<1> QED
  BY <1>1, <1>2, <1>3, <1>4 DEF CurrentInv

\* The wallet there is when both files are.
LEMMA WalletThere ==
  ASSUME CurrentMetadata \in Metadata, CurrentSecret \in Secret, secret \in Secret
  PROVE  /\ CurrentWallet = [root |-> CurrentSecret.root, protection |-> CurrentSecret.protection,
                             encrypted |-> CurrentMetadata.encrypted,
                             accounts |-> CurrentMetadata.accounts]
         /\ CurrentWallet # Absent
<1>1. secret # Absent /\ Readable(CurrentMetadata)
  BY FileAssumption DEF Readable
<1>2. CurrentWallet = [root |-> CurrentSecret.root, protection |-> CurrentSecret.protection,
                       encrypted |-> CurrentMetadata.encrypted,
                       accounts |-> CurrentMetadata.accounts]
  BY <1>1 DEF CurrentWallet
<1>3. CurrentWallet \in [root : Root, protection : Protection, encrypted : BOOLEAN,
                         accounts : SUBSET Account]
  BY <1>2 DEF Metadata, Secret
<1> QED
  BY <1>2, <1>3, FileAssumption

\* What is assumed of the users, and what is known of a state.
Careful == LifecycleAlone /\ RewritesApart /\ NoKillInChange /\ NoKillInWrite

AtomicInv ==
  /\ TypeInv /\ ControlInv /\ LockInv /\ UniqueInv
  /\ DescribeInv /\ FlagInv /\ AccountsInv /\ SaveInv
  /\ CurrentInv

\* All of it holds always.
LEMMA AtomicInvariant == Careful => (Spec => []AtomicInv)
<1> SUFFICES ASSUME Careful PROVE Spec => []AtomicInv
  OBVIOUS
<1>1. Spec => []DescribeInv /\ []FlagInv /\ []AccountsInv /\ []SaveInv
  BY DescribeInvariant, FlagInvariant, AccountsInvariant, SaveInvariant, ApartIsApart DEF Careful
<1>2. LockInv /\ SaveInv => CurrentInv
  BY CurrentIsUnique
<1>3. QED
  BY <1>1, <1>2, TypeInvariant, ControlInvariant, LockInvariant, UniqueInvariant, PTL
     DEF AtomicInv

\* Steps that change neither file's part in the wallet do not show.
LEMMA Unseen ==
  ASSUME AtomicInv, AtomicInv', NEW p \in Proc,
         UNCHANGED <<meta, secret>>, pc' = [pc EXCEPT ![p] = pc'[p]],
         pc[p] \notin {"write", "persist", "rollback"},
         pc'[p] \notin {"write", "persist", "rollback"},
         \A q \in Proc \ {p} : view'[q] = view[q] /\ original'[q] = original[q]
  PROVE  UNCHANGED CurrentWallet
<1> USE DEF AtomicInv, CurrentInv, TypeInv, TypeOK
<1>1. \A q \in Proc : pc'[q] \in {"write", "persist", "rollback"} \/ pc[q] \in {"write", "persist", "rollback"}
        => q # p /\ pc'[q] = pc[q]
  OBVIOUS
<1>2. CurrentMetadata' = CurrentMetadata
  <2>1. CASE \A q \in Proc : pc[q] # "write"
    BY <1>1, <2>1
  <2>2. CASE \E q \in Proc : pc[q] = "write"
    BY <1>1, <2>2
  <2> QED
    BY <2>1, <2>2
<1>3. CurrentSecret' = CurrentSecret
  <2>1. CASE Settled
    BY <1>1, <2>1 DEF Settled
  <2>2. CASE ~Settled
    BY <1>1, <2>2 DEF Settled
  <2> QED
    BY <2>1, <2>2
<1> QED
  BY <1>2, <1>3 DEF CurrentWallet, Readable

\* Truncating the metadata file is the step at which a creation, a derivation or
\* a renaming takes effect: what is written next is known, and stays.
LEMMA OpenIsAtomic ==
  ASSUME Careful, AtomicInv, AtomicInv', NEW p \in Proc, OpenMetadata(p)
  PROVE  Atomic!Next
<1> USE DEF AtomicInv, TypeInv, TypeOK, InHand, CurrentInv
<1>1. cmd[p] \in {"create", "derive", "vanity", "rename"} /\ pc[p] = "save"
  BY DEF OpenMetadata, ControlInv
<1>2. ASSUME NEW q \in Proc, q # p PROVE pc[q] \in {"idle", "load", "unlock"}
  BY <1>1, <1>2, WriterApart DEF Careful, Rewrites, Lifecycle
<1>3. /\ CurrentMetadata = meta /\ CurrentMetadata' = view[p]
      /\ CurrentSecret = secret /\ CurrentSecret' = secret
      /\ UNCHANGED <<secret, view, original>>
  BY <1>1, <1>2 DEF OpenMetadata, Settled
<1>4. view[p] \in Metadata /\ secret \in Secret /\ Describes(view[p], secret)
  BY <1>1 DEF DescribeInv
<1>5. /\ CurrentWallet' = [root |-> secret.root, protection |-> secret.protection,
                           encrypted |-> view[p].encrypted, accounts |-> view[p].accounts]
  <2>1. secret' # Absent /\ Readable(CurrentMetadata')
    BY <1>3, <1>4, FileAssumption DEF Readable
  <2> QED
    BY <1>3, <2>1 DEF CurrentWallet, Readable
<1>6. CASE cmd[p] = "create"
  <2>1. CurrentWallet = Absent
    BY <1>1, <1>3, <1>6 DEF DescribeInv, CurrentWallet, Readable
  <2>2. view[p].accounts = {} /\ view[p].encrypted = (secret.protection # Plain)
    BY <1>1, <1>4, <1>6, FileAssumption DEF SaveInv, FlagInv, IsEncrypted
  <2>3. Atomic!Make(secret.root, secret.protection)
    BY <1>5, <2>1, <2>2 DEF Atomic!Make
  <2> QED
    BY <1>4, <2>3 DEF Atomic!Next, Secret
<1>7. ASSUME meta \in Metadata, view[p].type = Hd, view[p].encrypted = meta.encrypted
      PROVE  /\ CurrentWallet = [root |-> secret.root, protection |-> secret.protection,
                                 encrypted |-> view[p].encrypted, accounts |-> meta.accounts]
             /\ CurrentWallet # Absent
             /\ secret.root \notin LegacyRoot
  <2>1. secret.root \notin LegacyRoot
    BY <1>4, <1>7, RootAssumption DEF Describes, TypeOfRoot
  <2> QED
    BY <1>3, <1>4, <1>7, <2>1, WalletThere
<1>8. CASE cmd[p] \in {"derive", "vanity"}
  <2> DEFINE new == view[p].accounts
  <2>1. Extends(view[p], meta)
    BY <1>1, <1>8 DEF SaveInv
  <2>2. /\ CurrentWallet = [root |-> secret.root, protection |-> secret.protection,
                            encrypted |-> view[p].encrypted, accounts |-> meta.accounts]
        /\ CurrentWallet # Absent
        /\ secret.root \notin LegacyRoot
        /\ meta.accounts \subseteq new
    BY <1>7, <2>1 DEF Extends
  <2>3. \A a \in new : a.root = secret.root
    BY <1>4 DEF Describes
  <2>4. \A a, b \in new : a.name = b.name \/ a.index = b.index => a = b
    BY <1>1 DEF UniqueInv, Unambiguous
  <2>5. CurrentWallet' = [CurrentWallet EXCEPT !.accounts = @ \cup new]
    <3>1. CurrentWallet.accounts \cup new = new
      BY <2>2
    <3> HIDE DEF new
    <3>2. [CurrentWallet EXCEPT !.accounts = new] = CurrentWallet'
      <4>1. CurrentWallet \in [root : {secret.root}, protection : {secret.protection},
                               encrypted : {view[p].encrypted}, accounts : {meta.accounts, new}]
        BY <2>2
      <4>2. /\ CurrentWallet.root = secret.root /\ CurrentWallet.protection = secret.protection
            /\ CurrentWallet.encrypted = view[p].encrypted
        BY <2>2
      <4>3. CurrentWallet' = [root |-> secret.root, protection |-> secret.protection,
                              encrypted |-> view[p].encrypted, accounts |-> new]
        BY <1>5 DEF new
      <4> QED
        BY <4>1, <4>2, <4>3
    <3> QED
      BY <3>1, <3>2
  <2>6. Atomic!Extend(new)
    BY <2>2, <2>3, <2>4, <2>5 DEF Atomic!Extend
  <2>7. new \in SUBSET Atomic!Account
    BY <1>4 DEF Metadata, Account, Atomic!Account
  <2> QED
    BY <2>6, <2>7 DEF Atomic!Next
<1>9. CASE cmd[p] = "rename"
  <2>1. IsRenaming(view[p], meta)
    BY <1>1, <1>9 DEF SaveInv
  <2>2. /\ CurrentWallet = [root |-> secret.root, protection |-> secret.protection,
                            encrypted |-> view[p].encrypted, accounts |-> meta.accounts]
        /\ CurrentWallet # Absent
        /\ secret.root \notin LegacyRoot
    BY <1>7, <2>1 DEF IsRenaming
  <2>3. PICK a \in meta.accounts, new \in Name \ Names(meta.accounts) :
          view[p].accounts = Renamed(meta.accounts, a, new)
    BY <2>1 DEF IsRenaming
  <2>4. CurrentWallet' = [CurrentWallet EXCEPT !.accounts = (@ \ {a}) \cup {[a EXCEPT !.name = new]}]
    <3> DEFINE renamed == (meta.accounts \ {a}) \cup {[a EXCEPT !.name = new]}
    <3>1. view[p].accounts = renamed /\ CurrentWallet.accounts = meta.accounts
      BY <2>2, <2>3 DEF Renamed
    <3> HIDE DEF renamed
    <3>2. [CurrentWallet EXCEPT !.accounts = renamed] = CurrentWallet'
      <4>1. CurrentWallet \in [root : {secret.root}, protection : {secret.protection},
                               encrypted : {view[p].encrypted},
                               accounts : {meta.accounts, renamed}]
        BY <2>2
      <4>2. /\ CurrentWallet.root = secret.root /\ CurrentWallet.protection = secret.protection
            /\ CurrentWallet.encrypted = view[p].encrypted
        BY <2>2
      <4>3. CurrentWallet' = [root |-> secret.root, protection |-> secret.protection,
                              encrypted |-> view[p].encrypted, accounts |-> renamed]
        BY <1>5, <3>1
      <4> QED
        BY <4>1, <4>2, <4>3
    <3> QED
      BY <3>1, <3>2 DEF renamed
  <2>5. Atomic!Rename(a, new)
    BY <2>2, <2>3, <2>4 DEF Atomic!Rename, Names
  <2> QED
    BY <2>2, <2>3, <2>5 DEF Atomic!Next
<1> QED
  BY <1>1, <1>6, <1>8, <1>9

\* Putting the new metadata in place is the step at which a password change takes
\* effect.
LEMMA PersistIsAtomic ==
  ASSUME Careful, AtomicInv, AtomicInv', NEW p \in Proc, PersistMetadata(p)
  PROVE  Atomic!Next
<1> USE DEF AtomicInv, TypeInv, TypeOK, InHand, CurrentInv
<1>1. pc[p] = "persist"
  BY DEF PersistMetadata
<1>2. ASSUME NEW q \in Proc, q # p PROVE pc[q] \notin {"write", "persist", "rollback"}
  BY <1>1, <1>2, OthersRead DEF Careful, LockInv, Critical
<1>3. /\ \A q \in Proc : pc[q] # "write" /\ pc'[q] \notin {"write", "persist", "rollback"}
      /\ UNCHANGED secret /\ meta' = view[p]
  BY <1>1, <1>2 DEF PersistMetadata
<1>4. /\ CurrentMetadata = meta /\ CurrentMetadata' = view[p]
      /\ CurrentSecret = original[p] /\ CurrentSecret' = secret
  BY <1>1, <1>3 DEF Settled
<1>5. /\ meta \in Metadata /\ view[p] \in Metadata /\ original[p] \in Secret
      /\ secret \in Secret /\ original[p].root = secret.root
      /\ view[p].accounts = meta.accounts
      /\ view[p].encrypted = (secret.protection # Plain)
  BY <1>1 DEF AccountsInv, DescribeInv, FlagInv, IsEncrypted, Critical, Readable
<1>6. /\ CurrentWallet = [root |-> secret.root, protection |-> original[p].protection,
                          encrypted |-> meta.encrypted, accounts |-> meta.accounts]
      /\ CurrentWallet # Absent
  BY <1>4, <1>5, WalletThere
<1>7. CurrentWallet' = [root |-> secret.root, protection |-> secret.protection,
                        encrypted |-> (secret.protection # Plain), accounts |-> meta.accounts]
  <2>1. secret' # Absent /\ Readable(CurrentMetadata')
    BY <1>3, <1>4, <1>5, FileAssumption DEF Readable
  <2> QED
    BY <1>4, <1>5, <2>1 DEF CurrentWallet, Readable
<1>8. Atomic!ChangePassword(secret.protection)
  <2> DEFINE flag == secret.protection # Plain
             new  == [CurrentWallet EXCEPT !.protection = secret.protection, !.encrypted = flag]
  <2> HIDE DEF flag
  <2>1. /\ new.root = secret.root /\ new.protection = secret.protection
        /\ new.encrypted = flag /\ new.accounts = meta.accounts
    BY <1>6
  <2>2. new \in [root : {secret.root}, accounts : {meta.accounts},
                 protection : {secret.protection, original[p].protection},
                 encrypted : {meta.encrypted, flag}]
    BY <1>6
  <2> HIDE DEF new
  <2>3. new = CurrentWallet'
    BY <1>7, <2>1, <2>2 DEF flag
  <2> QED
    BY <1>6, <2>3, Zenon DEF Atomic!ChangePassword, new, flag
<1> QED
  BY <1>5, <1>8 DEF Atomic!Next, Secret

\* Removing the secret is the step at which a delete takes effect, unless there was
\* only half a wallet.  No other step shows.
LEMMA AtomicStep ==
  ASSUME Careful, AtomicInv, AtomicInv', [Next]_vars
  PROVE  [Atomic!Next]_CurrentWallet
<1> USE DEF AtomicInv, TypeInv, TypeOK, InHand, CurrentInv
<1>0. CASE UNCHANGED vars
  BY <1>0 DEF vars, CurrentWallet, CurrentMetadata, CurrentSecret, Settled, Readable
<1> SUFFICES ASSUME NEW p \in Proc, Begin(p) \/ Step(p) PROVE Atomic!Next \/ UNCHANGED CurrentWallet
  BY <1>0 DEF Next
<1>1. CASE Begin(p)
  BY <1>1, Unseen DEF Begin, BeginCreate, BeginUse, BeginDelete, Start
<1>2. CASE StoreSecret(p)
  <2>1. meta = Absent /\ meta' = Absent
    BY <1>2 DEF StoreSecret, DescribeInv, WalletAbsent
  <2>2. /\ \A q \in Proc : pc[q] # "write"
        /\ \A q \in Proc : pc'[q] # "write"
    BY <1>2, <2>1, FileAssumption DEF SaveInv
  <2>3. CurrentMetadata = Absent /\ CurrentMetadata' = Absent
    BY <2>1, <2>2
  <2> QED
    BY <2>3 DEF CurrentWallet, Readable
<1>3. CASE OpenMetadata(p)
  BY <1>3, OpenIsAtomic
<1>4. CASE WriteMetadata(p)
  <2>1. meta = Empty /\ writers = {p} /\ pc[p] = "write" /\ cmd[p] \in Rewrites \cup Lifecycle
    BY <1>4 DEF WriteMetadata, SaveInv, ControlInv, Rewrites, Lifecycle
  <2>2. ASSUME NEW q \in Proc, q # p PROVE pc[q] \in {"idle", "load", "unlock"}
    BY <2>1, <2>2, WriterApart DEF Careful
  <2>3. meta' = view[p] /\ UNCHANGED secret
    BY <1>4, <2>1 DEF WriteMetadata, Overlay
  <2>4. \A q \in Proc : pc'[q] \notin {"write", "persist", "rollback"}
    BY <1>4, <2>2 DEF WriteMetadata
  <2>5. CurrentMetadata = view[p] /\ CurrentMetadata' = view[p]
    BY <2>1, <2>3, <2>4
  <2>6. CurrentSecret = secret /\ CurrentSecret' = secret
    BY <2>1, <2>2, <2>3, <2>4 DEF Settled
  <2> QED
    BY <2>3, <2>5, <2>6 DEF CurrentWallet, Readable
<1>5. CASE Load(p)
  <2>1. /\ UNCHANGED <<meta, secret, original>>
        /\ pc[p] = "load"
        /\ pc' \in {[pc EXCEPT ![p] = "unlock"], [pc EXCEPT ![p] = "save"],
                    [pc EXCEPT ![p] = "lock"]}
        /\ \A q \in Proc \ {p} : view'[q] = view[q]
    BY <1>5 DEF Load, LoadToDerive, LoadToRename, LoadToChangePassword, LoadToSign, Loads
  <2> QED
    BY <2>1, Unseen
<1>6. CASE DeriveRange(p) \/ DeriveMatches(p) \/ Sign(p)
  <2>1. /\ UNCHANGED <<meta, secret>> /\ pc[p] = "unlock"
        /\ pc' \in {[pc EXCEPT ![p] = "save"], [pc EXCEPT ![p] = "idle"]}
        /\ \A q \in Proc \ {p} : view'[q] = view[q] /\ original'[q] = original[q]
    BY <1>6 DEF DeriveRange, DeriveMatches, DeriveAccounts, Sign, Unlocks
  <2> QED
    BY <2>1, Unseen
<1>7. CASE TryLock(p) \/ ReadOriginal(p)
  BY <1>7, Unseen DEF TryLock, ReadOriginal
<1>8. ASSUME pc[p] \in {"swap", "persist", "rollback"}, UNCHANGED <<meta, view>>,
             pc' = [pc EXCEPT ![p] = pc'[p]], pc'[p] # "write",
             secret' \in Secret, CurrentSecret' = CurrentSecret
      PROVE  UNCHANGED CurrentWallet
  <2>1. ASSUME NEW q \in Proc PROVE pc[q] # "write" /\ pc'[q] # "write"
    BY <1>8, <2>1, OthersRead DEF Careful
  <2>2. CurrentMetadata' = CurrentMetadata
    BY <1>8, <2>1
  <2>3. secret # Absent /\ secret' # Absent
    BY <1>8, FileAssumption DEF DescribeInv, Critical
  <2> QED
    BY <1>8, <2>2, <2>3 DEF CurrentWallet, Readable
<1>9. CASE SwapSecret(p)
  <2>1. secret' \in Secret
    BY <1>9 DEF SwapSecret, Secret, Protection
  <2>2. Settled
    BY <1>9 DEF SwapSecret, Settled, LockInv, Critical
  <2>3. CurrentSecret = secret /\ CurrentSecret' = original[p] /\ original[p] = secret
    BY <1>9, <2>2 DEF SwapSecret, FlagInv
  <2>4. UNCHANGED <<meta, view>> /\ pc[p] = "swap" /\ pc' = [pc EXCEPT ![p] = "persist"]
    BY <1>9 DEF SwapSecret
  <2> QED
    BY <1>8, <2>1, <2>3, <2>4
<1>10. CASE PersistMetadata(p)
  BY <1>10, PersistIsAtomic
<1>11. CASE PersistFails(p)
  <2>1. CurrentSecret = original[p] /\ CurrentSecret' = original[p] /\ secret' \in Secret
    BY <1>11 DEF PersistFails, DescribeInv, Critical
  <2> QED
    BY <1>11, <1>8, <2>1 DEF PersistFails
<1>12. CASE Rollback(p)
  <2>1. pc[p] = "rollback" /\ secret' = original[p] /\ original[p] \in Secret
    BY <1>12 DEF Rollback, Restored
  <2>2. ASSUME NEW q \in Proc PROVE pc'[q] \notin {"write", "persist", "rollback"} /\ pc[q] # "write"
    BY <1>12, <2>1, <2>2, OthersRead DEF Rollback, LockInv, Critical, Careful
  <2>3. CurrentSecret = original[p] /\ CurrentSecret' = original[p]
    BY <2>1, <2>2 DEF Settled
  <2>4. CurrentMetadata = meta /\ CurrentMetadata' = meta
    BY <1>12, <2>2 DEF Rollback
  <2>5. secret # Absent /\ secret' # Absent
    BY <2>1, FileAssumption DEF DescribeInv, Critical
  <2> QED
    BY <2>3, <2>4, <2>5 DEF CurrentWallet, Readable
<1>13. CASE RemoveSecret(p)
  <2>1. CurrentWallet' = Absent
    BY <1>13 DEF RemoveSecret, CurrentWallet
  <2> QED
    BY <2>1 DEF Atomic!Delete, Atomic!Next
<1>14. CASE RemoveMetadata(p)
  <2>1. secret = Absent /\ secret' = Absent
    BY <1>14 DEF RemoveMetadata, DescribeInv
  <2> QED
    BY <2>1 DEF CurrentWallet
<1>15. CASE Quit(p)
  <2>1. pc[p] \notin {"write", "persist", "rollback"}
    BY <1>15 DEF Quit, Careful, NoKillInChange, NoKillInWrite
  <2> QED
    BY <1>15, <2>1, Unseen DEF Quit
<1> QED
  BY <1>1, <1>2, <1>3, <1>4, <1>5, <1>6, <1>7, <1>9, <1>10, <1>11, <1>12, <1>13, <1>14,
     <1>15 DEF Step

\* When wallets are made and deleted alone, nothing but signing runs beside a
\* rewrite of the metadata and only signing and other password changes beside a
\* password change, and no command is killed inside a write of the metadata or
\* between the two files of a password change, the wallet changes as if each
\* command were one step: for all that commands read, prompt and write between,
\* fail and roll back, and are killed elsewhere.
THEOREM WalletIsAtomic == Careful => (Spec => IsAtomic)
<1> SUFFICES ASSUME Careful PROVE Spec => IsAtomic
  OBVIOUS
<1>1. Init => Atomic!Init
  BY DEF Init, Atomic!Init, CurrentWallet
<1>2. AtomicInv /\ AtomicInv' /\ [Next]_vars => [Atomic!Next]_CurrentWallet
  BY AtomicStep
<1>3. Spec => []AtomicInv
  BY AtomicInvariant
<1>4. QED
  BY <1>1, <1>2, <1>3, PTL DEF Spec, IsAtomic, Atomic!Spec
=============================================================================
