----------------------------- MODULE AtomicWallet -----------------------------
(***************************************************************************)
(* What the wallet commands promise: a wallet is one thing, and a command  *)
(* changes it at once or not at all.  That it is a secret and a metadata   *)
(* file, written one after the other and in several steps, does not show.  *)
(***************************************************************************)
CONSTANTS
  Root,       \* the root secrets
  LegacyRoot, \* those without accounts
  Index,      \* derivation indexes
  Name,       \* account names
  Protection, \* the passwords, and no password
  Plain,      \* no password
  Nothing     \* there is no wallet

VARIABLE
  wallet \* Nothing, or its root, its protection and whether info shows it as
         \* encrypted, and its accounts

Account == [index : Index, name : Name, root : Root]

Init == wallet = Nothing

Make(r, protection) ==
  /\ wallet = Nothing
  /\ wallet' = [root |-> r, protection |-> protection,
                encrypted |-> protection # Plain, accounts |-> {}]

\* New accounts, of the wallet's own root and with names and indexes of their own.
Extend(new) ==
  /\ wallet # Nothing
  /\ wallet.root \notin LegacyRoot
  /\ \A a \in new : a.root = wallet.root
  /\ \A a \in new, b \in new \cup wallet.accounts :
       a.name = b.name \/ a.index = b.index => a = b
  /\ wallet' = [wallet EXCEPT !.accounts = @ \cup new]

Rename(a, name) ==
  /\ wallet # Nothing
  /\ wallet.root \notin LegacyRoot
  /\ \A b \in wallet.accounts : b.name # name
  /\ wallet' = [wallet EXCEPT !.accounts = (@ \ {a}) \cup {[a EXCEPT !.name = name]}]

ChangePassword(protection) ==
  /\ wallet # Nothing
  /\ wallet' = [wallet EXCEPT !.protection = protection, !.encrypted = protection # Plain]

Delete ==
  /\ wallet # Nothing
  /\ wallet' = Nothing

Next ==
  \/ \E r \in Root, protection \in Protection : Make(r, protection)
  \/ \E new \in SUBSET Account : Extend(new)
  \/ wallet # Nothing /\ \E a \in wallet.accounts, name \in Name : Rename(a, name)
  \/ \E protection \in Protection : ChangePassword(protection)
  \/ Delete

Spec == Init /\ [][Next]_wallet
===============================================================================
