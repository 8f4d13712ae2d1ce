--------------------------- MODULE WalletStoreMC ---------------------------
(***************************************************************************)
(* Instances of WalletStore for TLC: which commands the users let overlap, *)
(* and where a command may end early.                                      *)
(***************************************************************************)
EXTENDS WalletStore, TLC

MCIndex == {0, 1}

Edits == Command \ Lifecycle

\* Any two commands on an existing wallet may overlap; a wallet is made and
\* deleted with nothing else running.
EditsOverlap == Edits \X Edits

BothWays(S, T) == (S \X T) \cup (T \X S)

\* Any two commands may overlap, but a wallet is made beside none that writes its
\* files: beside signing and deleting alone.
CreationApart ==
  BothWays(Command \ {"create"}, Command \ {"create"})
    \cup BothWays({"create"}, {"sign", "delete"})

\* One rewrite of the accounts at a time, and none beside a password change;
\* password changes may overlap one another, and anything may overlap signing.
OneRewriteAtATime ==
  {pair \in EditsOverlap :
     \/ "sign" \in {pair[1], pair[2]}
     \/ pair = <<"password", "password">>}

\* A wallet is deleted while its password is changed.
PasswordDuringDelete ==
  {<<"password", "delete">>, <<"delete", "password">>}

\* A command may be killed anywhere.
Anywhere == Location \ {"idle"}

\* A command ends early only where nothing is half done: not between the
\* secret and the metadata, and not inside a write of the metadata.
BetweenWrites == EarlyReturns \cup {"remove_secret", "remove_metadata"}

Symmetry == Permutations(Proc)
=============================================================================
