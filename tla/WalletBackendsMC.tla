-------------------------- MODULE WalletBackendsMC --------------------------
(***************************************************************************)
(* Instances of WalletBackends for TLC: which backend is used for which    *)
(* wallet.                                                                 *)
(***************************************************************************)
EXTENDS WalletBackends

CONSTANTS w1, w2, w3

MCName == {w1, w2, w3}

\* Two wallets in the keyring, one in a file; no wallet is used with the other
\* backend.
OneBackendEach == {<<w1, "keyring">>, <<w2, "keyring">>, <<w3, "file">>}

\* --keyring and --file-storage are given or not, as the user likes.
AnyBackend == MCName \X Backend
=============================================================================
