--------------------------- MODULE NetworkConfigMC ---------------------------
(***************************************************************************)
(* An instance of NetworkConfig for TLC: three networks of which two are   *)
(* of one chain after an edit.                                             *)
(***************************************************************************)
EXTENDS NetworkConfig, TLC

CONSTANTS test, dev, e1, e2, e3

Symmetry == Permutations(Proc)

MCNetwork == {"testnet", "devnet", "mine"}

MCDefault ==
  ("testnet" :> [chain |-> test, rpc |-> e1]) @@
  ("devnet"  :> [chain |-> dev,  rpc |-> e2]) @@
  ("mine"    :> None)

\* A user adds a network of the chain of another one, forgets the active
\* network, removes one, or makes a typing error.
MCTyped ==
  {[active |-> None,
    networks |-> [MCDefault EXCEPT !["mine"] = [chain |-> dev, rpc |-> e3]],
    storage |-> "keyring"],
   [active |-> None,
    networks |-> [MCDefault EXCEPT !["testnet"] = None],
    storage |-> "file"],
   Mangled}
==============================================================================
