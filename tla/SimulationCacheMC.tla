-------------------------- MODULE SimulationCacheMC --------------------------
(***************************************************************************)
(* An instance of SimulationCache for TLC: two state roots, and three keys *)
(* of which one is another with access rights.                             *)
(***************************************************************************)
EXTENDS SimulationCache, TLC

CONSTANTS k1, k2, k1rw, r1, r2, v1, v2

MCKey == {k1, k2, k1rw}

MCNormal == (k1 :> k1) @@ (k2 :> k2) @@ (k1rw :> k1)

\* From one root to the next k1 changes its value and k2 gets one.
MCStored ==
  (r1 :> ((k1 :> v1) @@ (k2 :> Missing) @@ (k1rw :> Missing))) @@
  (r2 :> ((k1 :> v2) @@ (k2 :> v1) @@ (k1rw :> Missing)))
==============================================================================
