-------------------------- MODULE FaithfulExecution --------------------------
(***************************************************************************)
(* What a local simulation promises: one execution after the other, each   *)
(* over the global state at the root of one block, with neither a node nor *)
(* a cache in sight.  A read gives what the state has, or is said to find  *)
(* nothing, or fails; and a failed read is what is reported in the end.    *)
(***************************************************************************)
CONSTANTS
  Key,     \* the keys a contract reads
  Root,    \* the state roots of the chain's blocks
  State,   \* State[r][k]: what the global state at root r has for key k
  Missing, \* a key has no value
  Failure, \* the ways a read may fail
  Result,  \* what an execution may come to
  None     \* no failure, no result

VARIABLES
  phase,   \* idle, started, running or reporting
  root,    \* the root the execution runs at
  seen,    \* what it was given to read
  failure, \* the first read that failed
  result,  \* what it has come to
  outcome  \* what the user has been told

vars == <<phase, root, seen, failure, result, outcome>>

Init ==
  /\ phase = "idle"
  /\ root \in Root
  /\ seen = {}
  /\ failure = None
  /\ result = None
  /\ outcome = "none"

Start ==
  /\ phase = "idle"
  /\ phase' = "started"
  /\ seen' = {}
  /\ failure' = None
  /\ outcome' = "none"
  /\ UNCHANGED <<root, result>>

Enter ==
  /\ phase = "started"
  /\ phase' = "running"
  /\ root' \in Root
  /\ UNCHANGED <<seen, failure, result, outcome>>

\* Only a node can say that there is nothing: no proof backs it.
Read(k) ==
  /\ phase = "running"
  /\ \E value \in {State[root][k], Missing} :
       seen' = seen \cup {[key |-> k, value |-> value]}
  /\ UNCHANGED <<phase, root, failure, result, outcome>>

ReadFails(f) ==
  /\ phase = "running"
  /\ failure' = IF failure = None THEN f ELSE failure
  /\ UNCHANGED <<phase, root, seen, result, outcome>>

\* An execution that lacked a read has no result.
Finish(r) ==
  /\ phase = "running"
  /\ failure = None
  /\ result' = r
  /\ phase' = "reporting"
  /\ UNCHANGED <<root, seen, failure, outcome>>

Tell(what) ==
  /\ outcome' = what
  /\ phase' = "idle"
  /\ result' = None
  /\ UNCHANGED <<root, seen, failure>>

TellResult       == phase = "reporting" /\ Tell(result)
TellFailure      == phase = "running" /\ failure # None /\ Tell(failure)
TellOtherFailure == phase \in {"started", "reporting"} /\ Tell("error")

\* The process is gone, and nothing has been said.
Vanish ==
  /\ phase # "idle"
  /\ phase' = "idle"
  /\ seen' = {}
  /\ failure' = None
  /\ result' = None
  /\ UNCHANGED <<root, outcome>>

Next ==
  \/ Start \/ Enter
  \/ \E k \in Key : Read(k)
  \/ \E f \in Failure : ReadFails(f)
  \/ \E r \in Result : Finish(r)
  \/ TellResult \/ TellFailure \/ TellOtherFailure
  \/ Vanish

Spec == Init /\ [][Next]_vars
==============================================================================
