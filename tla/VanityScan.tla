----------------------------- MODULE VanityScan -----------------------------
(***************************************************************************)
(* What `wallet derive-vanity` promises of its search: it tries new        *)
(* derivation indexes, keeps matching ones, and says truthfully why it     *)
(* stopped.  In what order, and by how many threads, is left open.         *)
(***************************************************************************)
EXTENDS Naturals, FiniteSets

CONSTANTS
  IndexLimit, \* the end of the scheme's index space
  Request,    \* the searches that may be asked for
  Unbounded,  \* --unbounded: the max of a search without a limit of attempts
  Pending     \* the search has not returned yet

\* What a search is asked for, and what the seed makes of it: the indexes
\* whose candidates match, those that cannot be derived, and whether the
\* parent key of the derivation can be.
RequestType ==
  [start : Nat, count : Nat \ {0}, max : (Nat \ {0}) \cup {Unbounded},
   existing : SUBSET Nat, matching : SUBSET Nat, faulty : SUBSET Nat,
   usable : BOOLEAN]

\* "early" is the reason the code gives when it knows none.
Outcome == {"error", "found", "attempts", "indexes", "early"}

VARIABLES
  req,    \* the search that was asked for
  tried,  \* the indexes whose candidates were attempted
  kept,   \* the indexes of the matches
  outcome

scanVars == <<req, tried, kept, outcome>>

\* The indexes from the start that no account of the wallet has.
New == {i \in 0 .. IndexLimit : req.start <= i /\ i < IndexLimit} \ req.existing

MayTry == req.max = Unbounded \/ Cardinality(tried) < req.max

ScanInit ==
  /\ req \in Request
  /\ tried = {}
  /\ kept = {}
  /\ outcome = Pending

Try(i) ==
  /\ outcome = Pending
  /\ MayTry
  /\ tried' = tried \cup {i}
  /\ UNCHANGED <<req, kept, outcome>>

Keep(i) ==
  /\ outcome = Pending
  /\ Cardinality(kept) < req.count
  /\ kept' = kept \cup {i}
  /\ UNCHANGED <<req, tried, outcome>>

\* Every attempted candidate that matches is among the matches.
AllKept == kept = tried \cap req.matching

\* Why a search may return with a given outcome.
Justified(reason) ==
  \/ /\ reason = "found"
     /\ Cardinality(kept) = req.count
  \/ /\ reason = "attempts"
     /\ Cardinality(tried) = req.max /\ AllKept
  \/ /\ reason = "indexes"
     /\ tried = New /\ AllKept
  \/ /\ reason = "error"
     /\ ~req.usable \/ tried \cap req.faulty # {}

End ==
  /\ outcome = Pending
  /\ \E reason \in Outcome : Justified(reason) /\ outcome' = reason
  /\ UNCHANGED <<req, tried, kept>>

ScanNext ==
  \/ \E i \in New \ tried : Try(i)
  \/ \E i \in (tried \cap req.matching) \ kept : Keep(i)
  \/ End

ScanSpec == ScanInit /\ [][ScanNext]_scanVars
=============================================================================
