---------------------------- MODULE VanitySearch ----------------------------
(***************************************************************************)
(* The parallel search of `wallet derive-vanity`: worker threads that      *)
(* share atomic counters, flags and a list of matches.                     *)
(*                                                                         *)
(* A step is one operation on shared memory, with what the thread computes *)
(* by itself around it.  The flags are stored and loaded Relaxed: a worker *)
(* may go on as if `done` were not set, until it sets it itself.           *)
(***************************************************************************)
EXTENDS Naturals, FiniteSets

CONSTANTS
  Worker,     \* the --jobs threads
  IndexLimit, \* derivation_index_limit
  Request,    \* the searches that may be asked for
  Unbounded,  \* --unbounded: the max of a search without a limit of attempts
  Pending     \* the search has not returned yet

VARIABLES
  req,                \* the arguments of the search; constant
  next_index,         \* the next derivation index to be claimed
  attempts,           \* the attempts reserved
  found,              \* the matches counted, pushed or about to be
  done,               \* the workers are to stop
  exhausted_attempts, \* a worker found no attempt left
  exhausted_indexes,  \* a worker found no index left
  matches,            \* the indexes of the candidates pushed
  error,              \* an error was recorded
  outcome,            \* what the search returned
  pc,                 \* pc[w]: the program point of worker w
  index,              \* index[w]: the derivation index w claimed
  current,            \* current[w]: the count w loaded, of attempts or of matches
  tried               \* for the properties: the indexes of reserved attempts

Scan == INSTANCE VanityScan WITH kept <- matches

ASSUME SearchAssumption ==
  /\ IndexLimit \in Nat \ {0}
  /\ Request \subseteq Scan!RequestType
  /\ Unbounded \notin Nat
  /\ Pending \notin Scan!Outcome
  /\ IsFiniteSet(Worker) /\ Worker # {}

shared == <<next_index, attempts, found, done, exhausted_attempts,
            exhausted_indexes, matches, error>>
vars   == <<req, shared, outcome, pc, index, current, tried>>

Location == {"new", "loop", "reserve", "exchange", "derive", "push", "exit"}

\* The indexes that a u32 can hold and the scheme can derive.
InLimit == 0 .. IndexLimit - 1

\* In particular the claimed indexes are never truncated by the cast to u32.
TypeOK ==
  /\ req \in Request
  /\ next_index \in Nat
  /\ attempts \in Nat
  /\ found \in Nat
  /\ done \in BOOLEAN
  /\ exhausted_attempts \in BOOLEAN
  /\ exhausted_indexes \in BOOLEAN
  /\ matches \in SUBSET InLimit
  /\ error \in BOOLEAN
  /\ outcome \in Scan!Outcome \cup {Pending}
  /\ pc \in [Worker -> Location]
  /\ index \in [Worker -> InLimit]
  /\ current \in [Worker -> Nat]
  /\ tried \in SUBSET InLimit

\* A start outside the index space returns at once: no worker runs.
InSpace == req.start < IndexLimit

Init ==
  /\ req \in Request
  /\ next_index = req.start
  /\ attempts = 0
  /\ found = 0
  /\ done = FALSE
  /\ exhausted_attempts = FALSE
  /\ exhausted_indexes = ~InSpace
  /\ matches = {}
  /\ error = FALSE
  /\ outcome = Pending
  /\ pc = [w \in Worker |-> IF InSpace THEN "new" ELSE "exit"]
  /\ index = [w \in Worker |-> 0]
  /\ current = [w \in Worker |-> 0]
  /\ tried = {}

Goto(w, location) == pc' = [pc EXCEPT ![w] = location]

-----------------------------------------------------------------------------
\* AccountDeriver::new succeeds.
MakeDeriver(w) ==
  /\ pc[w] = "new"
  /\ req.usable
  /\ Goto(w, "loop")
  /\ UNCHANGED <<req, shared, outcome, index, current, tried>>

\* record_error and leave.
Fail(w) ==
  /\ error' = TRUE
  /\ done' = TRUE
  /\ Goto(w, "exit")

DeriverFails(w) ==
  /\ pc[w] = "new"
  /\ ~req.usable
  /\ Fail(w)
  /\ UNCHANGED <<req, next_index, attempts, found, exhausted_attempts,
                 exhausted_indexes, matches, outcome, index, current, tried>>

SeeDone(w) ==
  /\ pc[w] = "loop"
  /\ done
  /\ Goto(w, "exit")
  /\ UNCHANGED <<req, shared, outcome, index, current, tried>>

\* Mutant: the end of the index space is taken to belong to it.
BeyondLimit(i) == i > IndexLimit

\* The claimed index is outside the index space.
OutOfSpace(i) == i >= IndexLimit

\* Mutant: an index that the wallet has is not counted.
AdvancedIfNew(i) == IF i \in req.existing THEN i ELSE i + 1

\* next_index.fetch_add.
Advanced(i) == i + 1

\* Claim an index of the space; an index that the wallet has is passed over.
ClaimIndex(w) ==
  /\ pc[w] = "loop"
  /\ ~OutOfSpace(next_index)
  /\ index' = [index EXCEPT ![w] = next_index]
  /\ next_index' = Advanced(next_index)
  /\ Goto(w, IF next_index \in req.existing THEN "loop" ELSE "reserve")
  /\ UNCHANGED <<req, attempts, found, done, exhausted_attempts,
                 exhausted_indexes, matches, error, outcome, current, tried>>

\* The claimed index is outside the space: stop everybody.
ClaimNothing(w) ==
  /\ pc[w] = "loop"
  /\ OutOfSpace(next_index)
  /\ next_index' = Advanced(next_index)
  /\ exhausted_indexes' = TRUE
  /\ done' = TRUE
  /\ Goto(w, "exit")
  /\ UNCHANGED <<req, attempts, found, exhausted_attempts, matches, error,
                 outcome, index, current, tried>>

-----------------------------------------------------------------------------
NoneLeft(n) == req.max # Unbounded /\ n >= req.max

\* reserve_attempt, the load: an attempt is left.
LoadAttempts(w) ==
  /\ pc[w] = "reserve"
  /\ ~NoneLeft(attempts)
  /\ current' = [current EXCEPT ![w] = attempts]
  /\ Goto(w, "exchange")
  /\ UNCHANGED <<req, shared, outcome, index, tried>>

\* reserve_attempt, the load: no attempt is left, stop everybody.
NoAttemptLeft(w) ==
  /\ pc[w] = "reserve"
  /\ NoneLeft(attempts)
  /\ exhausted_attempts' = TRUE
  /\ done' = TRUE
  /\ Goto(w, "exit")
  /\ UNCHANGED <<req, next_index, attempts, found, exhausted_indexes, matches,
                 error, outcome, index, current, tried>>

\* Mutant: a plain store in place of the exchange.
AnyValue(w) == TRUE

\* No attempt was reserved since the load.
Unchanged(w) == attempts = current[w]

\* reserve_attempt, the compare_exchange_weak, which may fail without cause.
Reserve(w) ==
  /\ pc[w] = "exchange"
  /\ Unchanged(w)
  /\ attempts' = current[w] + 1
  /\ tried' = tried \cup {index[w]}
  /\ Goto(w, "derive")
  /\ UNCHANGED <<req, next_index, found, done, exhausted_attempts,
                 exhausted_indexes, matches, error, outcome, index, current>>

ReserveFails(w) ==
  /\ pc[w] = "exchange"
  /\ Goto(w, "reserve")
  /\ UNCHANGED <<req, shared, outcome, index, current, tried>>

-----------------------------------------------------------------------------
DeriveFails(w) ==
  /\ pc[w] = "derive"
  /\ index[w] \in req.faulty
  /\ Fail(w)
  /\ UNCHANGED <<req, next_index, attempts, found, exhausted_attempts,
                 exhausted_indexes, matches, outcome, index, current, tried>>

\* found.try_update: fewer matches than asked for have been counted.
Wanted == found < req.count

\* The candidate does not match, or is not wanted any more.
PassOver(w) ==
  /\ pc[w] = "derive"
  /\ index[w] \notin req.faulty
  /\ index[w] \in req.matching => ~Wanted
  /\ Goto(w, "loop")
  /\ UNCHANGED <<req, shared, outcome, index, current, tried>>

\* The candidate matches and is counted.
CountMatch(w) ==
  /\ pc[w] = "derive"
  /\ index[w] \notin req.faulty
  /\ index[w] \in req.matching
  /\ Wanted
  /\ found' = found + 1
  /\ current' = [current EXCEPT ![w] = found + 1]
  /\ Goto(w, "push")
  /\ UNCHANGED <<req, next_index, attempts, done, exhausted_attempts,
                 exhausted_indexes, matches, error, outcome, index, tried>>

\* Mutant: the worker that counts the match before the last stops everybody.
LastButOne(n) == n + 1 >= req.count

\* The match that was counted as the n-th is the last one asked for.
IsLast(n) == n >= req.count

\* Push the match under the mutex, and stop everybody if it is the last.
PushMatch(w) ==
  /\ pc[w] = "push"
  /\ matches' = matches \cup {index[w]}
  /\ IF IsLast(current[w])
     THEN done' = TRUE /\ Goto(w, "exit")
     ELSE Goto(w, "loop") /\ UNCHANGED done
  /\ UNCHANGED <<req, next_index, attempts, found, exhausted_attempts,
                 exhausted_indexes, error, outcome, index, current, tried>>

-----------------------------------------------------------------------------
\* Mutant: the reasons of a shortfall in the other order.
IndexesFirst ==
  IF error THEN "error"
  ELSE IF Cardinality(matches) >= req.count THEN "found"
  ELSE IF exhausted_indexes THEN "indexes"
  ELSE IF exhausted_attempts THEN "attempts"
  ELSE "early"

\* What the search returns and the handler reports.
Reason ==
  IF error THEN "error"
  ELSE IF Cardinality(matches) >= req.count THEN "found"
  ELSE IF exhausted_attempts THEN "attempts"
  ELSE IF exhausted_indexes THEN "indexes"
  ELSE "early"

\* Every worker has left.
Joined == \A w \in Worker : pc[w] = "exit"

Return ==
  /\ outcome = Pending
  /\ Joined
  /\ outcome' = Reason
  /\ UNCHANGED <<req, shared, pc, index, current, tried>>

Step(w) ==
  \/ MakeDeriver(w) \/ DeriverFails(w)
  \/ SeeDone(w) \/ ClaimIndex(w) \/ ClaimNothing(w)
  \/ LoadAttempts(w) \/ NoAttemptLeft(w) \/ Reserve(w) \/ ReserveFails(w)
  \/ DeriveFails(w) \/ PassOver(w) \/ CountMatch(w) \/ PushMatch(w)

Next == Return \/ \E w \in Worker : Step(w)

Spec == Init /\ [][Next]_vars

\* The threads are scheduled, and an exchange that could succeed again and
\* again does not fail for ever.
FairSpec ==
  /\ Spec
  /\ WF_vars(Return)
  /\ \A w \in Worker : WF_vars(Step(w)) /\ SF_vars(Reserve(w))
-----------------------------------------------------------------------------
(***************************************************************************)
(* Properties.                                                             *)
(***************************************************************************)

\* The workers together do what one careful search would do: they try new
\* indexes within the limit of attempts, lose no match that is asked for, and
\* the reason reported for a shortfall is the true one.
ImplementsScan == Scan!ScanSpec

Pushing == {w \in Worker : pc[w] = "push"}

\* The counters that the workers race on agree with what was done: every
\* attempt is of an index of its own, every counted match is pushed once.
CountersExact ==
  /\ attempts = Cardinality(tried)
  /\ found = Cardinality(matches) + Cardinality(Pushing)
  /\ found <= req.count

\* The handler never has to report "stopping early": whoever raised `done` has
\* left a reason behind.
ReasonKnown == outcome # "early"

\* The search returns, also when every candidate matches or none does.
Returns == <>(outcome # Pending)
=============================================================================
