------------------------- MODULE VanitySearchProofs -------------------------
(***************************************************************************)
(* Theorems about VanitySearch, for any number of workers and any search.  *)
(***************************************************************************)
EXTENDS VanitySearch, FiniteSetTheorems, TLAPS

USE DEF Goto, shared, Fail, Advanced, OutOfSpace

\* What SearchAssumption says of the search at hand.
LEMMA Asked ==
  ASSUME req \in Request
  PROVE  /\ req.start \in Nat /\ req.count \in Nat \ {0}
         /\ req.max # Unbounded => req.max \in Nat \ {0}
         /\ req.usable \in BOOLEAN
  BY SearchAssumption DEF Scan!RequestType

-----------------------------------------------------------------------------
(***************************************************************************)
(* Type correctness.                                                       *)
(***************************************************************************)

\* Every variable keeps its type: an index is claimed only below the limit.
THEOREM TypeCorrect == Spec => []TypeOK
<1>1. Init => TypeOK
  <2> SUFFICES ASSUME Init PROVE TypeOK
    OBVIOUS
  <2>1. 0 \in InLimit /\ req.start \in Nat
    BY SearchAssumption, Asked DEF InLimit, Init
  <2>2. exhausted_indexes \in BOOLEAN
    BY DEF Init, InSpace
  <2> QED
    BY <2>1, <2>2 DEF Init, TypeOK, Location
<1>2. TypeOK /\ [Next]_vars => TypeOK'
  <2> SUFFICES ASSUME TypeOK, [Next]_vars PROVE TypeOK'
    OBVIOUS
  <2> USE DEF TypeOK, Location
  <2>1. CASE UNCHANGED vars
    BY <2>1 DEF vars
  <2>2. CASE Return
    BY <2>2 DEF Return, Reason, Scan!Outcome
  <2>3. ASSUME NEW w \in Worker, ClaimIndex(w) PROVE TypeOK'
    <3>1. next_index \in InLimit
      BY <2>3, SearchAssumption DEF ClaimIndex, InLimit
    <3> QED
      BY <2>3, <3>1 DEF ClaimIndex
  <2>4. ASSUME NEW w \in Worker, MakeDeriver(w) \/ DeriverFails(w) \/ SeeDone(w)
        PROVE  TypeOK'
    BY <2>4 DEF MakeDeriver, DeriverFails, SeeDone
  <2>5. ASSUME NEW w \in Worker, ClaimNothing(w) PROVE TypeOK'
    BY <2>5 DEF ClaimNothing
  <2>6. ASSUME NEW w \in Worker, LoadAttempts(w) \/ NoAttemptLeft(w) \/ ReserveFails(w)
        PROVE  TypeOK'
    BY <2>6 DEF LoadAttempts, NoAttemptLeft, ReserveFails
  <2>7. ASSUME NEW w \in Worker, Reserve(w) PROVE TypeOK'
    BY <2>7 DEF Reserve
  <2>8. ASSUME NEW w \in Worker, DeriveFails(w) \/ PassOver(w) PROVE TypeOK'
    BY <2>8 DEF DeriveFails, PassOver
  <2>9. ASSUME NEW w \in Worker, CountMatch(w) PROVE TypeOK'
    BY <2>9 DEF CountMatch
  <2>10. ASSUME NEW w \in Worker, PushMatch(w) PROVE TypeOK'
    BY <2>10 DEF PushMatch
  <2> QED
    BY <2>1, <2>2, <2>3, <2>4, <2>5, <2>6, <2>7, <2>8, <2>9, <2>10 DEF Next, Step
<1> QED
  BY <1>1, <1>2, PTL DEF Spec

-----------------------------------------------------------------------------
(***************************************************************************)
(* Each index is the business of one worker.                               *)
(***************************************************************************)

Before == {"reserve", "exchange"}
After  == {"derive", "push"}

\* Who works on an index, and which indexes have been attempted and pushed.
IndexInv ==
  /\ tried \subseteq Scan!New /\ \A i \in tried : i < next_index
  /\ matches \subseteq tried \cap req.matching
  /\ \A w \in Worker :
       /\ pc[w] \in Before \cup After => index[w] \in Scan!New /\ index[w] < next_index
       /\ pc[w] \in Before => index[w] \notin tried
       /\ pc[w] \in After => index[w] \in tried \ matches
       /\ pc[w] = "push" => index[w] \in req.matching
  /\ \A v, w \in Worker :
       /\ pc[v] \in Before \cup After /\ pc[w] \in Before \cup After
       /\ index[v] = index[w]
       => v = w
  /\ req.start <= next_index

\* fetch_add gives every worker an index of its own.
LEMMA IndexInvariant == Spec => []IndexInv
<1> USE DEF Before, After
<1>1. Init => IndexInv
  BY Asked DEF Init, IndexInv
<1>2. TypeOK /\ IndexInv /\ [Next]_vars => IndexInv'
  <2> SUFFICES ASSUME TypeOK, IndexInv, [Next]_vars PROVE IndexInv'
    OBVIOUS
  <2>0. req' = req /\ Scan!New' = Scan!New
    BY DEF vars, Next, Return, Step, MakeDeriver, DeriverFails, SeeDone, ClaimIndex,
           ClaimNothing, LoadAttempts, NoAttemptLeft, Reserve, ReserveFails,
           DeriveFails, PassOver, CountMatch, PushMatch, Scan!New
  <2> USE DEF TypeOK, IndexInv
  <2>1. CASE UNCHANGED vars
    BY <2>0, <2>1 DEF vars
  <2>2. CASE Return
    BY <2>0, <2>2 DEF Return
  <2>3. ASSUME NEW w \in Worker, ClaimIndex(w) PROVE IndexInv'
    <3>1. next_index \in 0 .. IndexLimit /\ next_index < IndexLimit
      BY <2>3, SearchAssumption DEF ClaimIndex
    <3>2. req.start \in Nat
      BY Asked
    <3>3. pc'[w] = "reserve" => next_index \in Scan!New
      BY <2>3, <3>1, <3>2 DEF ClaimIndex, Location, Scan!New, InLimit
    <3> QED
      BY <2>0, <2>3, <3>1, <3>2, <3>3 DEF ClaimIndex, Location, InLimit
  <2>4. ASSUME NEW w \in Worker, ClaimNothing(w) PROVE IndexInv'
    BY <2>0, <2>4, Asked DEF ClaimNothing, InLimit
  <2>5. ASSUME NEW w \in Worker, MakeDeriver(w) \/ DeriverFails(w) \/ SeeDone(w)
        PROVE  IndexInv'
    BY <2>0, <2>5 DEF MakeDeriver, DeriverFails, SeeDone
  <2>6. ASSUME NEW w \in Worker, LoadAttempts(w) \/ NoAttemptLeft(w) \/ ReserveFails(w)
        PROVE  IndexInv'
    BY <2>0, <2>6 DEF LoadAttempts, NoAttemptLeft, ReserveFails
  <2>7. ASSUME NEW w \in Worker, Reserve(w) PROVE IndexInv'
    BY <2>0, <2>7 DEF Reserve
  <2>8. ASSUME NEW w \in Worker, DeriveFails(w) \/ PassOver(w) PROVE IndexInv'
    BY <2>0, <2>8 DEF DeriveFails, PassOver
  <2>9. ASSUME NEW w \in Worker, CountMatch(w) PROVE IndexInv'
    BY <2>0, <2>9 DEF CountMatch
  <2>10. ASSUME NEW w \in Worker, PushMatch(w) PROVE IndexInv'
    BY <2>0, <2>10 DEF PushMatch
  <2> QED
    BY <2>1, <2>2, <2>3, <2>4, <2>5, <2>6, <2>7, <2>8, <2>9, <2>10 DEF Next, Step
<1> QED
  BY <1>1, <1>2, TypeCorrect, PTL DEF Spec

-----------------------------------------------------------------------------
(***************************************************************************)
(* The counters.                                                           *)
(***************************************************************************)

\* Counters and sets agree, and no limit is exceeded.
CountInv ==
  /\ CountersExact
  /\ req.max # Unbounded => attempts <= req.max
  /\ \A w \in Worker :
       /\ pc[w] = "exchange" => ~NoneLeft(current[w])
       /\ pc[w] = "push" => current[w] <= found

\* The sets that are counted are finite.
LEMMA Finite ==
  ASSUME TypeOK
  PROVE  IsFiniteSet(tried) /\ IsFiniteSet(matches) /\ IsFiniteSet(Pushing)
<1>1. IsFiniteSet(InLimit)
  BY FS_Interval, SearchAssumption DEF InLimit
<1> QED
  BY <1>1, FS_Subset, SearchAssumption DEF TypeOK, Pushing

\* A worker that reserves, counts or pushes takes what it counts with it.
LEMMA CountInvariant == Spec => []CountInv
<1>1. Init => CountInv
  <2> SUFFICES ASSUME Init PROVE CountInv
    OBVIOUS
  <2>1. Pushing = {}
    BY DEF Init, Pushing
  <2> QED
    BY <2>1, FS_EmptySet, Asked DEF Init, CountInv, CountersExact
<1>2. TypeOK /\ IndexInv /\ CountInv /\ [Next]_vars => CountInv'
  <2> SUFFICES ASSUME TypeOK, IndexInv, CountInv, [Next]_vars PROVE CountInv'
    OBVIOUS
  <2> USE DEF TypeOK, CountInv, CountersExact, NoneLeft
  <2>1. CASE UNCHANGED vars
    BY <2>1 DEF vars, Pushing
  <2>2. CASE Return
    BY <2>2 DEF Return, Pushing
  <2>3. ASSUME NEW w \in Worker,
               \/ MakeDeriver(w) \/ DeriverFails(w) \/ SeeDone(w)
               \/ ClaimIndex(w) \/ ClaimNothing(w) \/ NoAttemptLeft(w)
               \/ ReserveFails(w) \/ DeriveFails(w) \/ PassOver(w)
        PROVE  CountInv'
    <3> USE DEF MakeDeriver, DeriverFails, SeeDone, ClaimIndex, ClaimNothing,
                NoAttemptLeft, ReserveFails, DeriveFails, PassOver
    <3>1. Pushing' = Pushing
      BY <2>3 DEF Pushing
    <3> QED
      BY <2>3, <3>1
  <2>4. ASSUME NEW w \in Worker, LoadAttempts(w) PROVE CountInv'
    <3>1. Pushing' = Pushing
      BY <2>4 DEF LoadAttempts, Pushing
    <3> QED
      BY <2>4, <3>1 DEF LoadAttempts
  <2>5. ASSUME NEW w \in Worker, Reserve(w) PROVE CountInv'
    <3>1. Pushing' = Pushing
      BY <2>5 DEF Reserve, Pushing
    <3>2. Cardinality(tried') = Cardinality(tried) + 1
      BY <2>5, Finite, FS_AddElement DEF Reserve, IndexInv, Before
    <3>3. attempts' = attempts + 1
      BY <2>5 DEF Reserve, Unchanged
    <3>4. req.max # Unbounded => attempts + 1 <= req.max
      BY <2>5, Asked DEF Reserve, Unchanged
    <3> QED
      BY <2>5, <3>1, <3>2, <3>3, <3>4 DEF Reserve
  <2>6. ASSUME NEW w \in Worker, CountMatch(w) PROVE CountInv'
    <3>1. Pushing' = Pushing \cup {w} /\ w \notin Pushing
      BY <2>6 DEF CountMatch, Pushing
    <3>2. Cardinality(Pushing') = Cardinality(Pushing) + 1
      BY <3>1, Finite, FS_AddElement
    <3>3. found + 1 <= req.count
      BY <2>6, Asked DEF CountMatch, Wanted
    <3>4. Cardinality(matches) \in Nat /\ Cardinality(Pushing) \in Nat
      BY Finite, FS_CardinalityType
    <3> QED
      BY <2>6, <3>2, <3>3, <3>4 DEF CountMatch
  <2>7. ASSUME NEW w \in Worker, PushMatch(w) PROVE CountInv'
    <3>1. Pushing' = Pushing \ {w} /\ w \in Pushing
      BY <2>7 DEF PushMatch, Pushing
    <3>2. Cardinality(Pushing') = Cardinality(Pushing) - 1
      BY <3>1, Finite, FS_RemoveElement
    <3>3. Cardinality(matches') = Cardinality(matches) + 1
      BY <2>7, Finite, FS_AddElement DEF PushMatch, IndexInv, After
    <3>4. Cardinality(matches) \in Nat /\ Cardinality(Pushing) \in Nat
      BY Finite, FS_CardinalityType
    <3> QED
      BY <2>7, <3>2, <3>3, <3>4 DEF PushMatch
  <2> QED
    BY <2>1, <2>2, <2>3, <2>4, <2>5, <2>6, <2>7 DEF Next, Step
<1> QED
  BY <1>1, <1>2, TypeCorrect, IndexInvariant, PTL DEF Spec

\* Whatever the interleaving, attempts and matches are counted exactly.
THEOREM ExactCounts == Spec => []CountersExact
<1>1. CountInv => CountersExact
  BY DEF CountInv
<1> QED
  BY <1>1, CountInvariant, PTL
-----------------------------------------------------------------------------
(***************************************************************************)
(* Why a worker leaves, and what it leaves behind.                         *)
(***************************************************************************)

\* There is a reason to stop.
HasReason == error \/ exhausted_attempts \/ exhausted_indexes \/ found = req.count

\* A flag raised is a flag justified, and no index claimed or candidate
\* matched is forgotten as long as the search goes on.
ReasonInv ==
  /\ done => HasReason
  /\ \A w \in Worker : pc[w] = "exit" => HasReason
  /\ exhausted_attempts => req.max # Unbounded /\ attempts = req.max
  /\ exhausted_indexes => next_index >= IndexLimit
  /\ error => ~req.usable \/ tried \cap req.faulty # {}
  /\ \A i \in Scan!New :
       i < next_index
         => \/ i \in tried \/ exhausted_attempts
            \/ \E w \in Worker : pc[w] \in Before /\ index[w] = i
  /\ \A i \in tried \cap req.matching :
       \/ i \in matches \/ error \/ found = req.count
       \/ \E w \in Worker : pc[w] \in After /\ index[w] = i
  /\ outcome # Pending => Joined

\* The arguments of the search do not change, nor what follows from them.
LEMMA SameSearch ==
  ASSUME [Next]_vars
  PROVE  req' = req /\ Scan!New' = Scan!New
  BY DEF vars, Next, Return, Step, MakeDeriver, DeriverFails, SeeDone, ClaimIndex,
         ClaimNothing, LoadAttempts, NoAttemptLeft, Reserve, ReserveFails,
         DeriveFails, PassOver, CountMatch, PushMatch, Scan!New

\* Each worker that stops the others, or leaves, has raised a flag, and each
\* that goes on has disposed of the index it had.
LEMMA ReasonInvariant == Spec => []ReasonInv
<1>1. Init => ReasonInv
  <2> SUFFICES ASSUME Init PROVE ReasonInv
    OBVIOUS
  <2>1. \A i \in Scan!New : ~(i < next_index)
    BY Asked, SearchAssumption DEF Init, Scan!New
  <2>2. ~InSpace => next_index >= IndexLimit
    BY Asked, SearchAssumption DEF Init, InSpace
  <2> QED
    BY <2>1, <2>2 DEF Init, ReasonInv, HasReason
<1>2. TypeOK /\ IndexInv /\ CountInv /\ ReasonInv /\ [Next]_vars => ReasonInv'
  <2> SUFFICES ASSUME TypeOK, IndexInv, CountInv, ReasonInv, [Next]_vars
               PROVE  ReasonInv'
    OBVIOUS
  <2>0. req' = req /\ Scan!New' = Scan!New
    BY SameSearch
  <2> USE <2>0 DEF TypeOK, ReasonInv, HasReason, Before, After
  <2>1. CASE UNCHANGED vars
    BY <2>1 DEF vars, Joined
  <2>2. CASE Return
    BY <2>2 DEF Return, Joined
  <2> SUFFICES ASSUME NEW w \in Worker, Step(w) PROVE ReasonInv'
    BY <2>1, <2>2 DEF Next
  <2>3. outcome = Pending /\ outcome' = outcome
    <3>1. pc[w] # "exit" /\ outcome' = outcome
      BY DEF Step, MakeDeriver, DeriverFails, SeeDone, ClaimIndex, ClaimNothing,
             LoadAttempts, NoAttemptLeft, Reserve, ReserveFails, DeriveFails,
             PassOver, CountMatch, PushMatch
    <3> QED
      BY <3>1 DEF Joined
  <2> USE <2>3
  <2>4. CASE MakeDeriver(w) \/ SeeDone(w)
    BY <2>4 DEF MakeDeriver, SeeDone
  <2>5. CASE DeriverFails(w)
    BY <2>5 DEF DeriverFails
  <2>6. CASE ClaimIndex(w)
    <3>1. \A i \in Scan!New : i < next_index' => i < next_index \/ i = next_index
      BY <2>6 DEF ClaimIndex, Scan!New
    <3>2. next_index \in Scan!New => pc'[w] = "reserve" /\ index'[w] = next_index
      BY <2>6 DEF ClaimIndex, Scan!New
    <3>3. ~exhausted_indexes
      BY <2>6, SearchAssumption DEF ClaimIndex
    <3> QED
      BY <2>6, <3>1, <3>2, <3>3 DEF ClaimIndex
  <2>7. CASE ClaimNothing(w)
    <3>1. \A i \in Scan!New : i < next_index
      BY <2>7, SearchAssumption DEF ClaimNothing, Scan!New
    <3> QED
      BY <2>7, <3>1, SearchAssumption DEF ClaimNothing
  <2>8. CASE LoadAttempts(w) \/ ReserveFails(w)
    BY <2>8 DEF LoadAttempts, ReserveFails
  <2>9. CASE NoAttemptLeft(w)
    <3>1. req.max # Unbounded /\ attempts = req.max
      BY <2>9, Asked DEF NoAttemptLeft, NoneLeft, CountInv
    <3> QED
      BY <2>9, <3>1 DEF NoAttemptLeft
  <2>10. CASE Reserve(w)
    <3>1. ~exhausted_attempts
      BY <2>10, Asked DEF Reserve, Unchanged, CountInv, NoneLeft
    <3> QED
      BY <2>10, <3>1 DEF Reserve, IndexInv
  <2>11. CASE DeriveFails(w)
    BY <2>11 DEF DeriveFails, IndexInv
  <2>12. CASE PassOver(w)
    <3>1. index[w] \in req.matching => found = req.count
      BY <2>12, Asked DEF PassOver, Wanted, CountInv, CountersExact
    <3> QED
      BY <2>12, <3>1 DEF PassOver
  <2>13. CASE CountMatch(w)
    BY <2>13, Asked DEF CountMatch, Wanted
  <2>14. CASE PushMatch(w)
    <3>1. IsLast(current[w]) => found = req.count
      BY <2>14, Asked DEF PushMatch, IsLast, CountInv, CountersExact
    <3> QED
      BY <2>14, <3>1 DEF PushMatch
  <2> QED
    BY <2>4, <2>5, <2>6, <2>7, <2>8, <2>9, <2>10, <2>11, <2>12, <2>13, <2>14 DEF Step
<1> QED
  BY <1>1, <1>2, TypeCorrect, IndexInvariant, CountInvariant, PTL DEF Spec

-----------------------------------------------------------------------------
(***************************************************************************)
(* The outcome is justified, and the search does what it promises.         *)
(***************************************************************************)

\* The instance counts as this module does.
LEMMA SameCardinality == \A S : Scan!Cardinality(S) = Cardinality(S)
  BY DEF Scan!Cardinality, Cardinality, Scan!IsFiniteSet, IsFiniteSet

\* When all workers have left, the reason returned is a true one.
LEMMA ReasonJustified ==
  ASSUME TypeOK, IndexInv, CountInv, ReasonInv, Joined
  PROVE  Reason # "early" /\ Scan!Justified(Reason)
<1>1. Pushing = {} /\ \A w \in Worker : pc[w] \notin Before \cup After
  BY DEF Joined, Pushing, Before, After
<1>2. found = Cardinality(matches) /\ found \in Nat /\ found <= req.count
  BY <1>1, FS_EmptySet, Finite, FS_CardinalityType DEF CountInv, CountersExact, TypeOK
<1>3. HasReason
  BY SearchAssumption DEF Joined, ReasonInv
<1>4. CASE error
  BY <1>4 DEF Reason, Scan!Justified, ReasonInv
<1>5. CASE ~error /\ found = req.count
  <2>1. Reason = "found"
    BY <1>2, <1>5, Asked DEF Reason, TypeOK
  <2> QED
    BY <1>2, <1>5, <2>1, SameCardinality DEF Scan!Justified
<1>6. CASE ~error /\ found # req.count
  <2>1. Reason = IF exhausted_attempts THEN "attempts" ELSE "indexes"
    BY <1>2, <1>3, <1>6, Asked DEF Reason, TypeOK, HasReason
  <2>2. Scan!AllKept
    BY <1>1, <1>6 DEF Scan!AllKept, ReasonInv, IndexInv
  <2>3. CASE exhausted_attempts
    <3>1. Cardinality(tried) = req.max
      BY <2>3 DEF ReasonInv, CountInv, CountersExact
    <3> QED
      BY <2>1, <2>2, <2>3, <3>1, SameCardinality DEF Scan!Justified
  <2>4. CASE ~exhausted_attempts
    <3>1. next_index >= IndexLimit
      BY <1>3, <1>6, <2>4 DEF HasReason, ReasonInv
    <3>2. \A i \in Scan!New : i < next_index
      BY <3>1, SearchAssumption DEF Scan!New, TypeOK
    <3>3. tried = Scan!New
      BY <1>1, <2>4, <3>2 DEF ReasonInv, IndexInv
    <3> QED
      BY <2>1, <2>2, <2>4, <3>3 DEF Scan!Justified
  <2> QED
    BY <2>3, <2>4
<1> QED
  BY <1>4, <1>5, <1>6

\* "stopping early" is never reported.
THEOREM AlwaysAReason == Spec => []ReasonKnown
<1>1. Init => ReasonKnown
  BY SearchAssumption DEF Init, ReasonKnown, Scan!Outcome
<1>2. /\ TypeOK /\ IndexInv /\ CountInv /\ ReasonInv
      /\ ReasonKnown /\ [Next]_vars
      => ReasonKnown'
  <2> SUFFICES ASSUME TypeOK, IndexInv, CountInv, ReasonInv, ReasonKnown, [Next]_vars
               PROVE  ReasonKnown'
    OBVIOUS
  <2>1. CASE Return
    BY <2>1, ReasonJustified DEF Return, ReasonKnown
  <2>2. CASE ~Return
    BY <2>2 DEF ReasonKnown, vars, Next, Step, MakeDeriver, DeriverFails, SeeDone,
           ClaimIndex, ClaimNothing, LoadAttempts, NoAttemptLeft, Reserve,
           ReserveFails, DeriveFails, PassOver, CountMatch, PushMatch
  <2> QED
    BY <2>1, <2>2
<1> QED
  BY <1>1, <1>2, TypeCorrect, IndexInvariant, CountInvariant, ReasonInvariant, PTL DEF Spec

\* A reservation is an attempt of the one search, a push a match of it, the
\* return its end; every other step is invisible to it.
LEMMA ScanStep ==
  ASSUME TypeOK, IndexInv, CountInv, ReasonInv, [Next]_vars
  PROVE  [Scan!ScanNext]_(Scan!scanVars)
<1> USE DEF Scan!scanVars
<1>1. CASE UNCHANGED vars
  BY <1>1 DEF vars
<1>2. CASE Return
  <2>1. Reason \in Scan!Outcome /\ Scan!Justified(Reason)
    BY <1>2, ReasonJustified DEF Return, Reason, Scan!Outcome
  <2> QED
    BY <1>2, <2>1 DEF Return, Scan!End, Scan!ScanNext
<1>3. ASSUME NEW w \in Worker, pc[w] # "exit" PROVE outcome = Pending
  BY <1>3 DEF ReasonInv, Joined
<1>4. ASSUME NEW w \in Worker, Reserve(w) PROVE Scan!Try(index[w]) /\ index[w] \in Scan!New \ tried
  <2>1. attempts = current[w] /\ attempts \in Nat /\ ~NoneLeft(current[w])
    BY <1>4 DEF Reserve, Unchanged, CountInv, TypeOK
  <2>2. req.max = Unbounded \/ attempts < req.max
    BY <2>1, Asked DEF NoneLeft, TypeOK
  <2>3. Scan!MayTry
    BY <2>2, SameCardinality DEF CountInv, CountersExact, Scan!MayTry
  <2> QED
    BY <1>3, <1>4, <2>3 DEF Reserve, IndexInv, Before, Scan!Try
<1>5. ASSUME NEW w \in Worker, PushMatch(w)
      PROVE  Scan!Keep(index[w]) /\ index[w] \in (tried \cap req.matching) \ matches
  <2>1. Cardinality(Pushing) # 0 /\ Cardinality(Pushing) \in Nat
    BY SMTT(30), <1>5, Finite, FS_EmptySet, FS_CardinalityType DEF PushMatch, Pushing
  <2>2. Cardinality(matches) \in Nat
    BY Finite, FS_CardinalityType
  <2>3. Cardinality(matches) < req.count
    BY <2>1, <2>2, Asked DEF CountInv, CountersExact, TypeOK
  <2> QED
    BY <1>3, <1>5, <2>3, SameCardinality DEF PushMatch, IndexInv, After, Scan!Keep
<1>6. ASSUME NEW w \in Worker,
             \/ MakeDeriver(w) \/ DeriverFails(w) \/ SeeDone(w) \/ ClaimIndex(w)
             \/ ClaimNothing(w) \/ LoadAttempts(w) \/ NoAttemptLeft(w)
             \/ ReserveFails(w) \/ DeriveFails(w) \/ PassOver(w) \/ CountMatch(w)
      PROVE  UNCHANGED Scan!scanVars
  BY <1>6 DEF MakeDeriver, DeriverFails, SeeDone, ClaimIndex, ClaimNothing,
              LoadAttempts, NoAttemptLeft, ReserveFails, DeriveFails, PassOver,
              CountMatch
<1> QED
  BY <1>1, <1>2, <1>4, <1>5, <1>6 DEF Next, Step, Scan!ScanNext

\* The workers together are one search that keeps its promise.
THEOREM Refinement == Spec => ImplementsScan
<1>1. Init => Scan!ScanInit
  BY DEF Init, Scan!ScanInit
<1>2. TypeOK /\ IndexInv /\ CountInv /\ ReasonInv /\ [Next]_vars
        => [Scan!ScanNext]_(Scan!scanVars)
  BY ScanStep
<1> QED
  BY <1>1, <1>2, TypeCorrect, IndexInvariant, CountInvariant, ReasonInvariant, PTL
     DEF Spec, ImplementsScan, Scan!ScanSpec
=============================================================================
