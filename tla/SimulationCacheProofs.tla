------------------------ MODULE SimulationCacheProofs ------------------------
(***************************************************************************)
(* Theorems about SimulationCache, for any chain, keys and node.           *)
(***************************************************************************)
EXTENDS SimulationCache, TLAPS

(***************************************************************************)
(* Proofs.                                                                 *)
(***************************************************************************)

\* A proof is a record of these three fields, of a key and a value.
LEMMA ProofFields ==
  ASSUME NEW entry \in Proof
  PROVE  /\ entry = [key |-> entry.key, value |-> entry.value, root |-> entry.root]
         /\ entry.key \in Key /\ entry.value \in Value
<1>1. CASE entry \in [key : Key, value : Value, root : {Elsewhere}]
  BY <1>1
<1>2. ASSUME NEW r \in Root, NEW k \in Key, Stored[r][k] # Missing,
             entry = [key |-> k, value |-> Stored[r][k], root |-> r]
      PROVE  entry.value \in Value
  BY <1>2, StateAssumption
<1> QED
  BY <1>1, <1>2 DEF Proof

\* A proof that computes to a state root is of the value stored there.
LEMMA ProofTrue ==
  ASSUME NEW entry \in Proof, entry.root \in Root
  PROVE  entry.value = Stored[entry.root][entry.key]
  BY StateAssumption DEF Proof

\* The slot of a key is that of its normal form.
LEMMA SlotType ==
  ASSUME TypeOK, NEW k \in Key
  PROVE  SlotOf(k) \in Slot /\ Normal[k] \in Key
  BY StateAssumption DEF TypeOK, SlotOf, Slot

\* The type invariant, with the key the engine waits for and its result.
TypeInv ==
  /\ TypeOK
  /\ pc = "wait" => asked \in Key
  /\ pc = "report" => result \in Result

\* The reads of the engine keep the types, whatever the node answers.
LEMMA ReadType ==
  ASSUME TypeInv, Read
  PROVE  TypeInv'
<1> USE DEF TypeInv, TypeOK
<1>1. ASSUME NEW k \in Key, ReadCached(k) PROVE TypeInv'
  <2>1. cache[SlotOf(k)].value \in Value
    BY <1>1, ProofFields DEF ReadCached, Verified
  <2> QED
    BY <1>1, <2>1 DEF ReadCached, Return, store
<1>2. ASSUME NEW k \in Key, RejectCached(k) PROVE TypeInv'
  BY <1>2 DEF RejectCached, Fail, Recorded, store, Failure
<1>3. ASSUME NEW k \in Key, Ask(k) PROVE TypeInv'
  BY <1>3 DEF Ask, store, ghosts
<1>4. ASSUME NEW response \in Response, AnswerProof(response) PROVE TypeInv'
  <2>1. response.result \in Entry /\ response.result.value \in Value
    BY <1>4, ProofFields DEF AnswerProof, Decodes, Verified, Entry
  <2>2. asked \in Key
    BY <1>4 DEF AnswerProof
  <2>3. cache' \in [Slot -> Entry \cup {None}]
    BY <1>4, <2>1, SlotType DEF AnswerProof
  <2>4. seen' \in SUBSET [key : Key, value : Value \cup {Missing}]
    BY <1>4, <2>1, <2>2 DEF AnswerProof, Return
  <2> QED
    BY <1>4, <2>3, <2>4 DEF AnswerProof, Return
<1>5. ASSUME NEW response \in Response, AnswerMissing(response) PROVE TypeInv'
  BY <1>5 DEF AnswerMissing, Return, Uncached
<1>6. ASSUME NEW response \in Response, AnswerInvalid(response) PROVE TypeInv'
  BY <1>6 DEF AnswerInvalid, Fail, Recorded, store, Failure
<1>7. CASE CacheFails
  BY <1>7 DEF CacheFails, Fail, Recorded, store, Failure
<1>8. CASE QueryFails
  BY <1>8 DEF QueryFails, Fail, Recorded, store, Failure
<1>9. CASE Enumerate
  BY <1>9 DEF Enumerate, Fail, Recorded, store, Failure
<1> QED
  BY <1>1, <1>2, <1>3, <1>4, <1>5, <1>6, <1>7, <1>8, <1>9 DEF Read

\* So does what is reported.
LEMMA ReportType ==
  ASSUME TypeInv, Report
  PROVE  TypeInv'
<1> USE DEF TypeInv, TypeOK
<1>0. Pruned \in [Slot -> Entry \cup {None}]
  BY DEF Pruned
<1>1. CASE ReportRaw
  BY <1>0, <1>1 DEF ReportRaw, Leave, Exit, ghosts
<1>2. CASE ReportFailed
  BY <1>2 DEF ReportFailed, Leave, Exit, ghosts, Result
<1>3. CASE ReportOk
  BY <1>0, <1>3 DEF ReportOk, Leave, Exit, ghosts, Result
<1>4. CASE CleanupFails
  BY <1>4 DEF CleanupFails, Leave, Exit, ghosts
<1> QED
  BY <1>1, <1>2, <1>3, <1>4 DEF Report

\* The types are inductive with those two facts.
LEMMA TypeInvariant == Spec => []TypeInv
<1>1. Init => TypeInv
  BY DEF Init, TypeInv, TypeOK
<1>2. TypeInv /\ [Next]_vars => TypeInv'
  <2> SUFFICES ASSUME TypeInv, [Next]_vars PROVE TypeInv'
    OBVIOUS
  <2> USE DEF TypeInv, TypeOK
  <2>1. CASE Begin
    BY <2>1 DEF Begin, store
  <2>2. CASE FetchBlock
    BY <2>2 DEF FetchBlock, store, ghosts
  <2>3. CASE BlockFails
    BY <2>3 DEF BlockFails, Leave, Exit, ghosts
  <2>4. CASE Read
    BY <2>4, ReadType
  <2>5. ASSUME NEW r \in Result, Finish(r) PROVE TypeInv'
    BY <2>5 DEF Finish, store, ghosts
  <2>6. CASE FinishWithFailure
    BY <2>6 DEF FinishWithFailure, Leave, Exit, ghosts
  <2>7. CASE Report
    BY <2>7, ReportType
  <2>8. CASE Kill
    BY <2>8 DEF Kill, Exit
  <2>9. CASE Flush
    BY <2>9 DEF Flush, ghosts
  <2>10. ASSUME NEW s \in Slot, NEW entry \in Entry, Damage(s, entry) PROVE TypeInv'
    BY <2>10 DEF Damage
  <2>11. CASE UNCHANGED vars
    BY <2>11 DEF vars, store, ghosts
  <2> QED
    BY <2>1, <2>2, <2>3, <2>4, <2>5, <2>6, <2>7, <2>8, <2>9, <2>10, <2>11 DEF Next
<1> QED
  BY <1>1, <1>2, PTL DEF Spec

\* Every variable keeps its type; in particular nothing but entries is cached,
\* and no missing-key answer.
THEOREM TypeCorrect == Spec => []TypeOK
  BY TypeInvariant, PTL DEF TypeInv
-----------------------------------------------------------------------------
(***************************************************************************)
(* What is cached.                                                         *)
(***************************************************************************)

Sound(entries) ==
  \A s \in Slot \ damaged : entries[s] # None => Verified(entries[s], s[1], s[2])

\* What a kill brings back is sound as well.
CacheInv == Sound(cache) /\ Sound(disk)

\* An inserted proof has passed verify_proof for the slot it goes to.
THEOREM CacheIsVerified == Spec => []CacheVerified
<1>1. Init => CacheInv
  BY DEF Init, CacheInv, Sound
<1>2. TypeInv /\ CacheInv /\ [Next]_vars => CacheInv'
  <2> SUFFICES ASSUME TypeInv, CacheInv, [Next]_vars PROVE CacheInv'
    OBVIOUS
  <2> USE DEF CacheInv, Sound
  <2>0. Sound(Pruned)
    BY DEF Pruned
  <2>1. ASSUME UNCHANGED <<store, damaged>> PROVE CacheInv'
    BY <2>1 DEF store, Verified
  <2>2. ASSUME NEW STATE reported, NEW STATE entries, Leave(reported, entries), Sound(entries)
        PROVE  CacheInv'
    BY <2>2 DEF Leave, ghosts, Verified
  <2>3. ASSUME NEW response \in Response, AnswerProof(response) PROVE CacheInv'
    <3>1. cache' = [cache EXCEPT ![SlotOf(asked)] = response.result]
          /\ disk' = disk /\ damaged' = damaged
      BY <2>3 DEF AnswerProof, Return
    <3>2. Verified(response.result, SlotOf(asked)[1], SlotOf(asked)[2])
      BY <2>3 DEF AnswerProof, Decodes, SlotOf
    <3>3. cache \in [Slot -> Entry \cup {None}]
      BY DEF TypeInv, TypeOK
    <3> QED
      BY <3>1, <3>2, <3>3 DEF Verified
  <2>4. ASSUME NEW response \in Response, AnswerMissing(response) PROVE CacheInv'
    BY <2>1, <2>4 DEF AnswerMissing, Uncached, Return, store
  <2>5. CASE Read
    <3>1. ASSUME NEW k \in Key, ReadCached(k) \/ RejectCached(k) \/ Ask(k) PROVE CacheInv'
      BY <2>1, <3>1 DEF ReadCached, RejectCached, Ask, Return, Fail, ghosts
    <3>2. ASSUME NEW response \in Response, AnswerInvalid(response) PROVE CacheInv'
      BY <2>1, <3>2 DEF AnswerInvalid, Fail
    <3>3. CASE CacheFails \/ QueryFails \/ Enumerate
      BY <2>1, <3>3 DEF CacheFails, QueryFails, Enumerate, Fail
    <3> QED
      BY <2>3, <2>4, <2>5, <3>1, <3>2, <3>3 DEF Read
  <2>6. CASE Begin \/ FetchBlock \/ \E r \in Result : Finish(r)
    BY <2>1, <2>6 DEF Begin, FetchBlock, Finish, ghosts
  <2>7. CASE BlockFails \/ FinishWithFailure \/ Report
    BY <2>0, <2>2, <2>7 DEF BlockFails, FinishWithFailure, Report, ReportRaw,
       ReportFailed, ReportOk, CleanupFails
  <2>8. CASE Kill
    BY <2>8 DEF Kill, Verified
  <2>9. CASE Flush
    BY <2>9 DEF Flush, ghosts, Verified
  <2>10. ASSUME NEW s \in Slot, NEW entry \in Entry, Damage(s, entry) PROVE CacheInv'
    <3>1. \A t \in Slot \ damaged' : t \in Slot \ damaged /\ cache'[t] = cache[t]
      BY <2>10 DEF Damage, TypeInv, TypeOK
    <3> QED
      BY <2>10, <3>1 DEF Damage, Verified
  <2>11. CASE UNCHANGED vars
    BY <2>1, <2>11 DEF vars, ghosts
  <2> QED
    BY <2>5, <2>6, <2>7, <2>8, <2>9, <2>10, <2>11 DEF Next
<1>3. CacheInv => CacheVerified
  BY DEF CacheInv, Sound, CacheVerified
<1> QED
  BY <1>1, <1>2, <1>3, TypeInvariant, PTL DEF Spec
-----------------------------------------------------------------------------
(***************************************************************************)
(* What the engine has been given.                                         *)
(***************************************************************************)

\* Before the root is known nothing has been read.
ReadInv == ReadsTrue /\ (pc = "block" => seen = {})

\* A verified entry is of the value stored at the root.
LEMMA VerifiedTrue ==
  ASSUME TypeInv, NEW k \in Key, NEW entry, Verified(entry, root, Normal[k])
  PROVE  entry.value = Stored[root][Normal[k]]
  BY ProofTrue DEF TypeInv, TypeOK, Verified

\* The engine is only given values that are stored at the root of the simulation:
\* what is not verified is an error of the read, or asked for again.
THEOREM OnlyTrueReads == Spec => []ReadsTrue
<1>1. Init => ReadInv
  BY DEF Init, ReadInv, ReadsTrue
<1>2. TypeInv /\ ReadInv /\ [Next]_vars => ReadInv'
  <2> SUFFICES ASSUME TypeInv, ReadInv, [Next]_vars PROVE ReadInv'
    OBVIOUS
  <2> USE DEF ReadInv, ReadsTrue
  <2>1. ASSUME UNCHANGED <<seen, root>>, pc' # "block" \/ pc' = pc PROVE ReadInv'
    BY <2>1
  <2>2. ASSUME NEW STATE k, NEW STATE value, Return(k, value), UNCHANGED root,
               value # Missing => value = Stored[root][Normal[k]]
        PROVE  ReadInv'
    BY <2>2 DEF Return
  <2>3. ASSUME NEW k \in Key, ReadCached(k) PROVE ReadInv'
    BY <2>2, <2>3, VerifiedTrue DEF ReadCached, Return
  <2>4. ASSUME NEW k \in Key, RejectCached(k) \/ Ask(k) PROVE ReadInv'
    BY <2>1, <2>4 DEF RejectCached, Ask, Fail, ghosts
  <2>5. ASSUME NEW response \in Response, AnswerProof(response) PROVE ReadInv'
    <3>1. response.result.value = Stored[root][Normal[asked]]
      BY <2>5, VerifiedTrue DEF AnswerProof, Decodes, TypeInv
    <3> QED
      BY <2>2, <2>5, <3>1 DEF AnswerProof, Return
  <2>6. ASSUME NEW response \in Response, AnswerMissing(response) PROVE ReadInv'
    BY <2>2, <2>6 DEF AnswerMissing, Return
  <2>7. ASSUME NEW response \in Response, AnswerInvalid(response) PROVE ReadInv'
    BY <2>1, <2>7 DEF AnswerInvalid, Fail
  <2>8. CASE CacheFails \/ QueryFails \/ Enumerate
    BY <2>1, <2>8 DEF CacheFails, QueryFails, Enumerate, Fail
  <2>9. CASE Begin \/ Kill
    BY <2>9 DEF Begin, Kill, Exit
  <2>10. CASE FetchBlock
    BY <2>10 DEF FetchBlock, ghosts
  <2>11. CASE BlockFails \/ FinishWithFailure \/ Report
    BY <2>1, <2>11 DEF BlockFails, FinishWithFailure, Report, ReportRaw,
       ReportFailed, ReportOk, CleanupFails, Leave, Exit, ghosts
  <2>12. ASSUME NEW r \in Result, Finish(r) PROVE ReadInv'
    BY <2>1, <2>12 DEF Finish, ghosts
  <2>13. ASSUME NEW s \in Slot, NEW entry \in Entry, Damage(s, entry) PROVE ReadInv'
    BY <2>1, <2>13 DEF Damage
  <2>14. CASE Flush \/ UNCHANGED vars
    BY <2>1, <2>14 DEF Flush, vars, ghosts
  <2> QED
    BY <2>3, <2>4, <2>5, <2>6, <2>7, <2>8, <2>9, <2>10, <2>11, <2>12, <2>13, <2>14
       DEF Next, Read
<1>3. ReadInv => ReadsTrue
  BY DEF ReadInv
<1> QED
  BY <1>1, <1>2, <1>3, TypeInvariant, PTL DEF Spec
-----------------------------------------------------------------------------
(***************************************************************************)
(* What is reported.                                                       *)
(***************************************************************************)

\* The recorded failure is the first one as long as the engine runs, and there
\* is none when it has come to a result.
FailureInv ==
  /\ FailuresReported
  /\ pc # "idle" => outcome = "none"
  /\ pc \in {"run", "wait"} => error = first
  /\ pc \in {"block", "report"} => first = None
  /\ pc \in {"idle", "block"} => error = None

\* Only the engine's failed reads are recorded, the first one stays.
LEMMA FailureInvariant == Spec => []FailureInv
<1> USE EntryAssumption DEF Failure, Result
<1>1. Init => FailureInv
  BY DEF Init, FailureInv, FailuresReported
<1>2. TypeInv /\ FailureInv /\ [Next]_vars => FailureInv'
  <2> SUFFICES ASSUME TypeInv, FailureInv, [Next]_vars PROVE FailureInv'
    OBVIOUS
  <2> USE DEF FailureInv, FailuresReported
  <2>1. ASSUME UNCHANGED <<outcome, first, error>>, pc' = pc
               \/ (pc \in {"run", "wait"} /\ pc' \in {"run", "wait"})
        PROVE  FailureInv'
    BY <2>1
  <2>2. ASSUME NEW f \in Failure, Fail(f), pc \in {"run", "wait"} PROVE FailureInv'
    BY <2>2 DEF Fail, Recorded
  <2>3. ASSUME NEW k \in Key, ReadCached(k) \/ Ask(k) PROVE FailureInv'
    BY <2>1, <2>3 DEF ReadCached, Ask, Return, ghosts
  <2>4. ASSUME NEW response \in Response, AnswerProof(response) \/ AnswerMissing(response)
        PROVE  FailureInv'
    BY <2>1, <2>4 DEF AnswerProof, AnswerMissing, Return
  <2>5. ASSUME NEW k \in Key, RejectCached(k) PROVE FailureInv'
    BY <2>2, <2>5 DEF RejectCached
  <2>6. ASSUME NEW response \in Response, AnswerInvalid(response) PROVE FailureInv'
    BY <2>2, <2>6 DEF AnswerInvalid
  <2>7. CASE CacheFails \/ QueryFails \/ Enumerate
    BY <2>2, <2>7 DEF CacheFails, QueryFails, Enumerate
  <2>8. CASE Begin
    BY <2>8 DEF Begin
  <2>9. CASE FetchBlock
    BY <2>9 DEF FetchBlock, ghosts
  <2>10. CASE BlockFails
    BY <2>10 DEF BlockFails, Leave, Exit, ghosts
  <2>11. ASSUME NEW r \in Result, Finish(r) PROVE FailureInv'
    BY <2>11 DEF Finish, ghosts
  <2>12. CASE FinishWithFailure
    BY <2>12 DEF FinishWithFailure, Leave, Exit, ghosts, TypeInv, TypeOK
  <2>13. CASE Report
    <3>1. pc = "report" /\ result \in Result /\ first = None
      BY <2>13 DEF Report, ReportRaw, ReportFailed, ReportOk, CleanupFails, TypeInv
    <3>2. PICK o \in Result \cup {"error"} : outcome' = o /\ first' = first /\ pc' = "idle" /\ error' = None
      BY <2>13, <3>1 DEF Report, ReportRaw, ReportFailed, ReportOk, CleanupFails, Leave,
         Exit, ghosts
    <3> QED
      BY <3>1, <3>2
  <2>14. CASE Kill
    BY <2>14 DEF Kill, Exit
  <2>15. ASSUME NEW s \in Slot, NEW entry \in Entry, Damage(s, entry) PROVE FailureInv'
    BY <2>1, <2>15 DEF Damage
  <2>16. CASE Flush \/ UNCHANGED vars
    BY <2>1, <2>16 DEF Flush, vars, ghosts
  <2> QED
    BY <2>3, <2>4, <2>5, <2>6, <2>7, <2>8, <2>9, <2>10, <2>11, <2>12, <2>13, <2>14, <2>15,
       <2>16 DEF Next, Read
<1> QED
  BY <1>1, <1>2, TypeInvariant, PTL DEF Spec

\* The failure that came first is the one reported, and no result beside it.
THEOREM FailuresAreReported == Spec => []FailuresReported
<1>1. FailureInv => FailuresReported
  BY DEF FailureInv
<1> QED
  BY <1>1, FailureInvariant, PTL
-----------------------------------------------------------------------------
(***************************************************************************)
(* What remains for the next simulation.                                   *)
(***************************************************************************)

\* The entry of a read that found a value.
EntryOf(x) == [key |-> Normal[x.key], value |-> x.value, root |-> root]

\* Reads are of the running execution, and it has reported nothing yet.
SeenInv ==
  /\ SeenIsCached
  /\ pc = "block" => seen = {}
  /\ pc # "idle" => outcome = "none"

\* An entry that verifies is the entry of the read it answers.
LEMMA EntryOfRead ==
  ASSUME TypeInv, NEW k \in Key, NEW entry, Verified(entry, root, Normal[k])
  PROVE  entry = [key |-> Normal[k], value |-> entry.value, root |-> root]
  BY ProofFields DEF Verified

\* Nothing but the removal of other roots takes an entry out of the cache.
THEOREM SeenRemains == Spec => []SeenIsCached
<1>1. Init => SeenInv
  BY DEF Init, SeenInv, SeenIsCached
<1>2. TypeInv /\ ReadsTrue /\ SeenInv /\ [Next]_vars => SeenInv'
  <2> SUFFICES ASSUME TypeInv, ReadsTrue, SeenInv, [Next]_vars PROVE SeenInv'
    OBVIOUS
  <2> USE DEF SeenInv, SeenIsCached
  <2>1. ASSUME UNCHANGED <<cache, seen, root, damaged, outcome>>,
               pc' \notin {"idle", "block"}, pc \notin {"idle", "block"}
        PROVE  SeenInv'
    BY <2>1 DEF SlotOf
  <2>2. ASSUME NEW k \in Key, ReadCached(k) PROVE SeenInv'
    <3> DEFINE v == cache[SlotOf(k)].value
    <3>1. cache[SlotOf(k)] = [key |-> Normal[k], value |-> v, root |-> root]
      BY <2>2, EntryOfRead DEF ReadCached
    <3>2. /\ seen' = seen \cup {[key |-> k, value |-> v]}
          /\ UNCHANGED <<cache, root, damaged, outcome>>
          /\ pc = "run" /\ pc' = "run"
      BY <2>2 DEF ReadCached, Return, store
    <3> QED
      BY <3>1, <3>2 DEF SlotOf
  <2>3. ASSUME NEW k \in Key, RejectCached(k) PROVE SeenInv'
    BY <2>1, <2>3 DEF RejectCached, Fail, store
  <2>4. ASSUME NEW k \in Key, Ask(k) PROVE SeenInv'
    BY <2>1, <2>4 DEF Ask, store, ghosts
  <2>5. ASSUME NEW response \in Response, AnswerProof(response) PROVE SeenInv'
    <3> DEFINE v == response.result.value
    <3>1. /\ seen' = seen \cup {[key |-> asked, value |-> v]}
          /\ cache' = [cache EXCEPT ![SlotOf(asked)] = response.result]
          /\ UNCHANGED <<root, damaged, outcome>>
          /\ pc = "wait" /\ pc' = "run"
      BY <2>5 DEF AnswerProof, Return
    <3>2. /\ response.result = [key |-> Normal[asked], value |-> v, root |-> root]
          /\ v = Stored[root][Normal[asked]]
      BY <2>5, <3>1, EntryOfRead, VerifiedTrue DEF AnswerProof, Decodes, TypeInv
    <3>3. cache \in [Slot -> Entry \cup {None}] /\ SlotOf(asked) \in Slot
      BY <3>1, SlotType DEF TypeInv, TypeOK
    <3>4. ASSUME NEW x \in seen, x.value # Missing, SlotOf(x.key) = SlotOf(asked)
          PROVE  response.result = EntryOf(x)
      BY <3>2, <3>4 DEF ReadsTrue, SlotOf, EntryOf
    <3>5. ASSUME NEW x \in seen', x.value # Missing, SlotOf(x.key) \notin damaged
          PROVE  cache'[SlotOf(x.key)] = EntryOf(x)
      <4>1. CASE x = [key |-> asked, value |-> v]
        BY <3>1, <3>2, <3>3, <4>1 DEF EntryOf
      <4>2. CASE x \in seen /\ SlotOf(x.key) = SlotOf(asked)
        BY <3>1, <3>3, <3>4, <3>5, <4>2
      <4>3. CASE x \in seen /\ SlotOf(x.key) # SlotOf(asked)
        <5>1. cache[SlotOf(x.key)] = EntryOf(x)
          BY <3>1, <3>5, <4>3 DEF EntryOf
        <5>2. SlotOf(x.key) \in Slot
          BY <4>3, SlotType DEF TypeInv, TypeOK
        <5> QED
          BY <3>1, <3>3, <4>3, <5>1, <5>2
      <4> QED
        BY <3>1, <4>1, <4>2, <4>3
    <3>6. \A x \in seen' : x.value # Missing /\ <<root, Normal[x.key]>> \notin damaged
            => cache'[<<root, Normal[x.key]>>] = [key |-> Normal[x.key], value |-> x.value, root |-> root]
      BY <3>5 DEF EntryOf, SlotOf
    <3>7. root' = root /\ damaged' = damaged /\ outcome' = "none" /\ pc' = "run"
      BY <3>1
    <3> QED
      BY <3>6, <3>7 DEF SlotOf
  <2>6. ASSUME NEW response \in Response, AnswerMissing(response) PROVE SeenInv'
    BY <2>6 DEF AnswerMissing, Return, Uncached, SlotOf
  <2>7. ASSUME NEW response \in Response, AnswerInvalid(response) PROVE SeenInv'
    BY <2>1, <2>7 DEF AnswerInvalid, Fail, store
  <2>8. CASE CacheFails \/ QueryFails \/ Enumerate
    BY <2>1, <2>8 DEF CacheFails, QueryFails, Enumerate, Fail, store
  <2>9. CASE Begin
    BY <2>9 DEF Begin, store
  <2>10. CASE FetchBlock
    BY <2>10 DEF FetchBlock, store, ghosts
  <2>11. ASSUME NEW STATE reported, Leave(reported, cache), pc # "idle", reported # "ok"
         PROVE  SeenInv'
    BY <2>11 DEF Leave, Exit, ghosts, SlotOf
  <2>12. CASE BlockFails \/ FinishWithFailure
    BY <2>11, <2>12 DEF BlockFails, FinishWithFailure, TypeInv, TypeOK, Failure
  <2>13. CASE Report
    <3>1. ASSUME Leave(result, Pruned), pc = "report" PROVE SeenInv'
      <4>1. ASSUME NEW s \in Slot, s[1] = root PROVE Pruned[s] = cache[s]
        BY <4>1 DEF Pruned
      <4>2. ASSUME NEW x \in seen PROVE SlotOf(x.key) \in Slot /\ SlotOf(x.key)[1] = root
        BY SlotType DEF TypeInv, TypeOK, SlotOf
      <4>3. \A s \in Slot : s[1] # root => Pruned[s] = None
        BY DEF Pruned
      <4> HIDE DEF Pruned
      <4>4. UNCHANGED <<seen, root, damaged>> /\ cache' = Pruned /\ pc' = "idle"
        BY <3>1 DEF Leave, Exit, ghosts
      <4> QED
        BY <3>1, <4>1, <4>2, <4>3, <4>4 DEF SlotOf
    <3>2. ASSUME NEW STATE reported, Leave(reported, cache), pc = "report", reported # "ok"
          PROVE  SeenInv'
      BY <2>11, <3>2
    <3> QED
      BY <2>13, <3>1, <3>2 DEF Report, ReportRaw, ReportFailed, ReportOk, CleanupFails
  <2>14. ASSUME NEW r \in Result, Finish(r) PROVE SeenInv'
    BY <2>1, <2>14 DEF Finish, store, ghosts
  <2>15. CASE Kill
    BY <2>15 DEF Kill, Exit
  <2>16. ASSUME NEW s \in Slot, NEW entry \in Entry, Damage(s, entry) PROVE SeenInv'
    BY <2>16 DEF Damage, SlotOf, TypeInv, TypeOK
  <2>17. CASE Flush \/ UNCHANGED vars
    BY <2>17 DEF Flush, vars, store, ghosts, SlotOf
  <2> QED
    BY <2>2, <2>3, <2>4, <2>5, <2>6, <2>7, <2>8, <2>9, <2>10, <2>12, <2>13, <2>14, <2>15,
       <2>16, <2>17 DEF Next, Read
<1>3. SeenInv => SeenIsCached
  BY DEF SeenInv
<1> QED
  BY <1>1, <1>2, <1>3, TypeInvariant, OnlyTrueReads, PTL DEF Spec
-----------------------------------------------------------------------------
(***************************************************************************)
(* The executions, without node and cache.                                 *)
(***************************************************************************)

\* A read that found a value found that of the state, under the given key.
LEMMA ReadIsTrue ==
  ASSUME TypeInv, NEW k \in Key, NEW entry, Verified(entry, root, Normal[k])
  PROVE  entry.value = StateOf[root][k]
  BY VerifiedTrue DEF StateOf, TypeInv, TypeOK

\* Every step of the engine's reads is a read, a failed read, or nothing.
LEMMA ReadStep ==
  ASSUME TypeInv, Read
  PROVE  [Execution!Next]_(Execution!vars)
<1> USE DEF PhaseOf, Execution!vars
<1>1. ASSUME NEW k \in Key, NEW value \in {StateOf[root][k], Missing},
             Return(k, value), pc \in {"run", "wait"}
      PROVE  Execution!Next
  <2>1. Execution!Read(k)
    BY <1>1 DEF Return, Execution!Read
  <2> QED
    BY <2>1 DEF Execution!Next
<1>2. ASSUME NEW f \in Failure, Fail(f), pc \in {"run", "wait"}
      PROVE  Execution!Next
  <2>1. Execution!ReadFails(f)
    BY <1>2 DEF Fail, Execution!ReadFails
  <2> QED
    BY <2>1 DEF Execution!Next
<1>3. ASSUME NEW k \in Key, ReadCached(k) PROVE Execution!Next
  BY <1>1, <1>3, ReadIsTrue DEF ReadCached
<1>4. ASSUME NEW k \in Key, RejectCached(k) PROVE Execution!Next
  BY <1>2, <1>4 DEF RejectCached, Failure
<1>5. ASSUME NEW k \in Key, Ask(k) PROVE UNCHANGED Execution!vars
  BY <1>5 DEF Ask, ghosts
<1>6. ASSUME NEW response \in Response, AnswerProof(response) PROVE Execution!Next
  BY <1>1, <1>6, ReadIsTrue DEF AnswerProof, Decodes, TypeInv
<1>7. ASSUME NEW response \in Response, AnswerMissing(response) PROVE Execution!Next
  BY <1>1, <1>7 DEF AnswerMissing, TypeInv
<1>8. ASSUME NEW response \in Response, AnswerInvalid(response) PROVE Execution!Next
  BY <1>2, <1>8 DEF AnswerInvalid, Failure
<1>9. CASE CacheFails \/ QueryFails \/ Enumerate
  BY <1>2, <1>9 DEF CacheFails, QueryFails, Enumerate, Failure
<1> QED
  BY <1>3, <1>4, <1>5, <1>6, <1>7, <1>8, <1>9 DEF Read

\* So does every other step map to one of an execution or to nothing.
LEMMA ExecutionStep ==
  ASSUME TypeInv, FailureInv, [Next]_vars
  PROVE  [Execution!Next]_(Execution!vars)
<1> USE DEF PhaseOf, Execution!vars
<1>1. CASE Begin
  BY <1>1 DEF Begin, Execution!Start, Execution!Next
<1>2. CASE FetchBlock
  BY <1>2 DEF FetchBlock, ghosts, Execution!Enter, Execution!Next
<1>3. ASSUME NEW STATE what, NEW STATE entries, Leave(what, entries)
      PROVE  /\ outcome' = what /\ result' = None /\ PhaseOf(pc)' = "idle"
             /\ UNCHANGED <<root, seen, first>>
  BY <1>3 DEF Leave, Exit, ghosts
<1>4. CASE BlockFails
  BY <1>3, <1>4 DEF BlockFails, Execution!TellOtherFailure, Execution!Tell, Execution!Next
<1>5. CASE Read
  BY <1>5, ReadStep
<1>6. ASSUME NEW r \in Result, Finish(r) PROVE Execution!Next
  <2>1. Execution!Finish(r)
    BY <1>6 DEF Finish, ghosts, FailureInv, Execution!Finish
  <2> QED
    BY <2>1 DEF Execution!Next
<1>7. CASE FinishWithFailure
  BY <1>3, <1>7 DEF FinishWithFailure, FailureInv, Execution!TellFailure, Execution!Tell,
     Execution!Next
<1>8. CASE Report
  <2>1. CASE ReportRaw \/ ReportFailed \/ ReportOk
    <3>1. Execution!TellResult
      BY <1>3, <2>1 DEF ReportRaw, ReportFailed, ReportOk, Execution!TellResult,
         Execution!Tell
    <3> QED
      BY <3>1 DEF Execution!Next
  <2>2. CASE CleanupFails
    BY <1>3, <2>2 DEF CleanupFails, Execution!TellOtherFailure, Execution!Tell,
       Execution!Next
  <2> QED
    BY <1>8, <2>1, <2>2 DEF Report
<1>9. CASE Kill
  <2>1. pc \in {"block", "run", "wait", "report"}
    BY <1>9 DEF Kill, TypeInv, TypeOK
  <2> QED
    BY <1>9, <2>1 DEF Kill, Exit, Execution!Vanish, Execution!Next
<1>10. CASE Flush
  BY <1>10 DEF Flush, ghosts
<1>11. ASSUME NEW s \in Slot, NEW entry \in Entry, Damage(s, entry)
       PROVE  UNCHANGED Execution!vars
  BY <1>11 DEF Damage
<1>12. CASE UNCHANGED vars
  BY <1>12 DEF vars, ghosts
<1> QED
  BY <1>1, <1>2, <1>4, <1>5, <1>6, <1>7, <1>8, <1>9, <1>10, <1>11, <1>12 DEF Next

\* The simulations are executions over the global state at one root each: what the
\* node answers and what is cached, lost or damaged does not show.
THEOREM ImplementsExecution == Spec => IsExecution
<1>1. Init => Execution!Init
  BY DEF Init, PhaseOf, Execution!Init
<1>2. TypeInv /\ FailureInv /\ [Next]_vars => [Execution!Next]_(Execution!vars)
  BY ExecutionStep
<1> QED
  BY <1>1, <1>2, TypeInvariant, FailureInvariant, PTL DEF Spec, IsExecution, Execution!Spec
==============================================================================
