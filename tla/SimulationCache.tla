--------------------------- MODULE SimulationCache ---------------------------
(***************************************************************************)
(* Local simulations, one after the other, over a node that may answer     *)
(* anything and the cache of state proofs that they leave on disk.         *)
(*                                                                         *)
(* The execution engine is external: it reads the keys it likes, again     *)
(* also, goes on or not after a read that failed, and comes to a result.   *)
(* So is the cache's database, which one process at a time can open and    *)
(* which may lose what it has not flushed when the process is killed.      *)
(***************************************************************************)
EXTENDS Naturals, FiniteSets

CONSTANTS
  Key,       \* the keys a contract reads
  Normal,    \* Normal[k]: Key::normalize, a URef without its access rights
  Root,      \* the state roots of the chain's blocks
  Value,     \* the values a key may have
  Stored,    \* Stored[r][k]: what the global state at root r has for key k
  Missing,   \* a key has no value
  Elsewhere, \* a hash that is no state root
  Garbage,   \* bytes that do not decode
  None,      \* no entry, no result, no failure, no key
  MaxDamage  \* bound: the cached entries that ever get damaged

\* Hashing is external: a proof computes to a state root only if it is of a
\* key and the value stored there.
Proof ==
  [key : Key, value : Value, root : {Elsewhere}] \cup
  UNION {{[key |-> k, value |-> Stored[r][k], root |-> r] :
            k \in {l \in Key : Normal[l] = l /\ Stored[r][l] # Missing}} :
         r \in Root}

Slot  == Root \X Key
Entry == Proof \cup {Garbage}

\* The responses to query_global_state: `matching` if version and ID are those
\* of the request; Garbage stands for a result that is not just one proof.
Response ==
  [matching : BOOLEAN,
   result : Proof \cup {Garbage, None},
   error : {"none", "not found", "other"}]

Failure == {"cache", "query", "response", "enumeration"}

\* What the engine makes of an execution.
Result == {"ok", "failed"}

ASSUME StateAssumption ==
  /\ Normal \in [Key -> Key]
  /\ \A k \in Key : Normal[Normal[k]] = Normal[k]
  /\ Stored \in [Root -> [Key -> Value \cup {Missing}]]
  /\ Missing \notin Value
  /\ Elsewhere \notin Root
ASSUME EntryAssumption ==
  /\ Garbage \notin Proof
  /\ None \notin Entry \cup Failure \cup Result \cup Key \cup {"none", "error"}
  /\ MaxDamage \in Nat

VARIABLES
  cache,   \* the sled tree: cache[<<r, k>>] is the entry of key k at root r
  disk,    \* the part of it that survives a kill
  pc,      \* where the process is
  raw,     \* --raw: one JSON result is printed
  root,    \* the state root of the block the simulation runs at
  asked,   \* the key that the engine waits for
  error,   \* the failure that SledStore has recorded
  result,  \* what the engine returned
  outcome, \* what the command has reported
  \* What happened, for the properties only:
  seen,    \* the reads of this execution that succeeded
  first,   \* its first read that failed
  damaged  \* the slots whose entries were damaged on disk

store  == <<cache, disk>>
ghosts == <<seen, first, damaged>>
vars   == <<store, pc, raw, root, asked, error, result, outcome, ghosts>>

TypeOK ==
  /\ cache \in [Slot -> Entry \cup {None}]
  /\ disk \in [Slot -> Entry \cup {None}]
  /\ pc \in {"idle", "block", "run", "wait", "report"}
  /\ raw \in BOOLEAN
  /\ root \in Root
  /\ asked \in Key \cup {None}
  /\ error \in Failure \cup {None}
  /\ result \in Result \cup {None}
  /\ outcome \in Failure \cup Result \cup {"none", "error"}
  /\ seen \in SUBSET [key : Key, value : Value \cup {Missing}]
  /\ first \in Failure \cup {None}
  /\ damaged \in SUBSET Slot

Init ==
  /\ cache = [s \in Slot |-> None]
  /\ disk = cache
  /\ pc = "idle"
  /\ raw = FALSE
  /\ root \in Root
  /\ asked = None
  /\ error = None
  /\ result = None
  /\ outcome = "none"
  /\ seen = {}
  /\ first = None
  /\ damaged = {}

-----------------------------------------------------------------------------
\* The process is gone, and what it had in memory.
Exit ==
  /\ pc' = "idle"
  /\ raw' = FALSE
  /\ asked' = None
  /\ error' = None
  /\ result' = None

\* The process ends; closing the database flushes it.
Leave(reported, entries) ==
  /\ Exit
  /\ outcome' = reported
  /\ cache' = entries
  /\ disk' = entries
  /\ UNCHANGED <<root, ghosts>>

\* The command opens the cache of its network.
Begin ==
  /\ pc = "idle"
  /\ pc' = "block"
  /\ raw' \in BOOLEAN
  /\ outcome' = "none"
  /\ seen' = {}
  /\ first' = None
  /\ UNCHANGED <<store, root, asked, error, result, damaged>>

\* The node names its latest block, not always the latest one it has named.
FetchBlock ==
  /\ pc = "block"
  /\ root' \in Root
  /\ error' = None
  /\ pc' = "run"
  /\ UNCHANGED <<store, raw, asked, result, outcome, ghosts>>

\* The request for the block fails, or the response has none.
BlockFails ==
  /\ pc = "block"
  /\ Leave("error", cache)

-----------------------------------------------------------------------------
(***************************************************************************)
(* SledStore::read_with_proof.                                             *)
(***************************************************************************)

\* Mutant: a proof is not compared with the root.
OfKey(entry, r, k) == entry \in Proof /\ entry.key = k

\* verify_proof: a proof of this very key and root.
Verified(entry, r, k) == entry \in Proof /\ entry.key = k /\ entry.root = r

\* Mutant: the key is not normalized for the cache.
SlotAsGiven(k) == <<root, k>>

\* Where the entry of a key is cached.
SlotOf(k) == <<root, Normal[k]>>

\* Mutant: a later failure replaces an earlier one.
LatestFailure(f) == f

\* record_error keeps the first failure.
Recorded(f) == IF error = None THEN f ELSE error

\* The read fails.  The engine is told so, and may nevertheless go on.
Fail(f) ==
  /\ error' = Recorded(f)
  /\ first' = IF first = None THEN f ELSE first
  /\ pc' = "run"
  /\ asked' = None
  /\ UNCHANGED <<raw, root, result, outcome, seen, damaged>>

\* The read succeeds.
Return(k, value) ==
  /\ seen' = seen \cup {[key |-> k, value |-> value]}
  /\ pc' = "run"
  /\ asked' = None
  /\ UNCHANGED <<raw, root, error, result, outcome, first, damaged>>

ReadCached(k) ==
  /\ pc = "run"
  /\ Verified(cache[SlotOf(k)], root, Normal[k])
  /\ Return(k, cache[SlotOf(k)].value)
  /\ UNCHANGED store

\* A cached entry that does not decode or verify is not asked for again.
RejectCached(k) ==
  /\ pc = "run"
  /\ cache[SlotOf(k)] # None
  /\ ~Verified(cache[SlotOf(k)], root, Normal[k])
  /\ Fail("cache")
  /\ UNCHANGED store

\* The database cannot read the entry, or insert it.
CacheFails ==
  /\ pc \in {"run", "wait"}
  /\ Fail("cache")
  /\ UNCHANGED store

Ask(k) ==
  /\ pc = "run"
  /\ cache[SlotOf(k)] = None
  /\ asked' = k
  /\ pc' = "wait"
  /\ UNCHANGED <<store, raw, root, error, result, outcome, ghosts>>

\* decode_query_response finds a proof, or that there is no value.
Decodes(response) ==
  /\ response.matching
  /\ response.error = "none"
  /\ Verified(response.result, root, Normal[asked])

NotFound(response) ==
  /\ response.matching
  /\ response.result = None /\ response.error = "not found"

AnswerProof(response) ==
  /\ pc = "wait"
  /\ Decodes(response)
  /\ cache' = [cache EXCEPT ![SlotOf(asked)] = response.result]
  /\ Return(asked, response.result.value)
  /\ UNCHANGED disk

\* Mutant: the answer is remembered.
CachedAsMissing(k) == [cache EXCEPT ![SlotOf(k)] = Missing]

\* A missing-key answer is trusted, but not cached.
Uncached(k) == cache

AnswerMissing(response) ==
  /\ pc = "wait"
  /\ NotFound(response)
  /\ cache' = Uncached(asked)
  /\ Return(asked, Missing)
  /\ UNCHANGED disk

AnswerInvalid(response) ==
  /\ pc = "wait"
  /\ ~NotFound(response)
  /\ ~Decodes(response)
  /\ Fail("response")
  /\ UNCHANGED store

\* No connection, an error status, no JSON, or nothing within the timeout.
QueryFails ==
  /\ pc = "wait"
  /\ Fail("query")
  /\ UNCHANGED store

\* keys_with_prefix.
Enumerate ==
  /\ pc = "run"
  /\ Fail("enumeration")
  /\ UNCHANGED store

-----------------------------------------------------------------------------
\* The engine returns; a recorded failure takes the place of its result.
Finish(r) ==
  /\ pc = "run"
  /\ error = None
  /\ result' = r
  /\ pc' = "report"
  /\ UNCHANGED <<store, raw, root, asked, error, outcome, ghosts>>

FinishWithFailure ==
  /\ pc = "run"
  /\ error # None
  /\ Leave(error, cache)

\* Mutant: the entries of this root are removed instead of the others.
WithoutRoot == [s \in Slot |-> IF s[1] = root THEN None ELSE cache[s]]

\* gc_other_roots: one batch.
Pruned == [s \in Slot |-> IF s[1] = root THEN cache[s] ELSE None]

ReportRaw ==
  /\ pc = "report"
  /\ raw
  /\ Leave(result, Pruned)

ReportFailed ==
  /\ pc = "report"
  /\ ~raw
  /\ result = "failed"
  /\ Leave("failed", cache)

ReportOk ==
  /\ pc = "report"
  /\ ~raw
  /\ result = "ok"
  /\ Leave("ok", Pruned)

\* The cleanup fails; with --raw nothing has been printed yet.
CleanupFails ==
  /\ pc = "report"
  /\ raw \/ result = "ok"
  /\ Leave("error", cache)

-----------------------------------------------------------------------------
\* The process is interrupted or killed.
Kill ==
  /\ pc # "idle"
  /\ Exit
  /\ cache' = disk
  /\ seen' = {}
  /\ first' = None
  /\ UNCHANGED <<disk, root, outcome, damaged>>

\* The database flushes now and then.
Flush ==
  /\ pc # "idle"
  /\ disk' = cache
  /\ UNCHANGED <<cache, pc, raw, root, asked, error, result, outcome, ghosts>>

\* An entry on disk is damaged.
Damage(s, entry) ==
  /\ pc = "idle"
  /\ cache[s] # None
  /\ Cardinality(damaged \cup {s}) <= MaxDamage
  /\ cache' = [cache EXCEPT ![s] = entry]
  /\ disk' = cache'
  /\ damaged' = damaged \cup {s}
  /\ UNCHANGED <<pc, raw, root, asked, error, result, outcome, seen, first>>

Read ==
  \/ \E k \in Key : ReadCached(k) \/ RejectCached(k) \/ Ask(k)
  \/ \E response \in Response :
       AnswerProof(response) \/ AnswerMissing(response) \/ AnswerInvalid(response)
  \/ CacheFails \/ QueryFails \/ Enumerate

Report == ReportRaw \/ ReportFailed \/ ReportOk \/ CleanupFails

Next ==
  \/ Begin \/ FetchBlock \/ BlockFails
  \/ Read
  \/ \E r \in Result : Finish(r)
  \/ FinishWithFailure
  \/ Report
  \/ Kill \/ Flush
  \/ \E s \in Slot, entry \in Entry : Damage(s, entry)

Spec == Init /\ [][Next]_vars
-----------------------------------------------------------------------------
(***************************************************************************)
(* Properties.                                                             *)
(***************************************************************************)

\* README: Merkle proofs are verified against the root.  Every value that the
\* engine was given is the one stored at the root of the simulation, whatever
\* the node answered and whatever an earlier process left in the cache.
ReadsTrue ==
  \A x \in seen : x.value # Missing => x.value = Stored[root][Normal[x.key]]

\* Only verified proofs enter the cache, each in the slot of its own root and
\* key: a mixed-up answer does no harm to later simulations either.
CacheVerified ==
  \A s \in Slot \ damaged : cache[s] # None => Verified(cache[s], s[1], s[2])

\* README: transport, query and proof failures abort simulation.  No result is
\* reported of an execution in which a read failed, also if the engine went on
\* without it; what is reported is the failure that came first.
FailuresReported ==
  /\ outcome \in Result => first = None
  /\ outcome \in Failure => outcome = first

\* The values of this execution are in the cache as long as its process runs
\* and after it has ended by itself, and a success leaves nothing but entries
\* of its root: the same simulation at the same root asks for nothing anew
\* except what is missing.
SeenIsCached ==
  /\ pc \notin {"idle", "block"} \/ outcome # "none" =>
       \A x \in seen :
         x.value # Missing /\ SlotOf(x.key) \notin damaged
           => cache[SlotOf(x.key)] = [key |-> Normal[x.key], value |-> x.value, root |-> root]
  /\ outcome = "ok" => \A s \in Slot : s[1] # root => cache[s] = None

-----------------------------------------------------------------------------
\* The state that a contract sees: a URef has its value under no access rights.
StateOf == [r \in Root |-> [k \in Key |-> Stored[r][Normal[k]]]]

PhaseOf(location) ==
  CASE location = "idle" -> "idle"
    [] location = "block" -> "started"
    [] location \in {"run", "wait"} -> "running"
    [] OTHER -> "reporting"

Execution == INSTANCE FaithfulExecution WITH
  State <- StateOf, phase <- PhaseOf(pc), failure <- first

\* README: the simulator fetches state values at the selected block's state root,
\* verified against it.  Whatever the node answers, in whatever state earlier
\* processes have left the cache, and wherever one is killed, the simulations are
\* executions over the global state at one root: no stale value, no value of
\* another key or root, and no result that lacks a read.
IsExecution == Execution!Spec
==============================================================================
