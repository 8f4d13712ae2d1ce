------------------------- MODULE NetworkConfigProofs -------------------------
(***************************************************************************)
(* Theorems about NetworkConfig, for any processes, networks and edits.    *)
(***************************************************************************)
EXTENDS NetworkConfig, FiniteSetTheorems, TLAPS

(***************************************************************************)
(* Proofs.                                                                 *)
(***************************************************************************)

\* An empty file is a configuration, but none that commands can work with.
LEMMA BlankType == Blank \in AppConfig /\ Blank \notin Whole
BY ConfigAssumption DEF Blank, AppConfig, Whole

\* The helpers on configurations keep the type.
LEMMA RepairedType ==
  ASSUME NEW c \in AppConfig
  PROVE  Repaired(c) \in AppConfig
BY ConfigAssumption DEF Repaired, AppConfig

\* A whole configuration stays whole when its active network is repaired, and
\* an empty one stays empty.
LEMMA RepairedWhole ==
  /\ \A c \in Whole : Repaired(c) \in Whole
  /\ Repaired(Blank) = Blank
<1>1. ASSUME NEW c \in Whole PROVE Repaired(c) \in Whole
  <2>1. c \in AppConfig
    BY DEF Whole
  <2>2. Repaired(c) \in AppConfig
    BY <2>1, RepairedType
  <2> QED
    BY <2>1, <2>2, ConfigAssumption DEF Repaired, Whole, AppConfig
<1>2. Repaired(Blank) = Blank
  BY ConfigAssumption DEF Repaired, Blank
<1> QED
  BY <1>1, <1>2

\* A name is resolved to a key that has an entry; an empty file has none.
LEMMA ResolvedKey ==
  ASSUME NEW c, NEW n, NEW key \in Resolved(c, n)
  PROVE  key \in Network /\ c.networks[key] # None
BY DEF Resolved

\* `network use` fails on an empty file, whatever it is given.
LEMMA ResolvedBlank ==
  ASSUME NEW n
  PROVE  Resolved(Blank, n) = {}
<1>1. \A k \in Network : Blank.networks[k] = None
  BY DEF Blank
<1> QED
  BY <1>1, ResolvedKey

\* Once a command has made sure of the file it is there.
PresentInv ==
  \A p \in Proc :
    pc[p] \notin {"idle", "ensure", "truncate"} \/ (pc[p] = "truncate" /\ after[p] # "storage")
      => file # Absent

\* What a command has in hand where it needs it.
HandInv ==
  \A p \in Proc : pc[p] \in {"truncate", "write", "loaded"} => config[p] # None

TypeInv == TypeOK /\ PresentInv /\ HandInv

\* The type invariant is inductive with what the commands have in hand.
LEMMA TypeInvariant == Spec => []TypeInv
<1>1. Init => TypeInv
  <2> SUFFICES ASSUME Init PROVE TypeInv
    OBVIOUS
  <2>1. TypeOK
    BY DEF Init, TypeOK, Command
  <2>2. PresentInv /\ HandInv
    BY DEF Init, PresentInv, HandInv
  <2> QED
    BY <2>1, <2>2 DEF TypeInv
<1>2. TypeInv /\ [Next]_vars => TypeInv'
  <2> SUFFICES ASSUME TypeInv, [Next]_vars PROVE TypeInv'
    OBVIOUS
  <2> USE DEF TypeInv, TypeOK, PresentInv, HandInv
  <2>1. ASSUME NEW p \in Proc, NEW c \in Command, Start(p, c) PROVE TypeInv'
    <3>1. name' \in [Proc -> Network \cup Chain \cup {None}]
      BY <2>1 DEF Start
    <3>2. override' \in [Proc -> Storage \cup {None}]
      BY <2>1 DEF Start
    <3> QED
      BY <2>1, <3>1, <3>2 DEF Start, Goto, work, ghosts
  <2>2. ASSUME NEW p \in Proc, Ensure(p) PROVE TypeInv'
    <3>1. CASE file # Absent
      BY <2>2, <3>1 DEF Ensure, Goto, Save, work, locals, ghosts
    <3>2. CASE file = Absent
      <4>1. PICK s \in Storage : Save(p, NewConfig(s), "storage")
        BY <2>2, <3>2 DEF Ensure
      <4>2. NewConfig(s) \in AppConfig
        BY ConfigAssumption DEF NewConfig, AppConfig
      <4> QED
        BY <2>2, <3>2, <4>1, <4>2, ConfigAssumption DEF Ensure, Goto, Save, locals, ghosts
    <3> QED
      BY <3>1, <3>2
  <2>3. ASSUME NEW p \in Proc, LoadStorage(p) PROVE TypeInv'
    BY <2>3 DEF LoadStorage, Goto, work, locals
  <2>4. ASSUME NEW p \in Proc, Load(p) PROVE TypeInv'
    <3>1. file \in AppConfig
      BY <2>4 DEF Load
    <3>2. Repaired(file) \in AppConfig
      BY <3>1, RepairedType
    <3>3. CASE Repaired(file) # file
      BY <2>4, <3>1, <3>2, <3>3, ConfigAssumption DEF Load, Save, Goto, locals, ghosts
    <3>4. CASE Repaired(file) = file
      BY <2>4, <3>1, <3>4, ConfigAssumption DEF Load, Goto, locals, ghosts
    <3> QED
      BY <3>3, <3>4
  <2>5. ASSUME NEW p \in Proc, Truncate(p) PROVE TypeInv'
    <3>1. file' \in AppConfig /\ file' # Absent
      BY <2>5, BlankType, ConfigAssumption DEF Truncate
    <3> QED
      BY <2>5, <3>1 DEF Truncate, Touch, Goto, locals, work
  <2>6. ASSUME NEW p \in Proc, Write(p) PROVE TypeInv'
    <3>1. config[p] \in AppConfig
      BY <2>6 DEF Write
    <3>2. file' \in AppConfig \cup {Mangled} /\ file' # Absent
      BY <2>6, <3>1, ConfigAssumption DEF Write
    <3>3. config' \in [Proc -> AppConfig \cup {None}]
      BY <2>6 DEF Write
    <3>4. after[p] # "loaded" \/ config'[p] = config[p]
      BY <2>6 DEF Write
    <3>5. \A q \in Proc \ {p} : config'[q] = config[q] /\ after'[q] = after[q] /\ pc'[q] = pc[q]
      BY <2>6 DEF Write, Goto
    <3>6. TypeOK'
      BY <2>6, <3>2, <3>3 DEF Write, Touch, Goto, locals
    <3> QED
      BY <2>6, <3>1, <3>2, <3>4, <3>5, <3>6 DEF Write, Goto
  <2>7. ASSUME NEW p \in Proc, Use(p) PROVE TypeInv'
    <3>1. PICK key \in Resolved(config[p], name[p]) : Save(p, WithActive(p, key), "done")
      BY <2>7 DEF Use
    <3>2. key \in Network
      BY ResolvedKey
    <3>3. WithActive(p, key) \in AppConfig
      BY <2>7, <3>2 DEF Use, WithActive, AppConfig
    <3> QED
      BY <2>7, <3>1, <3>3, ConfigAssumption DEF Use, Save, Goto, locals, ghosts
  <2>8. ASSUME NEW p \in Proc, pc[p] = "loaded", HasActive(p)
        PROVE  config[p].active \in Network /\ ActiveEntry(p) \in Entry
    BY <2>8 DEF HasActive, ActiveEntry, AppConfig
  <2>9. ASSUME NEW p \in Proc, ChainName(p) PROVE TypeInv'
    <3>1. ActiveEntry(p).chain \in Chain
      BY <2>8, <2>9 DEF ChainName, Loaded, Entry
    <3> QED
      BY <2>9, <3>1 DEF ChainName, Loaded, Goto, locals, ghosts
  <2>10. ASSUME NEW p \in Proc, NetworkRpc(p) PROVE TypeInv'
    <3>1. [network |-> config[p].active, rpc |-> ActiveEntry(p).rpc]
            \in [network : Network, rpc : Endpoint]
      BY <2>8, <2>10 DEF NetworkRpc, Loaded, Entry
    <3> QED
      BY <2>10, <3>1 DEF NetworkRpc, Loaded, Goto, locals, ghosts
  <2>11. ASSUME NEW p \in Proc, Request(p) PROVE TypeInv'
    BY <2>11 DEF Request, Stop, Goto, Command
  <2>12. ASSUME NEW p \in Proc, NEW content \in Typed, Edit(p, content) PROVE TypeInv'
    <3>1. content \in AppConfig \cup {Mangled} /\ content # Absent
      BY ConfigAssumption DEF Whole
    <3> QED
      BY <2>12, <3>1 DEF Edit, Touch, locals, work
  <2>13. ASSUME NEW p \in Proc, Quit(p) PROVE TypeInv'
    BY <2>13 DEF Quit, Stop, Goto, Command
  <2>14. CASE UNCHANGED vars
    BY <2>14 DEF vars, locals, work, ghosts
  <2> QED
    BY <2>1, <2>2, <2>3, <2>4, <2>5, <2>6, <2>7, <2>9, <2>10, <2>11, <2>12, <2>13, <2>14 DEF Next
<1> QED
  BY <1>1, <1>2, PTL DEF Spec

\* Every variable keeps its type, whatever overlaps, is killed or is typed.
THEOREM TypeCorrect == Spec => []TypeOK
BY TypeInvariant, PTL DEF TypeInv
-----------------------------------------------------------------------------
(***************************************************************************)
(* What is saved.                                                          *)
(***************************************************************************)

\* Commands save whole configurations, although they may have loaded an empty
\* one.
WholeInv ==
  /\ file \in Whole \cup {Absent, Mangled, Blank}
  /\ \A p \in Proc :
       /\ pc[p] \in {"truncate", "write"} => config[p] \in Whole
       /\ pc[p] = "loaded" => config[p] \in Whole \cup {Blank}

\* A file that is not whole is accounted for.
TornInv ==
  /\ file = Mangled => torn
  /\ file = Blank => torn \/ \E p \in Proc : pc[p] = "write"

\* The configurations in the file and in memory stay whole.
LEMMA WholeStep ==
  ASSUME TypeInv, WholeInv, Next
  PROVE  WholeInv'
<1> USE DEF TypeInv, TypeOK, WholeInv
<1>1. ASSUME NEW p \in Proc, NEW c \in Command, Start(p, c) PROVE WholeInv'
  BY <1>1 DEF Start, Goto, work
<1>2. ASSUME NEW p \in Proc, Ensure(p) PROVE WholeInv'
  <2>1. CASE file # Absent
    BY <1>2, <2>1 DEF Ensure, Goto, work
  <2>2. CASE file = Absent
    <3>1. PICK s \in Storage : Save(p, NewConfig(s), "storage")
      BY <1>2, <2>2 DEF Ensure
    <3>2. NewConfig(s) \in Whole
      BY ConfigAssumption DEF NewConfig, AppConfig, Whole
    <3> QED
      BY <1>2, <3>1, <3>2 DEF Ensure, Save, Goto
  <2> QED
    BY <2>1, <2>2
<1>3. ASSUME NEW p \in Proc, LoadStorage(p) PROVE WholeInv'
  BY <1>3 DEF LoadStorage, Goto, work
<1>4. ASSUME NEW p \in Proc, Load(p) PROVE WholeInv'
  <2>1. file \in Whole \cup {Blank}
    BY <1>4 DEF Load, PresentInv
  <2>2. CASE Repaired(file) # file
    BY <1>4, <2>1, <2>2, RepairedWhole DEF Load, Save, Goto
  <2>3. CASE Repaired(file) = file
    BY <1>4, <2>1, <2>3 DEF Load, Goto
  <2> QED
    BY <2>2, <2>3
<1>5. ASSUME NEW p \in Proc, Truncate(p) PROVE WholeInv'
  BY <1>5 DEF Truncate, Goto, work
<1>6. ASSUME NEW p \in Proc, Write(p) PROVE WholeInv'
  <2>1. config[p] \in Whole /\ file' \in {config[p], Mangled}
    BY <1>6 DEF Write
  <2>2. \A q \in Proc \ {p} : config'[q] = config[q] /\ pc'[q] = pc[q]
    BY <1>6 DEF Write, Goto
  <2>3. /\ pc'[p] \notin {"truncate", "write"}
        /\ pc'[p] = "loaded" => config'[p] = config[p]
    BY <1>6 DEF Write, Goto
  <2> QED
    BY <2>1, <2>2, <2>3
<1>7. ASSUME NEW p \in Proc, Use(p) PROVE WholeInv'
  <2>1. PICK key \in Resolved(config[p], name[p]) : Save(p, WithActive(p, key), "done")
    BY <1>7 DEF Use
  <2>2. key \in Network /\ config[p].networks[key] # None
    BY ResolvedKey
  <2>3. config[p] \in Whole
    BY <1>7, <2>1, ResolvedBlank DEF Use
  <2>4. WithActive(p, key) \in Whole
    BY <2>2, <2>3 DEF WithActive, AppConfig, Whole
  <2> QED
    BY <1>7, <2>1, <2>4 DEF Use, Save, Goto
<1>8. ASSUME NEW p \in Proc, ChainName(p) PROVE WholeInv'
  BY <1>8 DEF ChainName, Loaded, Goto
<1>9. ASSUME NEW p \in Proc, NetworkRpc(p) PROVE WholeInv'
  BY <1>9 DEF NetworkRpc, Loaded, Goto
<1>10. ASSUME NEW p \in Proc, Request(p) PROVE WholeInv'
  BY <1>10 DEF Request, Stop, Goto
<1>11. ASSUME NEW p \in Proc, NEW content \in Typed, Edit(p, content) PROVE WholeInv'
  <2>1. content \in Whole \cup {Mangled}
    BY ConfigAssumption
  <2> QED
    BY <1>11, <2>1 DEF Edit, work
<1>12. ASSUME NEW p \in Proc, Quit(p) PROVE WholeInv'
  BY <1>12 DEF Quit, Stop, Goto
<1> QED
  BY <1>1, <1>2, <1>3, <1>4, <1>5, <1>6, <1>7, <1>8, <1>9, <1>10, <1>11, <1>12 DEF Next

\* Steps that neither write nor end the write of a file change nothing in this.
LEMMA TornStep ==
  ASSUME TypeInv, WholeInv, TornInv, Next
  PROVE  TornInv'
<1> USE DEF TypeInv, TypeOK, TornInv
<1>1. ASSUME NEW p \in Proc, pc[p] # "write", file' = file, torn' = torn,
             \A q \in Proc \ {p} : pc'[q] = pc[q]
      PROVE  TornInv'
  BY <1>1
<1>2. ASSUME NEW p \in Proc, Truncate(p) PROVE TornInv'
  BY <1>2, BlankType, ConfigAssumption DEF Truncate, Goto
<1>3. ASSUME NEW p \in Proc, Write(p) PROVE TornInv'
  <2>1. config[p] # Blank /\ Mangled # Blank
    BY <1>3, BlankType, ConfigAssumption DEF Write, WholeInv
  <2> QED
    BY <1>3, <2>1 DEF Write
<1>4. ASSUME NEW p \in Proc, NEW content \in Typed, Edit(p, content) PROVE TornInv'
  <2>1. content # Blank
    BY BlankType, ConfigAssumption
  <2> QED
    BY <1>4, <2>1 DEF Edit
<1>5. ASSUME NEW p \in Proc, Quit(p) PROVE TornInv'
  BY <1>5 DEF Quit, Stop, Goto
<1>6. ASSUME NEW p \in Proc, NEW c \in Command, Start(p, c) PROVE TornInv'
  BY <1>1, <1>6 DEF Start, Goto, ghosts
<1>7. ASSUME NEW p \in Proc, Ensure(p) PROVE TornInv'
  BY <1>1, <1>7 DEF Ensure, Save, Goto, ghosts
<1>8. ASSUME NEW p \in Proc, LoadStorage(p) PROVE TornInv'
  BY <1>1, <1>8 DEF LoadStorage, Goto
<1>9. ASSUME NEW p \in Proc, Load(p) PROVE TornInv'
  BY <1>1, <1>9 DEF Load, Save, Goto, ghosts
<1>10. ASSUME NEW p \in Proc, Use(p) PROVE TornInv'
  BY <1>1, <1>10 DEF Use, Save, Goto, ghosts
<1>11. ASSUME NEW p \in Proc, ChainName(p) PROVE TornInv'
  BY <1>1, <1>11 DEF ChainName, Loaded, Goto, ghosts
<1>12. ASSUME NEW p \in Proc, NetworkRpc(p) PROVE TornInv'
  BY <1>1, <1>12 DEF NetworkRpc, Loaded, Goto, ghosts
<1>13. ASSUME NEW p \in Proc, Request(p) PROVE TornInv'
  BY <1>1, <1>13 DEF Request, Stop, Goto
<1> QED
  BY <1>2, <1>3, <1>4, <1>5, <1>6, <1>7, <1>8, <1>9, <1>10, <1>11, <1>12, <1>13 DEF Next

\* What is in the file and in memory stays whole, or its loss is accounted for.
LEMMA WholeInvariant == Spec => [](TypeInv /\ WholeInv /\ TornInv)
<1>1. Init => WholeInv /\ TornInv
  BY BlankType, ConfigAssumption DEF Init, WholeInv, TornInv
<1>2. TypeInv /\ WholeInv /\ TornInv /\ [Next]_vars => (WholeInv /\ TornInv)'
  <2>1. ASSUME WholeInv, TornInv, UNCHANGED vars PROVE (WholeInv /\ TornInv)'
    BY <2>1 DEF vars, work, ghosts, WholeInv, TornInv
  <2> QED
    BY <2>1, WholeStep, TornStep
<1> QED
  BY <1>1, <1>2, TypeInvariant, PTL DEF Spec

\* A file that is not whole is being written, or it has been cut short, mixed
\* up or typed wrong, however many commands overlap and are killed.
THEOREM SavedWhole == Spec => []OnlyWholeSaved
<1>1. WholeInv /\ TornInv => OnlyWholeSaved
  BY DEF WholeInv, TornInv, OnlyWholeSaved
<1> QED
  BY <1>1, WholeInvariant, PTL
-----------------------------------------------------------------------------
(***************************************************************************)
(* One network.                                                            *)
(***************************************************************************)

\* The file is what was last saved, unless it is being written.
SettledInv == file = settled \/ file = Blank

\* What a command knows at which point.
StageAt(p) ==
  /\ \/ pc[p] \in {"idle", "ensure", "storage"}
     \/ pc[p] \in {"truncate", "write"} /\ after[p] = "storage"
     => chain[p] = None /\ target[p] = None
  /\ pc[p] \in {"truncate", "write"} => after[p] # "idle"
  /\ pc[p] = "request" => target[p] # None /\ (cmd[p] # "query" => chain[p] # None)

\* Of a file that nobody else has written the command knows what is in it.
FreshAt(p) ==
  /\ pc[p] = "write" => file = Blank
  /\ pc[p] = "loaded" /\ config[p] # Blank => file = config[p]
  /\ pc[p] \in {"truncate", "write"} /\ after[p] = "loaded" => chain[p] = None /\ target[p] = None
  /\ pc[p] \in {"truncate", "write"} /\ after[p] # "storage" =>
       [config[p] EXCEPT !.active = settled.active] = settled
  /\ pc[p] \in {"load", "loaded", "request"} /\ chain[p] # None =>
       file.active # None /\ chain[p] = file.networks[file.active].chain
  /\ pc[p] \in {"load", "loaded", "request"} /\ target[p] # None =>
       /\ file.active # None
       /\ target[p].network = file.active /\ target[p].rpc = file.networks[file.active].rpc

FreshInv ==
  /\ SettledInv
  /\ \A p \in Proc : StageAt(p) /\ (~changed[p] => FreshAt(p))

\* A process that takes no step and whose file is not written knows as much.
LEMMA StageOfOthers ==
  ASSUME FreshInv, NEW q \in Proc,
         pc'[q] = pc[q], cmd'[q] = cmd[q], config'[q] = config[q], after'[q] = after[q],
         chain'[q] = chain[q], target'[q] = target[q]
  PROVE  /\ StageAt(q)'
         /\ file' = file /\ settled' = settled /\ changed'[q] = changed[q]
              => (~changed[q] => FreshAt(q))'
         /\ (pc[q] \in {"load", "loaded", "truncate", "write", "request"} => changed'[q])
              => (~changed'[q] => FreshAt(q)')
BY DEF FreshInv, StageAt, FreshAt

\* A repair changes the active network alone, and only a missing one.
LEMMA RepairedActive ==
  ASSUME NEW c \in AppConfig, Repaired(c) # c
  PROVE  c.active = None /\ [Repaired(c) EXCEPT !.active = c.active] = c
BY DEF Repaired, AppConfig

\* Every step keeps what the commands know.
LEMMA FreshStep ==
  ASSUME TypeInv, WholeInv, FreshInv, Next
  PROVE  FreshInv'
<1> USE DEF TypeInv, TypeOK
<1>1. ASSUME NEW p \in Proc, NEW c \in Command, Start(p, c) PROVE FreshInv'
  <2>1. SettledInv'
    BY <1>1 DEF Start, ghosts, FreshInv, SettledInv
  <2>2. StageAt(p)' /\ FreshAt(p)'
    BY <1>1 DEF Start, Goto, work, FreshInv, StageAt, FreshAt
  <2>3. ASSUME NEW q \in Proc \ {p} PROVE StageAt(q)' /\ (~changed[q] => FreshAt(q))'
    BY <1>1, StageOfOthers DEF Start, Goto, work, ghosts
  <2> QED
    BY <2>1, <2>2, <2>3 DEF FreshInv
<1>2. ASSUME NEW p \in Proc, Ensure(p) PROVE FreshInv'
  <2>1. SettledInv'
    BY <1>2 DEF Ensure, ghosts, FreshInv, SettledInv
  <2>2. StageAt(p)' /\ FreshAt(p)'
    BY <1>2 DEF Ensure, Save, Goto, work, FreshInv, StageAt, FreshAt
  <2>3. ASSUME NEW q \in Proc \ {p} PROVE StageAt(q)' /\ (~changed[q] => FreshAt(q))'
    BY <1>2, StageOfOthers DEF Ensure, Save, Goto, locals, work, ghosts
  <2> QED
    BY <2>1, <2>2, <2>3 DEF FreshInv
<1>3. ASSUME NEW p \in Proc, LoadStorage(p) PROVE FreshInv'
  <2>1. SettledInv'
    BY <1>3 DEF LoadStorage, FreshInv, SettledInv
  <2>2. StageAt(p)' /\ FreshAt(p)'
    BY <1>3 DEF LoadStorage, Goto, work, FreshInv, StageAt, FreshAt
  <2>3. ASSUME NEW q \in Proc \ {p} PROVE StageAt(q)' /\ (~changed[q] => FreshAt(q))'
    BY <1>3, StageOfOthers DEF LoadStorage, Goto, locals, work
  <2> QED
    BY <2>1, <2>2, <2>3 DEF FreshInv
<1>4. ASSUME NEW p \in Proc, Load(p) PROVE FreshInv'
  <2>1. SettledInv'
    BY <1>4 DEF Load, ghosts, FreshInv, SettledInv
  <2>2. StageAt(p)' /\ (~changed[p] => FreshAt(p))'
    <3>1. file \in AppConfig
      BY <1>4 DEF Load, PresentInv
    <3>2. CASE Repaired(file) # file
      <4>1. file.active = None /\ [Repaired(file) EXCEPT !.active = file.active] = file
        BY <3>1, <3>2, RepairedActive
      <4>2. file = settled
        BY <3>2, RepairedWhole DEF FreshInv, SettledInv
      <4>3. ~changed[p] => chain[p] = None /\ target[p] = None
        BY <1>4, <4>1 DEF Load, FreshInv, FreshAt
      <4>4. /\ pc'[p] = "truncate" /\ after'[p] = "loaded" /\ config'[p] = Repaired(file)
            /\ UNCHANGED <<file, chain, target, settled, changed>>
        BY <1>4, <3>2 DEF Load, Save, Goto, ghosts
      <4> QED
        BY <4>1, <4>2, <4>3, <4>4 DEF StageAt, FreshAt
    <3>3. CASE Repaired(file) = file
      <4>1. /\ pc'[p] = "loaded" /\ config'[p] = file
            /\ UNCHANGED <<file, chain, target, settled, changed>>
        BY <1>4, <3>3 DEF Load, Goto, ghosts
      <4> QED
        BY <1>4, <4>1 DEF Load, FreshInv, StageAt, FreshAt
    <3> QED
      BY <3>2, <3>3
  <2>3. ASSUME NEW q \in Proc \ {p} PROVE StageAt(q)' /\ (~changed[q] => FreshAt(q))'
    BY <1>4, StageOfOthers DEF Load, Save, Goto, locals, ghosts
  <2> QED
    BY <2>1, <2>2, <2>3 DEF FreshInv
<1>5. ASSUME NEW p \in Proc, Truncate(p) PROVE FreshInv'
  <2>1. SettledInv'
    BY <1>5 DEF Truncate, SettledInv
  <2>2. StageAt(p)' /\ (~changed[p] => FreshAt(p))'
    BY <1>5 DEF Truncate, Touch, Goto, work, locals, FreshInv, StageAt, FreshAt
  <2>3. ASSUME NEW q \in Proc \ {p} PROVE StageAt(q)' /\ (~changed[q] => FreshAt(q))'
    BY <1>5, StageOfOthers DEF Truncate, Touch, Goto, locals, work, FreshInv, FreshAt
  <2> QED
    BY <2>1, <2>2, <2>3 DEF FreshInv
<1>6. ASSUME NEW p \in Proc, Write(p) PROVE FreshInv'
  <2>1. SettledInv'
    BY <1>6 DEF Write, SettledInv
  <2>2. StageAt(p)' /\ (~changed[p] => FreshAt(p))'
    <3>1. ~changed[p] => file' = config[p]
      BY <1>6 DEF Write, FreshInv, FreshAt
    <3>2. /\ pc'[p] = after[p] /\ changed'[p] = changed[p]
          /\ after[p] = "loaded" => config'[p] = config[p]
          /\ UNCHANGED <<chain, target>>
      BY <1>6 DEF Write, Touch, Goto
    <3>3. /\ after[p] = "storage" => chain[p] = None /\ target[p] = None
          /\ after[p] = "loaded" /\ ~changed[p] => chain[p] = None /\ target[p] = None
      BY <1>6 DEF Write, FreshInv, StageAt, FreshAt
    <3>4. after[p] # "idle"
      BY <1>6 DEF Write, FreshInv, StageAt
    <3> QED
      BY <3>1, <3>2, <3>3, <3>4 DEF StageAt, FreshAt
  <2>3. ASSUME NEW q \in Proc \ {p} PROVE StageAt(q)' /\ (~changed[q] => FreshAt(q))'
    BY <1>6, StageOfOthers DEF Write, Touch, Goto, locals, FreshInv, FreshAt
  <2> QED
    BY <2>1, <2>2, <2>3 DEF FreshInv
<1>7. ASSUME NEW p \in Proc, Use(p) PROVE FreshInv'
  <2>1. SettledInv'
    BY <1>7 DEF Use, ghosts, FreshInv, SettledInv
  <2>2. StageAt(p)' /\ (~changed[p] => FreshAt(p))'
    <3>1. PICK key \in Resolved(config[p], name[p]) : Save(p, WithActive(p, key), "done")
      BY <1>7 DEF Use
    <3>2. config[p] # Blank
      BY <3>1, ResolvedBlank
    <3>3. ~changed[p] => config[p] = settled
      BY <1>7, <3>2 DEF Use, FreshInv, FreshAt, SettledInv
    <3>4. config[p] \in AppConfig
      BY <1>7 DEF Use, HandInv
    <3>5. ~changed[p] => [WithActive(p, key) EXCEPT !.active = settled.active] = settled
      BY <3>3, <3>4 DEF WithActive, AppConfig
    <3>6. /\ pc'[p] = "truncate" /\ after'[p] = "done" /\ config'[p] = WithActive(p, key)
          /\ UNCHANGED <<settled, changed>>
      BY <1>7, <3>1 DEF Use, Save, Goto, ghosts
    <3> QED
      BY <3>5, <3>6 DEF StageAt, FreshAt
  <2>3. ASSUME NEW q \in Proc \ {p} PROVE StageAt(q)' /\ (~changed[q] => FreshAt(q))'
    BY <1>7, StageOfOthers DEF Use, Save, Goto, locals, ghosts
  <2> QED
    BY <2>1, <2>2, <2>3 DEF FreshInv
<1>8. ASSUME NEW p \in Proc, pc[p] = "loaded", HasActive(p), ~changed[p]
      PROVE  file = config[p]
  BY <1>8 DEF HasActive, FreshInv, FreshAt, Blank
<1>9. ASSUME NEW p \in Proc, ChainName(p) PROVE FreshInv'
  <2>1. SettledInv'
    BY <1>9 DEF ChainName, Loaded, ghosts, FreshInv, SettledInv
  <2>2. StageAt(p)' /\ (~changed[p] => FreshAt(p))'
    <3>1. /\ pc'[p] = "load" /\ chain'[p] = ActiveEntry(p).chain
          /\ UNCHANGED <<file, target, changed>>
      BY <1>9 DEF ChainName, Loaded, Goto, ghosts
    <3>2. pc[p] = "loaded" /\ HasActive(p)
      BY <1>9 DEF ChainName, Loaded
    <3> QED
      BY <1>8, <3>1, <3>2 DEF HasActive, ActiveEntry, FreshInv, StageAt, FreshAt
  <2>3. ASSUME NEW q \in Proc \ {p} PROVE StageAt(q)' /\ (~changed[q] => FreshAt(q))'
    BY <1>9, StageOfOthers DEF ChainName, Loaded, Goto, locals, ghosts
  <2> QED
    BY <2>1, <2>2, <2>3 DEF FreshInv
<1>10. ASSUME NEW p \in Proc, NetworkRpc(p) PROVE FreshInv'
  <2>1. SettledInv'
    BY <1>10 DEF NetworkRpc, Loaded, ghosts, FreshInv, SettledInv
  <2>2. StageAt(p)' /\ (~changed[p] => FreshAt(p))'
    <3>1. /\ pc'[p] \in {"load", "request"}
          /\ target'[p] = [network |-> config[p].active, rpc |-> ActiveEntry(p).rpc]
          /\ UNCHANGED <<file, cmd, chain, changed>>
      BY <1>10 DEF NetworkRpc, Loaded, Goto, locals, ghosts
    <3>2. pc[p] = "loaded" /\ HasActive(p) /\ (cmd[p] # "query" => chain[p] # None)
      BY <1>10 DEF NetworkRpc, Loaded
    <3>3. target'[p] # None
      <4>1. config[p] \in AppConfig /\ config[p].active \in Network /\ ActiveEntry(p) \in Entry
        BY <3>2 DEF HasActive, ActiveEntry, HandInv, AppConfig
      <4>2. target'[p] \in [network : Network, rpc : Endpoint]
        BY <3>1, <4>1 DEF Entry
      <4> QED
        BY <4>2, ConfigAssumption
    <3> QED
      BY <1>8, <3>1, <3>2, <3>3 DEF HasActive, ActiveEntry, FreshInv, StageAt, FreshAt
  <2>3. ASSUME NEW q \in Proc \ {p} PROVE StageAt(q)' /\ (~changed[q] => FreshAt(q))'
    BY <1>10, StageOfOthers DEF NetworkRpc, Loaded, Goto, locals, ghosts
  <2> QED
    BY <2>1, <2>2, <2>3 DEF FreshInv
<1>11. ASSUME NEW p \in Proc, Request(p) \/ Quit(p) PROVE FreshInv'
  <2>1. SettledInv'
    BY <1>11 DEF Request, Quit, FreshInv, SettledInv
  <2>2. StageAt(p)' /\ (~changed[p] => FreshAt(p))'
    BY <1>11 DEF Request, Quit, Stop, Goto, StageAt, FreshAt
  <2>3. ASSUME NEW q \in Proc \ {p} PROVE StageAt(q)' /\ (~changed[q] => FreshAt(q))'
    BY <1>11, StageOfOthers DEF Request, Quit, Stop, Goto
  <2> QED
    BY <2>1, <2>2, <2>3 DEF FreshInv
<1>12. ASSUME NEW p \in Proc, NEW content \in Typed, Edit(p, content) PROVE FreshInv'
  <2>1. SettledInv'
    BY <1>12 DEF Edit, SettledInv
  <2>2. StageAt(p)' /\ (~changed[p] => FreshAt(p))'
    BY <1>12 DEF Edit, locals, work, FreshInv, StageAt, FreshAt
  <2>3. ASSUME NEW q \in Proc \ {p} PROVE StageAt(q)' /\ (~changed[q] => FreshAt(q))'
    BY <1>12, StageOfOthers DEF Edit, Touch, locals, work, FreshInv, FreshAt
  <2> QED
    BY <2>1, <2>2, <2>3 DEF FreshInv
<1> QED
  BY <1>1, <1>2, <1>3, <1>4, <1>5, <1>6, <1>7, <1>9, <1>10, <1>11, <1>12 DEF Next

\* What a command knows of the file is true until somebody else writes it.
LEMMA FreshInvariant == Spec => []FreshInv
<1>1. Init => FreshInv
  BY DEF Init, FreshInv, SettledInv, StageAt, FreshAt
<1>2. TypeInv /\ WholeInv /\ FreshInv /\ [Next]_vars => FreshInv'
  <2>1. ASSUME FreshInv, UNCHANGED vars PROVE FreshInv'
    BY <2>1 DEF vars, locals, work, ghosts, FreshInv, SettledInv, StageAt, FreshAt
  <2> QED
    BY <2>1, FreshStep
<1> QED
  BY <1>1, <1>2, WholeInvariant, PTL DEF Spec

\* Chain name and endpoint, read one after the other, are of the one active
\* network unless another process or the editor wrote the file in between.
THEOREM NetworkIsOne == Spec => []OneNetwork
<1>1. FreshInv => OneNetwork
  BY DEF FreshInv, StageAt, FreshAt, OneNetwork
<1> QED
  BY <1>1, FreshInvariant, PTL

\* A command changes nothing in the file but the active network, unless
\* somebody else wrote it since the command loaded it.
THEOREM NothingElseChanges == Spec => OnlyActiveChanges
<1>1. FreshInv /\ [Next]_vars =>
        [\A p \in Proc :
           Write(p) /\ after[p] # "storage" /\ ~changed[p]
             => [config[p] EXCEPT !.active = settled.active] = settled]_vars
  BY DEF FreshInv, FreshAt, Write
<1> QED
  BY <1>1, FreshInvariant, PTL DEF Spec, OnlyActiveChanges
=============================================================================
