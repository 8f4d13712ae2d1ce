---------------------------- MODULE NetworkConfig ----------------------------
(***************************************************************************)
(* The configuration file, config.toml, and the commands that read it      *)
(* again and again, write it back and are written to by an editor.         *)
(*                                                                         *)
(* A step is one file operation.  The editor, the users and the node are   *)
(* external.  Nobody removes the file.                                     *)
(***************************************************************************)
EXTENDS FiniteSets

CONSTANTS
  Proc,            \* the command processes
  Network,         \* the keys of networks
  Chain,           \* the names of chains
  Endpoint,        \* RPC endpoints
  Storage,         \* [storage] sections
  DefaultNetworks, \* the networks of a new file
  Typed,           \* what users save in the editor
  Absent,          \* no file
  Mangled,         \* a file that is no TOML
  None             \* nothing

Entry == [chain : Chain, rpc : Endpoint]

AppConfig ==
  [active : Network \cup {None},
   networks : [Network -> Entry \cup {None}],
   storage : Storage \cup {None}]

\* An empty file is a configuration, too: every section has a default.
Blank == [active |-> None, networks |-> [n \in Network |-> None], storage |-> None]

\* A configuration that commands can work with.
Whole ==
  {c \in AppConfig :
     /\ c.storage # None
     /\ c.active # None => c.networks[c.active] # None}

ASSUME ConfigAssumption ==
  /\ {"testnet", "devnet"} \subseteq Network
  /\ Network \cap Chain = {}
  /\ DefaultNetworks \in [Network -> Entry \cup {None}]
  /\ DefaultNetworks["testnet"] # None
  /\ Typed \subseteq Whole \cup {Mangled}
  /\ {Absent, Mangled} \cap AppConfig = {} /\ Absent # Mangled
  /\ None \notin Network \cup Chain \cup Entry \cup Storage \cup AppConfig
  /\ None \notin [network : Network, rpc : Endpoint]

VARIABLES
  file,     \* the content of config.toml
  pc,       \* pc[p]: the program point of process p
  cmd,      \* cmd[p]: the command it runs
  name,     \* name[p]: the network or chain that `network use` is given
  override, \* override[p]: --keyring, --file-storage
  config,   \* config[p]: the AppConfig it has loaded or is to save
  after,    \* after[p]: where it goes on when that is saved
  chain,    \* chain[p]: the chain name its transaction is for
  target,   \* target[p]: the network and the endpoint it is about to call
  \* For the properties only:
  settled,  \* what was last saved, or typed
  torn,     \* a save was cut short or mixed with another, or typed wrong
  changed   \* changed[p]: another process has written since p began to read

locals == <<cmd, name, override>>
work   == <<config, after, chain, target>>
ghosts == <<settled, torn, changed>>
vars   == <<file, pc, locals, work, ghosts>>

Command == {"use", "edit", "query", "submit", "preview"}

TypeOK ==
  /\ file \in AppConfig \cup {Absent, Mangled}
  /\ pc \in [Proc -> {"idle", "ensure", "storage", "load", "loaded", "truncate",
                      "write", "editor", "request", "done"}]
  /\ cmd \in [Proc -> Command]
  /\ name \in [Proc -> Network \cup Chain \cup {None}]
  /\ override \in [Proc -> Storage \cup {None}]
  /\ config \in [Proc -> AppConfig \cup {None}]
  /\ after \in [Proc -> {"storage", "loaded", "done", "idle"}]
  /\ chain \in [Proc -> Chain \cup {None}]
  /\ target \in [Proc -> [network : Network, rpc : Endpoint] \cup {None}]
  /\ settled \in AppConfig \cup {Absent, Mangled}
  /\ torn \in BOOLEAN
  /\ changed \in [Proc -> BOOLEAN]

Init ==
  /\ file = Absent
  /\ pc = [p \in Proc |-> "idle"]
  /\ cmd = [p \in Proc |-> "query"]
  /\ name = [p \in Proc |-> None]
  /\ override = [p \in Proc |-> None]
  /\ config = [p \in Proc |-> None]
  /\ after = [p \in Proc |-> "idle"]
  /\ chain = [p \in Proc |-> None]
  /\ target = [p \in Proc |-> None]
  /\ settled = Absent
  /\ torn = FALSE
  /\ changed = [p \in Proc |-> FALSE]

Goto(p, location) == pc' = [pc EXCEPT ![p] = location]

\* The process is gone, and what it had in memory.
Stop(p) ==
  /\ Goto(p, "idle")
  /\ cmd' = [cmd EXCEPT ![p] = "query"]
  /\ name' = [name EXCEPT ![p] = None]
  /\ override' = [override EXCEPT ![p] = None]
  /\ config' = [config EXCEPT ![p] = None]
  /\ after' = [after EXCEPT ![p] = "idle"]
  /\ chain' = [chain EXCEPT ![p] = None]
  /\ target' = [target EXCEPT ![p] = None]
  /\ changed' = [changed EXCEPT ![p] = FALSE]

\* p writes the file, while others rely on what they have read or go on to.
Touch(p) ==
  changed' = [q \in Proc |->
    IF q # p /\ pc[q] \in {"load", "loaded", "truncate", "write", "request"} THEN TRUE
    ELSE changed[q]]

\* save_config: what is saved, and where the command goes on.
Save(p, c, location) ==
  /\ config' = [config EXCEPT ![p] = c]
  /\ after' = [after EXCEPT ![p] = location]
  /\ Goto(p, "truncate")

-----------------------------------------------------------------------------
(***************************************************************************)
(* Starting: main.                                                         *)
(***************************************************************************)

Start(p, c) ==
  /\ pc[p] = "idle"
  /\ cmd' = [cmd EXCEPT ![p] = c]
  /\ \E n \in IF c = "use" THEN Network \cup Chain ELSE {None} :
       name' = [name EXCEPT ![p] = n]
  /\ \E s \in Storage \cup {None} : override' = [override EXCEPT ![p] = s]
  /\ Goto(p, "ensure")
  /\ UNCHANGED <<file, work, ghosts>>

\* config_with_storage.
NewConfig(s) == [active |-> "testnet", networks |-> DefaultNetworks, storage |-> s]

\* ensure_default_config: a missing file is made, with the storage of the
\* command line, or else the one that is chosen at the prompt.
Ensure(p) ==
  /\ pc[p] = "ensure"
  /\ \/ /\ file # Absent
        /\ Goto(p, "storage")
        /\ UNCHANGED work
     \/ /\ file = Absent
        /\ \E s \in Storage :
             /\ override[p] # None => s = override[p]
             /\ Save(p, NewConfig(s), "storage")
        /\ UNCHANGED <<chain, target>>
  /\ UNCHANGED <<file, locals, ghosts>>

\* from_config_path: without an override the file must have a storage section.
LoadStorage(p) ==
  /\ pc[p] = "storage"
  /\ override[p] = None => file # Mangled /\ file.storage # None
  /\ Goto(p, IF cmd[p] = "edit" THEN "editor" ELSE "load")
  /\ changed' = [changed EXCEPT ![p] = FALSE]
  /\ UNCHANGED <<file, locals, work, settled, torn>>

-----------------------------------------------------------------------------
(***************************************************************************)
(* load_or_init_config and save_config.                                    *)
(***************************************************************************)

\* Mutant: a file without an active network, an empty one too, gets the default.
ToTestnet(c) == IF c.active # None THEN c ELSE [c EXCEPT !.active = "testnet"]

\* A file without an active network gets one.
Repaired(c) ==
  IF c.active # None THEN c
  ELSE IF c.networks["testnet"] # None THEN [c EXCEPT !.active = "testnet"]
  ELSE IF c.networks["devnet"] # None THEN [c EXCEPT !.active = "devnet"]
  ELSE c

Load(p) ==
  /\ pc[p] = "load"
  /\ file # Mangled
  /\ IF Repaired(file) # file
     THEN Save(p, Repaired(file), "loaded")
     ELSE /\ config' = [config EXCEPT ![p] = file]
          /\ Goto(p, "loaded")
          /\ UNCHANGED after
  /\ UNCHANGED <<file, locals, chain, target, ghosts>>

\* fs::write truncates the file ...
Truncate(p) ==
  /\ pc[p] = "truncate"
  /\ file' = Blank
  /\ Touch(p)
  /\ Goto(p, "write")
  /\ UNCHANGED <<locals, work, settled, torn>>

\* ... and writes it: if another process has written meanwhile, the end of the
\* longer text may stay behind the shorter one.
Write(p) ==
  /\ pc[p] = "write"
  /\ file' \in IF file = Blank THEN {config[p]} ELSE {config[p], Mangled}
  /\ settled' = file'
  /\ torn' = (file' = Mangled)
  /\ Touch(p)
  /\ IF after[p] = "loaded" THEN UNCHANGED config ELSE config' = [config EXCEPT ![p] = None]
  /\ Goto(p, after[p])
  /\ after' = [after EXCEPT ![p] = "idle"]
  /\ UNCHANGED <<locals, chain, target>>

-----------------------------------------------------------------------------
(***************************************************************************)
(* The commands.                                                           *)
(***************************************************************************)

\* Mutant: the name that is given becomes the active network.
AsGiven(c, n) == {n}

\* resolve_network_key: a key, or the name of the chain of just one network.
Resolved(c, n) ==
  IF n \in Network /\ c.networks[n] # None THEN {n}
  ELSE LET matches == {k \in Network : c.networks[k] # None /\ c.networks[k].chain = n}
       IN IF Cardinality(matches) = 1 THEN matches ELSE {}

\* Mutant: what holds for this run is saved with it.
WithOverride(p, key) ==
  [config[p] EXCEPT !.active = key,
                    !.storage = IF override[p] = None THEN @ ELSE override[p]]

WithActive(p, key) == [config[p] EXCEPT !.active = key]

Use(p) ==
  /\ pc[p] = "loaded" /\ cmd[p] = "use"
  /\ \E key \in Resolved(config[p], name[p]) : Save(p, WithActive(p, key), "done")
  /\ UNCHANGED <<file, locals, chain, target, ghosts>>

\* Mutant: the entry is looked up by its chain.
EntryOfChain(p) ==
  LET networks == config[p].networks
  IN networks[CHOOSE k \in Network :
                networks[k] # None /\ networks[k].chain = networks[config[p].active].chain]

\* The entry of the active network, if there is one.
ActiveEntry(p) == config[p].networks[config[p].active]

HasActive(p) == config[p].active # None /\ config[p].networks[config[p].active] # None

Loaded(p, location) ==
  /\ pc[p] = "loaded" /\ HasActive(p)
  /\ config' = [config EXCEPT ![p] = None]
  /\ Goto(p, location)
  /\ UNCHANGED <<file, locals, after, ghosts>>

\* active_network_chain_name, before anything else.
ChainName(p) ==
  /\ cmd[p] \in {"submit", "preview"} /\ chain[p] = None
  /\ Loaded(p, "load")
  /\ chain' = [chain EXCEPT ![p] = ActiveEntry(p).chain]
  /\ UNCHANGED target

\* active_network_rpc; a preview calls it once more.
NetworkRpc(p) ==
  /\ cmd[p] = "query" \/ chain[p] # None
  /\ cmd[p] # "use"
  /\ Loaded(p, IF cmd[p] = "preview" /\ target[p] = None THEN "load" ELSE "request")
  /\ target' = [target EXCEPT ![p] = [network |-> config[p].active, rpc |-> ActiveEntry(p).rpc]]
  /\ UNCHANGED chain

\* Whatever the node answers, if it does: the command ends, it sends nothing
\* twice, and it reports the network it has called.
Request(p) ==
  /\ pc[p] = "request"
  /\ Stop(p)
  /\ UNCHANGED <<file, settled, torn>>

\* The editor saves, as often as its user likes.
Edit(p, content) ==
  /\ pc[p] = "editor"
  /\ file' = content
  /\ settled' = content
  /\ torn' = (content = Mangled)
  /\ Touch(p)
  /\ UNCHANGED <<pc, locals, work>>

\* The command ends: done, by an error or interrupted.
Quit(p) ==
  /\ pc[p] # "idle"
  /\ torn' = (torn \/ (pc[p] = "write" /\ file = Blank))
  /\ Stop(p)
  /\ UNCHANGED <<file, settled>>

Next ==
  \E p \in Proc :
    \/ \E c \in Command : Start(p, c)
    \/ Ensure(p) \/ LoadStorage(p)
    \/ Load(p) \/ Truncate(p) \/ Write(p)
    \/ Use(p) \/ ChainName(p) \/ NetworkRpc(p) \/ Request(p)
    \/ \E content \in Typed : Edit(p, content)
    \/ Quit(p)

Spec == Init /\ [][Next]_vars
-----------------------------------------------------------------------------
(***************************************************************************)
(* Properties.                                                             *)
(***************************************************************************)

\* A command that reads the file while another is writing it finds it empty,
\* and a name that is no key may be given: nobody ever saves a configuration
\* without storage, or with an active network that is none of its networks.
\* The file is not whole only while it is written, or since a save was cut
\* short or mixed with another.
OnlyWholeSaved ==
  \/ file \in Whole \cup {Absent}
  \/ torn
  \/ file = Blank /\ \E p \in Proc : pc[p] = "write"

\* README: the active network is read from config.toml.  The chain that a
\* transaction is for and the endpoint it is sent to are read one after the
\* other, and are of the one active network unless somebody has written the
\* file in between.
OneNetwork ==
  \A p \in Proc :
    pc[p] = "request" /\ ~changed[p] =>
      /\ target[p].network = file.active
      /\ target[p].rpc = file.networks[file.active].rpc
      /\ cmd[p] # "query" => chain[p] = file.networks[file.active].chain

\* README: --keyring and --file-storage are for this run.  A command saves the
\* networks and the storage that were there, and changes the active network
\* alone, unless somebody else has written the file since it was loaded.
OnlyActiveChanges ==
  [][\A p \in Proc :
       Write(p) /\ after[p] # "storage" /\ ~changed[p]
         => [config[p] EXCEPT !.active = settled.active] = settled]_vars
=============================================================================
