# A formal model of casper-cli

casper-cli is a command-line program: each invocation is one process that runs
one command and ends. What makes it worth a model is that several invocations
share files and a keyring without a common lock, that a command pauses at
prompts between its reads and its writes, that it can be interrupted there or
killed anywhere, that the vanity search runs threads over shared atomics, and
that local simulation trusts an unreliable node only as far as Merkle proofs go.

All source paths below are relative to `crates/casper-cli/src/`.

## Inventory

### Wallet store (`wallet.rs`, `wallet/*.rs`, `secure_storage/file.rs`, `atomic_file.rs`)

A wallet `<name>` with the file backend is two files: `wallets/<name>.json`,
the metadata (name, `encrypted` flag, type, accounts), and
`secrets/<name>.enc`, the root secret, in plain or encrypted. Beside the secret
`wallet password` makes a lock file.

| command | reads | writes |
| --- | --- | --- |
| create, recover, import-legacy | that neither file exists | secret (atomic replacement), then metadata (`fs::write`) |
| derive, derive-vanity | both exist; metadata; secret | metadata |
| rename | both exist; metadata | metadata |
| password | both exist; metadata; lock; secret | secret, then metadata by rename; on failure the old secret again |
| delete | that one of them exists | removes the secret, then the metadata |
| transaction put, call, transfer | both exist; metadata; secret | nothing |
| list, info | metadata | nothing |

Hard: the read-modify-write of the metadata spans prompts; `fs::write` truncates
first; two files are changed one after the other; only `password` takes a lock.
Right means: a name selects one key, the key belongs to the metadata that named
it, only a delete takes a wallet's root away and it leaves nothing, a failed
password change leaves the password that was there, and the shown protection is
the real one.

### Vanity search (`wallet/derive_vanity.rs`)

`--jobs` threads share an index counter, an attempt counter changed by weak
compare-exchange, a match counter, a mutex-guarded list of matches, and four
flags. All atomics of the flags are Relaxed. Hard: the last attempt and the last
match are raced for; a worker counts a match and pushes it in another step;
every worker stops on a flag another one raised. Right means: no index twice,
no existing account again, the attempt bound neither exceeded nor wasted, no
counted match missing, a true reason for a shortfall, and an end.

### Keyring storage (`secure_storage/keyring.rs`) and storage configuration (`storage.rs`)

With `backend = "keyring"` the secret is a credential of the operating system,
and one more credential holds the JSON list of names, which `store` and `delete`
read, change and write without a lock. The metadata stays in a file. Hard: two
processes lose each other's entry; a kill between credential and index entry;
switching the backend under an existing wallet. Right means: list and
credentials agree when no command was cut short or overlapped.

### Network configuration (`network.rs`, `network/*.rs`, `config*.rs`)

One TOML file; most commands that need a network load it (and write the default
when it is missing), `network use` writes back what it loaded with another
active network, `config edit` hands it to an editor. Hard: written in place;
several loads in one command. Right means: a command talks to one network, and
an edit is not lost.

### Transactions (`transaction.rs`, `transaction/*.rs`)

Resolve the signer, build, then print, preview (local or speculative) or submit
once. State is on the node. Hard: the endpoint and the chain name are two reads
of the configuration; nothing is submitted when a preview was asked for.

### Local simulation (`contract_runtime.rs`, `contract_runtime/*.rs`)

Executes a transaction with the real engine over a state store that asks the
node for each key at one state root, verifies the Merkle proof of the answer and
caches it on disk. Hard: the node may answer anything; an error in a read cannot
stop the engine, it is recorded and looked at afterwards; the cache outlives the
process. Right means: a successful simulation has only seen values that are true
at its root, and only they are cached.

### Pure parts

`cl_type.rs` (parser of type names), `cl_value.rs` (validator and printer of
value bytes, integers in decimals), `arguments.rs` (`name:type=value`),
`utils.rs` (CSPR amounts), `account/identifier.rs` and the resolvers of
`transaction.rs` (what a reference is taken to be), the index range of `derive`.
Sequential; their hazards are numeric edges, that a hand-written stack machine
must agree with a grammar, a printer and a second, recursive walk over the same
bytes, and that one reference is resolved by four pieces of code from different
files. Right means: what is printed can be read again, nothing outside the
grammar is read, parser and printer accept the same values, a number is the one
that is written, and a reference is the same account for whoever signs, pays
and asks.

### Outside the models

`slip0010.rs`, the Argon2id and XChaCha20-Poly1305 envelope of
`secure_storage/secret_file.rs` and BIP-39 are cryptography: a secret is a root
under a protection, which opens with its password and is bound to nothing else.
`wallet/list.rs`, `wallet/info.rs`, `account/view.rs`, `account/balance.rs`,
`network/list.rs` and `transaction/get.rs` read and print. `main.rs` is clap and
dispatch, `xtask` packages releases.

### How the parts interact

Every part is a function call away from `main.rs`; what is shared is on disk.
The wallet commands call `SecureStorage` (file or keyring, chosen by
`storage.rs` from the configuration file). `transaction` calls
`wallet::resolve_account_secret_key` for the signer, `network` for the endpoint
and `contract_runtime` for a local preview.

## Modules

| module | what it is |
| --- | --- |
| `AtomicWallet` | what the wallet commands promise: one thing, changed at once |
| `WalletStore` | the files of a wallet and every command on them; implements `AtomicWallet` |
| `WalletStoreMC` | its instances: which commands overlap, where they may end |
| `WalletStoreProofs` | its theorems: the two files and the lock, what users were told, and the refinement of `AtomicWallet` |
| `VanityScan` | what a vanity search promises: a sequential abstract search |
| `VanitySearch` | the worker threads, which implement `VanityScan` |
| `VanitySearchMC` | an index space of three, and the searches asked for |
| `VanitySearchProofs` | its theorems, the refinement among them |
| `WalletBackends` | wallets of two backends, and the keyring's index of them |
| `WalletBackendsMC`, `WalletBackendsProofs` | its instances and its theorems |
| `FaithfulExecution` | what a simulation promises: executions over the true state |
| `SimulationCache` | local simulations over an unreliable node and a cache on disk; implements `FaithfulExecution` |
| `SimulationCacheMC`, `SimulationCacheProofs` | its instances and its theorems |
| `NetworkConfig` | `config.toml` under the commands and the editor |
| `NetworkConfigMC`, `NetworkConfigProofs` | its instance and its theorems |
| `ClType` | the parser of type names, the written syntax and what is printed |
| `ClTypeProofs` | its theorems: the parser accepts the syntax, and nothing else |
| `ClValue` | the validator of value bytes, and the printer's walk over them |
| `Argument` | both in turn, as an argument of a call takes them |
| `ArgumentMC` | its constants |
| `ArgumentProofs` | its theorem: the two walks over the bytes of a value agree |
| `Texts` | splitting and trimming |
| `TextsProofs` | the theorems about references, argument lines and numbers |
| `ArgumentText` | `name:type=value`, with escapes |
| `Numbers` | amounts of CSPR, and the integers of arguments |
| `References` | a directory of wallets, and what a reference means in it to each command |
| `ReferencesMC` | its constants |
| `CommandLine` | whichever of these texts a command is given |
| `CommandLineMC` | its instance |

`VanitySearch` instantiates `VanityScan`, `WalletStore` `AtomicWallet` and
`SimulationCache` `FaithfulExecution`; `Argument` extends `ClValue`, which
extends `ClType`; `CommandLine` extends `Argument`, `ArgumentText`, `Numbers` and
`References`, of which a command line gives one at a time. The other modules share no
state: what one takes from another is named where it is used (`WalletBackends`
leaves to `WalletStore` how a file is written, `References` leaves to it how the
commands on one wallet interleave; `NetworkConfig` ends a command at its first
request, where `SimulationCache` begins).

### WalletStore

State and code:

| variable | code |
| --- | --- |
| `meta` | the file at `metadata_path`: absent, empty (truncated by `fs::write`), metadata, or the overlay of two writes |
| `writers` | open file handles inside `fs::write` that still are the file at the path; a rename or removal detaches them |
| `secret` | the file at the secret path; always replaced atomically (`PendingWrite`) |
| `lock` | the advisory lock of `FileSecureStorage::change_password` |
| `pc`, `cmd` | the position and command of each process |
| `view` | the `WalletMetadata` a process has in memory |
| `original` | the secret it is about to store, or the bytes kept for a rollback |
| `told`, `saved` | what users have been told; no guard reads them |

One step is one file operation, with the prompts and computations before it.
`BeginCreate` is create, recover and import-legacy up to the store;
`StoreSecret`, `OpenMetadata`, `WriteMetadata` the store and the two halves of
`fs::write`; `LoadTo...` the load of the metadata with the checks of each
command; `DeriveRange`, `DeriveMatches`, `Sign` what follows the load of the
secret; `TryLock` to `Rollback` the body of `change_password`; `RemoveSecret`
and `RemoveMetadata` the delete. `Quit` is every early return and, at the points
in `QuitPoints`, the end of the process.

An account is its index, its name and the root it was derived from; the public
key is a function of the first and the last. A name template is any injective
choice of fresh names, the outcome of its duplicate check.

Abstractions that could matter: one wallet (names share no file); both existence
checks of a command are one step (beside a creation only deletions run, which take
files away, so what was absent at the first check still is at the second; and a use
loads each file again after its checks, and gives up on one that is gone);
a torn write is total (empty file or the whole text, or an
unparsable overlay when two writers hold the file).

`AtomicWallet` has one variable: no wallet, or a root with its protection, the
flag that `info` shows, and the accounts. `CurrentWallet` maps the files to it:
there is a wallet when both files are there and readable; metadata being written
count as written when the file has been truncated for them (`CurrentMetadata`),
and a new secret counts when the metadata that goes with it is in place, so
that a change that is rolled back has not happened (`CurrentSecret`).

### VanitySearch

A step is one operation on shared memory. `next_index`, `attempts`, `found`,
`done`, `exhausted_attempts`, `exhausted_indexes`, `matches` and `error` are the
shared variables of `search_vanity_matches` under their own names; `index` and
`current` the locals of a thread; `tried` is added for the properties.

Relaxed ordering: a load of `done` may be stale for any number of iterations, so
`ClaimIndex` does not require `~done`. The counters are read-modify-write
operations on one location each and atomic at any ordering. The `exhausted` flags
and `error` are read only after the threads were joined, so their stores need no
steps of their own. A matcher is the set of indexes whose candidates match. Two
error paths are left out: a poisoned mutex, since no thread panics while it
holds it, and a path that cannot be formed, since the index is below the limit
(`TypeOK`).

`VanityScan` is the promise: from the new indexes, try, keep, and end for a
reason that is true. `ImplementsScan` says that the threads, whatever their
number, do just that; the mapping is the identity on `req`, `tried` and
`outcome`, and `kept <- matches`.

### WalletBackends

State: `meta[n]` is the metadata file of wallet `n`, with the backend it names;
`secret[b][n]` the secret in backend `b`; `index` the list in the index
credential. A process has the wallet and backend it was started with, the
metadata in `held` and the list in `view`. One step is one call to the keyring
or one file operation: `StoreSecret` is `store` up to the credential or the
file, `LoadIndex` and `SaveIndex` are the two halves of `add_to_index` and
`remove_from_index`, `DeleteSecret` is `delete` up to the credential,
`SaveMetadata` and `RemoveMetadata` what `create` and `delete` do after it.
`BeginUse` and what follows stand for the commands that load a secret. `Quit` is
a call that fails, an interrupt or a kill. `spoiled` collects the wallets whose
creation or deletion was cut short. Writing a file is one step here, and locks
and passwords are left to `WalletStore`. The keyring itself is external: a call
takes effect or fails.

### SimulationCache

`cache` is the sled tree, `disk` the part a kill leaves; `error` is the failure
`SledStore` records because it cannot stop the engine, `raw`, `root`, `asked`
and `result` are what the command has in hand. The steps are those of
`simulate_local` and `read_with_proof`: `FetchBlock`, `ReadCached`,
`RejectCached`, `CacheFails`, `Ask`, the four answers, `Enumerate`, `Finish` or
`FinishWithFailure`, and the reports of `transaction.rs` with the cleanup.

The engine is external: it reads any key any number of times, goes on after a
failed read or not, and returns any result. So is the node: a response is any
combination of matching or foreign IDs, a proof of whatever key, value and root,
and an error; `Garbage` is a result that is not exactly one proof. Hashing is
external: a proof computes to a state root only if it is of what that root
stores. sled is external too: it admits one process, which is why simulations
come one after the other, may lose what it has not flushed, and may be found
damaged (`MaxDamage` bounds the entries). The ghosts `seen`, `first` and
`damaged` are only written.

`FaithfulExecution` knows neither node nor cache: an execution is started, enters a
root, reads what the state has there or is told that there is nothing, may be
failed by a read, and reports its result or the first failure. The mapping
takes the state without access rights (`StateOf`), the position of the process
(`PhaseOf`) and the first failure; the rest is the identity. That a missing key
cannot be proved is in the abstract specification, because the README of the program
says so.

### NetworkConfig

`file` is the content of the file; `fs::write` is `Truncate` and `Write`, and an
empty file is not an error but the configuration `Blank`, because every section
has a default. `Ensure` is `ensure_default_config`, `LoadStorage`
`SecureStorage::from_config_path`, `Load` with `Repaired` is
`load_or_init_config`, `Use` is `network use` up to the save. `ChainName` and
`NetworkRpc` are the reads of a command that talks to a node, each after a
`Load` of its own; `Request` is the call and the end of the command. `Edit` is
the editor, which saves what its users typed (`Typed`): something that commands
can work with, or no TOML at all. When two writes overlap, the end of the longer
text may stay, `Mangled`. The networks that `network list` prints and the
wording of errors are left out; nobody removes the file. The ghosts are
`settled`, what was last saved, `torn`, whether a save was cut short or mixed up,
and `changed[p]`, whether somebody else has written since `p` began to read.

### ClType, ClValue, Argument

`ClType` is `parse_cl_type` over tokens: `frames`, `pending` and the error
returns are those of the code, and a step is one turn of its loop with the
tokens it looks at, so the text is built while it is read and all texts are
tried. `status` tells an error at a token from one at the end. The lexer's work
on names (case, separators) is a token's identity, and numbers that do not fit
are left out. A token is of one kind (`TypeAssumption`): no name is a number or a
bracket, as in the lexer. What a text should mean is said without a stack:
`Phrases[n]` are the types that n tokens can write, `()` for the unit type and a
comma after the last component of a longer tuple included, which the parser takes and
its documentation does not list; `Canonical[n]` are those that
`cl_type_to_string` prints with n tokens. Where a `(` opens a tuple at the limit of
nesting, the error may come before the `)` of a unit type is looked at; the code
looks first, and the model allows both.

`ClValue` is `parse_cl_value`: `GiveText` for a text, `GiveHex` for hex, then
`CheckNext`, one turn of the validator's loop over its stack of tasks, and
`CheckEnd`. `Printed[left]` is the recursion of `cl_value_to_string` (`FormatValue`),
by the number of levels that may still be nested, over the types within the limit
(`Nested`); it keeps where a value ends and not what is printed. A length takes
one byte instead of four little-endian ones, and the byte strings of the basic
types (`Encoding`) are external, in casper-types, which decodes bytes in one way
(`ValueAssumption`: none begins with another). Texts of keys, booleans and units
are left out; those of integers are in `Numbers`, escapes in `ArgumentText`.

`Argument` puts one after the other. An argument without a type is `Any`, one of
the basic types.

### ArgumentText, Numbers, References, CommandLine

`ArgumentText` is `parse_argument`, with every text up to a length: `Delimiter`
is `split_once_unescaped`, `Unescaped` is `unescape_argument`, and both know which
characters are escaped. The reference is the writer: `LineFor` is how an
argument of any name, type and value is written.

`Numbers` is `parse_cspr_to_motes`, `u512_to_u64` and `format_cspr`, and the integer
readers of `cl_value.rs`, on every text of digits, signs, points, underscores
and blanks. Widths and the number of decimals are constants, so that overflow is
within reach. The reference, `Worth` and `Meant`, sums up what each digit is worth at
its place (`Size`, `Fraction`), where the code reads one digit after the other
(`NumberOf`) and fills decimals up with zeros (`Padded`). `U512::from_dec_str` and `str::parse` are external: they refuse what
is no digit or too large; the first takes no digits at all for zero, so that
`_` is zero for a wide integer and refused for a narrow one.

`References` is a directory of wallets, with metadata and a secret for each name
or one of them, changed by the commands one at a time and each cut short at
will: `MakeWallet`, `DeriveAccount`, `RenameAccount`, `DeleteWallet`. Over it
are the resolvers as the code has them: `Identifier` (`account view`, `account
balance`), `Recipient` (`--to`), `Signer` (`--from`), over `PublicKeyOf`, which
reads the metadata alone, and `SecretKeyOf`, which derives from the secret. A
text is a sequence of tokens, a key in hexadecimal one of them. The file backend
is modelled; how hexadecimal is decoded is external.

`CommandLine` has one of the four given, `given`, and the others stand still. It
makes one instance of them, in which each text is taken through all its values.

## Runs

| run | question | bounds |
| --- | --- | --- |
| `WalletCrash` | Do the files still belong together, and to the root that was stored, when commands are killed anywhere and all but creations overlap? | 2 processes, 3 roots (one legacy), 2 indexes, 2 names, 1 password |
| `WalletPassword` | Do flag, password, accounts and lock come out right when password changes overlap, fail and are rolled back, and does the wallet change as if each command were one step? | 2 processes, 2 roots, 2 indexes, 2 names, 2 passwords |
| `WalletStalePassword` | Does a password change keep the accounts of a derive beside it? It does not. | as above, 1 root |
| `WalletDeleteRace` | Does a delete leave nothing when a password change runs? It does not. | as above, 1 root |
| `VanitySearch` | Do three workers do what one search promises, and return? | 3 workers, 3 indexes, 42 searches |
| `BackendsKill` | Do list, credentials and metadata agree when commands, one at a time, are killed anywhere? | 2 processes, 3 wallets with a backend each, 2 roots |
| `BackendsLostEntry` | Is every usable wallet listed when commands on different wallets overlap? It is not. | as above, overlapping |
| `BackendsSwitch` | Does a delete remove the secret when the backend was changed? It does not. | as above, any backend for each wallet |
| `Simulation` | Are simulations executions over the true state, and only true values cached and reported, whatever the node answers and the disk holds? | 2 roots, 3 keys, one of them an alias, 2 values, 1 damaged entry |
| `NetworkConfig` | Does a command talk to one network, and is what it saves whole and nothing but the choice it was asked for? | 2 processes and the editor, 3 networks, 2 of one chain, 3 endpoints, 3 contents to type |
| `CommandLine` | Are types, values, argument lines, numbers and references read as they are meant, and alike wherever code reads them twice? | texts of 8 tokens, values of 3 bytes over {0, 1, 2}, nesting 2; lines of 7 characters; numbers of 5, 2 decimals, widths 1009 and 99; 3 wallets, 3 roots (one legacy), 2 indexes and names |
| `ColonNames` | Can every account of a whole wallet be referred to? Not when the wallet's name has a colon. | the wallets of `CommandLine` |

Why these bounds are enough to be of interest. Two processes give every pairwise
race; the lock and the files have no behaviour that needs a third, and the
theorems hold for any number. Three roots let a wallet be followed by another one
of the same and of the other type. Two indexes and names suffice for a
duplicate, for a range beside an existing account and for a lost one; two
passwords tell the old from the new. Three workers have one that claims the last
index, one with the last attempt and one between counting a match and pushing
it. The searches of `MCRequest` start inside and outside the space, ask for
fewer, as many and more matches than there are, and meet existing accounts,
faulty indexes and an unusable seed.

Three wallets are one that is changed, one that is not, and one with the other
backend. Two roots tell a value from a stale one; the aliased key is a URef with
access rights, cached under its normalized form. Two networks of one chain make
the name of the chain ambiguous; the third is what a lost `active` falls back
to. Eight tokens open three generics inside one another, one more than the limit
of two, with commas; three bytes hold a list of two lists, an option, and a map
of one entry.
Seven characters are a name of two escaped characters, a type and a value; five
keys are amounts beyond both widths, with two decimals, blanks and underscores.
One wallet is named like a key in hexadecimal and one `w:a`, beside a wallet `w`
and an account `a:w`, so that a reference can be taken apart in two ways. `ReferencesResolve` leaves out
the empty directory, which spares the states in which something else is given;
the theorem includes it.
In each case the mutants show that the case occurs: a dropped check is found.

`Overlapping` states what the users let overlap. `CreationApart` (`WalletCrash`):
anything but creations, a delete beside a password change among it, and beside a
creation signing and deleting. `OneRewriteAtATime` (`WalletPassword`): password
changes among themselves and signing beside anything; creation and deletion run
alone. What fails without these restrictions is in the runs `WalletStalePassword`
and `WalletDeleteRace`, under Findings, or plain last-writer-wins, which the code
does not claim to prevent.

`WalletPassword` lets commands end early where nothing is half done
(`BetweenWrites`): a kill between the new secret and its metadata leaves a wrong
flag, which the code cannot exclude without a journal and does not claim to.

### Fairness

`WalletStore!FairSpec`: a command that has begun takes its next step in the end,
because every prompt ends by an answer or by an interrupt (`Quit`), and the other
steps are system calls; nobody has to begin a command. `VanitySearch!FairSpec`:
threads are scheduled, and an exchange that could succeed again and again does
not fail spuriously for ever (strong fairness of `Reserve`); the caller joins.
`CommandLine!CliSpec`: the validator's own turns are taken; whoever writes the
argument may stop. The other modules state no liveness: their steps are calls to
a keyring, a node or a user, which need not return.

### Findings

1. `wallet password` loads and prepares the metadata before it takes the lock
   (`wallet/password.rs:35`), prompts, and renames the prepared copy over the
   file. A derive or rename that saves meanwhile is undone. README.md:153-154
   promises that derived accounts and names do not change. Run
   `WalletStalePassword`.
2. `wallet delete` takes no lock, and `change_password` writes the secret
   whether or not it is still there (`secure_storage/file.rs:218`): a delete
   during a password change reports success, and the secret is back. README.md:259
   says that it deletes metadata and secret. Run `WalletDeleteRace`.
3. The keyring's index is read, changed and written back without a lock
   (`secure_storage/keyring.rs:51`). Of two commands on different wallets one
   undoes the other's entry, and a usable wallet is not listed again.
   README.md:179 says that `wallet list` lists all wallets. Run
   `BackendsLostEntry`.
4. `wallet delete` takes the backend of its invocation, not that of the metadata
   (`wallet/delete.rs:27`): it removes the metadata, reports success and leaves
   the secret in the other backend. README.md:259 as above. Run
   `BackendsSwitch`. A wallet made again under the name can then be used with
   the secret that was left (`wallet.rs:497`).
5. `validate_wallet_name` (`wallet.rs:599`) accepts a name with a colon, and every
   resolver takes a reference apart at its first colon (`transaction.rs:74` and
   325, `account/identifier.rs:63`). The accounts of such a wallet, or such a
   legacy wallet, can be made and listed but neither signed with nor shown nor
   paid to by reference. README.md:366 says that wallet references use
   `wallet:account` and that legacy wallets can be referenced by name alone.
   Run `ColonNames`.

Seen beside them, where no doc says what is due, so without a run:

- A signer finds the account in the metadata and derives the key from the secret
  file it reads next (`wallet.rs:252`), without comparing the result with the
  account's public key. If the wallet is deleted and made again between the two
  reads, the transaction is signed with a key of the new wallet that belongs to none
  of its accounts. No prompt lies between these reads of a file wallet, so the
  signer must be held up there.
- A creation checks that its name is free before its prompts
  (`wallet/create.rs:46`) and stores the secret without another look
  (`secure_storage/file.rs:266`). Of two creations of one name the second replaces
  the secret of the first: `RootKept` fails with `Overlapping` the one pair
  `<<"create", "create">>`. A password change loses a wallet in the same way when
  the old one is deleted and a new one made after it has read the old secret.

And with `--raw` a simulation removes other roots'
values before it looks at the result (`transaction.rs:174`), where
README.md:368-369 has it after a success; the values are only a cache, and
`IsExecution` holds all the same. `--to` trims its text and `--from` does not,
so that a wallet whose name begins or ends with a blank can sign and not be paid
by name; `ReferencesResolve` is about texts without such blanks.

## Proofs

Every theorem is for all values of the constants that satisfy the named
assumptions of the modules.

**WalletStoreProofs, the files.** `TypeCorrect` needs `InHand`: a command reads from memory
only what it has put there. `LockExcludes` follows from `LockInv`, that whoever is
inside has the lock. `AccountsUnique` needs that also every metadata in memory is
free of duplicates (`UniqueInv`), and two lemmas about adding and renaming; it
assumes nothing about what overlaps. `ControlInv` ties program points to
commands and running commands to pairs in `Overlapping`.

`FilesAgree` and `RootStays` assume `CreationsApart`, that a wallet is made beside
nothing but signing and deleting. `RootInv` says that there is one root of which
are the two files and all that anybody may still write to them; a delete beside a
password change or a derive only lets that root come back, and only a creation,
which finds nothing and nobody about to write (`BesideCreation`), brings another
one. `ChangeSettles` needs in addition to the lock that no creation replaces the
secret under a password change (`FitsInv`). `NothingLeft` assumes `DeletionsApart`,
that a wallet is deleted beside nothing that writes its secret (`RemovedInv`). All
four allow kills anywhere. What the assumptions exclude goes wrong indeed: two
creations, and the run `WalletDeleteRace`. `NothingLeft` has no passing run of its
own: the instance of `WalletCrash` lets deletions overlap password changes.

The other theorems assume `LifecycleAlone`, that creation and deletion run alone.
`DescribeInv` strengthens `MetadataDescribesSecret` to what each process holds
between reading the metadata and writing it back. `FlagsAgree` and
`ChangeKeepsAccounts` assume also `PasswordsApart` (only signing and other
password changes beside a password change); `FlagsAgree` in addition that no
change is killed half done (`NoKillInChange`). The violation runs show that the
assumptions are needed. The instances of the passing runs satisfy them.

**WalletStoreProofs, what users were told.** Three theorems about the whole life of a wallet, each with
the overlaps and the deaths it excludes. `AccountsStay` and `WalletIsAtomic` assume
that creation and deletion run alone and that nothing but signing runs beside a
rewrite of the metadata (`RewritesApart`; `ApartIsApart`: then nothing but signing
and password changes runs beside a password change), and that no command dies
inside `fs::write`, where the file is empty. `SaveInv` says that only one process
has the file open and that what a command is about to save is the file with
accounts added or one renamed; `SavedInv` that the reported accounts are in the
file or in what is being written; hence `AccountsStay`. `PasswordIsKnown` needs
neither what overlaps a password change nor what happens to it: it assumes
`LifecycleAlone` and that no creation is killed before its report
(`NoKillInSave`), and its invariant `ToldInv` is that but for a wallet being made
every secret is one that the users were told of, also after a rollback, which
puts back the very bytes that were read under the lock. `WalletIsAtomic` is the
refinement of `AtomicWallet`: it assumes in addition that no password change is
killed between its two files. `CurrentInv` resolves the choices in
`CurrentMetadata` and `CurrentSecret` (there is one process at most that writes,
and one that changes the secret), and each action is taken to an abstract one or
to stuttering: the truncation to the save, the rename of the metadata to the
change of password, a removed secret to the deletion. The instance of
`WalletPassword` satisfies all these assumptions.

**VanitySearchProofs.** The inductive invariant has three parts: `IndexInv`
(claimed indexes are new, below the counter and each worker's own), `CountInv`
(the counters are the cardinalities), `ReasonInv` (whoever raises `done`, or has
left, leaves a reason behind, and each recorded reason is true). At the join they
give `ReasonJustified`, the heart of `AlwaysAReason` and of `Refinement`. The
modules VanityScan and VanitySearch each use FiniteSets, so a lemma
identifies the two `Cardinality` operators.

**WalletBackendsProofs.** `TypeCorrect`, which no run repeats, holds whatever overlaps; `HandInv` says
that a command which is to store or save has metadata in hand. `UsableListed` and
`IndexIsExact` assume `~Overlap`, one command at a time, for any number of wallets
and any choice of backends, with kills. Their invariant: only one process is
busy (`AloneInv`), at a point that fits its command (`PointInv`), with metadata
that is still the file's (`HoldInv`) and a view that is still the index
(`ViewInv`); hence usable wallets are listed (`ListedInv`) and the index is exact
but for spoiled wallets and the one being changed (`ExactInv`). Without the
assumption they fail: `BackendsLostEntry`. `OwnRootIsUsed` and `SecretIsRemoved`
assume also `OneBackend`, that the users keep to one backend for each wallet. Their
invariants: a secret beside metadata is the one the metadata is of (`OwnInv`), and
a command that makes a wallet has stored the root it holds, one that deletes has
removed the secret before the metadata (`RunInv`). `BackendsSwitch` shows that
`OneBackend` is needed.

**SimulationCacheProofs.** All six are for any node, engine, number of keys and
roots, kills and damage. `CacheInv` (what is cached, and what a kill brings back,
is verified) is inductive as it stands; with `ReadInv` it gives `OnlyTrueReads`,
because a verified entry carries the value stored at its root. `FailureInv`
(the recorded failure is the first) gives `FailuresAreReported`, `SeenInv` gives
`SeenRemains`. `ImplementsExecution` takes each action to one of `FaithfulExecution`
(`ExecutionStep`): a read to a read of what the state has (`ReadIsTrue`, from
`CacheInv`), the answers of the node, the flushes and the damage to stuttering or
to a failure (`ReadStep`), a kill to `Vanish`. All rest on `StateAssumption` and `EntryAssumption`, and on
hashing as `Proof` models it.

**NetworkConfigProofs.** For any processes, networks and typed contents within
`ConfigAssumption`. Types need `PresentInv`, that the file is there once a command
has made sure of it, since nobody removes it. `SavedWhole` needs that commands
which have loaded an empty file never save it as it was (`WholeInv`) and that a
broken file is accounted for (`TornInv`). `NetworkIsOne` and
`NothingElseChanges` need `FreshInv`: unless `changed[p]` is set, the chain and the
endpoint a command has in hand are those of the file now, and the file is what
was last saved, or is being written.

**TextsProofs, references.** `AllResolve` is for any names, glyphs, keys and secrets within
`ReferenceAssumption`. Its invariant `WholeInv` says that metadata that parses is of
the type of its root, is beside the secret of that root or beside none, and has
names that are not empty and all different; `NamesStayApart` keeps it through
derive and rename. The resolvers then agree because the first account of a name
is the only one (`AccountIsFound`) and its key is the same from the metadata as
from the secret (`SignerIsAccount`). `SplitAtColon` is the lemma about sequences:
a wallet's name without a colon, a colon and any account is taken apart where it
was put together.

**TextsProofs, argument lines.** `LinesReadBack` (for the texts of the runs) and
`EveryArgumentReadBack` (for an argument of any name, type that is not blank and
value, of any length) say that the line written for an argument is read as that
argument and no other. Which characters are escaped, and what is left of a text
when it is unescaped, are functions over its places; the lemmas say what one more
character at the end does to each (`EscapedMore`, `DelimiterMore`, `KeptMore`,
`EscapeMore`), and `AllTexts`, that a set with the empty text and each of its texts
with one more character has all texts, takes that to every text. What makes it
true: a text that leaves no backslash open (`SaneMore`, `PlainReads`, `PairReads`)
can be followed by an escaped one, which is read behind it as if alone
(`EscapeFollows`), and in which no delimiter is found; so the first delimiter that
is found is the one that was written (`FoundBehind`). A type that is blank when it is
trimmed is refused, which needs that no character with a meaning is a space
(`LineAssumption`).

**TextsProofs, numbers.** `NumbersAreExact`, for any widths, a text of any length and
any number of decimals but none (`NumberAssumption`; a CSPR has nine, and with none
the zero that is printed behind the point would be refused). Sums, powers and what
is read of digits are recursive functions over places, each made from the place
before (`MadeExists`, `MadeIs`); the lemmas say what one more character does to each
(`ReadMore`, `TotalMore`, `SizeMore`, `FractionMore`). `AllTexts` takes them to every
text: what is read of the digits that are left (`Core`) is what they are worth, times
ten for each decimal that is not there (`SizeIsRead`, `FractionIsRead`). Underscores
may be left out before or after the text is split at its point (`UngroupedHalves`),
and no text but digits in groups is read (`UngroupedDigits`). A number within the
width has its parts within it, so that refusing each alone refuses no more
(`AmountsAre`). The digits that are printed come from a recursion over tenths
(`PrintsExist`, `PrintIsGood`); they are read as the number, and there are no more
of them than decimals (`DigitsReadBack`). The integers go by the sign (`SignedText`,
`UnsignedText`, `EmptyText`).

**ClTypeProofs, the stack.** For any names, limit and length of texts. `StackInv` is
the invariant that the parser's internal errors rely on: one root at the bottom,
which has no type while it waits and one afterwards; every frame below the last
waits for the type above it; a generic name is pending only where a type is
awaited; and the limit, which counts the open types and not the root. The
lemmas are one for each change of the stack (`TypePushed`, `FramePushed`,
`CommaTaken`, `FrameClosed`). `ParsedIsType` says what an accepted text stands for
without recursion: a member of every set of types that is `Closed` under the
constructors, of which CLType is the least.

**ClTypeProofs, the syntax.** `Phrases` is a recursive function of the number of
tokens; that it is what its definition says is proved from what the definition
needs, the shorter phrases (`ShorterPhrases`, `PhrasesExist`). Two theorems make the
parser and the syntax the same.

- `AcceptedIsPhrase`, nothing else is accepted. The invariant `PhraseInv` cuts the
  text that was read into one segment for each open frame (`Layout`): a segment is
  the delimiter that opened its frame, and a list of phrases with commas, nested no
  deeper than the frame leaves room for. Each step of the parser extends the last
  segment, begins one, or closes the last into the one below it, where it is a
  phrase by a rule of the syntax.
- `PhraseIsAccepted`, no phrase is refused or misread. This is about the way of the
  parser through a given text. A configuration leads to another one (`Leads`) if
  there is a set of configurations, with the first in it, that every step within
  the text stays in, and in which only the other one can be at its place of the
  text (`OnWay`). Names, brackets and commas lead on (`NameLeads` to `CloseLeads`),
  ways can be joined (`LeadsOn`), and so every phrase leads from a frame that awaits
  a type, with room for its nesting, to that frame with its type (`Understood`, by
  the number of tokens in `AllPhrasesUnderstood`). `WayInv` carries that through the
  behaviours of `TypeSpec`: it is inductive because a step is a move of the
  configuration (`NextMoves`).

`TypesReadBack` is the property `RoundTrip` of the runs: what is printed is a phrase
(`CanonicalPhrases`) without a unit type in brackets, so that not even a beginning
of it is rejected. It rests on tokens being of one kind (`TypeAssumption`).

**ArgumentProofs.** `CheckersMatch`, for any types within the limit of nesting, any
encodings of which none begins with another, and any bytes. The parser
accepts only types of `Nested` (`ParsedIsNested`), because the deeper a frame is the
less may be nested in its arguments (`Levelled`): the limit that the parser counts
in frames is the one that the printer counts in calls. A stack of tasks reaches the
positions Q from P if each task leads to those that the printer finds for what is
left of it (`Link`), within a limit that fits its types (`TaskWithin`); a repeated
task counts rounds and the next type, the printer the values that are left
(`LeftOf`, `RepeatTasks`). The invariant `CheckInv` says that the stack always leads
from the cursor to the ends that the printer finds for the whole value. A turn
keeps it (`TypeChecked`, `AppliedChecked`, `TupleTasks`: a tuple's tasks lie in
reverse), or fails where the printer finds no end (`NowhereReaches`); with the
stack empty the cursor is the printer's only end. Here the decoding in one way is
needed: with two ways the validator would take one of them and the printer any.

Only model-checked: the liveness properties `LockReleased`, `Returns` and
`CheckEnds` (out of the prover's reach), and the findings.

## Not modelled

Beside what the inventory leaves out: texts of keys, booleans and units, the
printed form of values, names of purses and contracts, the transaction that is
built, and whether a node has executed a transaction that it did not answer.
These are formats of external libraries, or the node's side. PROJECT.json lists
the hazards that no property covers, with the reason.

## Plan

Done: `WalletStore` with `AtomicWallet`; `VanitySearch` with `VanityScan`;
`WalletBackends`; `SimulationCache` with `FaithfulExecution`; `NetworkConfig` up
to the request; the texts of the command line; `References`; and the theorems about
the invariants of all of them. Left:

1. Requests: that a transaction is submitted at most once and never with a
   preview, when `put`, `call` and `transfer` get a module of their own.
2. One directory of wallets for `References` and `WalletBackends`, with both
   backends.
