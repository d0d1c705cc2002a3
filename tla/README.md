# BRC-721, verified

TLA+ models of the `brc721` daemon and command line tool, the TLC runs that
check them on small instances and the TLAPS proofs about them. Paths are those
of the repository (`src/...` from its root).

## 1. The system

`brc721` indexes BRC-721 messages of a Bitcoin node into a SQLite file, serves
that file over REST, and builds token transactions with a watch-only wallet of
the node.

| component | code | state it keeps | operations |
|---|---|---|---|
| block scanner | `src/scanner.rs`, `src/bitcoin_rpc.rs` | next height | collect up to `batch_size` blocks that have `confirmations`; wait for the node |
| core loop | `src/core.rs` | the batch being applied | one SQLite transaction per batch: contiguity check, parse, `save_last`, commit |
| daemon | `src/app.rs`, `src/main.rs` | shutdown token, two tasks | start from `chain_state`, `--reset`, Ctrl-C |
| parser | `src/parser/*`, `src/types/*` | none | register collection, register ownership, mix, implicit transfer |
| ownership tables | `src/storage/*` | `collections`, `ownership_utxos`, `ownership_ranges`, `chain_state` | inserts with ON CONFLICT DO NOTHING, mark spent, two owner queries |
| REST API | `src/rest/*` | none | token owner, assets of an address, of an outpoint |
| transaction commands | `src/commands/tx.rs`, `src/wallet/brc721_wallet.rs`, `src/wallet/remote_wallet.rs` | none; locks live in the node | register, send amount, send assets, mix |
| wallet files, signing | `src/wallet/{local_wallet,master_key_store,signer,passphrase}.rs`, `src/commands/wallet.rs` | `wallet.sqlite`, `master-key.age` | init, addresses, balance, assets |
| command line, logging, deployment | `src/cli/*`, `src/context.rs`, `src/tracing.rs`, `docker-compose.yml` | none | none |

How they interact. The indexing task is one blocking thread that calls the node
over JSON-RPC and writes SQLite; the REST task reads the same file through
connections of its own; each `tx` command is a separate process that reads the
file, talks to the node's wallet, and so races other commands and the indexer.
The node may reorganise at any time, also between two calls of one batch.

What is hard, and what makes each part right:

- **Scanner and core.** A reorganisation between `getblockcount`,
  `getblockhash` and `getblock`; a failure in the middle of a batch; a death of
  the process or of the machine at any point. Right: the committed tables are
  always those of one contiguous piece of one chain, each block applied once,
  none before it has its confirmations; the index catches up when it can.
- **Parser and tables.** Two tables written by registrations, mixes and
  transfers of one transaction; two queries that answer where a token is; more
  inputs than outputs, burns, rejected mixes, slots registered twice. Right: the
  tables agree, no token is doubled, a token moves only with its output.
- **Mix.** Input segments and explicit index ranges swept at once. Right:
  every output gets exactly the indices it names, the complement the rest.
- **REST.** One answer made of several queries with commits between them.
  Right: an answer is what was so at one moment, and answers agree over time.
- **Transaction commands.** Locks in the memory of the node, shared by
  everyone, taken for one RPC; an index that lags. Right: no command undoes
  another's locks, none is left behind, only named tokens are spent, and the
  transaction means to the parser what the command meant.
- **Daemon, schema.** One `select!` over two tasks and a signal; a schema created
  statement by statement by whoever opens the file first. Right: every end of
  `wait_for_shutdown` cancels both tasks and waits for them (a core task that cannot
  start ends the process before it is reached, `app.rs:37`); a database that carries the
  version is complete; `--reset` gets out of every other one.
- **Wallet files.** `wallet.sqlite`, `master-key.age`, `createwallet` and
  `importdescriptors`, one after another, with no lock and no undo. Right: the
  files belong to one seed, "ready" means ready, no address is handed out
  twice, and `init` run again ends well.
- **Codecs.** Base-128 integers of 96 bits, counts, three payloads, slots as
  blobs. Right: what is written is read back, what is read has one spelling,
  a command line means what it says.

`PROJECT.json` lists every component with its status, and every hazard with the
line where it bites and the properties that would show it going wrong.

## 2. Modules

| module | models | notes |
|---|---|---|
| `IndexLog` | what the index promises | abstract specification: a log that grows by batches, falls back, is reset |
| `Indexer` | `scanner.rs`, `core.rs`, the transactions of `storage/sqlite.rs`, start and end of `app.rs`, next to the node | implements `IndexLog` |
| `IndexerProofs` | | theorems about `Indexer` |
| `TokenLedger` | what an owner is promised | abstract specification: tokens resting on outputs |
| `TokenLedgerProofs` | | theorems about `TokenLedger` |
| `Mix` | `parser/mix.rs`, validation of `types/mix.rs`, merging of ranges | pure operators |
| `MixProofs` | | induction, folds, sequences of ranges; theorems about `Mix` |
| `Codec` | `types/*.rs`: integers, payloads, script, slots as blobs and in token ids, `--slots` and `--output` | pure operators, extends `Mix` |
| `Ledger` | `parser/*.rs` and the tables of `storage/sqlite.rs`, a transaction at a time | implements `TokenLedger`, uses `Mix` |
| `LedgerProofs` | | theorems about `Ledger`, extends `MixProofs` |
| `Rest` | the three multi-query handlers of `rest/handlers.rs`, `wallet assets` of `commands/wallet.rs` | extends `Ledger` with a client |
| `RestProofs` | | theorems about `Rest`, extends `LedgerProofs` |
| `Wallet` | the `tx` commands against the node's wallet | hands its transactions to `Ledger!ParseTx` |
| `WalletProofs` | | theorems about `Wallet`, cites `LedgerProofs` |
| `WalletSetup` | `wallet init`, `address`, `load`, `unload` and the signing end of `tx`: files, key, wallets of the node | processes on one data directory |
| `WalletSetupProofs` | | theorems about `WalletSetup` |
| `Daemon` | `app.rs` and the opening of the database (`with_conn`, `migrate`, `reset_all`) | daemon and commands on one file |
| `DaemonProofs` | | theorems about `Daemon` |
| `MC*` | small constants for TLC; `MCMessages` also the inputs and properties of `Codec` and `Mix` | |

### Indexer

`pc` is the place of the indexing thread; each RPC and each database call is a
step. `TipReady` is the test of `next_ready_block`, `GetTip`/`GetTipNone` its
two outcomes, `GetBlockHash` and `GetBlock` the calls that follow, `BeginTx`,
`ProcessBlock`, `Commit` the body of `Core::step`, `ReorgDetected` and
`ParseError` its errors. `Contiguous` is `ensure_contiguous_chain`. `End(why)`
is any `?` that leaves `Core::run`: the open transaction is dropped, hence
rolled back, and the daemon ends. `Mine` and `Reorg` are the node, which only
ever replaces its chain by a longer one (blocks stand for equal work).
`unsynced` are the committed databases a power loss may fall back to
(`synchronous=NORMAL` in WAL mode); `Checkpoint` empties it.

`chain_state` and the tables are `[height, hash, log]`: the effect of a block is
left to `Ledger`, `log` says which blocks were applied. `Poison` is the set of
blocks on which `parse_block` errs.

### Ledger, TokenLedger, Mix

A block of `Ledger` holds one transaction, so a height names a transaction, a
collection and its outpoints; batches and rollback are `Indexer`'s. `utxos` and
`ranges` are the two ownership tables, `ranges[o]` in the order of `range_seq`.
`ParseTx` is `parse_tx` from the reading of the inputs to the implicit transfer;
`ParseFails` are the validations whose error makes `parse_block` fail. A base or
owner H160 is the script it hashes. `minted` and `reminted` are history.

`Ledger!ImplementsTokenLedger` maps the tables to holdings by the query
`parse_tx` itself uses to move tokens (`list_unspent_ownership_ranges_by_outpoint`)
and Bitcoin's coins to coins.

`Mix!Sweep` is the loop of `mix::digest`. `ExplicitRanges` is a set where the code
has a list sorted by start: the next range of the sweep is the one of least start
that is not passed yet. `Assigned` is what the sweep leaves for one output, slice
by slice (`PushSlice`, which merges a slice that continues the last one); `Keep`
filters a sequence by a set.

### Codec

A decoder takes bytes and a position and answers `Got(value, next)` or
`Refuse(why)`, as the `?` of the code threads its cursor; `Repeat` is a counted
loop. `Radix`, `MaxLen`, `MaxValue`, `MaxUsize` stand for 128, 14, 2^96-1 and
2^64-1. The reason `"panic"` is `Vec::with_capacity` of a Mix count that no
allocator grants (`types/mix.rs:354,378`), which `register_ownership.rs:294`
avoids. Words of the command line are `[form, a, b]`: `a`, `a..b`, `a..=b`.

### Rest

A request is a first query, one query per row, and a reply; `Commit` (a block of
`Ledger`) may fall between any two SELECTs: most queries open a connection of their
own, and those that share one (`with_conn`) share no read transaction. `truth` records what the coins and the holdings were at the query
the answer should reflect. `prior` keeps an owner reply when the client next
asks about the outpoint it named. `wallet assets` asks for the rows of each
revealed address (`QueryOwner`), then outpoint after outpoint for the rows it has by
then (`QueryOutpoint`) and for the ranges of each of these (`QueryRanges`), and
sorts the ranges and merges those that touch (`MergeRanges`: a fold of `JoinRange`
over `SortedRanges`, any sequence of the ranges in the order of the sort); its cap of
32 asset ids is left out.

### Wallet

A command is `Start`, `CheckNamed`, `ListUnspent`, `ComputeLocks`, `ListLocked`,
`Lock`, `Fund`, `Unlock`, `Broadcast`; send-amount has only `Fund` and
`Broadcast`. Core is modelled by what the code relies on: `listunspent` leaves
out locked coins, `lockunspent` is all or nothing, locks are in memory, belong
to nobody and go when the coin is spent, `walletcreatefundedpsbt` adds any
unlocked coins in any order and puts change where it is told or anywhere. The
fix-ups of the PSBT (`move_opreturn_first`, `reorder_psbt_inputs`) are applied in
`Psbts`. Reading several named outpoints of the index is one step. `indexed` is
how far the daemon has scanned, 0 standing for a missing `brc721.sqlite`.
The chain starts with the blocks `Deposits`, which give the wallet coins with and
without tokens (`DepositDb` are the tables they leave). `Requests` is what `tx.rs`
makes of its arguments: coins to send or mix are named, none twice; a Mix is well
formed and pays for each of its outputs; a registration has one group, for an
address of the wallet. `calm` is history for the properties: it says that nothing a
command relied on (`relied`, between its `listunspent` and its funding, the places
of `Relying`) was taken from it.

### WalletSetup

Each process is a command at a place `pc`; each file operation and each RPC that
matters is a step. `LoadLocal`, `ListWallets`, `LoadWallet` are
`Brc721Wallet::load`, which every command begins with; `run_init` goes on to
`CreateLocal`, `KeyCreate`, `KeyWrite` when it failed for whatever reason and a
mnemonic was given, and then to `SetUp`, `CreateWallet`, `ImportDescriptors`.
A seed stands for the mnemonic and for the wallet id computed from it. Faults:
a process dies, an operation fails, the node restarts and forgets which wallets
were loaded, the data directory is lost.

### Daemon

`conn[c]` is where a connection is in `migrate`: version read, CREATE statements
each committed on its own, version written. `life` is the daemon from `App::new`
(`Start`, with or without `--reset`) over `Spawn` to `wait_for_shutdown`: `Select*`
are the branches of `select!`, `Return` is its end after the tasks left were
awaited. `CtrlC` is the signal, `RestFails` and `CoreFails` a task that ends by
itself. What the core task does while it runs is `Indexer`.

## 3. Runs

| run | shows |
|---|---|
| `IndexerSafety` | a tree of three branches with a reorganisation deeper than one confirmation, a block that fails to parse, all faults, `--reset`: the index is a segment of one chain, the last height it holds is buried, and it implements `IndexLog` |
| `IndexerShallow` | reorganisations no deeper than the confirmations, under fairness: no false "reorg detected", the index catches up once faults stop, a shutdown request ends the task, and a block that fails to parse stops the index for good just before it |
| `IndexerTended` | after a deep reorganisation the index recovers when the operator resets |
| `IndexerLoop` (violation) | the loop ends at the first RPC error, where `core.rs:23,32` say it runs until shutdown and backs off |
| `Messages` | all Mix messages over all inputs, all byte strings, all messages and all command lines of bounded size: a Mix gives each output the tokens its indices name; what is written is read back, also as blobs and token ids in the right order; two spellings of one message are never both accepted; a command line that is accepted means what it says |
| `LedgerSafety` | chains of four transactions of every kind: tables agree, owners are the outputs' scripts, no token is doubled, the two queries agree, a token comes into being only when its base address spends, `TokenLedger` is implemented |
| `LedgerResign` (violation) | the base address registers a slot again and the owner query names the new output, where `README.md:9` says ownership requires signatures of rightful owners |
| `Rest` | listings are snapshots, owner answers are right, the owner view and the outpoint view agree over time; `wallet assets` lists every token that stays and none never held |
| `WalletSetup` | two processes, two seeds, every fault: files of one seed, "ready" only when complete, addresses once, `init` run again succeeds |
| `Daemon` | a schema of 8 statements, the daemon and two commands, crashes and power loss: complete if current, clean exit, no half daemon, `--reset` recovers |
| `WalletLocks` | two commands, crashes, a node restart, a lagging index: see the properties below |
| `WalletLag` (violation) | a token coin not indexed yet funds a Mix behind a plain coin and the Mix is rejected, where `remote_wallet.rs:408` says trailing funding inputs can be ignored |

`WalletLocks` checks that locks held by a command stand until it unlocks them
(`LocksHeld`), that none outlives its command but by a crash or an unlock Core
refuses (`LocksReleased`), and that the operator's own locks are kept
(`OperatorLocksKept`). `FundedPlain` and `Delivered` are stated for a calm command: its
index was up to date when it computed its locks, and between its `listunspent` and
its funding no lock it relied on was released (by another command or a restart of
the node) and no other transaction was accepted. The code protects no more than
that: without either of the last two limits the run finds a counterexample, so they
mark the real extent of the protection. For a registration `Delivered` takes the
collection to exist and the slots to be within the parser's limit, neither of
which the command asks about.

`ReadyIsComplete` is stated for seeds whose `init` was never cut between two
halves: after a cut one (`createwallet` done, `importdescriptors` not), the next
`init` finds the wallet loaded, says "ready", and Core watches nothing.
`InitSucceeds` still holds, since it only promises that `init` ends that way.
`AddressesOnce` holds for one `address` (or `register-ownership`, which reveals
one too) at a time: two at once read the same index.

`ResetRecovers` is stated for an operator who starts with `--reset`; without it a
database left between two statements refuses every start ("table already
exists"), which `sqlite.rs:672` accepts.

### Bounds, and why they are enough

- `Indexer`: chains of up to 7 blocks, batches of 2, confirmations 1, start
  height 2. A batch of 2 is the least that can mix branches, and the least of
  which a bad block holds back a good one (`StopsAtPoison` allows for that); the branches leave above, at and below
  what a batch may hold. The theorems below remove these bounds for safety.
- `Ledger`: 4 blocks, 2 scripts, 4 slots, 3 outputs, `MaxTokensPerTx` 4. Four
  transactions reach every pair of operations after a registration, twice; two
  bases and two scripts are enough to confuse groups and owners.
- `Messages`: for a Mix, slots 0..1, two groups, indices to 4, three input ranges:
  ranges that touch, span and end on segment boundaries all occur. On the wire,
  radix 2 and integers of up to 3 digits with a largest value of 5, so that
  overflow (6), padding and over-long integers occur, and a usize of 4 with an
  allocator that grants 3; up to 12 bytes. On the command line two items and
  three outputs, numbers up to one past the largest.
- `Rest`: the same tables on a smaller chain with two groups merged, a burn, a
  transaction with two token outputs and a gap between slots; one client, since
  requests only read.
- `WalletSetup`: two processes, of which one may change the files while the other
  uses them, two seeds (a second mnemonic after a failed init), two addresses.
- `Daemon`: the 8 statements of the schema, the daemon and two commands, of which
  any two may create it at once.
- `Wallet`: two commands, five coins, one coin added by Core (`MaxExtra`; two in
  `WalletLag`, where the order of the added coins matters), at most one restart.
  Any interference is between two commands.

Deadlock is not checked in `Messages`, `Ledger*`, `Rest`, `WalletLocks` and
`WalletLag`: their inputs, chains and commands are used up. The runs of `Indexer`,
`WalletSetup` and `Daemon` check it.

### Fairness

`FairSpec` gives weak fairness to the indexing thread, which runs on a thread of
its own and waits for nobody (`waitfornewblock` has a timeout), and to `Restart`.
The latter is an assumption about an operator or supervisor: the code has none,
and `docker-compose.yml:31` restarts only the node. `TendedSpec` adds that an
operator told "please rerun with --reset" in the end does so. Nothing obliges
the node, a reset or a fault to act; `CatchesUp` is conditional on faults
ending.

`WalletSetup` and `Daemon` have a step `CalmDown` that may or may not come; after
it nothing fails (and nobody unloads wallets), and `InitSucceeds` and
`ResetRecovers` promise something only from there. A running command goes on
(weak fairness on its steps, each an RPC or file operation that returns). The
operator runs `init` again with the mnemonic: strong fairness, since other
commands may come in between; and starts a daemon that is off with `--reset`.
In `Daemon` the tasks see the cancelled token in the end (`RestStops`, `CoreStops`:
the server's graceful shutdown, and `while !shutdown.is_cancelled()`, which
`ShutdownStops` of `Indexer` shows for the scanner's wait as well), and no fairness
is put on Ctrl-C or on a task failing.

## 4. Proofs

`IndexerProofs`, for all chains, confirmations, batch sizes and start heights:

- `IndexerInvariant`: `Spec => []IInv`. `IndexIsChainSegment` is not inductive:
  that the next batch continues the database depends on where the cursor is, on
  what was fetched, on the open transaction and on what a power loss may bring
  back. `IInv` adds `BatchInv` (collected blocks have consecutive heights, end at
  the cursor, and each is on some chain and was buried when fetched),
  `CursorInv` (what `pc` says of cursor and batch), `TxnInv` (the open
  transaction extends the committed database within a batch) and `UnsyncedInv`
  (every database a power loss may restore is good and a prefix).
- `IndexerTypeCorrect`, `NeverMixesBranches`, `OnlyConfirmedBlocks`: the
  invariants of `IndexerSafety` follow from it.
- `RefinesIndexLog`: every step of `Indexer` is a step of `IndexLog` or a stutter.

The steps are lemmas, one per action or group of actions that change the same
things (`NodeStep`, `GetBlockStep`, `ProcessBlockStep`, ...). The argument of
`ExtendSegment` is the heart: the parent hash of the next block equals the hash
of the last indexed one, and a hash commits to all its ancestors, so a chain
that holds the new block agrees with the old segment throughout.

`ShallowReorgsPass` is about the behaviours in which the node never replaces a block
that has its confirmations (`[][Shallow]_chain`, which all behaviours of
the run `IndexerShallow` satisfy): there the task never ends with "reorg detected".
`OnNodesChain` says why: database, open transaction, batch, the hash just fetched
and every database a power loss may restore hold buried blocks of the chain the
node has now, so the next block of the batch is the child of the last one indexed
(`NeighboursFit`). Without the condition `NoFalseReorg` is false, as it should be.

Assumptions: `ChainsAssumption` (chains are linked by their headers; two chains
that share a block share what is below it) and `ConfigAssumption` (the
confirmations are a natural number, batch size and start height positive). TLC
evaluates both on every `Indexer` run. `--start 0` and genesis are left out.

`TokenLedgerProofs`, for all tokens and outpoints: `LedgerInvariant` (a token
registered once has one holder, holders are unspent), `OneHolder` and
`OnlyOwnersSign` (a holding ends only when its output is spent and begins only on
an output of the same transaction). They carry over to the tables, since `Ledger` implements
`TokenLedger` (below).

`MixProofs`, for any message that decodes and any inputs. The library's induction
theorems cannot be cited, so `IntervalInduction` and `SeqInduction` state induction
over sets, from the finiteness of an interval; `FoldExists` and `FoldSteps` turn the
folds of the community modules into functions with a first value and a step. On
these stand the lemmas on ranges: `Expand` of a concatenation, `Keep`, merging
(`MergeFacts`), the segment an index lies in (`SegmentOfIndex`). `SweepFacts` is the
heart: each slice lies in one input segment and in one explicit range or gap, and
the next begins where it ends. From it, `AssignedByIndex` (an output is
assigned the tokens of its indices, in the order of the inputs), `MixKeepsTokens` (all
outputs together get the tokens of the inputs, and one that the inputs hold once goes
to one range of one output) and `MixGivesByIndex`, of which `MixGivesIndices` of
the run `Messages` is the instance on TLC's inputs.

`LedgerProofs`, for any scripts, slots, and sequence of transactions of any shape:
`LedgerInvariant` (`Spec => []IInv`), from which `TypeCorrect`, `RowsAndRanges`
(`RowsMatchRanges`), `OwnersAreOutputs` (`OwnerIsOutput`), `TokensRestOnce`
(`RestsOnce`), `FinderFindsHolder` (`FinderAgrees`), `BaseAddressSigns` (`BaseSigns`) and
`LedgerImplementsTokenLedger`: every property of the run `LedgerSafety`. Both saves
are ON CONFLICT DO NOTHING, so what a transaction does to the tables does not
depend on their order: it marks its inputs spent and makes a set of gifts
(`ParseTxGives`), ranges to outputs of its own. The invariant speaks of those:

- `CoinsOK`, `TablesOK`: outputs of the chain have one script each and heights up to
  the last; rows and ranges are of such outputs and of registered collections;
- `RowsMatchRanges` and `OwnerIsOutput`, without which the join that answers what an
  output holds could lose a range, or a spent row pass for an unspent one;
- `MintedOK`: what any output was ever given has been minted, so that a token
  minted now is not held yet;
- `PlacedOnce`: among the unspent outputs a token minted once is in one range of
  one output. `RestsOnce`, which counts what a query lists, is not inductive: the
  next block needs to know that the token occurs once in the concatenated inputs,
  whatever sequence they come in (`CarriedOnce`), so that a transfer
  (`TransferGivesOnce`), a Mix (`MixGivesOnce`, by `MixKeepsTokens`) or a registration
  (`RegistrationGivesOnce`) gives it once.

The refinement goes by what a block is: an accepted Mix is a `Transfer` of
`TokenLedger`, a rejected one `Lose`s what its inputs held, and every other
transaction is a `Register`, an implicit transfer with the holdings, if any, of the
tokens it registers (`BlockRefines`).

`RestProofs`, for any number of requests with commits between any two queries:
`ListingsAreSnapshots`, `OwnerAnswered`, `AnswersAgree`, `StillTokensAreListed`
(`StillTokensListed`), every property of the run `Rest`. That a 404 is given only for
what nobody holds follows from the tables: a token minted has its collection in
`collections` (`NotFoundIsEmpty`). `RestInv` adds to the tables' invariant that a
request has got what the rows behind it list and that all its rows together list `truth`
(`ReadingRows`), that an owner reply is backed by a row of the tables (`Backed`), and
that a listing asked for after such a reply has the token and the owner in it
(`Follows`). The argument is that a commit gives ranges and rows only to outputs of its
own transaction (`BlockKeepsRows`): of an output already on the chain nothing changes
but `spent`, which only the queries for rows look at. `wallet assets` asks an outpoint
at a time, and a row at a time, so what it has is not the tables of any one moment: of
what rested on the wallet when it began and still rests there, each token has been read,
or is shown by a row whose ranges are still to be read, or its outpoint or address is
still to be asked (`Awaited`, `ReadingWallet`). A row spent before its ranges are read
still shows what it showed when it was found (`OutpointListing`, `BlockKeepsRows`): a
token that moved, which an address had held meanwhile. What it prints has those tokens
because the sorted fold keeps every token of its ranges (`JoinSteps`,
`MergeRangesFacts`).

`DaemonProofs`, for any number of statements and of commands:
`DaemonTypeCorrect`, `SchemaComplete` and `ShutdownClean`. `CompleteIfCurrent` is not
inductive: two processes may both have read version 0. `DaemonInv` adds that at
most one connection has created anything (`OneCreator`) and stands right after
the last statement committed while no version is written (`CreatorKnows`), since
the loser of a race fails on its first CREATE and ends; that the others stand at
their first statement (`Fresh`); that the daemon is connected exactly while it
opens (`DaemonConn`); and that its tasks run only between a successful open and
the end (`Serving`). A power loss closes every connection, so what it takes away
no creator relies on. The assumption is `DaemonConstants`.

`WalletSetupProofs`, for any number of commands and of seeds: `SetupTypeCorrect`,
`FilesOfOneSeed`, `ReadyMeansReady`, `AddressesHandedOnce`. None is inductive,
because files and node wallets change between the steps of a command. `SetupInv`
adds what a command in the middle still knows: its wallet is the one of the
database, since `LocalWallet::create` refuses a database that holds one
(`Wedded`); the wallet of Core it is about to load, fill or praise exists
(`Known`); a half-made wallet or a missing key is being completed by a running
`init`, or its seed is in `cut` (`HalfCore`, `HalfKey`); and only one `init` and one
`address` run (`Roles`, `Alone`), so that the one that says "ready" would be that
`init`, and the index an `address` holds is the one in the database
(`IndexFresh`). The assumption is `SetupConstants`.

`WalletProofs`, for any number of commands, coins and blocks: `LocksStand`
(`LocksHeld`) and `LocksGivenBack` (`LocksReleased`). `LockInv` says in addition that
what a command listed and locked are outputs of the chain so far (`Shape`,
`Past`), since a transaction whose new output were already held would break
`LocksHeld`, and that a send-amount, which signs without an unlock, has nothing to
unlock (`AmountLocksNothing`). `lockunspent` refuses coins that are locked, so the
locks of two commands stay apart (`HeldApart`) and an unlock takes nothing from
another.
The steps are grouped by what they do to the locks: `ReadingStep` and `FundStep`
take and give nothing, `LockStep` takes, `ReleaseStep` (unlock, broadcast) gives
back, `EndStep` strands. What is in the ownership tables plays no part in this.

It does in the second half: `TypeCorrect`, `OperatorKeepsLocks` (`OperatorLocksKept`)
and `FundingIsPlain` (`FundedPlain`), by `FundInv` on top of `LockInv`. What Core adds
to a transaction is some coin of the wallet that was not locked at that moment;
that it carries no token follows from what the command knows of the coins long
before, so `FundInv` follows that knowledge through its steps:

- `Informed`: while calm, every coin of the wallet is one it listed or one it relies
  on; those it relies on are locked, except between listing the locks and taking
  them; those it listed, did not name and does not lock carry nothing, and once
  funded neither do the inputs it did not name;
- `Spares`: what it locks, names past `ListLocked` or spends is not the operator's;
- `Orderly` and `ChainOK`: what it holds of the wallet has been on the chain, and the
  tables after block k are tables of outputs up to k.

Between the listing and the broadcast other commands may have had blocks of their
own: an output that carried nothing still carries nothing, because `ParseTx` gives
rows only to the outputs of its own transaction. This is a lemma of `LedgerProofs`
about every transaction. `Facts` is that module with the wallet's constants, and
the `Same...` lemmas show that its operators are those of `Chain`, so the facts about the
parser are proved once. TLC checked `FundInv` on the instance of `WalletLocks`
before it was proved.

The third part is `TokensDelivered` (`Delivered`): the tokens a calm command names,
mixes or registers are, after its transaction, on the outputs the command meant.
The command and the parser share no code for this; they must agree on the order of
outputs (the OP_RETURN first, change last), on the order of inputs (the named coins
first), and on what the coins carry, which the command reads from an index that may
be behind. `DeliverInv`, on top of `FundInv`, says so step by step:

- `Arranged`: a funded transaction is as `Drafted`, whatever order Core chose: payments
  in their places, OP_RETURN first where there is a message and nowhere else, the
  named coins first in a Mix and all of them among the inputs (`DraftFacts`);
- `Checked`: the coins a Mix names carry at least the tokens it counts on, as long as
  they are unspent, although the check was made on the tables of another height;
- `Steady`, by which that is so: tables of any two heights agree on a coin that both
  know and that is unspent now. A transaction leaves every coin it does not spend as
  it was (`OthersStay` of `LedgerProofs`);
- `Grounded`: every row of the tables has a range, which `IsIndexed` relies on;
- `AllReach`: what was sent has arrived.

`Arrives` is the step from a draft to the tables, by lemmas of `LedgerProofs` on one
transaction: a transfer gives the n-th token input to the n-th output that is no
OP_RETURN (`NamedTransferred`), a Mix gives each output the tokens of its indices
among the named coins, since inputs that carry nothing shift no index
(`MixRests`, `NamedFirst`), and a registration gives the first output its slots
(`RegistrationRests`). TLC checked `DeliverInv` on the instance of `WalletLocks` too.

What is assumed of the constants:

- `LedgerConstants`: a Bitcoin transaction has an output, and no more of them than
  `MaxVout` numbers; slot ranges of a registration have `lo <= hi`, which
  `register_ownership.rs:242` checks when it decodes one.
- `RestConstants`: no spendable script is an OP_RETURN, and none that the index knows
  hashes to the zero H160 that stands for "no owner".
- `WalletConstants`: the commands are `Requests` (above); the chain starts with a sequence of
  blocks whose outputs hold non-empty ranges of collection 0, each once, as the table's
  unique index has it; what the operator locks are coins of the wallet.

Only model-checked:

- liveness (`CatchesUp`, `ShutdownStops`, `StopsAtPoison`, `InitSucceeds`,
  `NoHalfDaemon`, `ResetRecovers`), which needs fairness and ENABLED, out of the
  prover's reach;
- what the codecs compute (`RoundTrip`, `Canonical`, `CommandLineKept`): recursive
  definitions over byte strings.

## 5. Disagreements between code and docs

1. `core.rs:23,32` against `core.rs:26,45`: the loop neither keeps stepping nor
   backs off on an error (`IndexerLoop`).
2. `README.md:9` against `register_ownership.rs:150`: registering a slot again
   changes its named owner without a signature of the holder (`LedgerResign`).
3. `remote_wallet.rs:408` against `tx.rs:456`: a coin the index has not scanned
   can carry tokens among the funding inputs (`WalletLag`).

## 6. Plan

Order of work, most important behaviour first; all of it is done.

1. `Indexer` with `IndexLog`, safety, liveness, proofs.
2. `Mix` as operators against its definition.
3. `Ledger` with `TokenLedger`, and proofs about the latter.
4. `Wallet` on `Ledger`, with what another command can undo.
5. `Rest` on `Ledger`, with `wallet assets`.
6. `Codec`: the messages on the wire and on the command line.
7. `WalletSetup`: files, key and node wallets, with crashes and reruns.
8. `Daemon`: creation of the schema, `select!`, `--reset`.
9. `DaemonProofs`, `WalletSetupProofs` and the locks in `WalletProofs`.
10. `MixProofs`, `LedgerProofs`, `RestProofs`: tables, refinement, snapshots.
11. `WalletProofs`: what funds a transaction; `IndexerProofs`: shallow
    reorganisations.
12. `Delivered` of `Wallet`, by the lemmas of `LedgerProofs` on what a transfer, a Mix
    and a registration give.

Not modelled:

- Two `wallet init`, or two commands that reveal an address, at the same time.
  Nothing in the code keeps them apart and nothing promises they are.
- A process that still has the database open when `--reset` removes the file.
- `/health`, `/state` and `/collections`: one query each. JSON, the order of a
  reply's entries, the cap of 32 asset ids of `wallet assets`.
- Addresses beyond the imported range 0..999 (`remote_wallet.rs:159`): the wallet
  of the node then does not see what is paid to them.
- The OP_RETURN of dummy length with which a Mix is funded; fees and amounts.
- The text of the command line apart from `--slots` and `--output`, logging, key
  encryption and signatures (calls into `age` and `bdk`), container files.
