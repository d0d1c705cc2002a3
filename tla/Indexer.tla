------------------------------- MODULE Indexer -------------------------------
(***************************************************************************)
(* The indexing task of the daemon: Scanner (scanner.rs), Core (core.rs),   *)
(* the SQLite transaction each batch runs in (storage/sqlite.rs) and the    *)
(* start and restart of the process (app.rs), next to a Bitcoin node whose  *)
(* active chain grows and reorganises while the task talks to it.           *)
(*                                                                          *)
(* Every RPC is a step of its own, so a reorganisation can fall between     *)
(* get_block_count, get_block_hash and get_block.  The ownership tables     *)
(* are abstracted to the sequence of blocks that were applied to them: what *)
(* a block does to them is module Ledger.                                   *)
(***************************************************************************)
EXTENDS Naturals, Sequences

CONSTANTS
  Blocks,          \* block hashes
  NoBlock,         \* not a block: chain_state has no row
  Parent,          \* Parent[b] is b.header.prev_blockhash
  Chains,          \* the active chains the node may present; c[h] has height h
  Poison,          \* blocks on which parse_block returns an error
  Confirmations,   \* --confirmations
  BatchSize,       \* --batch-size, after Scanner::with_capacity
  StartHeight      \* --start

(* A chain is linked by its headers, and a hash commits to all ancestors.  *)
ASSUME ChainsAssumption ==
  /\ NoBlock \notin Blocks
  /\ Poison \subseteq Blocks
  /\ Chains \subseteq Seq(Blocks)
  /\ << >> \in Chains
  /\ \A c \in Chains : \A h \in 2..Len(c) : Parent[c[h]] = c[h - 1]
  /\ \A c, d \in Chains : \A h \in 1..Len(c) :
       h <= Len(d) /\ c[h] = d[h] => \A i \in 1..h : c[i] = d[i]

ASSUME ConfigAssumption ==
  /\ Confirmations \in Nat
  /\ BatchSize \in Nat \ {0}
  /\ StartHeight \in Nat \ {0}

VARIABLES
  chain,      \* the node's active chain, genesis (height 0) left out
  pc,         \* where the indexing task is
  current,    \* Scanner.current_height
  fetched,    \* the hash get_block_hash returned
  batch,      \* collected blocks not yet processed: <<[height, hash]>>
  db,         \* the committed database
  unsynced,   \* earlier committed databases a power loss may fall back to
  txn,        \* the database as the open transaction sees it
  shutdown,   \* the CancellationToken
  halt        \* why the task last ended

task == <<current, fetched, batch, txn>>
vars == <<chain, pc, task, db, unsynced, shutdown, halt>>

-----------------------------------------------------------------------------

(* chain_state row (height, hash) and the blocks applied to the tables.    *)
Databases == [height : Nat, hash : Blocks \cup {NoBlock}, log : Seq(Blocks)]
Collected == [height : Nat, hash : Blocks]
EmptyDbZeroHash ==      \* mutant: reset writes a row instead of deleting it
  [height |-> 0, hash |-> "zero hash", log |-> << >>]
EmptyDb   == [height |-> 0, hash |-> NoBlock, log |-> << >>]

Ready  == {"loop", "tip", "wait", "hash", "block"}    \* no transaction open
InTxn  == {"apply", "commit"}
Running == Ready \cup {"begin"} \cup InTxn

NextHeightAgain(d) ==   \* mutant: the last indexed block is asked for again
  IF d.hash = NoBlock THEN StartHeight ELSE d.height

(* determine_start_block                                                   *)
NextHeight(d) == IF d.hash = NoBlock THEN StartHeight ELSE d.height + 1

ContiguousHeight(d, blk) ==   \* mutant: the parent hash is not compared
  d.hash = NoBlock \/ blk.height = d.height + 1

(* Core::ensure_contiguous_chain                                           *)
Contiguous(d, blk) ==
  \/ d.hash = NoBlock
  \/ blk.height = d.height + 1 /\ Parent[blk.hash] = d.hash

(* Brc721Parser::parse_block: the block's effect, then save_last.          *)
ParseBlock(d, blk) ==
  [height |-> blk.height, hash |-> blk.hash, log |-> Append(d.log, blk.hash)]

(* The task ends; an open transaction is dropped, which rolls it back.     *)
End(why) ==
  /\ pc' = "off"
  /\ halt' = why
  /\ batch' = << >>
  /\ txn' = EmptyDb
  /\ fetched' = NoBlock
  /\ UNCHANGED current

Init ==
  /\ chain = << >>
  /\ pc = "off"
  /\ current = StartHeight
  /\ fetched = NoBlock
  /\ batch = << >>
  /\ db = EmptyDb
  /\ unsynced = {}
  /\ txn = EmptyDb
  /\ shutdown = FALSE
  /\ halt = "none"

-----------------------------------------------------------------------------
(* The Bitcoin node: its chain is only ever replaced by one with more work. *)

Mine ==
  /\ \E c \in Chains :
       /\ Len(c) = Len(chain) + 1
       /\ \A h \in 1..Len(chain) : c[h] = chain[h]
       /\ chain' = c
  /\ UNCHANGED <<pc, task, db, unsynced, shutdown, halt>>

Reorg ==
  /\ \E c \in Chains :
       /\ Len(c) > Len(chain)
       /\ \E h \in 1..Len(chain) : c[h] # chain[h]
       /\ chain' = c
  /\ UNCHANGED <<pc, task, db, unsynced, shutdown, halt>>

-----------------------------------------------------------------------------
(* The indexing task.                                                      *)

(* App::new and spawn_core_indexer, with or without --reset.               *)
Start(d) ==
  /\ pc = "off"
  /\ db' = d
  /\ current' = NextHeight(d)
  /\ pc' = "loop"
  /\ shutdown' = FALSE
  /\ UNCHANGED <<chain, fetched, batch, txn, halt>>

Restart    == Start(db) /\ UNCHANGED unsynced
ResetKeeps == Start(db) /\ unsynced' = {}   \* mutant: --reset keeps the tables
ResetStart == Start(EmptyDb) /\ unsynced' = {}

(* Core::run tests the token before every step.                            *)
RunLoop ==
  /\ pc = "loop"
  /\ ~shutdown
  /\ pc' = "tip"
  /\ UNCHANGED <<chain, task, db, unsynced, shutdown, halt>>

Stop ==
  /\ pc = "loop"
  /\ shutdown
  /\ End("stopped")
  /\ UNCHANGED <<chain, db, unsynced, shutdown>>

TipReadyNow ==          \* mutant: confirmations ignored
  current <= Len(chain)

TipReadyEarly ==        \* mutant: one confirmation too few
  current <= Len(chain) + 1 - Confirmations

(* next_ready_block: get_block_count against the confirmations ...         *)
TipReady ==
  /\ Len(chain) >= Confirmations
  /\ current <= Len(chain) - Confirmations

GetTip ==
  /\ pc = "tip"
  /\ TipReady
  /\ pc' = "hash"
  /\ UNCHANGED <<chain, task, db, unsynced, shutdown, halt>>

GetTipNoneDeaf ==       \* mutant: waits for the node whatever the token says
  /\ pc = "tip"
  /\ ~TipReady
  /\ pc' = IF batch # << >> THEN "begin" ELSE "wait"
  /\ UNCHANGED <<chain, task, db, unsynced, shutdown, halt>>

(* ... no block is ready: process what was collected, return to the loop   *)
(* when shutting down, or wait for the node.                               *)
GetTipNone ==
  /\ pc = "tip"
  /\ ~TipReady
  /\ pc' = IF batch # << >> THEN "begin" ELSE IF shutdown THEN "loop" ELSE "wait"
  /\ UNCHANGED <<chain, task, db, unsynced, shutdown, halt>>

WaitForNewBlock ==
  /\ pc = "wait"
  /\ pc' = "tip"
  /\ UNCHANGED <<chain, task, db, unsynced, shutdown, halt>>

GetBlockHash ==
  /\ pc = "hash"
  /\ current <= Len(chain)
  /\ fetched' = chain[current]
  /\ pc' = "block"
  /\ UNCHANGED <<chain, current, batch, txn, db, unsynced, shutdown, halt>>

GetBlockOneMore ==      \* mutant: the batch is cut one block too late
  /\ pc = "block"
  /\ batch' = Append(batch, [height |-> current, hash |-> fetched])
  /\ current' = current + 1
  /\ pc' = IF Len(batch) = BatchSize THEN "begin" ELSE "tip"
  /\ UNCHANGED <<chain, fetched, txn, db, unsynced, shutdown, halt>>

(* get_block answers for stale blocks too, whatever the active chain is.   *)
GetBlock ==
  /\ pc = "block"
  /\ batch' = Append(batch, [height |-> current, hash |-> fetched])
  /\ current' = current + 1
  /\ pc' = IF Len(batch) + 1 = BatchSize THEN "begin" ELSE "tip"
  /\ UNCHANGED <<chain, fetched, txn, db, unsynced, shutdown, halt>>

BeginTx ==
  /\ pc = "begin"
  /\ txn' = db
  /\ pc' = "apply"
  /\ UNCHANGED <<chain, current, fetched, batch, db, unsynced, shutdown, halt>>

ProcessAnyBlock ==      \* mutant: a parse error is passed over
  /\ pc = "apply"
  /\ Contiguous(txn, Head(batch))
  /\ txn' = ParseBlock(txn, Head(batch))
  /\ batch' = Tail(batch)
  /\ pc' = IF Tail(batch) = << >> THEN "commit" ELSE "apply"
  /\ UNCHANGED <<chain, current, fetched, db, unsynced, shutdown, halt>>

ProcessBlock ==
  /\ pc = "apply"
  /\ Contiguous(txn, Head(batch))
  /\ Head(batch).hash \notin Poison
  /\ txn' = ParseBlock(txn, Head(batch))
  /\ batch' = Tail(batch)
  /\ pc' = IF Tail(batch) = << >> THEN "commit" ELSE "apply"
  /\ UNCHANGED <<chain, current, fetched, db, unsynced, shutdown, halt>>

ReorgDetected ==
  /\ pc = "apply"
  /\ ~Contiguous(txn, Head(batch))
  /\ End("reorg")
  /\ UNCHANGED <<chain, db, unsynced, shutdown>>

ParseError ==
  /\ pc = "apply"
  /\ Contiguous(txn, Head(batch))
  /\ Head(batch).hash \in Poison
  /\ End("parse")
  /\ UNCHANGED <<chain, db, unsynced, shutdown>>

Commit ==
  /\ pc = "commit"
  /\ db' = txn
  /\ unsynced' = unsynced \cup {db}
  /\ txn' = EmptyDb
  /\ pc' = "loop"
  /\ UNCHANGED <<chain, current, fetched, batch, shutdown, halt>>

-----------------------------------------------------------------------------
(* What goes wrong around it.                                              *)

(* An RPC fails (the parser asks getrawtransaction too), BEGIN IMMEDIATE   *)
(* or COMMIT finds the database busy, a statement fails: `?` in Core::step *)
(* and Core::run ends the task, and with it the daemon.                    *)
RpcError ==
  /\ pc \in {"tip", "wait", "hash", "block", "apply"}
  /\ End("rpc")
  /\ UNCHANGED <<chain, db, unsynced, shutdown>>

StorageError ==
  /\ pc \in {"begin"} \cup InTxn
  /\ End("storage")
  /\ UNCHANGED <<chain, db, unsynced, shutdown>>

CtrlC ==
  /\ pc \in Running
  /\ ~shutdown
  /\ shutdown' = TRUE
  /\ UNCHANGED <<chain, pc, task, db, unsynced, halt>>

(* The process dies; SQLite keeps every committed transaction ...          *)
Crash ==
  /\ pc \in Running
  /\ End("crash")
  /\ UNCHANGED <<chain, db, unsynced, shutdown>>

(* ... but with synchronous=NORMAL in WAL mode a power loss may drop the   *)
(* commits since the last checkpoint, newest first.                        *)
PowerLoss ==
  /\ \E d \in unsynced \cup {db} : db' = d
  /\ unsynced' = {}
  /\ End("crash")
  /\ UNCHANGED <<chain, shutdown>>

Checkpoint ==
  /\ unsynced # {}
  /\ unsynced' = {}
  /\ UNCHANGED <<chain, pc, task, db, shutdown, halt>>

-----------------------------------------------------------------------------

Node == Mine \/ Reorg

Task ==
  \/ RunLoop \/ Stop \/ GetTip \/ GetTipNone \/ WaitForNewBlock
  \/ GetBlockHash \/ GetBlock \/ BeginTx \/ ProcessBlock
  \/ ReorgDetected \/ ParseError \/ Commit

Fault == RpcError \/ StorageError \/ CtrlC \/ Crash \/ PowerLoss

Next == Node \/ Task \/ Restart \/ ResetStart \/ Fault \/ Checkpoint

Spec == Init /\ [][Next]_vars

(* The task is a thread of its own that never waits on another one; that   *)
(* someone starts the daemon again after it ended is assumed, not coded    *)
(* (docker-compose.yml:31 restarts only the node).  Nothing obliges the    *)
(* node, --reset or a fault to act.                                        *)
FairSpec == Spec /\ WF_vars(Task) /\ WF_vars(Restart)

(* The same with an operator who, told "please rerun with --reset" again   *)
(* and again, in the end does so.                                          *)
TendedSpec ==
  FairSpec /\ SF_vars(halt = "reorg" /\ ResetStart)

-----------------------------------------------------------------------------
(* Properties.                                                             *)

TypeOK ==
  /\ chain \in Seq(Blocks)
  /\ pc \in Running \cup {"off"}
  /\ current \in Nat
  /\ fetched \in Blocks \cup {NoBlock}
  /\ batch \in Seq(Collected)
  /\ db \in Databases
  /\ unsynced \subseteq Databases
  /\ txn \in Databases
  /\ shutdown \in BOOLEAN
  /\ halt \in {"none", "stopped", "reorg", "parse", "rpc", "storage", "crash"}

(* The committed index implements IndexLog.                                *)
Log == INSTANCE IndexLog WITH log <- db.log

(* d holds the blocks StartHeight..d.height of one chain, each applied     *)
(* once and in order, and its chain_state row names the last of them.      *)
IsSegment(d) ==
  \/ d = EmptyDb
  \/ \E c \in Chains :
       /\ d.height \in StartHeight..Len(c)
       /\ d.hash = c[d.height]
       /\ Len(d.log) = d.height + 1 - StartHeight
       /\ Log!SegmentOf(d.log, c)

(* Whatever reorganisations fall between the RPCs of a batch, and wherever *)
(* the process dies, the tables never mix blocks of two branches and never *)
(* skip or repeat one: core.rs ensure_contiguous_chain, begin_tx/commit    *)
(* and determine_start_block together.                                     *)
IndexIsChainSegment == IsSegment(db)

(* Only heights under `confirmations` others of the active chain are       *)
(* indexed, though the tip is read before the block (next_ready_block).    *)
(* After a reorganisation deeper than that the block indexed at the height *)
(* need not be the one there now; until one, it is (NoFalseReorg).         *)
IndexedIsBuried == db.hash # NoBlock => db.height + Confirmations <= Len(chain)

(* Every change of the committed database is a whole batch, a loss of      *)
(* unsynced commits or a reset: the transaction of Core::step is atomic.   *)
ImplementsIndexLog == Log!Spec

(* With reorganisations no deeper than `confirmations` the daemon never    *)
(* stops with "reorg detected" (core.rs:83,92).                            *)
NoFalseReorg == halt # "reorg"

(* The newest block `confirmations` deep is the last one indexed.          *)
CaughtUp ==
  LET target == Len(chain) - Confirmations
  IN  Len(chain) >= StartHeight + Confirmations =>
        db.height = target /\ db.hash = chain[target]

FaultsEnd == <>[][~Fault]_vars
ResetsEnd == <>[][~ResetStart]_vars

(* Once faults stop, the index reaches the newest confirmed block of the   *)
(* node's chain and stays there, from whatever restarts came before and    *)
(* unless a confirmed block cannot be parsed.                              *)
Clear == \A h \in StartHeight..Len(chain) - Confirmations : chain[h] \notin Poison

CatchesUp == FaultsEnd => <>[](Clear => CaughtUp)

(* Core::run and next_blocks_with_shutdown notice the token: a task asked  *)
(* to stop ends, even while the node has no new block for it.              *)
ShutdownStops == shutdown /\ pc \in Running ~> pc = "off"

(* A block whose parse fails (a register-ownership message whose           *)
(* validation fails, brc721_parser.rs:316) ends the daemon at every        *)
(* restart: the index stops for good before it, and it does reach the last *)
(* whole batch below it, whatever height its batches started from.         *)
StopsBefore(h) ==
  chain[h] \in Poison /\ \A k \in StartHeight..h - 1 : chain[k] \notin Poison

StopsAtPoison ==
  FaultsEnd /\ ResetsEnd =>
    <>[](\A h \in StartHeight + BatchSize..Len(chain) - Confirmations :
           StopsBefore(h) => /\ db.height \in h - BatchSize..h - 1
                             /\ db.hash = chain[db.height])

(* core.rs:23 "keep stepping until shutdown is requested" and core.rs:32   *)
(* "or back off on error": the loop ends by itself only after a request.   *)
LoopEndsOnlyOnShutdown ==
  [][(pc \in Running /\ pc' = "off" /\ halt' # "crash") => shutdown]_vars

=============================================================================
