--------------------------- MODULE IndexerProofs ---------------------------
(***************************************************************************)
(* Proofs about module Indexer for every block tree, every configuration    *)
(* and every interleaving of reorganisations, RPCs, faults and restarts.    *)
(*                                                                          *)
(* That the committed index is a segment of one chain is not inductive: it  *)
(* needs to know that the collected batch continues the database at the     *)
(* right height, that its blocks come from chains of the node, and that the *)
(* open transaction extends the committed state.  IInv adds that.           *)
(***************************************************************************)
EXTENDS Indexer, SequenceTheorems, TLAPS

(* b is the block at height h of a chain the node may present.             *)
OnSomeChain(h, b) == \E c \in Chains : h \in 1..Len(c) /\ c[h] = b

Buried(h) == h + Confirmations <= Len(chain)

Good(d) == IsSegment(d) /\ (d.hash # NoBlock => Buried(d.height))

(* The batch holds the heights just below current_height, in order.        *)
BatchInv ==
  \A i \in 1..Len(batch) :
    /\ batch[i].height + Len(batch) + 1 = current + i
    /\ OnSomeChain(batch[i].height, batch[i].hash)
    /\ Buried(batch[i].height)

(* current_height runs ahead of the database by exactly the batch.         *)
CursorInv ==
  /\ pc \in Ready \cup {"begin"} => current = NextHeight(db) + Len(batch)
  /\ pc \in InTxn => current = NextHeight(txn) + Len(batch)
  /\ pc \in {"off", "loop", "wait", "commit"} => batch = << >>
  /\ pc \in {"tip", "hash", "block"} => Len(batch) < BatchSize
  /\ pc \in {"begin", "apply"} => Len(batch) \in 1..BatchSize
  /\ pc \in {"hash", "block"} => Buried(current)
  /\ pc = "block" => OnSomeChain(current, fetched)

(* The open transaction extends the committed database by whole blocks.    *)
TxnInv ==
  pc \in InTxn =>
    /\ Good(txn)
    /\ Log!Prefix(db.log, txn.log)
    /\ Len(txn.log) + Len(batch) \in Len(db.log) + 1 .. Len(db.log) + BatchSize

UnsyncedInv == \A d \in unsynced : Good(d) /\ Log!Prefix(d.log, db.log)

IInv ==
  /\ TypeOK
  /\ chain \in Chains
  /\ Good(db)
  /\ UnsyncedInv
  /\ BatchInv
  /\ CursorInv
  /\ TxnInv

-----------------------------------------------------------------------------

(* An empty database and an idle task.                                     *)
LEMMA InitInv == Init => IInv
  <1> SUFFICES ASSUME Init PROVE IInv
    OBVIOUS
  <1> USE DEF Init
  <1>0. EmptyDb \in Databases
    BY DEF EmptyDb, Databases
  <1>1. TypeOK
    <2>1. chain \in Seq(Blocks) /\ batch \in Seq(Collected)
      OBVIOUS
    <2>2. pc \in Running \cup {"off"}
      OBVIOUS
    <2>3. current \in Nat
      BY ConfigAssumption
    <2>4. QED
      BY <1>0, <2>1, <2>2, <2>3 DEF TypeOK
  <1>2. Good(db) /\ UnsyncedInv
    BY DEF Good, IsSegment, EmptyDb, UnsyncedInv
  <1>3. BatchInv /\ CursorInv /\ TxnInv
    <2>1. Len(batch) = 0
      OBVIOUS
    <2>2. BatchInv
      BY <2>1 DEF BatchInv
    <2>3. CursorInv /\ TxnInv
      BY DEF CursorInv, TxnInv, Ready, InTxn
    <2>4. QED
      BY <2>2, <2>3
  <1>4. QED
    BY <1>1, <1>2, <1>3, ChainsAssumption DEF IInv

(* The node's chain grows, so what is buried stays buried.                 *)
LEMMA NodeStep ==
  ASSUME IInv, Node
  PROVE  IInv'
  <1>1. /\ chain' \in Chains
        /\ Len(chain') \in Nat /\ Len(chain) \in Nat
        /\ Len(chain') > Len(chain)
        /\ UNCHANGED <<pc, task, db, unsynced, shutdown, halt>>
    BY ChainsAssumption DEF Node, Mine, Reorg, IInv
  <1>2. \A h \in Nat : Buried(h) => Buried(h)'
    BY <1>1, ConfigAssumption DEF Buried
  <1>3. TypeOK'
    BY <1>1, ChainsAssumption DEF IInv, TypeOK, task
  <1>4. \A d \in Databases : Good(d) => Good(d)'
    BY <1>1, <1>2 DEF Good, IsSegment, Databases, Log!SegmentOf
  <1>5. Good(db)' /\ UnsyncedInv'
    BY <1>1, <1>4 DEF IInv, TypeOK, UnsyncedInv, task
  <1>6. BatchInv'
    <2>1. \A i \in 1..Len(batch) : batch[i] \in Collected
      BY DEF IInv, TypeOK
    <2>2. batch' = batch /\ current' = current
      BY <1>1 DEF task
    <2>3. QED
      BY <1>2, <2>1, <2>2 DEF IInv, BatchInv, OnSomeChain, Collected
  <1>7. CursorInv'
    BY <1>1, <1>2 DEF IInv, TypeOK, CursorInv, OnSomeChain, NextHeight, task
  <1>8. TxnInv'
    BY <1>1, <1>4 DEF IInv, TypeOK, TxnInv, task
  <1>9. QED
    BY <1>1, <1>3, <1>5, <1>6, <1>7, <1>8 DEF IInv

(* Good and Buried only look at the length of the chain.                   *)
LEMMA SameChain ==
  ASSUME UNCHANGED chain
  PROVE  /\ \A d : Good(d) => Good(d)'
         /\ \A h : Buried(h) => Buried(h)'
  BY DEF Good, IsSegment, Buried, Log!SegmentOf

(* The task ends: what is committed is Good, the rest is forgotten.        *)
LEMMA EndStep ==
  ASSUME IInv,
         NEW why \in {"stopped", "reorg", "parse", "rpc", "storage", "crash"},
         End(why),
         UNCHANGED <<chain, shutdown>>,
         db' \in unsynced \cup {db},
         unsynced' = {} \/ (db' = db /\ unsynced' = unsynced)
  PROVE  IInv'
  <1>1. TypeOK'
    <2>1. EmptyDb \in Databases
      BY DEF EmptyDb, Databases
    <2>2. batch' \in Seq(Collected) /\ txn' \in Databases /\ fetched' = NoBlock
      BY <2>1 DEF End
    <2>3. pc' = "off" /\ halt' = why /\ current' = current
      BY DEF End
    <2>4. QED
      BY <2>2, <2>3 DEF IInv, TypeOK
  <1>2. Good(db)' /\ UnsyncedInv' /\ chain' \in Chains
    BY SameChain DEF IInv, UnsyncedInv
  <1>3. BatchInv'
    <2>1. Len(batch') = 0
      BY DEF End
    <2>2. QED
      BY <2>1 DEF BatchInv
  <1>4. CursorInv' /\ TxnInv'
    BY DEF End, CursorInv, TxnInv, Ready, InTxn
  <1>5. QED
    BY <1>1, <1>2, <1>3, <1>4 DEF IInv

(* A failing call, a failing statement, Ctrl-C, a crash, a power loss.     *)
LEMMA FaultStep ==
  ASSUME IInv, Fault \/ Stop \/ ReorgDetected \/ ParseError
  PROVE  IInv'
  <1>1. CASE CtrlC
    <2>1. /\ UNCHANGED <<chain, pc, task, db, unsynced, halt>>
          /\ shutdown' \in BOOLEAN
      BY <1>1 DEF CtrlC
    <2>2. TypeOK'
      BY <2>1 DEF IInv, TypeOK, task
    <2>3. Good(db)' /\ UnsyncedInv' /\ chain' \in Chains
      BY <2>1, SameChain DEF IInv, UnsyncedInv
    <2>4. BatchInv' /\ CursorInv'
      BY <2>1, SameChain
         DEF IInv, BatchInv, CursorInv, OnSomeChain, NextHeight, task
    <2>5. TxnInv'
      BY <2>1, SameChain DEF IInv, TxnInv, task
    <2>6. QED
      BY <2>2, <2>3, <2>4, <2>5 DEF IInv
  <1>2. CASE PowerLoss
    BY <1>2, EndStep DEF PowerLoss
  <1>3. CASE RpcError \/ StorageError \/ Crash
    BY <1>3, EndStep DEF RpcError, StorageError, Crash
  <1>4. CASE Stop \/ ReorgDetected \/ ParseError
    BY <1>4, EndStep DEF Stop, ReorgDetected, ParseError
  <1>5. QED
    BY <1>1, <1>2, <1>3, <1>4 DEF Fault

(* Steps that only move pc while no transaction is open, or synchronise.   *)
LEMMA QuietStep ==
  ASSUME IInv,
         RunLoop \/ GetTip \/ GetTipNone \/ WaitForNewBlock \/ Checkpoint
  PROVE  IInv'
  <1>1. UNCHANGED <<chain, task, db, shutdown, halt>>
    BY DEF RunLoop, GetTip, GetTipNone, WaitForNewBlock, Checkpoint
  <1>2. /\ pc' = pc \/ (pc \in Ready /\ pc' \in Ready \cup {"begin"})
        /\ unsynced' \subseteq unsynced
    BY DEF RunLoop, GetTip, GetTipNone, WaitForNewBlock, Checkpoint, Ready
  <1>3. TypeOK'
    BY <1>1, <1>2 DEF IInv, TypeOK, task, Running
  <1>4. Good(db)' /\ UnsyncedInv' /\ chain' \in Chains
    BY <1>1, <1>2, SameChain DEF IInv, UnsyncedInv
  <1>5. BatchInv'
    BY <1>1, SameChain DEF IInv, BatchInv, OnSomeChain, task
  <1>6. CursorInv'
    <2>1. Len(batch) \in Nat /\ (Len(batch) = 0 <=> batch = << >>)
      BY EmptySeq DEF IInv, TypeOK
    <2>2. CASE GetTip
      <3>1. Buried(current)
        BY <2>2, ConfigAssumption, ChainsAssumption DEF GetTip, TipReady, Buried, IInv, TypeOK
      <3>2. QED
        BY <1>1, <2>2, <3>1, SameChain
           DEF IInv, CursorInv, GetTip, NextHeight, task, Ready, InTxn
    <2>3. CASE GetTipNone
      BY <1>1, <2>1, <2>3, ConfigAssumption
         DEF IInv, CursorInv, GetTipNone, NextHeight, task, Ready, InTxn
    <2>4. CASE RunLoop \/ WaitForNewBlock
      BY <1>1, <2>1, <2>4, ConfigAssumption
         DEF IInv, CursorInv, RunLoop, WaitForNewBlock, NextHeight, task, Ready, InTxn
    <2>5. CASE Checkpoint
      BY <1>1, <2>5, SameChain
         DEF IInv, CursorInv, Checkpoint, NextHeight, task, OnSomeChain
    <2>6. QED
      BY <2>2, <2>3, <2>4, <2>5
  <1>7. TxnInv'
    BY <1>1, <1>2, SameChain DEF IInv, TxnInv, task, Ready, InTxn
  <1>8. QED
    BY <1>3, <1>4, <1>5, <1>6, <1>7 DEF IInv

(* A start resumes after the last committed block, or anew from nothing.   *)
LEMMA StartStep ==
  ASSUME IInv, Restart \/ ResetStart
  PROVE  IInv'
  <1>1. EmptyDb \in Databases /\ Good(EmptyDb)
    BY DEF EmptyDb, Databases, Good, IsSegment
  <1>2. PICK d \in Databases : Good(d) /\ Start(d)
    BY <1>1 DEF Restart, ResetStart, IInv, TypeOK
  <1>3. /\ db' = d
        /\ pc = "off" /\ pc' = "loop"
        /\ current' = NextHeight(d)
        /\ shutdown' = FALSE
        /\ UNCHANGED <<chain, fetched, batch, txn, halt>>
    BY <1>2 DEF Start
  <1>4. (db' = db /\ unsynced' = unsynced) \/ unsynced' = {}
    BY DEF Restart, ResetStart, Start
  <1>5. TypeOK'
    <2>1. current' \in Nat
      BY <1>3, ConfigAssumption DEF NextHeight, Databases
    <2>2. QED
      BY <1>2, <1>3, <1>4, <2>1 DEF IInv, TypeOK, Running, Ready
  <1>6. Good(db)' /\ UnsyncedInv' /\ chain' \in Chains
    BY <1>2, <1>3, <1>4, SameChain DEF IInv, UnsyncedInv
  <1>7. batch = << >> /\ Len(batch) = 0
    BY <1>3 DEF IInv, CursorInv
  <1>8. BatchInv'
    BY <1>3, <1>7 DEF BatchInv
  <1>9. CursorInv' /\ TxnInv'
    <2>1. NextHeight(d) = NextHeight(d) + 0
      BY ConfigAssumption DEF NextHeight, Databases
    <2>2. NextHeight(db)' = NextHeight(d)
      BY <1>3 DEF NextHeight
    <2>3. QED
      BY <1>3, <1>7, <2>1, <2>2 DEF CursorInv, TxnInv, Ready, InTxn
  <1>10. QED
    BY <1>5, <1>6, <1>8, <1>9 DEF IInv

(* The hash fetched is that of a block buried under `confirmations`.       *)
LEMMA GetBlockHashStep ==
  ASSUME IInv, GetBlockHash
  PROVE  IInv'
  <1>1. /\ pc = "hash" /\ pc' = "block"
        /\ fetched' = chain[current]
        /\ UNCHANGED <<chain, current, batch, txn, db, unsynced, shutdown, halt>>
    BY DEF GetBlockHash
  <1>2. current \in 1..Len(chain)
    <2>1. current >= StartHeight
      BY <1>1, ConfigAssumption
         DEF IInv, TypeOK, CursorInv, NextHeight, Ready, Good, IsSegment, Databases, EmptyDb
    <2>2. QED
      BY <2>1, ConfigAssumption DEF IInv, TypeOK, GetBlockHash
  <1>3. TypeOK'
    BY <1>1, <1>2 DEF IInv, TypeOK, Running, Ready
  <1>4. Good(db)' /\ UnsyncedInv' /\ chain' \in Chains
    BY <1>1, SameChain DEF IInv, UnsyncedInv
  <1>5. BatchInv'
    BY <1>1, SameChain DEF IInv, BatchInv, OnSomeChain
  <1>6. CursorInv' /\ TxnInv'
    BY <1>1, <1>2, SameChain
       DEF IInv, CursorInv, TxnInv, OnSomeChain, NextHeight, Ready, InTxn
  <1>7. QED
    BY <1>3, <1>4, <1>5, <1>6 DEF IInv

(* The block joins the batch at the height it was asked for.               *)
LEMMA GetBlockStep ==
  ASSUME IInv, GetBlock
  PROVE  IInv'
  <1> DEFINE blk == [height |-> current, hash |-> fetched]
  <1>1. /\ pc = "block"
        /\ pc' = IF Len(batch) + 1 = BatchSize THEN "begin" ELSE "tip"
        /\ batch' = Append(batch, blk)
        /\ current' = current + 1
        /\ UNCHANGED <<chain, fetched, txn, db, unsynced, shutdown, halt>>
    BY DEF GetBlock
  <1>2. OnSomeChain(current, fetched) /\ Buried(current) /\ current \in Nat
    BY <1>1 DEF IInv, TypeOK, CursorInv
  <1>3. blk \in Collected
    BY <1>2, ChainsAssumption DEF OnSomeChain, Collected
  <1>4. /\ batch' \in Seq(Collected)
        /\ Len(batch') = Len(batch) + 1
        /\ Len(batch) \in Nat
        /\ \A i \in 1..Len(batch) : batch'[i] = batch[i]
        /\ batch'[Len(batch) + 1] = blk
    BY <1>1, <1>3 DEF IInv, TypeOK
  <1>5. TypeOK'
    BY <1>1, <1>2, <1>4 DEF IInv, TypeOK, Running, Ready
  <1>6. Good(db)' /\ UnsyncedInv' /\ chain' \in Chains
    BY <1>1, SameChain DEF IInv, UnsyncedInv
  <1>7. BatchInv'
    <2> SUFFICES ASSUME NEW i \in 1..Len(batch')
                 PROVE  /\ batch'[i].height + Len(batch') + 1 = current' + i
                        /\ OnSomeChain(batch'[i].height, batch'[i].hash)
                        /\ batch'[i].height + Confirmations <= Len(chain')
      BY DEF BatchInv, OnSomeChain, Buried
    <2>1. CASE i = Len(batch) + 1
      <3>1. batch'[i].height = current /\ batch'[i].hash = fetched
        BY <1>4, <2>1
      <3>2. QED
        BY <1>1, <1>2, <1>4, <2>1, <3>1 DEF Buried
    <2>2. CASE i \in 1..Len(batch)
      <3>1. batch'[i] = batch[i] /\ batch[i] \in Collected
        BY <1>4, <2>2 DEF IInv, TypeOK
      <3>2. /\ batch[i].height + Len(batch) + 1 = current + i
            /\ OnSomeChain(batch[i].height, batch[i].hash)
            /\ batch[i].height + Confirmations <= Len(chain)
        BY <2>2 DEF IInv, BatchInv, Buried
      <3>3. batch[i].height \in Nat
        BY <3>1 DEF Collected
      <3>4. QED
        BY <1>1, <1>2, <1>4, <2>2, <3>1, <3>2, <3>3
    <2>3. QED
      BY <1>4, <2>1, <2>2
  <1>8. CursorInv' /\ TxnInv'
    <2>1. Len(batch) < BatchSize /\ current = NextHeight(db) + Len(batch)
      BY <1>1 DEF IInv, CursorInv, Ready
    <2>2. NextHeight(db) \in Nat /\ NextHeight(db)' = NextHeight(db)
      BY <1>1, ConfigAssumption DEF IInv, TypeOK, NextHeight, Databases
    <2>3. QED
      BY <1>1, <1>4, <2>1, <2>2, ConfigAssumption DEF CursorInv, TxnInv, Ready, InTxn
  <1>9. QED
    BY <1>5, <1>6, <1>7, <1>8 DEF IInv

(* The open transaction begins as the committed database.                  *)
LEMMA BeginTxStep ==
  ASSUME IInv, BeginTx
  PROVE  IInv'
  <1>1. /\ pc = "begin" /\ pc' = "apply" /\ txn' = db
        /\ UNCHANGED <<chain, current, fetched, batch, db, unsynced, shutdown, halt>>
    BY DEF BeginTx
  <1>2. TypeOK'
    BY <1>1 DEF IInv, TypeOK, Running, InTxn
  <1>3. Good(db)' /\ Good(txn)' /\ UnsyncedInv' /\ chain' \in Chains
    BY <1>1, SameChain DEF IInv, UnsyncedInv
  <1>4. BatchInv'
    BY <1>1, SameChain DEF IInv, BatchInv, OnSomeChain
  <1>5. /\ Len(batch) \in 1..BatchSize
        /\ current = NextHeight(db) + Len(batch)
    BY <1>1 DEF IInv, CursorInv, Ready
  <1>6. CursorInv'
    BY <1>1, <1>5 DEF CursorInv, NextHeight, Ready, InTxn
  <1>7. TxnInv'
    <2>1. Len(db.log) \in Nat
      BY DEF IInv, TypeOK, Databases
    <2>2. Len(txn'.log) + Len(batch') \in Len(db'.log) + 1 .. Len(db'.log) + BatchSize
      BY <1>1, <1>5, <2>1, ConfigAssumption
    <2>3. Log!Prefix(db.log, txn.log)'
      BY <1>1, <2>1 DEF Log!Prefix
    <2>4. QED
      BY <1>3, <2>2, <2>3 DEF TxnInv
  <1>8. QED
    BY <1>2, <1>3, <1>4, <1>6, <1>7 DEF IInv

(* What is committed was good while the transaction was open.              *)
LEMMA CommitStep ==
  ASSUME IInv, Commit
  PROVE  IInv'
  <1>1. /\ pc = "commit" /\ pc' = "loop"
        /\ db' = txn /\ txn' = EmptyDb /\ unsynced' = unsynced \cup {db}
        /\ UNCHANGED <<chain, current, fetched, batch, shutdown, halt>>
    BY DEF Commit
  <1>2. /\ Good(txn) /\ Log!Prefix(db.log, txn.log)
        /\ batch = << >> /\ current = NextHeight(txn) + Len(batch)
    BY <1>1 DEF IInv, TxnInv, CursorInv, InTxn
  <1>3. TypeOK'
    <2>1. EmptyDb \in Databases
      BY DEF EmptyDb, Databases
    <2>2. QED
      BY <1>1, <2>1 DEF IInv, TypeOK, Running, Ready
  <1>4. Good(db)' /\ chain' \in Chains
    BY <1>1, <1>2, SameChain DEF IInv
  <1>5. UnsyncedInv'
    <2> SUFFICES ASSUME NEW d \in unsynced \cup {db}
                 PROVE  Good(d)' /\ Log!Prefix(d.log, txn.log)
      BY <1>1 DEF UnsyncedInv, Log!Prefix
    <2>1. d \in Databases /\ db \in Databases /\ txn \in Databases
      BY DEF IInv, TypeOK
    <2>2. Good(d)'
      BY <1>1, SameChain DEF IInv, UnsyncedInv
    <2>3. d = db \/ Log!Prefix(d.log, db.log)
      BY DEF IInv, UnsyncedInv
    <2>4. /\ Len(d.log) \in Nat /\ Len(db.log) \in Nat /\ Len(txn.log) \in Nat
      BY <2>1 DEF Databases
    <2>5. QED
      BY <1>2, <2>2, <2>3, <2>4 DEF Log!Prefix
  <1>6. BatchInv' /\ TxnInv'
    BY <1>1, <1>2 DEF BatchInv, TxnInv, InTxn
  <1>7. CursorInv'
    BY <1>1, <1>2 DEF CursorInv, NextHeight, Ready, InTxn
  <1>8. QED
    BY <1>3, <1>4, <1>5, <1>6, <1>7 DEF IInv

(* Where the parent check earns its place: a segment of one chain, followed *)
(* by a block of perhaps another chain whose parent is the segment's last   *)
(* block, is a segment of that other chain.                                 *)
LEMMA ExtendSegment ==
  ASSUME NEW d \in Databases, IsSegment(d),
         NEW blk \in Collected,
         OnSomeChain(blk.height, blk.hash),
         blk.height = NextHeight(d),
         Contiguous(d, blk)
  PROVE  IsSegment(ParseBlock(d, blk))
  <1> DEFINE t == ParseBlock(d, blk)
  <1> USE ConfigAssumption
  <1>1. PICK c \in Chains : blk.height \in 1..Len(c) /\ c[blk.height] = blk.hash
    BY DEF OnSomeChain
  <1>2. /\ t.height = blk.height /\ t.hash = blk.hash /\ t.log = Append(d.log, blk.hash)
        /\ blk.height \in Nat /\ blk.hash \in Blocks
        /\ d.log \in Seq(Blocks) /\ d.height \in Nat /\ Len(c) \in Nat
    BY ChainsAssumption DEF ParseBlock, Collected, Databases
  <1>3. /\ Len(t.log) = Len(d.log) + 1
        /\ Len(d.log) \in Nat
        /\ \A i \in 1..Len(d.log) : t.log[i] = d.log[i]
        /\ t.log[Len(d.log) + 1] = blk.hash
    BY <1>2
  <1>4. SUFFICES /\ t.height \in StartHeight..Len(c)
                 /\ t.hash = c[t.height]
                 /\ Len(t.log) = t.height + 1 - StartHeight
                 /\ Log!SegmentOf(t.log, c)
    BY <1>1 DEF IsSegment
  <1>5. CASE d.hash = NoBlock
    <2>1. d = EmptyDb
      BY <1>5, ChainsAssumption DEF IsSegment
    <2>2. blk.height = StartHeight /\ Len(d.log) = 0
      BY <1>5, <2>1 DEF NextHeight, EmptyDb
    <2>3. QED
      BY <1>1, <1>2, <1>3, <2>2 DEF Log!SegmentOf
  <1>6. CASE d.hash # NoBlock
    <2>1. PICK e \in Chains : /\ d.height \in StartHeight..Len(e)
                              /\ d.hash = e[d.height]
                              /\ Len(d.log) = d.height + 1 - StartHeight
                              /\ Log!SegmentOf(d.log, e)
      BY <1>6 DEF IsSegment, EmptyDb
    <2>2. blk.height = d.height + 1 /\ Parent[blk.hash] = d.hash
      BY <1>6 DEF Contiguous, NextHeight
    <2>3. c[d.height] = e[d.height]
      <3>1. blk.height \in 2..Len(c) /\ blk.height - 1 = d.height
        BY <1>1, <1>2, <2>1, <2>2
      <3>2. Parent[c[blk.height]] = c[blk.height - 1]
        BY <3>1, ChainsAssumption
      <3>3. QED
        BY <1>1, <2>1, <2>2, <3>1, <3>2
    <2>4. \A i \in 1..d.height : c[i] = e[i]
      <3>1. Len(e) \in Nat
        BY ChainsAssumption
      <3>2. d.height \in 1..Len(c) /\ d.height <= Len(e)
        BY <1>1, <1>2, <2>1, <2>2, <3>1
      <3>3. QED
        BY <2>3, <3>2, ChainsAssumption
    <2>5. \A i \in 1..Len(d.log) : d.log[i] = c[StartHeight + i - 1]
      <3> SUFFICES ASSUME NEW i \in 1..Len(d.log)
                   PROVE  d.log[i] = c[StartHeight + i - 1]
        OBVIOUS
      <3>1. StartHeight + i - 1 \in 1..d.height
        BY <1>2, <1>3, <2>1
      <3>2. d.log[i] = e[StartHeight + i - 1]
        BY <2>1 DEF Log!SegmentOf
      <3>3. QED
        BY <2>4, <3>1, <3>2
    <2>6. Log!SegmentOf(t.log, c)
      <3>1. StartHeight + Len(t.log) <= Len(c) + 1
        <4>1. ASSUME NEW s \in Nat, NEW l \in Nat, NEW k \in Nat, NEW h \in Nat, NEW n \in Nat,
                     k = l + 1, l = h + 1 - s, h + 1 <= n
              PROVE  s + k <= n + 1
          BY <4>1
        <4>2. Len(t.log) = Len(d.log) + 1 /\ Len(d.log) \in Nat /\ Len(t.log) \in Nat
          BY <1>3
        <4>3. Len(d.log) = d.height + 1 - StartHeight /\ d.height \in Nat /\ Len(c) \in Nat
          BY <1>2, <2>1
        <4>4. d.height + 1 <= Len(c)
          BY <1>1, <1>2, <2>2
        <4> HIDE DEF t
        <4>5. QED
          BY <4>1, <4>2, <4>3, <4>4
      <3>2. ASSUME NEW i \in 1..Len(t.log)
            PROVE  t.log[i] = c[StartHeight + i - 1]
        <4>1. CASE i = Len(d.log) + 1
          <5>1. StartHeight + i - 1 = blk.height
            BY <1>2, <1>3, <2>1, <2>2, <4>1
          <5>2. QED
            BY <1>1, <1>3, <4>1, <5>1
        <4>2. CASE i \in 1..Len(d.log)
          BY <1>3, <2>5, <4>2
        <4>3. QED
          BY <1>3, <4>1, <4>2
      <3>3. QED
        BY <3>1, <3>2 DEF Log!SegmentOf
    <2>7. QED
      BY <1>1, <1>2, <1>3, <2>1, <2>2, <2>6
  <1>7. QED
    BY <1>5, <1>6

(* One more block of the batch, applied to the open transaction.           *)
LEMMA ProcessBlockStep ==
  ASSUME IInv, ProcessBlock
  PROVE  IInv'
  <1>0. PICK blk : blk = Head(batch)
    OBVIOUS
  <1>1. /\ pc = "apply"
        /\ Contiguous(txn, blk)
        /\ txn' = ParseBlock(txn, blk)
        /\ batch' = Tail(batch)
        /\ pc' = IF Tail(batch) = << >> THEN "commit" ELSE "apply"
        /\ UNCHANGED <<chain, current, fetched, db, unsynced, shutdown, halt>>
    BY <1>0 DEF ProcessBlock
  <1>2. /\ batch \in Seq(Collected) /\ txn \in Databases /\ db \in Databases
        /\ Len(batch) \in 1..BatchSize
        /\ current = NextHeight(txn) + Len(batch)
        /\ current \in Nat /\ NextHeight(txn) \in Nat /\ BatchSize \in Nat
    BY <1>1, ConfigAssumption
       DEF IInv, TypeOK, CursorInv, InTxn, NextHeight, Databases
  <1>3. batch # << >>
    BY <1>2
  <1>4. /\ blk = batch[1] /\ blk \in Collected
        /\ batch' \in Seq(Collected)
        /\ Len(batch') = Len(batch) - 1
        /\ \A i \in 1..Len(batch') : batch'[i] = batch[i + 1]
    BY <1>0, <1>1, <1>2, <1>3
  <1>5. /\ blk.height = NextHeight(txn)
        /\ OnSomeChain(blk.height, blk.hash)
        /\ Buried(blk.height)
    <2>1. 1 \in 1..Len(batch)
      BY <1>2
    <2>2. /\ batch[1].height + Len(batch) + 1 = current + 1
          /\ OnSomeChain(batch[1].height, batch[1].hash)
          /\ Buried(batch[1].height)
      BY <2>1 DEF IInv, BatchInv
    <2>3. blk.height \in Nat
      BY <1>4 DEF Collected
    <2>4. blk.height = NextHeight(txn)
      BY <1>2, <1>4, <2>2, <2>3
    <2>5. QED
      BY <1>4, <2>2, <2>4
  <1>6. /\ txn'.height = blk.height /\ txn'.hash = blk.hash
        /\ txn'.log = Append(txn.log, blk.hash)
        /\ txn' \in Databases
        /\ txn'.hash # NoBlock
    <2>1. txn' = [height |-> blk.height, hash |-> blk.hash, log |-> Append(txn.log, blk.hash)]
      BY <1>1 DEF ParseBlock
    <2>2. blk.height \in Nat /\ blk.hash \in Blocks /\ txn.log \in Seq(Blocks)
      BY <1>2, <1>4 DEF Databases, Collected
    <2>3. Append(txn.log, blk.hash) \in Seq(Blocks)
      BY <2>2
    <2>4. blk.hash # NoBlock
      BY <2>2, ChainsAssumption
    <2>5. txn' \in Databases
      BY <2>1, <2>2, <2>3 DEF Databases
    <2>6. QED
      BY <2>1, <2>4, <2>5
  <1>7. TypeOK'
    BY <1>1, <1>4, <1>6 DEF IInv, TypeOK, Running, InTxn
  <1>8. Good(db)' /\ UnsyncedInv' /\ chain' \in Chains
    BY <1>1, SameChain DEF IInv, UnsyncedInv
  <1>9. BatchInv'
    <2> SUFFICES ASSUME NEW i \in 1..Len(batch')
                 PROVE  /\ batch'[i].height + Len(batch') + 1 = current' + i
                        /\ OnSomeChain(batch'[i].height, batch'[i].hash)
                        /\ batch'[i].height + Confirmations <= Len(chain')
      BY DEF BatchInv, OnSomeChain, Buried
    <2>1. i + 1 \in 1..Len(batch) /\ i \in Nat
      BY <1>2, <1>4
    <2>2. batch'[i] = batch[i + 1] /\ batch[i + 1] \in Collected
      BY <1>2, <1>4, <2>1
    <2>3. /\ batch[i + 1].height + Len(batch) + 1 = current + (i + 1)
          /\ OnSomeChain(batch[i + 1].height, batch[i + 1].hash)
          /\ batch[i + 1].height + Confirmations <= Len(chain)
      BY <2>1 DEF IInv, BatchInv, Buried
    <2>4. batch[i + 1].height \in Nat
      BY <2>2 DEF Collected
    <2>5. batch[i + 1].height + Len(batch') + 1 = current + i
      <3>1. ASSUME NEW h \in Nat, NEW n \in Nat, NEW m \in Int, NEW k \in Nat,
                   h + n + 1 = k + (i + 1), m = n - 1
            PROVE  h + m + 1 = k + i
        BY <2>1, <3>1
      <3>2. Len(batch) \in Nat /\ current \in Nat /\ Len(batch') = Len(batch) - 1
        BY <1>2, <1>4
      <3>3. batch[i + 1].height + Len(batch) + 1 = current + (i + 1)
        BY <2>3
      <3>4. Len(batch') \in Int
        BY <3>2
      <3>5. QED
        BY <2>4, <3>1, <3>2, <3>3, <3>4
    <2>6. QED
      BY <1>1, <2>2, <2>3, <2>5
  <1>10. CursorInv'
    <2>1. NextHeight(txn)' = blk.height + 1
      BY <1>6 DEF NextHeight
    <2>2. current' = NextHeight(txn)' + Len(batch')
      BY <1>1, <1>2, <1>4, <1>5, <2>1
    <2>3. Len(batch') \in Nat /\ (batch' # << >> => Len(batch') \in 1..BatchSize)
      BY <1>2, <1>4
    <2>4. QED
      BY <1>1, <2>2, <2>3 DEF CursorInv, Ready, InTxn
  <1>11. TxnInv'
    <2>1. /\ Good(txn) /\ Log!Prefix(db.log, txn.log)
          /\ Len(txn.log) + Len(batch) \in Len(db.log) + 1 .. Len(db.log) + BatchSize
          /\ txn.log \in Seq(Blocks) /\ Len(txn.log) \in Nat /\ Len(db.log) \in Nat
      BY <1>1, <1>2 DEF IInv, TxnInv, InTxn, Databases
    <2>2. Good(txn)'
      <3>1. IsSegment(ParseBlock(txn, blk))
        BY <1>1, <1>2, <1>4, <1>5, <2>1, ExtendSegment DEF Good
      <3>2. Buried(blk.height)'
        BY <1>1, <1>5, SameChain
      <3>3. IsSegment(txn)'
        BY <1>1, <3>1 DEF IsSegment, Log!SegmentOf
      <3>4. Buried(txn.height)'
        BY <1>6, <3>2 DEF Buried
      <3>5. QED
        BY <3>3, <3>4 DEF Good
    <2>3. /\ Len(txn'.log) = Len(txn.log) + 1
          /\ \A i \in 1..Len(txn.log) : txn'.log[i] = txn.log[i]
      BY <1>4, <1>6, <2>1 DEF Collected
    <2>4. Log!Prefix(db.log, txn.log)'
      BY <1>1, <2>1, <2>3 DEF Log!Prefix
    <2>5. Len(txn'.log) + Len(batch') = Len(txn.log) + Len(batch)
      BY <1>2, <1>4, <2>1, <2>3
    <2>6. QED
      BY <1>1, <2>1, <2>2, <2>4, <2>5 DEF TxnInv
  <1>12. QED
    BY <1>7, <1>8, <1>9, <1>10, <1>11 DEF IInv

-----------------------------------------------------------------------------

(* Every step of the daemon, the node and the faults keeps the invariant.  *)
THEOREM IndexerInvariant == Spec => []IInv
  <1>1. ASSUME IInv, [Next]_vars PROVE IInv'
    <2>1. CASE Node
      BY <1>1, <2>1, NodeStep
    <2>2. CASE Fault \/ Stop \/ ReorgDetected \/ ParseError
      BY <1>1, <2>2, FaultStep
    <2>3. CASE RunLoop \/ GetTip \/ GetTipNone \/ WaitForNewBlock \/ Checkpoint
      BY <1>1, <2>3, QuietStep
    <2>4. CASE Restart \/ ResetStart
      BY <1>1, <2>4, StartStep
    <2>5. CASE GetBlockHash
      BY <1>1, <2>5, GetBlockHashStep
    <2>6. CASE GetBlock
      BY <1>1, <2>6, GetBlockStep
    <2>7. CASE BeginTx
      BY <1>1, <2>7, BeginTxStep
    <2>8. CASE ProcessBlock
      BY <1>1, <2>8, ProcessBlockStep
    <2>9. CASE Commit
      BY <1>1, <2>9, CommitStep
    <2>10. CASE UNCHANGED vars
      <3>1. UNCHANGED <<chain, pc, current, fetched, batch, txn, db, unsynced, shutdown, halt>>
        BY <2>10 DEF vars, task
      <3>2. TypeOK' /\ chain' \in Chains
        BY <1>1, <3>1 DEF IInv, TypeOK
      <3>3. Good(db)' /\ UnsyncedInv'
        BY <1>1, <3>1, SameChain DEF IInv, UnsyncedInv
      <3>4. BatchInv' /\ CursorInv' /\ TxnInv'
        BY <1>1, <3>1, SameChain
           DEF IInv, BatchInv, CursorInv, TxnInv, OnSomeChain, NextHeight
      <3>5. QED
        BY <3>2, <3>3, <3>4 DEF IInv
    <2>11. QED
      BY <1>1, <2>1, <2>2, <2>3, <2>4, <2>5, <2>6, <2>7, <2>8, <2>9, <2>10
         DEF Next, Task
  <1>2. QED
    BY InitInv, <1>1, PTL DEF Spec

(* Type correctness of the indexing task.                                  *)
THEOREM IndexerTypeCorrect == Spec => []TypeOK
  BY IndexerInvariant, PTL DEF IInv

(* The committed tables always hold one contiguous segment of one chain,   *)
(* whatever reorganisations, errors, crashes and restarts occurred.        *)
THEOREM NeverMixesBranches == Spec => []IndexIsChainSegment
  <1>1. IInv => IndexIsChainSegment
    BY DEF IInv, Good, IndexIsChainSegment
  <1>2. QED
    BY IndexerInvariant, <1>1, PTL

(* No block is indexed with fewer than `confirmations` blocks above it.    *)
THEOREM OnlyConfirmedBlocks == Spec => []IndexedIsBuried
  <1>1. IInv => IndexedIsBuried
    BY DEF IInv, Good, Buried, IndexedIsBuried
  <1>2. QED
    BY IndexerInvariant, <1>1, PTL

(* The committed index changes only as IndexLog lets it: by whole batches  *)
(* that extend a segment, by a fall back, by a reset.                      *)
THEOREM RefinesIndexLog == Spec => ImplementsIndexLog
  <1>1. Init => Log!Init
    BY DEF Init, Log!Init, EmptyDb
  <1>2. ASSUME IInv, IInv', [Next]_vars PROVE [Log!Next]_(db.log)
    <2>1. CASE Commit
      <3>1. pc = "commit" /\ db' = txn
        BY <2>1 DEF Commit
      <3>2. /\ batch = << >> /\ Good(txn) /\ Log!Prefix(db.log, txn.log)
            /\ Len(txn.log) + Len(batch) \in Len(db.log) + 1 .. Len(db.log) + BatchSize
        BY <1>2, <3>1 DEF IInv, CursorInv, TxnInv, InTxn
      <3>3. txn.log \in Seq(Blocks) /\ Len(txn.log) \in Nat
        BY <1>2 DEF IInv, TypeOK, Databases
      <3>4. Log!Segment(txn.log)
        <4>1. Len(txn.log) # 0
          <5>1. Len(db.log) \in Nat /\ Len(batch) = 0
            BY <1>2, <3>2 DEF IInv, TypeOK, Databases
          <5>2. QED
            BY <3>2, <3>3, <5>1, ConfigAssumption
        <4>2. txn # EmptyDb
          BY <4>1 DEF EmptyDb
        <4>3. QED
          BY <3>2, <4>2 DEF Good, IsSegment, Log!Segment
      <3>5. Len(txn.log) \in Len(db.log) + 1 .. Len(db.log) + BatchSize
        BY <3>2, <3>3
      <3>6. Log!Extend
        BY <3>1, <3>2, <3>3, <3>4, <3>5 DEF Log!Extend
      <3>7. QED
        BY <3>6 DEF Log!Next
    <2>2. CASE PowerLoss
      <3>1. PICK d \in unsynced \cup {db} : db' = d
        BY <2>2 DEF PowerLoss
      <3>2. d \in Databases /\ Len(d.log) \in Nat
        BY <1>2 DEF IInv, TypeOK, Databases
      <3>3. d.log \in Seq(Blocks)
        BY <3>2 DEF Databases
      <3>4. Log!Prefix(d.log, db.log)
        BY <1>2, <3>2 DEF IInv, UnsyncedInv, Log!Prefix
      <3>5. QED
        BY <3>1, <3>3, <3>4 DEF Log!FallBack, Log!Next
    <2>3. CASE ResetStart
      BY <2>3 DEF ResetStart, Start, EmptyDb, Log!Reset, Log!Next
    <2>4. CASE Node \/ Restart \/ Checkpoint \/ UNCHANGED vars
      BY <2>4 DEF Node, Mine, Reorg, Restart, Start, Checkpoint, vars
    <2>5. CASE RpcError \/ StorageError \/ CtrlC \/ Crash
      BY <2>5 DEF RpcError, StorageError, CtrlC, Crash
    <2>6. CASE Task /\ ~Commit
      BY <2>6 DEF Task, RunLoop, Stop, GetTip, GetTipNone, WaitForNewBlock,
        GetBlockHash, GetBlock, BeginTx, ProcessBlock, ReorgDetected, ParseError
    <2>7. QED
      BY <1>2, <2>1, <2>2, <2>3, <2>4, <2>5, <2>6 DEF Next, Fault
  <1>3. QED
    BY IndexerInvariant, <1>1, <1>2, PTL DEF Spec, ImplementsIndexLog, Log!Spec

-----------------------------------------------------------------------------
(* Reorganisations no deeper than `confirmations`.                          *)

(* The node keeps every block that is buried.                              *)
Shallow == \A h \in 1..Len(chain) : Buried(h) => chain'[h] = chain[h]

(* b is the block of chain c at height h, and buried there.                *)
Settled(c, h, b) == h \in 1..Len(c) /\ h + Confirmations <= Len(c) /\ c[h] = b

SettledDb(c, d) == d.hash # NoBlock => Settled(c, d.height, d.hash)

(* Whatever the task holds, and may fall back to, is still on the chain.   *)
OnNodesChain ==
  /\ SettledDb(chain, db)
  /\ \A d \in unsynced : SettledDb(chain, d)
  /\ pc \in InTxn => SettledDb(chain, txn)
  /\ pc = "block" => Settled(chain, current, fetched)
  /\ \A i \in 1..Len(batch) : Settled(chain, batch[i].height, batch[i].hash)

SettledInv == IInv /\ OnNodesChain /\ NoFalseReorg

(* What is settled stays so, since the node only replaces its chain by a   *)
(* longer one.                                                             *)
LEMMA SettledStays ==
  ASSUME IInv, [Next]_vars, [Shallow]_chain
  PROVE  \A h, b : Settled(chain, h, b) => Settled(chain', h, b)
  <1>1. Len(chain) \in Nat
    BY DEF IInv, TypeOK
  <1>2. CASE UNCHANGED chain
    BY <1>2 DEF Settled, Buried
  <1>3. CASE chain' # chain
    <2>1. Len(chain') \in Nat /\ Len(chain') > Len(chain)
      <3>1. Node
        BY <1>3 DEF Next, Task, RunLoop, Stop, GetTip, GetTipNone, WaitForNewBlock,
             GetBlockHash, GetBlock, BeginTx, ProcessBlock, ReorgDetected, ParseError, Commit, End,
             Restart, ResetStart, Start, Fault, RpcError, StorageError, CtrlC, Crash, PowerLoss, Checkpoint, vars
      <3>2. QED
        BY <3>1, <1>1, ChainsAssumption DEF Node, Mine, Reorg, IInv
    <2>2. Shallow
      BY <1>3
    <2>3. QED
      BY <1>1, <2>1, <2>2, ConfigAssumption DEF Settled, Buried, Shallow
  <1>4. QED
    BY <1>2, <1>3

(* The next block of the batch is the child of the last indexed one, both  *)
(* being on one chain: no reorganisation is seen.                          *)
LEMMA NeighboursFit ==
  ASSUME SettledInv, pc = "apply"
  PROVE  Contiguous(txn, Head(batch))
  <1> USE ConfigAssumption
  <1> SUFFICES ASSUME txn.hash # NoBlock
               PROVE  Contiguous(txn, Head(batch))
    BY DEF Contiguous
  <1>1. /\ batch \in Seq(Collected) /\ txn \in Databases /\ current \in Nat
        /\ Len(batch) \in 1..BatchSize /\ current = NextHeight(txn) + Len(batch)
    BY DEF SettledInv, IInv, TypeOK, CursorInv, InTxn
  <1>2. PICK blk \in Collected : blk = Head(batch) /\ blk = batch[1]
    BY <1>1
  <1>3. 1 \in 1..Len(batch)
    BY <1>1
  <1>4. Settled(chain, batch[1].height, batch[1].hash) /\ Settled(chain, txn.height, txn.hash)
    BY <1>3 DEF SettledInv, OnNodesChain, SettledDb, InTxn
  <1>5. batch[1].height + Len(batch) + 1 = current + 1
    BY <1>3 DEF SettledInv, IInv, BatchInv
  <1>6. blk.height = txn.height + 1
    <2>1. blk.height \in Nat /\ txn.height \in Nat /\ Len(batch) \in Nat
      BY <1>1 DEF Collected, Databases
    <2>2. current = txn.height + 1 + Len(batch)
      BY <1>1 DEF NextHeight
    <2>3. blk.height + Len(batch) + 1 = current + 1
      BY <1>2, <1>5
    <2>4. QED
      BY <2>1, <2>2, <2>3
  <1>7. Parent[blk.hash] = txn.hash
    <2>1. chain[blk.height] = blk.hash /\ chain[txn.height] = txn.hash
          /\ blk.height \in 1..Len(chain) /\ txn.height \in 1..Len(chain)
      BY <1>2, <1>4 DEF Settled
    <2>2. blk.height \in 2..Len(chain) /\ blk.height - 1 = txn.height /\ chain \in Chains
      BY <1>6, <2>1 DEF SettledInv, IInv
    <2>3. QED
      BY <2>1, <2>2, ChainsAssumption
  <1>8. QED
    BY <1>2, <1>6, <1>7 DEF Contiguous

(* What each step leaves in the task's hands was settled before it.        *)
LEMMA SettledStep ==
  ASSUME SettledInv, [Next]_vars, [Shallow]_chain
  PROVE  OnNodesChain' /\ NoFalseReorg'
  <1>1. \A h, b : Settled(chain, h, b) => Settled(chain', h, b)
    BY SettledStays DEF SettledInv
  <1>2. \A d : SettledDb(chain, d) => SettledDb(chain', d)
    BY <1>1 DEF SettledDb
  <1>3. CASE Node \/ Checkpoint \/ CtrlC \/ RunLoop \/ GetTip \/ GetTipNone \/ WaitForNewBlock \/ UNCHANGED vars
    <2>1. /\ UNCHANGED <<task, db, halt>>
          /\ unsynced' \subseteq unsynced
          /\ pc' = pc \/ pc' \notin InTxn \cup {"block"}
      BY <1>3 DEF Node, Mine, Reorg, Checkpoint, CtrlC, RunLoop, GetTip, GetTipNone,
         WaitForNewBlock, InTxn, vars, task
    <2>2. QED
      BY <1>1, <1>2, <2>1 DEF SettledInv, OnNodesChain, NoFalseReorg, task, InTxn
  <1>4. CASE Restart \/ ResetStart
    <2>1. /\ SettledDb(chain', EmptyDb)
          /\ db' \in {db, EmptyDb} /\ unsynced' \subseteq unsynced
          /\ batch' = batch /\ halt' = halt /\ pc' = "loop"
      BY <1>4 DEF Restart, ResetStart, Start, SettledDb, EmptyDb
    <2>2. QED
      BY <1>1, <1>2, <2>1 DEF SettledInv, OnNodesChain, NoFalseReorg, InTxn
  <1>5. CASE Stop \/ ParseError \/ RpcError \/ StorageError \/ Crash \/ PowerLoss
    <2>1. /\ pc' = "off" /\ batch' = << >> /\ Len(batch') = 0
          /\ halt' \in {"stopped", "parse", "rpc", "storage", "crash"}
      BY <1>5 DEF Stop, ParseError, RpcError, StorageError, Crash, PowerLoss, End
    <2>2. db' \in unsynced \cup {db} /\ unsynced' \subseteq unsynced
      BY <1>5 DEF Stop, ParseError, RpcError, StorageError, Crash, PowerLoss
    <2>3. QED
      BY <1>2, <2>1, <2>2 DEF SettledInv, OnNodesChain, NoFalseReorg, InTxn
  <1>6. CASE ReorgDetected
    BY <1>6, NeighboursFit DEF ReorgDetected
  <1>7. CASE GetBlockHash
    <2>1. /\ pc = "hash" /\ pc' = "block" /\ fetched' = chain[current]
          /\ UNCHANGED <<chain, current, batch, db, unsynced, halt>>
          /\ current <= Len(chain) /\ Len(chain) \in Nat /\ current \in Nat /\ Buried(current)
      BY <1>7 DEF GetBlockHash, SettledInv, IInv, TypeOK, CursorInv
    <2>2. current >= 1
      BY <2>1, ConfigAssumption
         DEF SettledInv, IInv, TypeOK, CursorInv, NextHeight, Ready, Databases, Good, IsSegment, EmptyDb
    <2>3. Settled(chain, current, fetched')
      BY <2>1, <2>2 DEF Settled, Buried
    <2>4. Settled(chain', current', fetched')
      BY <2>1, <2>3 DEF Settled
    <2>5. QED
      BY <1>1, <1>2, <2>1, <2>4 DEF SettledInv, OnNodesChain, NoFalseReorg, InTxn
  <1>8. CASE GetBlock
    <2> DEFINE blk == [height |-> current, hash |-> fetched]
    <2>1. /\ pc = "block" /\ pc' \in {"begin", "tip"} /\ batch' = Append(batch, blk)
          /\ UNCHANGED <<chain, db, unsynced, halt>>
      BY <1>8 DEF GetBlock
    <2>2. Settled(chain, blk.height, blk.hash)
      BY <2>1 DEF SettledInv, OnNodesChain
    <2>3. ASSUME NEW i \in 1..Len(batch')
          PROVE  batch'[i] = blk \/ \E j \in 1..Len(batch) : batch'[i] = batch[j]
      <3>1. /\ Len(batch') = Len(batch) + 1 /\ Len(batch) \in Nat
            /\ \A j \in 1..Len(batch) : batch'[j] = batch[j]
            /\ batch'[Len(batch) + 1] = blk
        BY <2>1 DEF SettledInv, IInv, TypeOK
      <3> HIDE DEF blk
      <3>2. i = Len(batch) + 1 \/ i \in 1..Len(batch)
        BY <3>1
      <3>3. QED
        BY <3>1, <3>2
    <2>4. \A i \in 1..Len(batch') : Settled(chain', batch'[i].height, batch'[i].hash)
      <3> HIDE DEF blk
      <3>1. QED
        BY <1>1, <2>2, <2>3 DEF SettledInv, OnNodesChain
    <2>5. QED
      BY <1>2, <2>1, <2>4 DEF SettledInv, OnNodesChain, NoFalseReorg, InTxn
  <1>9. CASE BeginTx
    BY <1>1, <1>2, <1>9 DEF BeginTx, SettledInv, OnNodesChain, NoFalseReorg, InTxn
  <1>10. CASE ProcessBlock
    <2>1. /\ pc = "apply" /\ pc' \in InTxn /\ batch' = Tail(batch)
          /\ txn' = ParseBlock(txn, Head(batch))
          /\ UNCHANGED <<chain, db, unsynced, halt>>
      BY <1>10 DEF ProcessBlock, InTxn
    <2>2. Len(batch) \in 1..BatchSize /\ batch \in Seq(Collected)
      BY <2>1 DEF SettledInv, IInv, TypeOK, CursorInv
    <2>3. Head(batch) = batch[1] /\ 1 \in 1..Len(batch)
      BY <2>2, ConfigAssumption
    <2>4. SettledDb(chain', txn')
      <3>1. txn'.height = batch[1].height /\ txn'.hash = batch[1].hash
        BY <2>1, <2>3 DEF ParseBlock
      <3>2. Settled(chain, txn'.height, txn'.hash)
        BY <2>3, <3>1 DEF SettledInv, OnNodesChain
      <3>3. Settled(chain', txn'.height, txn'.hash)
        BY <2>1, <3>2 DEF Settled
      <3>4. QED
        BY <3>3 DEF SettledDb
    <2>5. ASSUME NEW i \in 1..Len(batch')
          PROVE  \E j \in 1..Len(batch) : batch'[i] = batch[j]
      <3>1. Len(batch') = Len(batch) - 1 /\ batch'[i] = batch[i + 1] /\ Len(batch) \in Nat
        BY <2>1, <2>2, ConfigAssumption
      <3>2. i + 1 \in 1..Len(batch)
        BY <3>1
      <3>3. QED
        BY <3>1, <3>2
    <2>6. \A i \in 1..Len(batch') : Settled(chain', batch'[i].height, batch'[i].hash)
      BY <1>1, <2>5 DEF SettledInv, OnNodesChain
    <2>7. QED
      BY <1>2, <2>1, <2>4, <2>6 DEF SettledInv, OnNodesChain, NoFalseReorg, InTxn
  <1>11. CASE Commit
    <2>1. /\ pc = "commit" /\ pc' = "loop" /\ db' = txn /\ unsynced' = unsynced \cup {db}
          /\ UNCHANGED <<batch, halt>>
      BY <1>11 DEF Commit
    <2>2. QED
      BY <1>1, <1>2, <2>1 DEF SettledInv, OnNodesChain, NoFalseReorg, InTxn
  <1>12. QED
    BY <1>3, <1>4, <1>5, <1>6, <1>7, <1>8, <1>9, <1>10, <1>11 DEF Next, Task, Fault

(* As long as the node keeps what has its confirmations, the task never     *)
(* ends with "reorg detected" (Core::step, ensure_contiguous_chain): the    *)
(* reorganisations that fall between get_block_count, get_block_hash and    *)
(* get_block, or while it is off, leave what it holds on the chain.         *)
THEOREM ShallowReorgsPass == Spec /\ [][Shallow]_chain => []NoFalseReorg
  <1>1. Init => OnNodesChain /\ NoFalseReorg
    BY DEF Init, OnNodesChain, SettledDb, EmptyDb, NoFalseReorg, InTxn
  <1>2. ASSUME SettledInv, IInv', [Next]_vars, [Shallow]_chain
        PROVE  SettledInv'
    BY <1>2, SettledStep DEF SettledInv
  <1>3. SettledInv => NoFalseReorg
    BY DEF SettledInv
  <1>4. Init /\ IInv => SettledInv
    BY <1>1 DEF SettledInv
  <1>5. QED
    BY IndexerInvariant, <1>2, <1>3, <1>4, PTL DEF Spec
=============================================================================
