-------------------------------- MODULE Wallet --------------------------------
(***************************************************************************)
(* The `tx` commands (commands/tx.rs) on the Bitcoin Core wallet they share *)
(* (wallet/brc721_wallet.rs, wallet/remote_wallet.rs).                      *)
(*                                                                          *)
(* Each command is a process of its own and one step is one RPC or one      *)
(* reading of the index.  It keeps Core from funding its transaction with   *)
(* coins that carry tokens by locking them for the length of one RPC; Core  *)
(* keeps the locks in memory and takes them from anyone.  The tables follow *)
(* the transactions at some distance.                                       *)
(*                                                                          *)
(* An accepted transaction is a block of module Ledger; dbs[h] are its      *)
(* tables after block h and the index answers from dbs[indexed].  Block 0   *)
(* is a data directory without brc721.sqlite.                               *)
(***************************************************************************)
EXTENDS Mix, FiniteSets

CONSTANTS
  Procs,        \* processes of the command line tool, each running a command
  Commands,     \* Commands[p]: those p may run, [kind, named, pays, msg]
  Deposits,     \* Deposits[h]: outputs of block h, as the ranges they carry
  OperatorLocks, \* coins the operator has locked in Core
  Own,          \* a script of the wallet
  OpReturn,     \* the script of an OP_RETURN output
  Payee,        \* a script of someone else
  MaxSlot,      \* the largest slot
  MaxExtra      \* bound on the coins Core adds to a transaction

VARIABLES
  coins,       \* every output of the chain so far: [out, script, spent]
  height,      \* height of the last transaction
  dbs,         \* the ownership tables after each height
  indexed,     \* height the daemon has scanned to
  locked,      \* Core: the locked coins
  cmd,         \* the command each process runs
  stranded,    \* history: locks left behind by a crash or a refused unlock
  restarted,   \* history: the node restarted
  sent         \* history: the transactions accepted, with their command

vars == <<coins, height, dbs, indexed, locked, cmd, stranded, restarted, sent>>

MaxRegistered == 1000000   \* MAX_REGISTERED_TOKENS_PER_TX

Chain == INSTANCE Ledger WITH
  Scripts <- {Own, Payee}, NoOwner <- "no one", Funding <- << >>, Shapes <- << >>,
  MaxVout <- 0, MaxTokensPerTx <- MaxRegistered, collections <- {0},
  utxos <- dbs[height].utxos, ranges <- dbs[height].ranges,
  halted <- FALSE, minted <- {}, reminted <- {}

(* What tx.rs makes of its arguments: send-assets and mix name coins, at    *)
(* least one and none twice, send-amount pays someone, a Mix pays for each  *)
(* of its outputs and is well formed (parse_mix_outputs, MixData::new), and *)
(* a registration has one group, for an address of the wallet.              *)
Requests ==
  {c \in [kind : {"collection", "ownership", "amount", "assets", "mix"},
          named : Seq([height : Nat, vout : Nat]), pays : Seq({Own, Payee}), msg : Chain!Messages] :
     /\ c.named # << >> <=> c.kind \in {"assets", "mix"}
     /\ \A i, j \in 1..Len(c.named) : c.named[i] = c.named[j] => i = j
     /\ c.msg.cmd = IF c.kind \in {"amount", "assets"} THEN "none" ELSE c.kind
     /\ c.kind = "amount" => c.pays # << >>
     /\ c.kind = "mix" => WellFormed(c.msg) /\ Len(c.pays) = Len(c.msg.outs)
     /\ c.kind = "ownership" => Len(c.msg.groups) = 1 /\ c.pays = <<Own>>}

(* The outputs of the first k blocks, and the tables they leave.           *)
DepositOuts(k) == UNION {{Chain!Out(h, v - 1) : v \in 1..Len(Deposits[h])} : h \in 1..k}
Deposited(o) == Deposits[o.height][o.vout + 1]

DepositDb(k) ==
  LET outs == {o \in DepositOuts(k) : Deposited(o) # << >>}
  IN  [utxos |-> UNION {{[out |-> o, group |-> g, owner |-> Own, created |-> o.height, spent |-> FALSE]
                         : g \in Chain!GroupsOf(Deposited(o))} : o \in outs},
       ranges |-> [o \in outs |-> Deposited(o)]]

(* The chain starts with finitely many blocks, which give the wallet tokens *)
(* of collection 0; a table holds a range of an output once.               *)
ASSUME WalletConstants ==
  /\ MaxSlot \in Nat /\ OpReturn \notin {Own, Payee}
  /\ \A p \in Procs : Commands[p] \subseteq Requests
  /\ Deposits \in Seq(Seq(Seq(
       {r \in [group : [coll : {0}, base : {Own, Payee}], lo : 0..MaxSlot, hi : 0..MaxSlot] :
          r.lo <= r.hi})))
  /\ \A o \in DepositOuts(Len(Deposits)) : \A i, j \in 1..Len(Deposited(o)) :
       Deposited(o)[i] = Deposited(o)[j] => i = j
  /\ OperatorLocks \subseteq DepositOuts(Len(Deposits))

(* listunspent with minconf 0: Core leaves locked coins out.               *)
Unspent == {c.out : c \in {c \in coins : ~c.spent}}
Listed  == {c.out : c \in {c \in coins : c.script = Own /\ ~c.spent}} \ locked

OwnLocked == {c.out : c \in {c \in coins : c.script = Own /\ ~c.spent}} \cap locked

Index == dbs[indexed]
IsIndexed(o) == Chain!UnspentGroups(Index, o) # {}

Named(c) == ToSet(c.named)

-----------------------------------------------------------------------------
(* The transaction of a command.                                           *)

(* Permutations of a set.                                                  *)
Orders(S) == {s \in [1..Cardinality(S) -> S] : ToSet(s) = S}

ReorderKeepsCoreOrder(ins, named) == ins   \* mutant

(* reorder_psbt_inputs: the named coins first, in the order of the command *)
Reorder(ins, named) == named \o Keep(ins, ToSet(ins) \ ToSet(named))

(* move_opreturn_first: the first OP_RETURN, then the rest as it was.      *)
MoveOpReturnFirst(outs) ==
  LET at == {i \in 1..Len(outs) : outs[i] = OpReturn}
      first == CHOOSE i \in at : \A j \in at : i <= j
  IN  IF at = {} THEN outs
      ELSE <<OpReturn>> \o SubSeq(outs, 1, first - 1) \o SubSeq(outs, first + 1, Len(outs))

(* The outputs asked of Core: a dummy OP_RETURN first, if there is a       *)
(* message; a payment for each asset sent.                                 *)
Asked(c) ==
  IF c.kind = "assets" THEN [i \in 1..Len(c.named) |-> Payee]
  ELSE IF c.kind = "amount" THEN c.pays
  ELSE <<OpReturn>> \o c.pays

(* changePosition where the command sets it, else where Core likes.        *)
ChangePositions(c) ==
  IF c.kind \in {"assets", "mix", "ownership"} THEN {Len(Asked(c))} ELSE 0..Len(Asked(c))

(* What Core may fund: the named coins and others of the wallet that are   *)
(* not locked, in an order of its own; with change or without.             *)
FundedOuts(c) ==
  {Asked(c)} \cup
  {SubSeq(Asked(c), 1, k) \o <<Own>> \o SubSeq(Asked(c), k + 1, Len(Asked(c)))
   : k \in ChangePositions(c)}

FundedIns(c) ==
  UNION {Orders(Named(c) \cup extra) :
         extra \in {S \in SUBSET (Listed \ Named(c)) :
                      Cardinality(S) <= MaxExtra /\ Named(c) \cup S # {}}}

(* create_psbt_*, with the fix-ups each of them makes to Core's PSBT.      *)
Psbts(c) ==
  {[ins  |-> IF c.kind = "mix" THEN Reorder(ins, c.named) ELSE ins,
    outs |-> IF c.msg.cmd = "none" THEN outs ELSE MoveOpReturnFirst(outs),
    msg  |-> c.msg] : ins \in FundedIns(c), outs \in FundedOuts(c)}

-----------------------------------------------------------------------------

Idle == [pc |-> "idle"]
Done == [pc |-> "done"]
NoTx == [ins |-> << >>]

Live(p) == cmd[p].pc \notin {"idle", "done"}
At(p, pc) == cmd[p].pc = pc

(* Locks p has taken and not given back.                                   *)
Held(p) == IF cmd[p].pc \in {"fund", "unlock"} THEN cmd[p].toLock ELSE {}

Init ==
  /\ coins = {[out |-> o, script |-> Own, spent |-> FALSE] : o \in DepositOuts(Len(Deposits))}
  /\ height = Len(Deposits)
  /\ dbs = [k \in 0..Len(Deposits) |-> DepositDb(k)]
  /\ indexed \in 0..Len(Deposits)
  /\ locked = OperatorLocks
  /\ cmd = [p \in Procs |-> Idle]
  /\ stranded = {}
  /\ restarted = FALSE
  /\ sent = {}

node == <<coins, height, dbs>>

Goto(p, pc) == cmd' = [cmd EXCEPT ![p].pc = pc]
End(p)      == cmd' = [cmd EXCEPT ![p] = Done]

(* What a command has read of the wallet is used between its listunspent    *)
(* and its funding.  `relied` are the locks it expects to stand until then, *)
(* its own and the ones it found; `calm` records that none was released,    *)
(* that no other transaction came in between, and that the index was up to  *)
(* date.  Other commands may well have run meanwhile.                       *)
Relying(p) == Live(p) /\ cmd[p].pc \in {"compute", "locked", "lock", "fund"}

Shaken(q, released) ==
  IF Relying(q) /\ cmd[q].relied \cap released # {} THEN [cmd[q] EXCEPT !.calm = FALSE] ELSE cmd[q]

Overtaken(q) == IF Relying(q) THEN [cmd[q] EXCEPT !.calm = FALSE] ELSE cmd[q]

Start(p) ==
  /\ At(p, "idle")
  /\ \E c \in Commands[p] :
       cmd' = [cmd EXCEPT ![p] =
         [pc |-> IF c.kind = "amount" THEN "fund" ELSE IF c.named # << >> THEN "check" ELSE "list",
          order |-> c, calm |-> TRUE, relied |-> {},
          listed |-> {}, locks |-> {}, toLock |-> {}, tx |-> NoTx]]
  /\ UNCHANGED <<node, indexed, locked, stranded, restarted, sent>>

(* run_send_assets, run_mix: the named coins are in the index, and a Mix   *)
(* asks for no more tokens than they carry.                                *)
NamedTokens(c) ==
  FlattenSeq([i \in 1..Len(c.named) |-> Chain!UnspentRanges(Index, c.named[i])])

CheckNamed(p) ==
  LET c == cmd[p].order
  IN  /\ At(p, "check")
      /\ IF /\ \A o \in Named(c) : IsIndexed(o)
            /\ c.kind = "mix" => CountSuffices(c.msg, Total(NamedTokens(c)))
         THEN Goto(p, "list") ELSE End(p)
      /\ UNCHANGED <<node, indexed, locked, stranded, restarted, sent>>

(* list_unspent(0), and the named coins are in it.                         *)
ListUnspent(p) ==
  /\ At(p, "list")
  /\ IF Named(cmd[p].order) \subseteq Listed
     THEN cmd' = [cmd EXCEPT ![p].pc = "compute", ![p].listed = Listed, ![p].relied = OwnLocked]
     ELSE End(p)
  /\ UNCHANGED <<node, indexed, locked, stranded, restarted, sent>>

TokensNamed(p) ==   \* mutant: the named coins are locked, the others are not
  {o \in cmd[p].listed : IsIndexed(o)} \cap Named(cmd[p].order)

(* compute_wallet_token_outpoints_to_lock                                  *)
TokensToLock(p) == {o \in cmd[p].listed : IsIndexed(o)} \ Named(cmd[p].order)

ComputeLocks(p) ==
  /\ At(p, "compute")
  /\ cmd' = [cmd EXCEPT ![p].pc = "locked", ![p].locks = TokensToLock(p),
                        ![p].calm = @ /\ indexed = height]
  /\ UNCHANGED <<node, indexed, locked, stranded, restarted, sent>>

(* list_locked_unspent: what is locked already is not this command's to    *)
(* lock and unlock, and must not be named.                                 *)
ListLocked(p) ==
  /\ At(p, "locked")
  /\ IF Named(cmd[p].order) \cap locked = {}
     THEN cmd' = [cmd EXCEPT ![p].pc = "lock", ![p].toLock = cmd[p].locks \ locked,
                             ![p].relied = @ \cup cmd[p].locks]
     ELSE End(p)
  /\ UNCHANGED <<node, indexed, locked, stranded, restarted, sent>>

(* lockunspent: Core takes all of them, or none if one is locked or spent. *)
Lock(p) ==
  /\ At(p, "lock")
  /\ IF cmd[p].toLock \subseteq Unspent \ locked
     THEN locked' = locked \cup cmd[p].toLock /\ Goto(p, "fund")
     ELSE UNCHANGED locked /\ End(p)
  /\ UNCHANGED <<node, indexed, stranded, restarted, sent>>

(* walletcreatefundedpsbt, or its error, which is looked at after unlock;  *)
(* send-amount locks nothing.                                              *)
Fund(p) ==
  LET c == cmd[p].order
  IN  /\ At(p, "fund")
      /\ \E tx \in Psbts(c) \cup {NoTx} :
           IF c.kind # "amount" THEN cmd' = [cmd EXCEPT ![p].pc = "unlock", ![p].tx = tx]
           ELSE IF tx # NoTx THEN cmd' = [cmd EXCEPT ![p].pc = "sign", ![p].tx = tx]
           ELSE End(p)
      /\ UNCHANGED <<node, indexed, locked, stranded, restarted, sent>>

AfterUnlockAnyway(p) ==   \* mutant: the error of funding is dropped
  cmd' = [q \in Procs |-> IF q = p THEN [cmd[p] EXCEPT !.pc = "sign"]
                          ELSE Shaken(q, cmd[p].toLock)]

(* ... where a failed funding surfaces.                                    *)
AfterUnlock(p) ==
  cmd' = [q \in Procs |-> IF q # p THEN Shaken(q, cmd[p].toLock)
                          ELSE IF cmd[p].tx = NoTx THEN Done ELSE [cmd[p] EXCEPT !.pc = "sign"]]

UnlockAllLocks(p) ==   \* mutant: also what was locked already
  /\ At(p, "unlock")
  /\ locked' = locked \ cmd[p].locks
  /\ AfterUnlock(p)
  /\ UNCHANGED <<node, indexed, stranded, restarted, sent>>

UnlockEverything(p) ==   \* mutant: lockunspent true without outpoints
  /\ At(p, "unlock")
  /\ locked' = IF cmd[p].toLock = {} THEN {} ELSE locked \ cmd[p].toLock
  /\ AfterUnlock(p)
  /\ UNCHANGED <<node, indexed, stranded, restarted, sent>>

UnlockOnSuccess(p) ==   \* mutant: a failed funding returns before the unlock
  /\ At(p, "unlock")
  /\ locked' = IF cmd[p].tx = NoTx THEN locked ELSE locked \ cmd[p].toLock
  /\ AfterUnlock(p)
  /\ UNCHANGED <<node, indexed, stranded, restarted, sent>>

(* lockunspent true: Core refuses the whole list if one of it is spent or  *)
(* not locked, and the command goes on.                                    *)
Unlock(p) ==
  /\ At(p, "unlock")
  /\ IF cmd[p].toLock \subseteq Unspent \cap locked
     THEN locked' = locked \ cmd[p].toLock /\ UNCHANGED stranded
     ELSE UNCHANGED locked /\ stranded' = stranded \cup (cmd[p].toLock \cap locked)
  /\ AfterUnlock(p)
  /\ UNCHANGED <<node, indexed, restarted, sent>>

(* broadcast: accepted if its inputs are unspent; Core drops the locks of  *)
(* coins that are spent.                                                   *)
Broadcast(p) ==
  LET tx == cmd[p].tx
      h  == height + 1
  IN  /\ At(p, "sign")
      /\ IF ToSet(tx.ins) \subseteq Unspent
         THEN /\ height' = h
              /\ coins' = {IF c.out \in ToSet(tx.ins) THEN [c EXCEPT !.spent = TRUE] ELSE c
                           : c \in coins}
                          \cup {[out |-> o, script |-> Chain!ScriptAt(tx, o.vout), spent |-> FALSE]
                                : o \in Chain!OutsOf(h, tx)}
              /\ dbs' = [k \in 0..h |->
                          IF k = h THEN Chain!ParseTx(dbs[height], tx, h) ELSE dbs[k]]
              /\ locked' = locked \ ToSet(tx.ins)
              /\ sent' = sent \cup {[order |-> cmd[p].order, tx |-> tx, height |-> h,
                                     calm |-> cmd[p].calm]}
              /\ cmd' = [q \in Procs |-> IF q = p THEN Done ELSE Overtaken(q)]
         ELSE End(p) /\ UNCHANGED <<node, locked, sent>>
      /\ UNCHANGED <<indexed, stranded, restarted>>

(* The process dies, or its signing fails: Core keeps its locks.           *)
Crash(p) ==
  /\ Live(p)
  /\ End(p)
  /\ stranded' = stranded \cup (Held(p) \cap locked)
  /\ UNCHANGED <<node, indexed, locked, restarted, sent>>

(* The daemon commits a block.                                             *)
Scan ==
  /\ indexed < height
  /\ indexed' = indexed + 1
  /\ UNCHANGED <<node, locked, cmd, stranded, restarted, sent>>

(* Core's locks do not outlive it.                                         *)
NodeRestart ==
  /\ ~restarted
  /\ restarted' = TRUE
  /\ locked' = {}
  /\ cmd' = [p \in Procs |-> Shaken(p, locked)]
  /\ UNCHANGED <<node, indexed, stranded, sent>>

Next ==
  \/ \E p \in Procs :
       \/ Start(p) \/ CheckNamed(p) \/ ListUnspent(p) \/ ComputeLocks(p) \/ ListLocked(p)
       \/ Lock(p) \/ Fund(p) \/ Unlock(p) \/ Broadcast(p) \/ Crash(p)
  \/ Scan
  \/ NodeRestart

Spec == Init /\ [][Next]_vars

-----------------------------------------------------------------------------
(* Properties.                                                             *)

Steps == {"check", "list", "compute", "locked", "lock", "fund", "unlock", "sign"}

TypeOK ==
  LET outs == {c.out : c \in coins}
  IN  /\ DOMAIN dbs = 0..height
      /\ indexed \in 0..height
      /\ locked \subseteq Unspent
      /\ stranded \subseteq outs
      /\ \A p \in Procs : Live(p) =>
           /\ cmd[p].pc \in Steps
           /\ cmd[p].order \in Commands[p]
           /\ cmd[p].toLock \subseteq cmd[p].locks
           /\ cmd[p].locks \subseteq cmd[p].listed
           /\ cmd[p].listed \cup cmd[p].relied \subseteq outs
           /\ ToSet(cmd[p].tx.ins) \subseteq outs
           /\ cmd[p].pc = "sign" => cmd[p].tx # NoTx

(* While a command has Core fund its transaction, its locks stand: another *)
(* command neither holds the same coins nor unlocks them.                  *)
LocksHeld ==
  /\ \A p \in Procs : Held(p) \cap Unspent \subseteq IF restarted THEN Unspent ELSE locked
  /\ restarted \/ \A p, q \in Procs : p # q => Held(p) \cap Held(q) = {}

(* A command gives back every lock it took, also when funding fails; only  *)
(* a crash or an unlock that Core refuses leaves coins locked.             *)
LocksReleased ==
  locked \subseteq OperatorLocks \cup stranded \cup UNION {Held(p) : p \in Procs}

(* Coins the operator locked stay locked and unspent until the node is     *)
(* restarted.                                                              *)
OperatorLocksKept == restarted \/ OperatorLocks \subseteq locked

(* A calm command that is not a send-amount spends no tokens but those it  *)
(* names: funding inputs carry none, also when other commands list, lock    *)
(* and fund between its own steps.  What it relies on without holding it,   *)
(* a coin that was locked by another when it looked, is the limit of that.  *)
Carried(s, o) == Chain!UnspentRanges(dbs[s.height - 1], o)

FundedPlain ==
  \A s \in sent : s.calm /\ s.order.kind # "amount" =>
    \A o \in ToSet(s.tx.ins) \ Named(s.order) : Carried(s, o) = << >>

(* ... and the parser reads its transaction as the command meant it: every *)
(* asset sent rests on an output to the payee, a Mix gives each index to   *)
(* the output that asks for it, a registration is held by the wallet.      *)
TokensAt(s, vout) ==
  ToSet(Expand(Chain!UnspentRanges(dbs[s.height], Chain!Out(s.height, vout))))

MixedTo(s, k) ==   \* what a Mix asks to be on its k-th output
  LET tokens == Expand(FlattenSeq([i \in 1..Len(s.order.named) |-> Carried(s, s.order.named[i])]))
      asked(j) == UNION {r.start..r.end - 1 : r \in ToSet(s.order.msg.outs[j])}
      all == UNION {asked(j) : j \in 1..Len(s.order.msg.outs)}
      mine(i) == IF k = s.order.msg.complement THEN i \notin all ELSE i \in asked(k)
  IN  {tokens[i + 1] : i \in {i \in 0..Len(tokens) - 1 : mine(i)}}

AssetsSent(s) ==
  \A o \in Named(s.order) : \A t \in ToSet(Expand(Carried(s, o))) :
    \E v \in 0..Len(s.tx.outs) - 1 : Chain!ScriptAt(s.tx, v) = Payee /\ t \in TokensAt(s, v)

AssetsMixed(s) ==
  \A k \in 1..Len(s.order.pays) :
    TokensAt(s, k) = MixedTo(s, k) /\ Chain!ScriptAt(s.tx, k) = s.order.pays[k]

(* The command asks neither whether the collection exists nor how many     *)
(* slots the parser lets one transaction register.                         *)
SlotsRegistered(s) ==
  s.order.msg.coll = 0 /\ Chain!SlotCount(s.order.msg) <= MaxRegistered =>
    /\ Chain!ScriptAt(s.tx, 1) = Own
    /\ {t.slot : t \in TokensAt(s, 1)} = UNION {r.lo..r.hi : r \in ToSet(s.order.msg.groups[1])}

Delivered ==
  \A s \in sent : s.calm =>
    /\ s.order.kind = "assets" => AssetsSent(s)
    /\ s.order.kind = "mix" => AssetsMixed(s)
    /\ s.order.kind = "ownership" => SlotsRegistered(s)

(* remote_wallet.rs:408, "Keep ownership inputs first so mix indexing can  *)
(* ignore trailing funding inputs": no Mix is rejected for the order of    *)
(* its inputs.                                                             *)
OwnershipInputsFirst ==
  \A s \in sent : s.order.kind = "mix" =>
    Chain!OwnershipInputsArePrefix(dbs[s.height - 1], s.tx)

=============================================================================
