-------------------------------- MODULE Ledger --------------------------------
(***************************************************************************)
(* The ownership tables of storage/sqlite.rs and what Brc721Parser does to  *)
(* them (parser/*.rs), transaction by transaction along one Bitcoin chain.  *)
(*                                                                          *)
(* A block holds one transaction here, so that the height alone identifies *)
(* a transaction, a collection (height:tx_index) and the outpoints it       *)
(* creates; batches, rollback and reorganisations are module Indexer.       *)
(* A transaction is [ins, outs, msg]: the outpoints it spends in order (<<>> *)
(* in a coinbase), the scripts of its outputs and the message pushed by     *)
(* vout 0.  An H160 is the script it hashes.                                *)
(***************************************************************************)
EXTENDS Mix, FiniteSets

CONSTANTS
  Scripts,         \* spendable output scripts
  OpReturn,        \* the script of a provably unspendable output
  NoOwner,         \* H160::zero(), the owner of burnt tokens
  Funding,         \* script of the outputs of height 0
  Shapes,          \* Shapes[h]: the transactions block h may hold, as
                   \* [inputs, outs, msg], inputs their number of inputs
  MaxSlot,         \* largest slot the shapes register
  MaxVout,         \* largest vout of the shapes
  MaxTokensPerTx   \* MAX_REGISTERED_TOKENS_PER_TX

(* The messages the decoders let through; a Mix may still be malformed.    *)
Messages ==
  [cmd : {"none", "collection"}]
  \cup [cmd : {"ownership"}, coll : Nat,
        groups : Seq(Seq({r \in [lo : 0..MaxSlot, hi : 0..MaxSlot] : r.lo <= r.hi}))]
  \cup [cmd : {"mix"}, outs : Seq(Seq([start : Nat, end : Nat])), complement : Nat]

(* A Bitcoin transaction has an output.                                    *)
ASSUME LedgerConstants ==
  /\ MaxSlot \in Nat /\ MaxVout \in Nat
  /\ Funding \in Seq(Scripts \cup {OpReturn}) /\ Len(Funding) <= MaxVout + 1
  /\ Shapes \in Seq(SUBSET [inputs : Nat, outs : Seq(Scripts \cup {OpReturn}) \ {<< >>},
                            msg : Messages])
  /\ \A h \in 1..Len(Shapes) : \A s \in Shapes[h] : Len(s.outs) <= MaxVout + 1

VARIABLES
  coins,        \* every output of the chain so far: [out, script, spent]
  height,       \* height of the last parsed block
  collections,  \* table collections
  utxos,        \* table ownership_utxos: [out, group, owner, created, spent]
  ranges,       \* table ownership_ranges: out -> its ranges by range_seq
  halted,       \* parse_block returned an error
  minted,       \* history: the tokens ever registered
  reminted      \* history: the tokens registered more than once

tables == <<collections, utxos, ranges>>
vars == <<coins, height, tables, halted, minted, reminted>>

Out(h, vout) == [height |-> h, vout |-> vout]
OutsOf(h, tx) == {Out(h, v) : v \in 0..Len(tx.outs) - 1}

(* The script of an output of a transaction, of an output of the chain.    *)
ScriptAt(tx, vout) == tx.outs[vout + 1]
ScriptOf(o) == (CHOOSE c \in coins : c.out = o).script

Spendable == {c.out : c \in {c \in coins : ~c.spent /\ c.script # OpReturn}}

-----------------------------------------------------------------------------
(* The tables, as statements of one transaction see and change them: db is *)
(* [utxos, ranges].                                                        *)

GroupsOf(rs) == {r.group : r \in ToSet(rs)}

RangesAt(db, o) == IF o \in DOMAIN db.ranges THEN db.ranges[o] ELSE << >>

(* db_save_ownership_utxo: ON CONFLICT DO NOTHING.                         *)
SaveUtxo(db, o, group, owner, created) ==
  IF \E u \in db.utxos : u.out = o /\ u.group = group THEN db
  ELSE [db EXCEPT !.utxos = @ \cup
         {[out |-> o, group |-> group, owner |-> owner, created |-> created, spent |-> FALSE]}]

(* db_save_ownership_range: the next range_seq, ON CONFLICT DO NOTHING.    *)
SaveRange(db, o, r) ==
  IF r \in ToSet(RangesAt(db, o)) THEN db
  ELSE [db EXCEPT !.ranges = [p \in DOMAIN @ \cup {o} |->
         IF p = o THEN Append(RangesAt(db, o), r) ELSE @[p]]]

SaveUtxoOnce(db, o, rs, owner, created) ==   \* mutant: only the first group gets a row
  IF rs = << >> THEN db ELSE SaveUtxo(db, o, rs[1].group, owner, created)

(* One row for each group among the ranges.                                *)
SaveUtxos(db, o, rs, owner, created) ==
  FoldLeft(LAMBDA d, r : SaveUtxo(d, o, r.group, owner, created), db, rs)

SaveRanges(db, o, rs) == FoldLeft(LAMBDA d, r : SaveRange(d, o, r), db, rs)

(* save_ranges_for_output                                                  *)
SaveRangesForOutput(db, o, rs, owner, created) ==
  SaveRanges(SaveUtxos(db, o, rs, owner, created), o, MergeOrdered(rs))

(* db_list_unspent_ownership_ranges_by_outpoint                            *)
UnspentGroups(db, o) == {u.group : u \in {u \in db.utxos : u.out = o /\ ~u.spent}}

UnspentRanges(db, o) ==
  LET rs == RangesAt(db, o)
  IN  Keep(rs, {r \in ToSet(rs) : r.group \in UnspentGroups(db, o)})

(* db_mark_ownership_utxo_spent, for every input.                          *)
MarkSpent(db, outs) ==
  [db EXCEPT !.utxos =
    {IF u.out \in outs THEN [u EXCEPT !.spent = TRUE] ELSE u : u \in @}]

CoversOpen(db, u, token) ==   \* mutant: slot_end taken as exclusive
  /\ ~u.spent
  /\ u.group = token.group
  /\ \E r \in ToSet(RangesAt(db, u.out)) :
       r.group = token.group /\ r.lo <= token.slot /\ token.slot < r.hi

(* db_find_unspent_ownership_utxo_for_slot: of the unspent rows that cover *)
(* the slot, a newest one.                                                 *)
Covers(db, u, token) ==
  /\ ~u.spent
  /\ u.group = token.group
  /\ \E r \in ToSet(RangesAt(db, u.out)) :
       r.group = token.group /\ r.lo <= token.slot /\ token.slot <= r.hi

Found(db, token) ==
  LET rows == {u \in db.utxos : Covers(db, u, token)}
  IN  {u \in rows : \A v \in rows : v.created <= u.created}

-----------------------------------------------------------------------------
(* parse_tx.                                                               *)

(* The inputs that carry tokens, and whether they come first.              *)
TokenInputs(db, tx) == Keep(tx.ins, {o \in ToSet(tx.ins) : UnspentRanges(db, o) # << >>})

OwnershipInputsArePrefix(db, tx) ==
  \A j \in 1..Len(tx.ins) : \A i \in 1..j :
    UnspentRanges(db, tx.ins[j]) # << >> => UnspentRanges(db, tx.ins[i]) # << >>

InputRanges(db, tx) ==
  FlattenSeq([i \in 1..Len(TokenInputs(db, tx)) |-> UnspentRanges(db, TokenInputs(db, tx)[i])])

(* parse_brc721_tx: a message is read from vout 0 only, and a malformed    *)
(* one is as none.                                                         *)
NoMessage == [cmd |-> "none"]

Message(tx) ==
  IF tx.outs = << >> \/ tx.outs[1] # OpReturn THEN NoMessage
  ELSE IF tx.msg.cmd = "mix" /\ ~WellFormed(tx.msg) THEN NoMessage
  ELSE tx.msg

(* mix::digest: what makes it decline, and the tables when it does not.    *)
MixAccepted(db, tx) ==
  LET m == Message(tx)
  IN  /\ Len(tx.outs) >= Len(m.outs) + 1
      /\ TokenInputs(db, tx) # << >>
      /\ OwnershipInputsArePrefix(db, tx)
      /\ CountSuffices(m, Total(InputRanges(db, tx)))
      /\ \A k \in 1..Len(m.outs) : ScriptAt(tx, k) # OpReturn

DigestMixShifted(db, spent, tx, h) ==   \* mutant: owners read one output too early
  LET m == Message(tx)
      give(d, k) ==
        LET rs == Assigned(m, InputRanges(db, tx), k)
        IN  SaveRanges(SaveUtxos(d, Out(h, k), rs, ScriptAt(tx, k - 1), h), Out(h, k), rs)
  IN  FoldLeft(give, spent, [k \in 1..Len(m.outs) |-> k])

DigestMix(db, spent, tx, h) ==
  LET m == Message(tx)
      give(d, k) ==
        LET rs == Assigned(m, InputRanges(db, tx), k)
        IN  SaveRanges(SaveUtxos(d, Out(h, k), rs, ScriptAt(tx, k), h), Out(h, k), rs)
  IN  FoldLeft(give, spent, [k \in 1..Len(m.outs) |-> k])

BaseOfOutput(tx) == ScriptAt(tx, 1)   \* mutant: the registered output names the base

(* register_collection::digest: the id is height:tx_index.                 *)
DigestCollection(tx, h) ==
  IF Message(tx).cmd = "collection" THEN collections \cup {h} ELSE collections

(* register_ownership::digest                                              *)
Base(tx) == ScriptOf(tx.ins[1])

SlotCount(m) == FoldLeft(LAMBDA n, rs : n + Total(rs), 0, m.groups)

Registers(tx) ==
  LET m == Message(tx)
  IN  /\ m.cmd = "ownership"
      /\ m.coll \in collections
      /\ SlotCount(m) <= MaxTokensPerTx

RegisteredExclusive(tx, k) ==   \* mutant: the payload's end taken as exclusive
  LET m == Message(tx)
  IN  [i \in 1..Len(m.groups[k]) |->
        [group |-> [coll |-> m.coll, base |-> Base(tx)],
         lo |-> m.groups[k][i].lo, hi |-> m.groups[k][i].hi - 1]]

(* Group k's slots, to output k, under the address input 0 spends from.    *)
RegisteredRanges(tx, k) ==
  LET m == Message(tx)
  IN  [i \in 1..Len(m.groups[k]) |->
        [group |-> [coll |-> m.coll, base |-> Base(tx)],
         lo |-> m.groups[k][i].lo, hi |-> m.groups[k][i].hi]]

DigestOwnership(db, tx, h) ==
  LET give(d, k) ==
        LET rs == RegisteredRanges(tx, k)
        IN  SaveRanges(SaveUtxos(d, Out(h, k), rs, ScriptAt(tx, k), h), Out(h, k), rs)
  IN  IF Registers(tx)
      THEN FoldLeft(give, db, [k \in 1..Len(Message(tx).groups) |-> k])
      ELSE db

(* Brc721Tx::validate and input 0 of register-ownership: errors that make  *)
(* parse_block fail.                                                       *)
ParseFails(tx) ==
  LET m == Message(tx)
  IN  /\ m.cmd = "ownership"
      /\ \/ Len(m.groups) >= Len(tx.outs)
         \/ m.coll \in collections /\ tx.ins = << >>

(* The implicit transfer: token input i to the i-th output that is not     *)
(* OP_RETURN, the last of them taking the rest; burnt if there is none.    *)
RemainingOutputs(tx) ==
  Keep([v \in 1..Len(tx.outs) |-> v - 1],
       {v \in 0..Len(tx.outs) - 1 : ScriptAt(tx, v) # OpReturn})

ImplicitTransfer(db, spent, tx, h) ==
  LET ins  == TokenInputs(db, tx)
      outs == RemainingOutputs(tx)
      dest(i) == IF outs = << >> THEN 0
                 ELSE IF i <= Len(outs) THEN outs[i] ELSE Last(outs)
      owner(i) == IF outs = << >> THEN NoOwner ELSE ScriptAt(tx, dest(i))
      give(d, i) == SaveRangesForOutput(d, Out(h, dest(i)), UnspentRanges(db, ins[i]), owner(i), h)
  IN  FoldLeft(give, spent, [i \in 1..Len(ins) |-> i])

ParseTxMixOnTop(db, tx, h) ==   \* mutant: a Mix is followed by the implicit transfer
  LET spent == MarkSpent(db, ToSet(tx.ins))
  IN  IF Message(tx).cmd = "mix" /\ MixAccepted(db, tx)
      THEN ImplicitTransfer(db, DigestMix(db, spent, tx, h), tx, h)
      ELSE ImplicitTransfer(db, DigestOwnership(spent, tx, h), tx, h)

ParseTxRegisterOnly(db, tx, h) ==   \* mutant: registering ends the transaction
  LET spent == MarkSpent(db, ToSet(tx.ins))
  IN  IF Message(tx).cmd = "mix"
      THEN IF MixAccepted(db, tx) THEN DigestMix(db, spent, tx, h) ELSE spent
      ELSE IF Registers(tx) THEN DigestOwnership(spent, tx, h)
      ELSE ImplicitTransfer(db, spent, tx, h)

ParseTx(db, tx, h) ==
  LET spent == MarkSpent(db, ToSet(tx.ins))
  IN  IF Message(tx).cmd = "mix"
      THEN IF MixAccepted(db, tx) THEN DigestMix(db, spent, tx, h) ELSE spent
      ELSE ImplicitTransfer(db, DigestOwnership(spent, tx, h), tx, h)

-----------------------------------------------------------------------------

Db == [utxos |-> utxos, ranges |-> ranges]

Init ==
  /\ coins = {[out |-> Out(0, v), script |-> ScriptAt([outs |-> Funding], v), spent |-> FALSE]
              : v \in 0..Len(Funding) - 1}
  /\ height = 0
  /\ collections = {}
  /\ utxos = {}
  /\ ranges = << >>
  /\ halted = FALSE
  /\ minted = {}
  /\ reminted = {}

(* The transactions the next block may hold.                               *)
InputLists(n) ==
  {ins \in [1..n -> Spendable] : \A i, j \in 1..n : i # j => ins[i] # ins[j]}

NextTxs ==
  UNION {{[ins |-> ins, outs |-> s.outs, msg |-> s.msg] : ins \in InputLists(s.inputs)}
         : s \in Shapes[height + 1]}

(* The tokens of a register-ownership payload, in its order.               *)
RegisteredTokens(tx) ==
  IF Registers(tx)
  THEN FlattenSeq([k \in 1..Len(Message(tx).groups) |-> Expand(RegisteredRanges(tx, k))])
  ELSE << >>

Twice(s) == {s[i] : i \in {i \in 1..Len(s) : \E j \in 1..i - 1 : s[j] = s[i]}}

(* parse_block, and the outputs the transaction spends and creates.        *)
ParseBlock ==
  /\ ~halted
  /\ height < Len(Shapes)
  /\ \E tx \in NextTxs :
       LET h   == height + 1
           db  == ParseTx(Db, tx, h)
           new == RegisteredTokens(tx)
       IN  /\ ~ParseFails(tx)
           /\ height' = h
           /\ coins' = {IF c.out \in ToSet(tx.ins) THEN [c EXCEPT !.spent = TRUE] ELSE c
                        : c \in coins}
                       \cup {[out |-> o, script |-> ScriptAt(tx, o.vout), spent |-> FALSE]
                             : o \in OutsOf(h, tx)}
           /\ collections' = DigestCollection(tx, h)
           /\ utxos' = db.utxos
           /\ ranges' = db.ranges
           /\ minted' = minted \cup ToSet(new)
           /\ reminted' = reminted \cup Twice(new) \cup (ToSet(new) \cap minted)
  /\ UNCHANGED halted

(* ... or its error, which rolls the block back and ends the daemon.       *)
ParseError ==
  /\ ~halted
  /\ height < Len(Shapes)
  /\ \E tx \in NextTxs : ParseFails(tx)
  /\ halted' = TRUE
  /\ UNCHANGED <<coins, height, tables, minted, reminted>>

Next == ParseBlock \/ ParseError

Spec == Init /\ [][Next]_vars

-----------------------------------------------------------------------------
(* Properties.                                                             *)

(* Where each token rests, by the query that decides what a spend moves.   *)
Holds ==
  UNION {{<<t, o>> : t \in ToSet(Expand(UnspentRanges(Db, o)))} : o \in DOMAIN ranges}

Slots == 0..MaxSlot

TypeOK ==
  LET outpoints == {c.out : c \in coins}
      groups == [coll : collections, base : Scripts \cup {OpReturn}]
  IN  /\ collections \subseteq 1..height
      /\ utxos \subseteq [out : outpoints, group : groups, created : 1..height,
                          owner : Scripts \cup {OpReturn, NoOwner}, spent : BOOLEAN]
      /\ DOMAIN ranges \subseteq outpoints
      /\ \A o \in DOMAIN ranges : \A r \in ToSet(ranges[o]) :
           r.group \in groups /\ r.lo \in Slots /\ r.hi \in r.lo..MaxSlot

(* The two tables agree: every row has ranges and every range a row, so    *)
(* that no output shows an ownership it cannot pass on (the join of        *)
(* list_unspent_ownership_ranges_by_outpoint never loses a range).         *)
RowsMatchRanges ==
  \A o \in {c.out : c \in coins} :
    {u.group : u \in {u \in utxos : u.out = o}} = GroupsOf(RangesAt(Db, o))

(* A row counts as unspent exactly as long as Bitcoin's output is, and its *)
(* owner is that output's script; only vout 0 of a transaction without any *)
(* spendable output holds burnt tokens.  REST answers with the owner of    *)
(* one row for the whole output (handlers.rs:293).                         *)
OwnerIsOutput ==
  \A u \in utxos : \E c \in coins :
    /\ c.out = u.out
    /\ c.spent = u.spent
    /\ u.owner = IF u.out.vout = 0 /\ c.script = OpReturn THEN NoOwner ELSE c.script

(* A token registered once is in one range of one unspent output: no       *)
(* sequence of transfers, burns and mixes doubles it, and Mix never counts *)
(* it as two indices.                                                      *)
RestsOnce ==
  \A t \in minted \ reminted :
    LET places(o) == {i \in DOMAIN Expand(UnspentRanges(Db, o)) :
                        Expand(UnspentRanges(Db, o))[i] = t}
    IN  Cardinality(UNION {{<<o, i>> : i \in places(o)} : o \in DOMAIN ranges}) <= 1

(* The owner REST answers for a token is that of the output whose spending *)
(* moves it: find_unspent_ownership_utxo_for_slot agrees with the query of *)
(* parse_tx.                                                               *)
FinderAgrees ==
  \A t \in minted :
    LET found == {u.out : u \in Found(Db, t)}
        rests == {h[2] : h \in {h \in Holds : h[1] = t}}
    IN  IF t \in reminted THEN found \subseteq rests /\ (found = {} <=> rests = {})
        ELSE found = rests

(* A token no output held comes into being only in a transaction that      *)
(* spends an output of the address in its token id.                        *)
SpentNow == {c \in coins : ~c.spent /\ [c EXCEPT !.spent = TRUE] \in coins'}

BaseSigns ==
  [][\A t \in {h[1] : h \in Holds'} \ {h[1] : h \in Holds} :
       \E c \in SpentNow : c.script = t.group.base]_vars

(* Tokens move only with the output they rest on, to outputs of the        *)
(* spending transaction, none is left behind, and a rejected Mix loses all *)
(* its tokens together: the tables implement TokenLedger.                  *)
Promise == INSTANCE TokenLedger WITH
  Tokens    <- [group : [coll : 1..Len(Shapes), base : Scripts \cup {OpReturn}], slot : Slots],
  Outpoints <- [height : 0..Len(Shapes), vout : 0..MaxVout],
  coins     <- {c.out : c \in {c \in coins : ~c.spent}},
  dead      <- {c.out : c \in {c \in coins : c.spent}},
  holds     <- Holds

ImplementsTokenLedger == Promise!Spec

(* README.md:9: ownership "requires explicit Bitcoin signatures from       *)
(* rightful owners": the output REST names for a token changes only when   *)
(* that output is spent.                                                   *)
OwnerMustSign ==
  [][\A t \in minted : \A u \in Found(Db, t) :
       u.out \notin {v.out : v \in Found(Db, t)'} =>
         u.out \in {c.out : c \in SpentNow}]_vars

=============================================================================
