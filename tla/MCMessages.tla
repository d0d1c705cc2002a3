------------------------------ MODULE MCMessages ------------------------------
(***************************************************************************)
(* The messages over every case of bounded size.  A behaviour is one of     *)
(*   "mix"    a Mix payload is applied to input ranges given one by one,    *)
(*   "wire"   bytes arrive one by one until they are a message or refused,  *)
(*   "words"  a command line is typed, output by output and item by item,   *)
(*   "value"  a message built in memory is written to the chain.            *)
(***************************************************************************)
EXTENDS Codec

CONSTANTS Groups, MaxSlot, MaxIndex, MaxInputs, MaxWire, MaxItems, MaxOutputs

VARIABLES kind, message, ranges, wire, words
vars == << kind, message, ranges, wire, words >>

Ranges == {r \in [group : Groups, lo : 0..MaxSlot, hi : 0..MaxSlot] : r.lo <= r.hi}
IndexRanges == [start : 0..MaxIndex, end : 0..MaxIndex]

MixPayload(os, k) == [cmd |-> "mix", outs |-> os, complement |-> k]
MixPayloads ==
  {m \in {MixPayload(os, k) : os \in UNION {[1..n -> {<< >>} \cup {<<r>> : r \in IndexRanges}]
                                            : n \in 1..2}, k \in 1..2}
         \cup {MixPayload(<<<<r, s>>, << >>>>, 2) : r, s \in IndexRanges}
         \cup {MixPayload(<<<<r>>, << >>, <<s>>>>, 2) : r, s \in IndexRanges}
   : WellFormed(m)}

SlotRanges == {r \in [start : 0..MaxValue, end : 0..MaxValue] : r.start <= r.end}
SlotLists  == {<<r>> : r \in SlotRanges} \cup {<<r, s>> : r, s \in SlotRanges}
Values ==
  {[cmd |-> "collection", addr |-> a, rebaseable |-> f]
     : a \in [1..AddrLen -> 0..2 * Radix - 1], f \in BOOLEAN}
  \cup {ForSingleOutput(h, t, ss) : h \in 0..MaxHeight, t \in 0..MaxTxIndex, ss \in SlotLists}
  \cup {[ForSingleOutput(0, 0, << >>) EXCEPT !.groups = <<ss, <<r>>>>]
          : ss \in SlotLists, r \in SlotRanges}

NoMessage == [cmd |-> "none"]

Init ==
  /\ ranges = << >> /\ wire = << >> /\ words = << >>
  /\ \/ kind = "mix"   /\ message \in MixPayloads
     \/ kind = "value" /\ message \in Values
     \/ kind \in {"wire", "words"} /\ message = NoMessage

(* One more input range of a Mix transaction.                              *)
Input ==
  /\ kind = "mix" /\ Len(ranges) < MaxInputs
  /\ \E r \in Ranges : ranges' = Append(ranges, r)
  /\ UNCHANGED << kind, message, wire, words >>

(* One more byte, while the bytes so far could still become a message.     *)
Read ==
  /\ kind = "wire" /\ Len(wire) < MaxWire
  /\ FromBytes(wire) = Refuse("short")
  /\ \E b \in 0..2 * Radix - 1 : wire' = Append(wire, b)
  /\ UNCHANGED << kind, message, ranges, words >>

(* A further --output, or a further item of the last one; << >> stands for *)
(* the word complement.                                                     *)
Items == {w \in [form : {"a", "a..b", "a..=b"}, a : 0..MaxValue + 1, b : 0..MaxValue + 1]
            : w.form = "a" => w.b = 0}
Typed == FoldLeft(LAMBDA n, o : n + Len(o), 0, words)

TypeOutput ==
  /\ kind = "words" /\ Len(words) < MaxOutputs
  /\ words' = Append(words, << >>)
  /\ UNCHANGED << kind, message, ranges, wire >>

TypeItem ==
  /\ kind = "words" /\ words # << >> /\ Typed < MaxItems
  /\ \E w \in Items : words' = [words EXCEPT ![Len(words)] = Append(@, w)]
  /\ UNCHANGED << kind, message, ranges, wire >>

Next == Input \/ Read \/ TypeOutput \/ TypeItem
Spec == Init /\ [][Next]_vars

-----------------------------------------------------------------------------
(* Every Mix gives each output the tokens of its indices, whatever the      *)
(* input ranges.                                                            *)
MixGivesIndices == kind = "mix" /\ ranges # << >> => GivesIndices(message, ranges)

(* What is written is read back: a message through the script in output 0,  *)
(* its slots through the table's blobs, whose order the lookup of a slot    *)
(* (slot_start <= ? AND slot_end >= ?) relies on, and through token ids.    *)
ReadsBack(m) == LET r == ParseTx(<< IntoScript(m), << >> >>) IN r.ok /\ r.value = m

SlotsOf(m) == UNION {UNION {r.start..r.end : r \in ToSet(g)} : g \in ToSet(m.groups)}
RowHolds(r, v) ==
  /\ ~BlobBefore(SlotBlob(v), SlotBlob(r.start))
  /\ ~BlobBefore(SlotBlob(r.end), SlotBlob(v))

RoundTrip ==
  /\ kind \in {"value", "mix"} /\ ranges = << >> => ReadsBack(message)
  /\ kind = "value" /\ message.cmd = "ownership" =>
       \A v \in 0..MaxValue :
         /\ v \in SlotsOf(message) <=>
              \E g \in ToSet(message.groups), i \in {1, 2} :
                i <= Len(g) /\ RowHolds(g[i], v)
         /\ SlotOfBlob(SlotBlob(v)) = v
         /\ TokenOfId(TokenId(v, 1)).value = [slot |-> v, addr |-> 1]

(* Bytes that are accepted are the bytes the message would be written with: *)
(* padded integers, empty lists, a range of one slot, bytes left over and   *)
(* values past 96 bits are all refused, so no message has two spellings.    *)
Canonical ==
  LET r == FromBytes(wire)
  IN  kind = "wire" /\ r.ok => ToBytes(r.value) = wire

(* A command line that is accepted is written, read back unchanged, and     *)
(* names exactly the slots or indices its items say, none of them twice;    *)
(* at the largest index, too, where the exclusive end has no encoding.      *)
Said(w) == CASE w.form = "a" -> {w.a} [] w.form = "a..b" -> w.a..w.b - 1
             [] w.form = "a..=b" -> w.a..w.b
Disjoint(os) ==
  \A k, l \in 1..Len(os) : \A i \in 1..Len(os[k]), j \in 1..Len(os[l]) :
    << k, i >> # << l, j >> => Said(os[k][i]) \cap Said(os[l][j]) = {}

CommandLineKept ==
  kind = "words" /\ words # << >> =>
    LET slots == ParseSlots(words[1])
        mix   == ParseOutputs(words)
    IN  /\ slots.ok /\ Len(words) = 1 =>
             LET m == ForSingleOutput(0, 0, slots.value)
             IN  /\ ReadsBack(m) /\ OwnershipValid(m) /\ Disjoint(words)
                 /\ SlotsOf(m) = UNION {Said(w) : w \in ToSet(words[1])}
        /\ mix.ok =>
             /\ ReadsBack(mix.value) /\ Disjoint(words)
             /\ \A k \in 1..Len(words) :
                  UNION {r.start..r.end - 1 : r \in ToSet(mix.value.outs[k])}
                    = UNION {Said(w) : w \in ToSet(words[k])}
=============================================================================
