-------------------------------- MODULE Codec --------------------------------
(***************************************************************************)
(* The messages on the wire (types/*.rs): integers, the three commands, the *)
(* OP_RETURN script, and the command line they are built from.              *)
(*                                                                          *)
(* A byte is a number below 2 * Radix; Radix is 128 in the code, where an   *)
(* integer takes at most MaxLen = 14 bytes and stays within MaxValue =      *)
(* 2^96 - 1.  A decoder takes the bytes and the position of the first one   *)
(* not yet read, and answers Got(value, next position) or Refuse(why): the  *)
(* reasons kept apart are "short" (the bytes ran out), "panic" (a count for *)
(* which no memory is granted) and "none" (not a BRC-721 script).           *)
(***************************************************************************)
EXTENDS Mix, FiniteSets

CONSTANTS
  Radix, MaxLen, MaxValue,
  MaxHeight, MaxTxIndex,   \* u64::MAX and u32::MAX
  MaxUsize,                \* usize::MAX
  Reserve,                 \* the largest count Vec::with_capacity grants
  AddrLen                  \* bytes of an EVM address

(* The longest encoding has room above the largest value: Overflow occurs. *)
ASSUME CodecConstants ==
  /\ {Radix, MaxLen, MaxValue, MaxHeight, MaxTxIndex, MaxUsize, Reserve, AddrLen} \subseteq Nat
  /\ Radix > 1 /\ MaxLen > 1
  /\ Radix^(MaxLen - 1) <= MaxValue /\ MaxValue < Radix^MaxLen - 1
  /\ Reserve <= MaxUsize /\ MaxTxIndex <= MaxHeight /\ MaxHeight < MaxValue

Refuse(why)    == [ok |-> FALSE, why |-> why]
Got(v, next)   == [ok |-> TRUE, value |-> v, next |-> next]
After(r, F(_, _)) == IF r.ok THEN F(r.value, r.next) ELSE r

-----------------------------------------------------------------------------
(* VarInt96: digits base Radix, the least significant first, every byte but *)
(* the last with the continuation bit.                                      *)
Size(v) == CHOOSE n \in 1..MaxLen : v < Radix^n /\ \A k \in 1..n - 1 : v >= Radix^k

Encode(v) ==
  [i \in 1..Size(v) |-> ((v \div Radix^(i - 1)) % Radix) + (IF i < Size(v) THEN Radix ELSE 0)]

TakeAnyLength(bytes, c) ==   \* mutant: a value padded with zero digits is accepted
  LET ends == {k \in 1..MaxLen : c + k - 1 <= Len(bytes) /\ bytes[c + k - 1] < Radix}
      n    == CHOOSE k \in ends : \A j \in ends : k <= j
      v    == FoldLeft(LAMBDA sum, i : sum + (bytes[c + i - 1] % Radix) * Radix^(i - 1),
                       0, [i \in 1..n |-> i])
  IN  IF ends = {}
      THEN Refuse(IF Len(bytes) - c + 1 < MaxLen THEN "short" ELSE "invalid")
      ELSE IF v > MaxValue THEN Refuse("invalid")
      ELSE Got(v, c + n)

(* Unterminated, TooLong, NonMinimal and Overflow, then the value.          *)
TakeVarint(bytes, c) ==
  LET ends == {k \in 1..MaxLen : c + k - 1 <= Len(bytes) /\ bytes[c + k - 1] < Radix}
      n    == CHOOSE k \in ends : \A j \in ends : k <= j
      v    == FoldLeft(LAMBDA sum, i : sum + (bytes[c + i - 1] % Radix) * Radix^(i - 1),
                       0, [i \in 1..n |-> i])
  IN  IF ends = {}
      THEN Refuse(IF Len(bytes) - c + 1 < MaxLen THEN "short" ELSE "invalid")
      ELSE IF (n > 1 /\ bytes[c + n - 1] = 0) \/ v > MaxValue THEN Refuse("invalid")
      ELSE Got(v, c + n)

TakeBytes(bytes, c, n) ==
  IF Len(bytes) < c + n - 1 THEN Refuse("short") ELSE Got(SubSeq(bytes, c, c + n - 1), c + n)

(* A varint that must lie in lo..hi.                                        *)
TakeWithin(bytes, c, lo, hi) ==
  After(TakeVarint(bytes, c),
        LAMBDA v, d : IF v < lo \/ v > hi THEN Refuse("invalid") ELSE Got(v, d))

(* n items in a row; an item sees those before it and its own position.     *)
Repeat(n, c, Item(_, _)) ==
  LET upTo[i \in 0..n] ==
        IF i = 0 THEN Got(<< >>, c)
        ELSE After(upTo[i - 1], LAMBDA vs, d :
               After(Item(vs, d), LAMBDA v, e : Got(Append(vs, v), e)))
  IN  upTo[n]

(* Nothing may follow the last field.                                       *)
Whole(bytes, r) ==
  After(r, LAMBDA v, c : IF c # Len(bytes) + 1 THEN Refuse("invalid") ELSE Got(v, c))

-----------------------------------------------------------------------------
(* register-collection: address and flag.                                   *)
CollectionBytes(m) == m.addr \o << IF m.rebaseable THEN 1 ELSE 0 >>

CollectionFrom(bytes) ==
  IF Len(bytes) < AddrLen + 1 THEN Refuse("short")
  ELSE IF Len(bytes) > AddrLen + 1 \/ bytes[AddrLen + 1] \notin {0, 1} THEN Refuse("invalid")
  ELSE Got([cmd |-> "collection", addr |-> SubSeq(bytes, 1, AddrLen),
            rebaseable |-> bytes[AddrLen + 1] = 1], AddrLen + 2)

(* register-ownership: groups of slot items, a single slot (tag 0) or a     *)
(* range of at least two (tag 1).                                           *)
SlotBytes(r) ==
  IF r.start = r.end THEN << 0 >> \o Encode(r.start)
  ELSE << 1 >> \o Encode(r.start) \o Encode(r.end)

OwnershipValid(m) ==
  /\ m.groups # << >>
  /\ \A g \in ToSet(m.groups) :
       g # << >> /\ \A r \in ToSet(g) : r.start <= r.end /\ r.end <= MaxValue

OwnershipBytes(m) ==
  Encode(m.height) \o Encode(m.txIndex) \o Encode(Len(m.groups))
  \o FlattenSeq([g \in 1..Len(m.groups) |->
       Encode(Len(m.groups[g]))
       \o FlattenSeq([i \in 1..Len(m.groups[g]) |-> SlotBytes(m.groups[g][i])])])

SlotItem(bytes, c) ==
  After(TakeBytes(bytes, c, 1), LAMBDA tag, d :
    CASE tag = << 0 >> -> After(TakeVarint(bytes, d),
                                LAMBDA s, e : Got([start |-> s, end |-> s], e))
      [] tag = << 1 >> -> After(TakeVarint(bytes, d), LAMBDA s, e :
                            After(TakeWithin(bytes, e, s + 1, MaxValue),
                                  LAMBDA t, f : Got([start |-> s, end |-> t], f)))
      [] OTHER -> Refuse("invalid"))

OwnershipFrom(bytes) ==
  LET group(d) == After(TakeWithin(bytes, d, 1, MaxUsize),
                        LAMBDA n, e : Repeat(n, e, LAMBDA vs, f : SlotItem(bytes, f)))
  IN  Whole(bytes,
        After(TakeWithin(bytes, 1, 0, MaxHeight), LAMBDA height, c :
        After(TakeWithin(bytes, c, 0, MaxTxIndex), LAMBDA txIndex, d :
        After(TakeWithin(bytes, d, 1, MaxUsize), LAMBDA n, e :
        After(Repeat(n, e, LAMBDA vs, f : group(f)), LAMBDA groups, f :
          Got([cmd |-> "ownership", height |-> height, txIndex |-> txIndex,
               groups |-> groups], f))))))

(* mix: per output a count and that many pairs; the complement has none.    *)
MixBytes(m) ==
  Encode(Len(m.outs))
  \o FlattenSeq([k \in 1..Len(m.outs) |->
       IF k = m.complement THEN Encode(0)
       ELSE Encode(Len(m.outs[k]))
            \o FlattenSeq([i \in 1..Len(m.outs[k]) |->
                 Encode(m.outs[k][i].start) \o Encode(m.outs[k][i].end)])])

MixRange(bytes, c) ==
  After(TakeVarint(bytes, c), LAMBDA s, d :
    After(TakeWithin(bytes, d, s + 1, MaxValue),
          LAMBDA t, e : Got([start |-> s, end |-> t], e)))

MixFrom(bytes) ==
  LET granted(n, r) == IF n > Reserve THEN Refuse("panic") ELSE r
      output(outs, c) ==
        After(TakeWithin(bytes, c, 0, MaxUsize), LAMBDA n, d :
          IF n = 0
          THEN IF << >> \in ToSet(outs) THEN Refuse("invalid") ELSE Got(<< >>, d)
          ELSE granted(n, Repeat(n, d, LAMBDA vs, e : MixRange(bytes, e))))
      complement(outs) == CHOOSE k \in 1..Len(outs) : outs[k] = << >>
  IN  After(Whole(bytes, After(TakeWithin(bytes, 1, 1, MaxUsize),
                               LAMBDA n, c : granted(n, Repeat(n, c, output)))),
        LAMBDA outs, c :
          IF << >> \notin ToSet(outs) THEN Refuse("invalid")
          ELSE LET m == [cmd |-> "mix", outs |-> outs, complement |-> complement(outs)]
               IN  IF WellFormed(m) THEN Got(m, c) ELSE Refuse("invalid"))

-----------------------------------------------------------------------------
(* A payload: the command's number, then its data.                          *)
Commands == << "collection", "ownership", "mix" >>

ToBytes(m) ==
  CASE m.cmd = "collection" -> << 0 >> \o CollectionBytes(m)
    [] m.cmd = "ownership"  -> << 1 >> \o OwnershipBytes(m)
    [] m.cmd = "mix"        -> << 2 >> \o MixBytes(m)

FromBytes(bytes) ==
  IF bytes = << >> THEN Refuse("short")
  ELSE IF Head(bytes) >= Len(Commands) THEN Refuse("invalid")
  ELSE CASE Commands[Head(bytes) + 1] = "collection" -> CollectionFrom(Tail(bytes))
         [] Commands[Head(bytes) + 1] = "ownership"  -> OwnershipFrom(Tail(bytes))
         [] Commands[Head(bytes) + 1] = "mix"        -> MixFrom(Tail(bytes))

(* Scripts are sequences of instructions.  OP_15 marks the protocol; what   *)
(* follows the third instruction is not looked at.                          *)
Op(name)    == [kind |-> "op", name |-> name]
Push(bytes) == [kind |-> "push", bytes |-> bytes]
IntoScript(m) == << Op("OP_RETURN"), Op("OP_15"), Push(ToBytes(m)) >>

IsOp(script, i, name) == i <= Len(script) /\ script[i].kind = "op" /\ script[i].name = name

FromOutput(script) ==
  IF /\ IsOp(script, 1, "OP_RETURN") /\ IsOp(script, 2, "OP_15")
     /\ Len(script) >= 3 /\ script[3].kind = "push"
  THEN FromBytes(script[3].bytes)
  ELSE Refuse("none")

(* parse_brc721_tx: only output 0 may carry the message.                    *)
ParseTx(outputs) == IF outputs = << >> THEN Refuse("none") ELSE FromOutput(outputs[1])

(* Slots in the ownership_ranges table and in token ids: big-endian digits, *)
(* so that the order of blobs is the order of slots.                        *)
SlotBlobLittle(v) == [i \in 1..MaxLen |-> (v \div Radix^(i - 1)) % Radix]   \* mutant
SlotBlob(v) == [i \in 1..MaxLen |-> (v \div Radix^(MaxLen - i)) % Radix]
SlotOfBlob(b) == FoldLeft(LAMBDA sum, d : sum * Radix + d, 0, b)
BlobBefore(a, b) ==
  \E i \in 1..MaxLen : a[i] < b[i] /\ \A j \in 1..i - 1 : a[j] = b[j]

TokenId(slot, addr) == slot * (2 * Radix)^AddrLen + addr
TokenOfId(id) ==
  IF id \div (2 * Radix)^AddrLen > MaxValue THEN Refuse("invalid")
  ELSE Got([slot |-> id \div (2 * Radix)^AddrLen, addr |-> id % (2 * Radix)^AddrLen], 0)

-----------------------------------------------------------------------------
(* The command line.  An item is [form, a, b]: "a", "a..b" or "a..=b".      *)
Apart(rs) == \A i, j \in 1..Len(rs) : i # j =>
               rs[i].end < rs[j].start \/ rs[j].end < rs[i].start

(* SlotRanges::from_str: "a" or "a..=b" with a < b, no slot twice.          *)
SlotItemOk(w) ==
  /\ w.form # "a..b" /\ w.a <= MaxValue
  /\ w.form = "a..=b" => w.b <= MaxValue /\ w.a < w.b

ParseSlots(ws) ==
  LET rs == [i \in 1..Len(ws) |->
              [start |-> ws[i].a, end |-> IF ws[i].form = "a" THEN ws[i].a ELSE ws[i].b]]
  IN  IF ws # << >> /\ (\A i \in 1..Len(ws) : SlotItemOk(ws[i])) /\ Apart(rs)
      THEN Got(rs, 0) ELSE Refuse("invalid")

IndexItemAny(w) ==   \* mutant: the largest index is let through
  /\ w.a <= MaxValue
  /\ w.form = "a..b"  => w.b <= MaxValue /\ w.a < w.b
  /\ w.form = "a..=b" => w.b < MaxValue /\ w.a <= w.b

(* IndexRanges::from_str: start..end with end exclusive, so that the        *)
(* largest index can only be reached as the end of a..b.                    *)
IndexItemOk(w) ==
  /\ w.a <= MaxValue
  /\ w.form = "a"     => w.a < MaxValue
  /\ w.form = "a..b"  => w.b <= MaxValue /\ w.a < w.b
  /\ w.form = "a..=b" => w.b < MaxValue /\ w.a <= w.b

ParseIndices(ws) ==
  LET end(w) == CASE w.form = "a" -> w.a + 1 [] w.form = "a..b" -> w.b
                  [] w.form = "a..=b" -> w.b + 1
      rs   == [i \in 1..Len(ws) |-> [start |-> ws[i].a, end |-> end(ws[i])]]
      last == [i \in 1..Len(ws) |-> [start |-> ws[i].a, end |-> end(ws[i]) - 1]]
  IN  IF ws # << >> /\ (\A i \in 1..Len(ws) : IndexItemOk(ws[i])) /\ Apart(last)
      THEN Got(rs, 0) ELSE Refuse("invalid")

(* parse_mix_outputs: an output is a list of items or the word complement,  *)
(* written << >> here; exactly one is the complement.                       *)
ParseOutputs(os) ==
  LET rest == {k \in 1..Len(os) : os[k] = << >>}
      list == [k \in 1..Len(os) |-> IF k \in rest THEN Got(<< >>, 0) ELSE ParseIndices(os[k])]
      m    == [cmd |-> "mix", outs |-> [k \in 1..Len(os) |-> list[k].value],
               complement |-> CHOOSE k \in rest : TRUE]
  IN  IF Cardinality(rest) = 1 /\ (\A k \in 1..Len(os) : list[k].ok) /\ WellFormed(m)
      THEN Got(m, 0) ELSE Refuse("invalid")

(* RegisterOwnershipData::for_single_output                                 *)
ForSingleOutput(height, txIndex, slots) ==
  [cmd |-> "ownership", height |-> height, txIndex |-> txIndex, groups |-> << slots >>]
=============================================================================
