--------------------------------- MODULE Mix ---------------------------------
(***************************************************************************)
(* Slot ranges and the Mix command (parser/mix.rs, types/mix.rs).           *)
(*                                                                          *)
(* A range [group, lo, hi] holds the slots lo..hi of a group, a collection  *)
(* and the address its slots were registered under.  Mix numbers the tokens *)
(* of its inputs 0, 1, 2, ... and hands index ranges to outputs: payload    *)
(* is [outs, complement], outs[k] the ranges start..end-1 of the k-th       *)
(* output after the OP_RETURN, the complement taking every other index.     *)
(***************************************************************************)
EXTENDS Integers, Sequences, SequencesExt

(* The elements of s that are in S, in their order.                        *)
Keep(s, S) == FoldLeft(LAMBDA kept, x : IF x \in S THEN Append(kept, x) ELSE kept, << >>, s)

(* The tokens of a range, of ranges, and their order.                      *)
Count(r)  == r.hi - r.lo + 1
Total(rs) == FoldLeft(LAMBDA n, r : n + Count(r), 0, rs)
Expand(rs) ==
  FlattenSeq([i \in 1..Len(rs) |->
    [j \in 1..Count(rs[i]) |-> [group |-> rs[i].group, slot |-> rs[i].lo + j - 1]]])

(* OutputAssignment::push_slice: a slice that continues the last one       *)
(* extends it.                                                             *)
PushSliceAnyGroup(rs, r) ==   \* mutant: slices of two groups are joined
  IF rs # << >> /\ Last(rs).hi + 1 = r.lo
  THEN Append(Front(rs), [Last(rs) EXCEPT !.hi = r.hi])
  ELSE Append(rs, r)

PushSlice(rs, r) ==
  IF rs # << >> /\ Last(rs).group = r.group /\ Last(rs).hi + 1 = r.lo
  THEN Append(Front(rs), [Last(rs) EXCEPT !.hi = r.hi])
  ELSE Append(rs, r)

(* merge_ordered_ranges                                                    *)
MergeOrdered(rs) == FoldLeft(PushSlice, << >>, rs)

-----------------------------------------------------------------------------

Explicit(m) == 1..Len(m.outs) \ {m.complement}

(* The explicit ranges, each with its output and its place there.          *)
ExplicitRanges(m) ==
  UNION {{[start |-> m.outs[k][i].start, end |-> m.outs[k][i].end, out |-> k, at |-> i]
          : i \in 1..Len(m.outs[k])} : k \in Explicit(m)}

(* MixData::validate_basic, which decoding applies too.  Of sorted ranges   *)
(* it compares neighbours.                                                 *)
WellFormed(m) ==
  LET rs == ExplicitRanges(m)
  IN  /\ m.complement \in 1..Len(m.outs)
      /\ m.outs[m.complement] = << >>
      /\ \A k \in Explicit(m) : m.outs[k] # << >>
      /\ \A e \in rs : e.start < e.end
      /\ rs = {} => Len(m.outs) = 1
      /\ \A e, f \in rs : e # f => e.end <= f.start \/ f.end <= e.start

(* validate_token_count: no explicit range reaches past the last token.    *)
CountOffByOne(m, total) ==    \* mutant
  \A e \in ExplicitRanges(m) : e.end <= total + 1

CountSuffices(m, total) == \A e \in ExplicitRanges(m) : e.end <= total

(* The input segments: rs[i] holds the indices                             *)
(* IndexStart(rs, i) .. IndexStart(rs, i + 1) - 1.                         *)
IndexStart(rs, i) == Total(SubSeq(rs, 1, i - 1))

SliceInclusive(m, c, stop) ==   \* mutant: an explicit range is never passed at its end
  LET open == {e \in ExplicitRanges(m) : c <= e.end}
      next == CHOOSE e \in open : \A f \in open : e.start <= f.start
      least(a, b) == IF a <= b THEN a ELSE b
  IN  IF open = {} THEN [end |-> stop, out |-> m.complement]
      ELSE IF c >= next.start THEN [end |-> least(stop, next.end + 1), out |-> next.out]
      ELSE [end |-> least(stop, next.start), out |-> m.complement]

(* Where the sweep's next slice, beginning at index c, ends, and which     *)
(* output takes it: `next` is the first explicit range not yet passed.     *)
SliceTo(m, c, stop) ==
  LET open == {e \in ExplicitRanges(m) : c < e.end}
      next == CHOOSE e \in open : \A f \in open : e.start <= f.start
      least(a, b) == IF a <= b THEN a ELSE b
  IN  IF open = {} THEN [end |-> stop, out |-> m.complement]
      ELSE IF c >= next.start THEN [end |-> least(stop, next.end), out |-> next.out]
      ELSE [end |-> least(stop, next.start), out |-> m.complement]

(* The sweep over all segments; each slice with the output it is for.      *)
Sweep(m, rs) ==
  LET total == Total(rs)
      slices[c \in 0..total] ==
        IF c = total THEN << >>
        ELSE LET i     == CHOOSE i \in 1..Len(rs) :
                            IndexStart(rs, i) <= c /\ c < IndexStart(rs, i + 1)
                 slice == SliceTo(m, c, IndexStart(rs, i + 1))
                 lo    == rs[i].lo + c - IndexStart(rs, i)
             IN  << [out |-> slice.out,
                     range |-> [group |-> rs[i].group, lo |-> lo,
                                hi |-> lo + slice.end - c - 1]] >>
                 \o slices[slice.end]
  IN  slices[0]

(* The ranges output k is assigned.                                        *)
Assigned(m, rs, k) ==
  FoldLeft(LAMBDA acc, s : IF s.out = k THEN PushSlice(acc, s.range) ELSE acc, << >>, Sweep(m, rs))

-----------------------------------------------------------------------------
(* The indices output k gets by definition, and their tokens.              *)
IndicesFor(m, total, k) ==
  LET given(j) == UNION {r.start..r.end - 1 : r \in ToSet(m.outs[j])}
  IN  IF k = m.complement THEN 0..total - 1 \ UNION {given(j) : j \in Explicit(m)}
      ELSE given(k)

ByIndex(m, rs, k) ==
  LET indices == Keep([i \in 1..Total(rs) |-> i - 1], IndicesFor(m, Total(rs), k))
  IN  [i \in 1..Len(indices) |-> Expand(rs)[indices[i] + 1]]

(* A Mix is applied exactly when every index it names exists, and then each *)
(* output gets the tokens its index ranges name, the complement all others, *)
(* in the order of the inputs: the sweep of parser/mix.rs neither drops nor *)
(* doubles a token where input segments and index ranges meet.              *)
GivesIndices(m, rs) ==
  LET total == Total(rs)
      named == UNION {IndicesFor(m, total, k) : k \in Explicit(m)}
  IN  /\ CountSuffices(m, total) <=> named \subseteq 0..total - 1
      /\ CountSuffices(m, total) =>
           \A k \in 1..Len(m.outs) : Expand(Assigned(m, rs, k)) = ByIndex(m, rs, k)
=============================================================================
