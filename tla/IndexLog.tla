------------------------------ MODULE IndexLog ------------------------------
(***************************************************************************)
(* What the brc721 index promises, with no daemon in sight: the blocks      *)
(* whose effect the tables contain are one contiguous segment of one chain  *)
(* of the node, beginning at the configured height.  The segment grows by   *)
(* whole batches, falls back to an earlier one when the machine loses       *)
(* power, and is emptied by `brc721 --reset`; nothing else happens to it.   *)
(***************************************************************************)
EXTENDS Naturals, Sequences

CONSTANTS
  Blocks,        \* block hashes
  Chains,        \* the active chains the node may present; c[h] has height h
  StartHeight,   \* --start, the first height indexed
  BatchSize      \* --batch-size, blocks per SQLite transaction

VARIABLE log     \* the indexed blocks, oldest first

-----------------------------------------------------------------------------

(* s is the piece of the chain c that begins at StartHeight.               *)
SegmentOf(s, c) ==
  /\ StartHeight + Len(s) <= Len(c) + 1
  /\ \A i \in 1..Len(s) : s[i] = c[StartHeight + i - 1]

Segment(s) == \E c \in Chains : SegmentOf(s, c)

Prefix(s, t) ==
  /\ Len(s) <= Len(t)
  /\ \A i \in 1..Len(s) : s[i] = t[i]

Init == log = << >>

(* One committed batch.                                                    *)
Extend ==
  /\ log' \in Seq(Blocks)
  /\ Segment(log')
  /\ Prefix(log, log')
  /\ Len(log') \in Len(log) + 1 .. Len(log) + BatchSize

(* Power loss may undo commits that were not synced yet.                   *)
FallBack ==
  /\ log' \in Seq(Blocks)
  /\ Prefix(log', log)

Reset == log' = << >>

Next == Extend \/ FallBack \/ Reset

Spec == Init /\ [][Next]_log
=============================================================================
