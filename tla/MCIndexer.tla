----------------------------- MODULE MCIndexer -----------------------------
(***************************************************************************)
(* Small block trees for Indexer.  Block names are branch letter + height.  *)
(***************************************************************************)
EXTENDS Indexer, TLC

Main    == <<"a1", "a2", "a3", "a4", "a5">>
(* leaves Main above height 2: deeper than one confirmation                *)
Deep    == <<"a1", "a2", "b3", "b4", "b5", "b6">>
(* replaces a5 only                                                        *)
Shallow == <<"a1", "a2", "a3", "a4", "c5", "c6">>
(* leaves Shallow at its tip again                                         *)
Again   == <<"a1", "a2", "a3", "a4", "c5", "d6", "d7">>

PrefixesOf(c) == {SubSeq(c, 1, n) : n \in 0..Len(c)}

DeepChains    == UNION {PrefixesOf(c) : c \in {Main, Deep, Shallow}}
ShallowChains == UNION {PrefixesOf(c) : c \in {Main, Shallow, Again}}

BlocksOf(chains) == UNION {{c[h] : h \in 1..Len(c)} : c \in chains}

DeepBlocks    == BlocksOf(DeepChains)
ShallowBlocks == BlocksOf(ShallowChains)

ParentIn(chains) ==
  [b \in BlocksOf(chains) |->
     LET c == CHOOSE c \in chains : c # << >> /\ c[Len(c)] = b
     IN  IF Len(c) = 1 THEN "genesis" ELSE c[Len(c) - 1]]

DeepParent    == ParentIn(DeepChains)
ShallowParent == ParentIn(ShallowChains)
=============================================================================
