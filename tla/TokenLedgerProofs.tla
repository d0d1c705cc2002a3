-------------------------- MODULE TokenLedgerProofs --------------------------
(***************************************************************************)
(* Proofs about TokenLedger for every set of tokens and outpoints.  That a  *)
(* token registered once has one holder needs, to be inductive, that what   *)
(* is held was minted and that it is held on unspent outputs.               *)
(***************************************************************************)
EXTENDS TokenLedger, TLAPS

(* A holding ends only when its output is spent, by whoever can sign for   *)
(* it, and never begins on an output that is spent already.                *)
OwnerSigns ==
  [][/\ \A h \in holds \ holds' : h[2] \in dead'
     /\ \A h \in holds' \ holds : h[2] \in coins' \ coins]_vars

HeldMinted == TokensIn(holds) \subseteq minted

LedgerInv == UniqueHolder /\ OnUnspent /\ HeldMinted

-----------------------------------------------------------------------------

(* What one transaction does to the holdings, whichever kind it is: H has  *)
(* moved, new is registered.                                               *)
LEMMA HoldsStep ==
  ASSUME LedgerInv, Spend,
         NEW H, NEW new,
         Moves(H) \/ H = {},
         new \subseteq Tokens \X Outs,
         holds' = Kept \cup H \cup new,
         minted' = minted \cup TokensIn(new),
         reminted \cup (TokensIn(new) \cap minted) \subseteq reminted',
         \A g, h \in new : g[1] = h[1] /\ g # h => g[1] \in reminted'
  PROVE  LedgerInv'
  <1>1. /\ Kept \subseteq holds
        /\ \A h \in Kept : h[2] \in coins'
        /\ \A h \in H : h[1] \in TokensIn(SpentHolds(Ins)) /\ h[2] \in Outs
        /\ \A h \in new : h[2] \in Outs
    BY DEF Kept, Moves, SpentHolds, LedgerInv, OnUnspent, Ins, Outs
  <1>2. OnUnspent'
    BY <1>1 DEF OnUnspent, Outs
  <1>3. \A h \in Kept \cup H : h[1] \in minted
    BY <1>1 DEF LedgerInv, HeldMinted, TokensIn, SpentHolds
  <1>4. HeldMinted'
    BY <1>3 DEF HeldMinted, TokensIn
  <1>5. UniqueHolder'
    <2> SUFFICES ASSUME NEW g \in holds', NEW h \in holds',
                        g[1] = h[1], g[1] \notin reminted'
                 PROVE  g = h
      BY DEF UniqueHolder
    <2>1. g[1] \notin reminted
      OBVIOUS
    <2>2. CASE g \in new \/ h \in new
      <3>1. g[1] \notin minted
        BY <2>2 DEF TokensIn
      <3>2. g \in new /\ h \in new
        BY <1>3, <3>1
      <3>3. QED
        BY <3>2
    <2>3. CASE g \in Kept /\ h \in Kept
      BY <1>1, <2>1, <2>3 DEF LedgerInv, UniqueHolder
    <2>4. CASE g \in H /\ h \in H
      BY <2>1, <2>4 DEF Moves
    <2>5. ASSUME NEW k \in Kept, NEW m \in H, k[1] = m[1], m[1] \notin reminted
          PROVE  FALSE
      <3>1. PICK s \in SpentHolds(Ins) : s[1] = m[1]
        BY <1>1 DEF TokensIn
      <3>2. s \in holds /\ k \in holds
        BY DEF SpentHolds, Kept
      <3>3. s = k
        BY <2>5, <3>1, <3>2 DEF LedgerInv, UniqueHolder
      <3>4. QED
        BY <3>3 DEF Kept
    <2>6. QED
      BY <2>1, <2>2, <2>3, <2>4, <2>5
  <1>6. QED
    BY <1>2, <1>4, <1>5 DEF LedgerInv

(* One holder, on an unspent output, for every token ever registered once. *)
THEOREM LedgerInvariant == Spec => []LedgerInv
  <1>1. Init => LedgerInv
    BY DEF Init, LedgerInv, UniqueHolder, OnUnspent, HeldMinted, TokensIn
  <1>2. ASSUME LedgerInv, [Next]_vars PROVE LedgerInv'
    <2>1. CASE Transfer
      <3>1. PICK H : Moves(H) /\ holds' = Kept \cup H
        BY <2>1 DEF Transfer
      <3>2. holds' = Kept \cup H \cup {} /\ TokensIn({}) = {}
        BY <3>1 DEF TokensIn
      <3>3. QED
        BY <1>2, <2>1, <3>1, <3>2, HoldsStep DEF Transfer
    <2>2. CASE Lose
      <3>1. holds' = Kept \cup {} \cup {} /\ TokensIn({}) = {}
        BY <2>2 DEF Lose, TokensIn
      <3>2. QED
        BY <1>2, <2>2, <3>1, HoldsStep DEF Lose
    <2>3. CASE Register
      <3>1. PICK H, new :
              /\ Moves(H)
              /\ new \subseteq Tokens \X Outs
              /\ holds' = Kept \cup H \cup new
              /\ minted' = minted \cup TokensIn(new)
              /\ reminted \cup (TokensIn(new) \cap minted) \subseteq reminted'
              /\ \A g, h \in new : g[1] = h[1] /\ g # h => g[1] \in reminted'
        BY <2>3 DEF Register
      <3>2. QED
        BY <1>2, <2>3, <3>1, HoldsStep DEF Register
    <2>4. CASE UNCHANGED vars
      BY <1>2, <2>4 DEF vars, LedgerInv, UniqueHolder, OnUnspent, HeldMinted, TokensIn
    <2>5. QED
      BY <1>2, <2>1, <2>2, <2>3, <2>4 DEF Next
  <1>3. QED
    BY <1>1, <1>2, PTL DEF Spec

(* A token registered once never has two owners.                           *)
THEOREM OneHolder == Spec => []UniqueHolder
  BY LedgerInvariant, PTL DEF LedgerInv

(* Ownership passes by spending, and by nothing else.                      *)
THEOREM OnlyOwnersSign == Spec => OwnerSigns
  <1>1. ASSUME LedgerInv, [Next]_vars
        PROVE  [/\ \A h \in holds \ holds' : h[2] \in dead'
                /\ \A h \in holds' \ holds : h[2] \in coins' \ coins]_vars
    <2> SUFFICES ASSUME Next
                 PROVE  /\ \A h \in holds \ holds' : h[2] \in dead'
                        /\ \A h \in holds' \ holds : h[2] \in coins' \ coins
      BY <1>1
    <2>1. PICK H, new : /\ Spend
                        /\ holds' = Kept \cup H \cup new
                        /\ \A h \in H \cup new : h[2] \in Outs
      <3>1. CASE Transfer
        <4>1. PICK H : Moves(H) /\ holds' = Kept \cup H
          BY <3>1 DEF Transfer
        <4>2. holds' = Kept \cup H \cup {} /\ \A h \in H \cup {} : h[2] \in Outs
          BY <4>1 DEF Moves
        <4>3. QED
          BY <3>1, <4>2 DEF Transfer
      <3>2. CASE Lose
        <4>1. holds' = Kept \cup {} \cup {} /\ \A h \in {} \cup {} : h[2] \in Outs
          BY <3>2 DEF Lose
        <4>2. QED
          BY <3>2, <4>1 DEF Lose
      <3>3. CASE Register
        BY <3>3 DEF Register, Moves
      <3>4. QED
        BY <3>1, <3>2, <3>3 DEF Next
    <2>2. \A h \in holds \ holds' : h[2] \in dead'
      BY <2>1 DEF Kept, SpentHolds, Spend
    <2>3. \A h \in holds' \ holds : h[2] \in coins' \ coins
      BY <2>1 DEF Kept, Outs
    <2>4. QED
      BY <2>2, <2>3
  <1>2. QED
    BY LedgerInvariant, <1>1, PTL DEF Spec, OwnerSigns
=============================================================================
