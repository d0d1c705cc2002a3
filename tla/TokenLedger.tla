----------------------------- MODULE TokenLedger -----------------------------
(***************************************************************************)
(* What brc721 promises the owner of a token, with no database in sight:    *)
(* a token rests on outputs of Bitcoin transactions.  It moves only when    *)
(* the output it rests on is spent, to an output of the spending            *)
(* transaction, and comes into being on an output of the transaction that   *)
(* registers it.                                                            *)
(***************************************************************************)
EXTENDS Naturals, FiniteSets

CONSTANTS
  Tokens,    \* a slot of a group
  Outpoints  \* outputs of Bitcoin transactions

VARIABLES
  coins,     \* outputs created and not spent
  dead,      \* outputs spent
  holds,     \* holds: <<token, outpoint>>
  minted,    \* tokens ever registered
  reminted   \* tokens registered more than once

vars == <<coins, dead, holds, minted, reminted>>

-----------------------------------------------------------------------------

Init ==
  /\ coins \subseteq Outpoints
  /\ dead = {}
  /\ holds = {}
  /\ minted = {}
  /\ reminted = {}

(* Tokens of a set of holdings.                                            *)
TokensIn(H) == {h[1] : h \in H}

SpentHolds(ins) == {h \in holds : h[2] \in ins}

(* A transaction spends some coins and creates others.                     *)
Ins  == coins \ coins'
Outs == coins' \ coins

Spend ==
  /\ coins' \subseteq Outpoints \ dead
  /\ dead' = dead \cup Ins

(* What rested on the inputs moves to the outputs, H: no token is left     *)
(* behind, and only one registered twice may end on two outputs.           *)
Moves(H) ==
  /\ H \subseteq TokensIn(SpentHolds(Ins)) \X Outs
  /\ TokensIn(SpentHolds(Ins)) \subseteq TokensIn(H)
  /\ \A g, h \in H : g[1] = h[1] /\ g[1] \notin reminted => g = h

Kept == holds \ SpentHolds(Ins)

Transfer ==
  /\ Spend
  /\ \E H \in SUBSET {h \in holds' : h[2] \in Outs} : Moves(H) /\ holds' = Kept \cup H
  /\ UNCHANGED <<minted, reminted>>

(* A rejected Mix: what rested on its inputs is no one's any more.         *)
Lose ==
  /\ Spend
  /\ holds' = Kept
  /\ UNCHANGED <<minted, reminted>>

(* A transfer that also registers the holdings `new`.  A token registered  *)
(* before, or twice here, is reminted.                                     *)
Register ==
  /\ Spend
  /\ \E H, new \in SUBSET {h \in holds' : h[2] \in Outs} :
       /\ Moves(H)
       /\ new \subseteq Tokens \X Outs
       /\ holds' = Kept \cup H \cup new
       /\ minted' = minted \cup TokensIn(new)
       /\ reminted \cup (TokensIn(new) \cap minted) \subseteq reminted'
       /\ \A g, h \in new : g[1] = h[1] /\ g # h => g[1] \in reminted'

Next == Transfer \/ Lose \/ Register

Spec == Init /\ [][Next]_vars

-----------------------------------------------------------------------------

(* A token registered once rests on at most one output.                    *)
UniqueHolder ==
  \A g, h \in holds : g[1] = h[1] /\ g[1] \notin reminted => g = h

(* Whatever a token rests on is unspent.                                   *)
OnUnspent == \A h \in holds : h[2] \in coins
=============================================================================
