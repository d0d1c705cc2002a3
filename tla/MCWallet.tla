------------------------------- MODULE MCWallet -------------------------------
(***************************************************************************)
(* One or two commands on a wallet of a few coins for Wallet.  Coin(1, 0)   *)
(* carries two tokens, Coin(1, 1) one; Coin(2, 1) carries one and may be    *)
(* unknown to the index.  The others are plain.                             *)
(***************************************************************************)
EXTENDS Wallet

Coin(h, v) == [height |-> h, vout |-> v]

Group == [coll |-> 0, base |-> Own]
SlotRange(a, b) == [group |-> Group, lo |-> a, hi |-> b]

TwoBlocks ==
  << << <<SlotRange(0, 1)>>, <<SlotRange(2, 2)>> >>,
     << << >>, <<SlotRange(3, 3)>>, << >> >> >>

Command(kind, named, pays, msg) ==
  [kind |-> kind, named |-> named, pays |-> pays, msg |-> msg]

NoMsg == [cmd |-> "none"]
Pick(a, b) == [start |-> a, end |-> b]
MixMsg == [cmd |-> "mix", outs |-> << <<Pick(1, 2)>>, << >> >>, complement |-> 2]

RegisterCollection == Command("collection", << >>, << >>, [cmd |-> "collection"])
RegisterOwnership ==
  Command("ownership", << >>, <<Own>>,
          [cmd |-> "ownership", coll |-> 0, groups |-> << <<[lo |-> 8, hi |-> 9]>> >>])
SendAmount == Command("amount", << >>, <<Payee>>, NoMsg)
SendAssets(named) == Command("assets", named, << >>, NoMsg)
MixTokens(named) == Command("mix", named, <<Payee, Own>>, MixMsg)

Pair == {"p", "q"}
PairCommands ==
  [p \in Pair |->
     IF p = "p" THEN {SendAssets(<<Coin(1, 0), Coin(1, 1)>>), RegisterCollection}
     ELSE {MixTokens(<<Coin(1, 1), Coin(1, 0)>>), RegisterOwnership, SendAmount,
           MixTokens(<<Coin(1, 1)>>)}]
PairLocks == {Coin(2, 2)}

Single == {"p"}
SingleCommand == [p \in Single |-> {MixTokens(<<Coin(1, 0)>>)}]
NoLocks == {}
=============================================================================
