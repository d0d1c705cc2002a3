------------------------------- MODULE MCLedger -------------------------------
(***************************************************************************)
(* Small chains of transactions for Ledger: a collection is registered,     *)
(* then slots under it, then tokens are transferred, burnt, mixed and       *)
(* registered again.                                                        *)
(***************************************************************************)
EXTENDS Ledger, TLC

A == "alice"
B == "bob"
R == "op_return"

Script2 == {A, B}
Coinbase == <<A>>

Shape(inputs, outs, msg) == [inputs |-> inputs, outs |-> outs, msg |-> msg]

None       == [cmd |-> "none"]
Collection == [cmd |-> "collection"]
Ownership(coll, groups) == [cmd |-> "ownership", coll |-> coll, groups |-> groups]
MixTo(outs, complement) == [cmd |-> "mix", outs |-> outs, complement |-> complement]

Slot(n)       == [lo |-> n, hi |-> n]
SlotsTo(a, b) == [lo |-> a, hi |-> b]
Index(a, b)   == [start |-> a, end |-> b]

RegisterCollection == {Shape(1, <<R, A, B>>, Collection)}

(* Two outputs, one output with a gap; then the ways not to register:      *)
(* collection unknown, too many slots, a coinbase, more groups than        *)
(* outputs.                                                                *)
Register ==
  { Shape(1, <<R, A, B>>, Ownership(1, << <<SlotsTo(0, 1)>>, <<Slot(2)>> >>)),
    Shape(1, <<R, B>>, Ownership(1, << <<SlotsTo(2, 3), Slot(0)>> >>)) }

NotRegistered ==
  { Shape(1, <<R, A>>, Ownership(9, << <<Slot(0)>> >>)),
    Shape(1, <<R, A>>, Ownership(1, << <<SlotsTo(0, 3), Slot(0)>> >>)),
    Shape(0, <<R, A>>, Ownership(1, << <<Slot(0)>> >>)),
    Shape(1, <<R, A>>, Ownership(1, << <<Slot(0)>>, <<Slot(1)>> >>)) }

(* No message: fewer and more outputs than inputs, OP_RETURN among them,   *)
(* nothing but OP_RETURN, a malformed Mix.                                 *)
Transfers ==
  { Shape(n, outs, None) :
      n \in 1..2, outs \in {<<A>>, <<B, A>>, <<R, B>>, <<A, R, B>>} }
  \cup
  { Shape(2, <<R>>, None), Shape(1, <<R, R>>, None), Shape(3, <<A, B>>, None),
    Shape(1, <<R, A, B>>, MixTo(<< <<Index(1, 1)>>, << >> >>, 2)) }

Mixes ==
  { Shape(n, <<R, B, A>>, m) : n \in 1..2, m \in
      { MixTo(<< << >>, <<Index(0, 1)>> >>, 1),
        MixTo(<< <<Index(1, 2), Index(3, 4)>>, << >> >>, 2),
        MixTo(<< <<Index(1, 3)>>, << >> >>, 2) } }
  \cup
  { Shape(1, <<R, B>>, MixTo(<< << >> >>, 1)),
    Shape(1, <<R, B, R>>, MixTo(<< <<Index(0, 1)>>, << >> >>, 2)),
    Shape(1, <<R, B>>, MixTo(<< <<Index(0, 1)>>, << >> >>, 2)) }

AllShapes ==
  <<RegisterCollection, Register, Register \cup NotRegistered \cup Transfers \cup Mixes,
    Transfers \cup Mixes>>

(* The same slots registered again, after a transfer or at once.           *)
AgainShapes ==
  <<RegisterCollection, Register, Register \cup Transfers, Register>>
=============================================================================
