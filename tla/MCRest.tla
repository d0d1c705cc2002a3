-------------------------------- MODULE MCRest --------------------------------
(***************************************************************************)
(* A short chain for Rest: slots registered to two outputs by one           *)
(* transaction, with a gap between those of the first, two groups brought   *)
(* together on one output, a burn.                                          *)
(***************************************************************************)
EXTENDS Rest

A == "alice"
B == "bob"
R == "op_return"

People == {A, B}
Coinbase == <<A>>

Shape(inputs, outs, msg) == [inputs |-> inputs, outs |-> outs, msg |-> msg]
Ownership(groups) == [cmd |-> "ownership", coll |-> 1, groups |-> groups]

ShortShapes ==
  << {Shape(1, <<R, A, B>>, [cmd |-> "collection"])},
     {Shape(1, <<R, A, B>>, Ownership(<< <<[lo |-> 0, hi |-> 0], [lo |-> 2, hi |-> 2]>>, <<[lo |-> 1, hi |-> 1]>> >>))},
     {Shape(1, <<R, B>>, Ownership(<< <<[lo |-> 1, hi |-> 1]>> >>)),
      Shape(1, <<B>>, NoMessage), Shape(1, <<R>>, NoMessage)},
     {Shape(2, <<A>>, NoMessage), Shape(1, <<B>>, NoMessage)} >>
=============================================================================
