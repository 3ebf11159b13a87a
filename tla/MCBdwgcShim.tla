---------------------------- MODULE MCBdwgcShim ----------------------------
(* An instance of BdwgcShim: two objects of one word, one kind of typed     *)
(* objects with a mark procedure, a type descriptor or what                 *)
(* GC_make_descriptor gives, one link from one object to the other and one  *)
(* from an object to itself.                                                *)
EXTENDS BdwgcShim

CONSTANTS a, b

TwoObjects == {a, b}

OneObject == {b}

ByHand(tag) == [tag |-> tag, words |-> {}, proc |-> 1, named |-> {1}]

TwoDescriptors == {ByHand("proc"), ByHand("indirect")}

OneProcedure == {{1}}

TwoLinks ==
    {[object |-> a, home |-> b, word |-> 1], [object |-> b, home |-> b, word |-> 1]}

OnlyFirst == [o \in {a, b} |-> IF o = a THEN 1 ELSE 0]
=============================================================================
