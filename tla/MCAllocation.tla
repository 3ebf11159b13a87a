---------------------------- MODULE MCAllocation ----------------------------
(***************************************************************************)
(* A small instance of CompressedHeap: a block of three words and one of a *)
(* word behind it, which has its VO bits in another byte.  Up to three     *)
(* objects of the first block share a byte; the reference of one without   *)
(* fields at its end is in the byte of the second block.                   *)
(***************************************************************************)
EXTENDS CompressedHeap, TLC

CONSTANTS a, b

Two == {a, b}
ThreeAndOneWord == {[start |-> 5, end |-> 8], [start |-> 8, end |-> 9]}
EmptyAndSmall == {0, 1}
OneOrTwo == {1, 2}

\* With 64 narrow references: below the span, below the scaled span, above it,
\* and one that is too large, in which some objects are within reach.
FourHeaps == {[start |-> 16, end |-> 64], [start |-> 136, end |-> 256],
              [start |-> 512, end |-> 760], [start |-> 512, end |-> 768]}
Symmetric == Permutations(Two)
=============================================================================
