----------------------------- MODULE MCHashMove -----------------------------
(***************************************************************************)
(* A small heap for TLC: an object of one word, and one of two words that  *)
(* is aligned to two words.                                                *)
(***************************************************************************)
EXTENDS HashMove

CONSTANTS x, y

Both == {x, y}
Sizes == [o \in Both |-> IF o = x THEN 1 ELSE 2]
Alignments == [o \in Both |-> IF o = x THEN 1 ELSE 2]
=============================================================================
