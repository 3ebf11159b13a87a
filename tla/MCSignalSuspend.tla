-------------------------- MODULE MCSignalSuspend --------------------------
(***************************************************************************)
(* Small instances of SignalSuspend: thread a is in the table from the     *)
(* start, b may end or start late.                                         *)
(***************************************************************************)
EXTENDS SignalSuspend

CONSTANTS a, b, c

Two == {a, b}
Three == {a, b, c}
OnlyA == {a}
OnlyB == {b}
OnlyC == {c}
=============================================================================
