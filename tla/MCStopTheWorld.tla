--------------------------- MODULE MCStopTheWorld ---------------------------
(***************************************************************************)
(* Small instances of StopTheWorld for TLC.  Thread a is in the table from *)
(* the start and never ends, so that no instance runs out of steps; b      *)
(* starts late and may end; c starts late.  In each run at most one thread *)
(* has sections without yieldpoints, and at most one enables too often.    *)
(***************************************************************************)
EXTENDS StopTheWorld

CONSTANTS a, b, c

One == {a}
Two == {a, b}
Three == {a, b, c}
OnlyB == {b}
Nobody == {}
=============================================================================
