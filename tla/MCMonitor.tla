------------------------------ MODULE MCMonitor ------------------------------
(* The small instance of Monitor for TLC.                                   *)
EXTENDS Monitor

CONSTANTS t, u

Two == {t, u}
=============================================================================
