-------------------------- MODULE MCSoftHandshake --------------------------
(* Small instances of SoftHandshake: the main thread a starts the others,  *)
(* and a and b perform handshakes.  In Mutual, a thread that performs none *)
(* and one that does may block each other.                                  *)
EXTENDS SoftHandshake

CONSTANTS a, b, c

Nobody == {}
Two == {a, b}
Three == {a, b, c}
Mutual == {<<a, c>>, <<c, a>>}
MutualOfTwo == {<<a, b>>, <<b, a>>}
=============================================================================
