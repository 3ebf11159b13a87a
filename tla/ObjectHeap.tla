----------------------------- MODULE ObjectHeap -----------------------------
(***************************************************************************)
(* What allocation promises to a runtime, without buffers, blocks or paths *)
(* through the code: a thread asks for memory, and is given an object in   *)
(* one step.  The object is as large as was asked for and lies apart from  *)
(* every other, it is aligned at the offset that was asked for, and its    *)
(* valid-object bit is set when the thread gets it and cleared when a      *)
(* collection reclaims it.                                                 *)
(***************************************************************************)
EXTENDS Integers

CONSTANT Threads

VARIABLES
    wants,  \* what each thread has asked for: nothing, or one request
    heap,   \* objects
    bits    \* references of objects whose bit is set

hvars == <<wants, heap, bits>>

HInit ==
    /\ wants = [t \in Threads |-> {}]
    /\ heap = {}
    /\ bits = {}

\* A reference points behind the header, of one word.
RefTo(o) == o.start + 1

Disjoint(o, p) == o.end <= p.start \/ p.end <= o.start

Meets(o, request) ==
    /\ o.start + request.size = o.end
    /\ o.align = request.align
    /\ o.offset = request.offset
    /\ (o.start + request.offset) % request.align = 0

Ask(t, request) ==
    /\ wants[t] = {}
    /\ wants' = [wants EXCEPT ![t] = {request}]
    /\ UNCHANGED <<heap, bits>>

Give(t, o) ==
    /\ \E request \in wants[t] : Meets(o, request)
    /\ \A p \in heap : Disjoint(o, p)
    /\ wants' = [wants EXCEPT ![t] = {}]
    /\ heap' = heap \cup {o}
    /\ bits' = bits \cup {RefTo(o)}

Reclaim(dead) ==
    /\ heap' = heap \ dead
    /\ bits' = bits \ {RefTo(o) : o \in dead}
    /\ UNCHANGED wants

HNext ==
    \/ \E t \in Threads :
          \/ \E request \in wants'[t] : Ask(t, request)
          \/ \E o \in heap' : Give(t, o)
    \/ \E dead \in SUBSET heap : Reclaim(dead)

HSpec == HInit /\ [][HNext]_hvars
=============================================================================
