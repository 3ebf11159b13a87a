----------------------------- MODULE Compression -----------------------------
(***************************************************************************)
(* Compressed references, from vmkit/src/object_model/compression.rs and   *)
(* VMKitNarrow of object_model/object.rs.                                  *)
(*                                                                         *)
(* A narrow reference is the distance of an object from a base, divided by *)
(* a scale and cut to 32 bits; 0 is the null reference.  init chooses base *)
(* and scale once from the range reserved for the heap, and checks nothing *)
(* else: that a heap may be compressed at all is Fits, which is left to    *)
(* the runtime.  Addresses count bytes, and scale is 2^shift.              *)
(***************************************************************************)
EXTENDS Integers

CONSTANTS
    NarrowSpan,     \* how many narrow references there are: 2^32 in the code
    Page,           \* what is left free below the heap: 4096
    MinAlignment,   \* VM::MIN_ALIGNMENT
    TaggedScale     \* 2^2, the scale when two bits are kept for tags

ASSUME CompressionAssumption ==
    /\ NarrowSpan \in Nat \ {0}
    /\ MinAlignment \in Nat \ {0}
    /\ TaggedScale \in Nat \ {0}
    /\ Page \in Nat \ {0}

NoObject == 0

\* Where distances start when the heap does not lie low enough.
BelowHeap(heap) == heap.start - Page

\* CompressedOps::init for tagged references.
InitTagged(heap) == [base |-> BelowHeap(heap), scale |-> TaggedScale]

\* Mutant: the scale is dropped for a heap that is low enough without a base.
MutScale(heap) == IF heap.end > NarrowSpan * MinAlignment THEN MinAlignment ELSE 1

\* Addresses below the span need no scale.
Scale(heap) == IF heap.end > NarrowSpan THEN MinAlignment ELSE 1

\* Scaled references reach further, and need no base if they reach the end.
Base(heap) ==
    IF heap.end <= NarrowSpan * MinAlignment THEN NoObject ELSE BelowHeap(heap)

\* CompressedOps::init for references without tags.
InitUntagged(heap) == [base |-> Base(heap), scale |-> Scale(heap)]

InitOps(heap, tagged) == IF tagged THEN InitTagged(heap) ELSE InitUntagged(heap)

\* CompressedOps::encode; the cast to u32 keeps the low bits.
Encode(ops, addr) ==
    IF addr = NoObject
      THEN NoObject
      ELSE ((addr - ops.base) \div ops.scale) % NarrowSpan

\* CompressedOps::decode.
Decode(ops, narrow) ==
    IF narrow = NoObject THEN NoObject ELSE ops.base + narrow * ops.scale

-----------------------------------------------------------------------------
(* What the runtime has to see to.                                         *)

Heap == {h \in [start : Nat, end : Nat] : Page < h.start /\ h.start < h.end}

\* The heap and the page below it are within reach of narrow references.
Fits(heap, tagged) ==
    heap.end - heap.start + Page
        <= NarrowSpan * (IF tagged THEN TaggedScale ELSE MinAlignment)

\* The distance of the address survives the cast.
InReach(ops, addr) == addr - ops.base < NarrowSpan * ops.scale

\* An address of the heap whose distance loses nothing to the scale.
Reachable(heap, ops) ==
    {addr \in heap.start..(heap.end - 1) : (addr - ops.base) % ops.scale = 0}
=============================================================================
