--------------------------- MODULE CompressedHeap ---------------------------
(***************************************************************************)
(* Allocation and Compression composed: references to allocated objects    *)
(* are kept in narrow fields (set_field_narrow, get_field_narrow).  The    *)
(* blocks of Allocation are the highest ones of a heap; where the          *)
(* operating system maps it is not known beforehand.                       *)
(***************************************************************************)
EXTENDS Allocation, Compression

CONSTANT Heaps      \* ranges that may be reserved

LastWord == CHOOSE w \in {b.end : b \in Blocks} : \A b \in Blocks : b.end <= w

\* One of the blocks is the highest, and all of them are inside each heap.
ASSUME BlocksInHeaps ==
    /\ \E last \in Blocks : \A b \in Blocks : b.end <= last.end
    /\ \A b \in Blocks, heap \in Heaps :
          (LastWord - b.start) * MinAlignment <= heap.end - heap.start

\* Heaps are aligned like objects, the page below them as well, and the bits that
\* a tag takes are bits that the alignment leaves 0.
ASSUME HeapsAligned ==
    /\ Heaps \subseteq Heap
    /\ \A heap \in Heaps : heap.start % MinAlignment = 0 /\ heap.end % MinAlignment = 0
    /\ Page % MinAlignment = 0
    /\ MinAlignment % TaggedScale = 0

\* The address of an object's reference in a heap: words are of MIN_ALIGNMENT.
AddressIn(heap, o) == heap.end - (LastWord - Reference(o)) * MinAlignment

\* What set_field_narrow stores, and where what get_field_narrow loads leads.
FieldOf(ops, addr) == Encode(ops, addr)
ObjectOf(ops, field) == Decode(ops, field)

\* A narrow field leads back to the object that was stored in it exactly when
\* the object is within its reach, with and without tags; and in a heap that fits,
\* every object below the heap's end is.  (encode shifts the distance and casts
\* it to u32, from a base and a shift that init chooses by three comparisons of
\* the heap's end; decode has nothing to check them with.)
NarrowFieldsLeadBack ==
    \A o \in objs, heap \in Heaps, tagged \in BOOLEAN :
        LET ops  == InitOps(heap, tagged)
            addr == AddressIn(heap, o)
        IN  /\ ObjectOf(ops, FieldOf(ops, addr)) = addr <=> InReach(ops, addr)
            /\ Fits(heap, tagged) /\ addr < heap.end => InReach(ops, addr)

\* So none of these objects looks like null, and no two of them look alike: a
\* runtime may compare narrow fields instead of the references.
NarrowFieldsTellApart ==
    \A o, p \in objs, heap \in Heaps, tagged \in BOOLEAN :
        LET ops      == InitOps(heap, tagged)
            addr(x)  == AddressIn(heap, x)
            field(x) == FieldOf(ops, addr(x))
        IN  InReach(ops, addr(o)) /\ InReach(ops, addr(p)) =>
                field(o) # NoObject /\ (o # p => field(o) # field(p))
=============================================================================
