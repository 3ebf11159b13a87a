----------------------------- MODULE Allocation -----------------------------
(***************************************************************************)
(* Allocation through thread-local buffers, from vmkit/src/mm.rs, tlab.rs, *)
(* align.rs and collection.rs, with the feature cooperative, which sets    *)
(* the valid-object (VO) bits.                                             *)
(*                                                                         *)
(* Addresses count words; a header is one word and a reference points      *)
(* behind it (OBJECT_REF_OFFSET).  MMTk hands out Blocks.  Its bump        *)
(* allocator keeps a pair of cursor and limit for each thread, which the   *)
(* TLAB duplicates: flush_tlab moves the TLAB into that pair, refill_tlab  *)
(* copies the pair into the TLAB, and the pair is out of date as soon as   *)
(* the TLAB serves an allocation.  A call of allocate is a sequence of     *)
(* steps, and a collection happens when every thread is between calls or   *)
(* inside MMTk's alloc.  Objects do not move here: see HashMove.  Nor does *)
(* a thread start too late to be stopped: see StopTheWorld.                *)
(***************************************************************************)
EXTENDS Integers

CONSTANTS
    Threads,
    Blocks,         \* the intervals of memory that MMTk hands out
    VoWords,        \* words whose VO bits share a byte: 8 in the code
    Sizes,          \* instance sizes, in words
    Aligns,         \* alignments, in words
    MaxNonLos       \* max_non_los_default_alloc_bytes, in words

Selectors == {"bump", "freelist"}
Semantics == {"Default", "Los", "NonMoving", "Immortal", "ReadOnly"}

VoByte(addr) == addr \div VoWords

ASSUME AllocationSizes ==
    /\ Sizes \subseteq Nat
    /\ Aligns \subseteq Nat \ {0}
    /\ VoWords \in Nat \ {0}
    /\ MaxNonLos \in Nat

\* Blocks are disjoint, and no two of them share a byte of VO bits.
ASSUME BlocksApart ==
    /\ \A b \in Blocks :
          b.start \in Nat \ {0} /\ b.end \in Nat
    /\ \A b, c \in Blocks : b # c =>
          /\ b.end <= c.start \/ c.end <= b.start
          /\ \A x \in b.start..(b.end - 1), y \in c.start..(c.end - 1) :
                VoByte(x) # VoByte(y)

VARIABLES
    selector,   \* the allocator of the plan's Default semantics
    tlab,       \* Thread.tlab: cursor and limit
    bump,       \* the pair of MMTk's allocator for each thread
    call,       \* the allocation each thread is in
    objs,       \* objects that were returned and not yet reclaimed
    vo,         \* references whose VO bit is set
    crossed     \* history: bytes of VO bits that took the bit of an object of
                \* the block before

vars == <<selector, tlab, bump, call, objs, vo, crossed>>

Null == 0
Empty == [cursor |-> Null, limit |-> Null]
ObjectRefOffset == 1
Interval(s, e) == [start |-> s, end |-> e]
NoCall == [pc |-> "idle", path |-> "fast", size |-> 0, align |-> 1,
           start |-> Null, byte |-> {}]

Steps == {"idle", "flush", "alloc", "initialize", "set_vo", "refill", "post_alloc"}
Paths == {"fast", "slow", "los", "own_space", "other", "other_default"}

BufferPair == {p \in [cursor : Nat, limit : Nat] : p.cursor <= p.limit}

\* An object's cell, the alignment that was asked for, and the place in the cell
\* that has it.
Object == [start : Nat, end : Nat, align : Nat, offset : {0, ObjectRefOffset}]

TypeOK ==
    /\ selector \in Selectors
    /\ tlab \in [Threads -> BufferPair]
    /\ bump \in [Threads -> BufferPair]
    /\ call \in [Threads -> [pc : Steps, path : Paths, size : Nat,
                             align : Aligns \cup {1}, start : Nat, byte : SUBSET Nat]]
    /\ objs \subseteq Object
    /\ vo \subseteq Nat
    /\ crossed \subseteq Nat

Init ==
    /\ selector \in Selectors
    /\ tlab = [t \in Threads |-> Empty]
    /\ bump = [t \in Threads |-> Empty]
    /\ call = [t \in Threads |-> NoCall]
    /\ objs = {}
    /\ vo = {}
    /\ crossed = {}

Apart(i, j) == i.end <= j.start \/ j.end <= i.start

Reference(o) == o.start + ObjectRefOffset

Cell(t) == Interval(call[t].start, call[t].start + call[t].size)

\* The call has memory that no object of objs covers yet.
Unfinished(t) == call[t].pc \in {"initialize", "set_vo", "refill", "post_alloc"}

Buffer(p) == Interval(p.cursor, p.limit)

-----------------------------------------------------------------------------
(* Alignment                                                               *)

AlignUp(n, align) == ((n + align - 1) \div align) * align

\* align_allocation_no_fill: the next address whose sum with offset is aligned.
AlignAllocation(region, align, offset) ==
    region + ((-offset - region) % align)

\* TLAB::allocate, or Null; an empty buffer fits nothing.
TlabAllocate(p, size, align) ==
    LET result == AlignAllocation(p.cursor, align, ObjectRefOffset)
    IN  IF result + AlignUp(size, align) > p.limit THEN Null ELSE result

\* Mutant: the slow path asks for an aligned header.
MutOffset(path) == IF path \in {"slow", "other", "other_default"} THEN 0 ELSE ObjectRefOffset

\* The offset each path passes to MMTk: the last arm of allocate_out_of_line
\* passes 0.
Offset(path) == IF path \in {"other", "other_default"} THEN 0 ELSE ObjectRefOffset

-----------------------------------------------------------------------------
(* Calls                                                                   *)

\* Where a call goes that does not allocate from the TLAB: large objects of
\* Default semantics go to the large object space.  allocate_nonmoving and
\* allocate_immortal differ in the space alone.
OutOfLinePath(size, semantics) ==
    CASE semantics = "Default" /\ size + ObjectRefOffset >= MaxNonLos -> "los"
      [] semantics = "Default" -> "other_default"
      [] semantics = "Los" -> "los"
      [] semantics \in {"NonMoving", "Immortal"} -> "own_space"
      [] semantics = "ReadOnly" -> "other"

Enter(t, pc, path, size, align, start) ==
    call' = [call EXCEPT ![t] = [pc |-> pc, path |-> path, size |-> size,
                                 align |-> align, start |-> start, byte |-> {}]]

\* MemoryManager::allocate_out_of_line, which a runtime may also call.
AllocateOutOfLine(t, size, align, semantics) ==
    /\ call[t].pc = "idle"
    /\ Enter(t, "flush", OutOfLinePath(size, semantics),
             AlignUp(size + ObjectRefOffset, align), align, Null)
    /\ UNCHANGED <<selector, tlab, bump, objs, vo, crossed>>

\* MemoryManager::allocate, when the TLAB is not used.
AllocateElsewhere(t, size, align, semantics) ==
    /\ \/ selector # "bump"
       \/ semantics # "Default"
       \/ size + ObjectRefOffset >= MaxNonLos
    /\ AllocateOutOfLine(t, size, align, semantics)

\* MemoryManager::allocate, from the TLAB if it has room.
AllocateFast(t, size, align) ==
    LET bytes == AlignUp(size + ObjectRefOffset, align)
        start == TlabAllocate(tlab[t], bytes, align)
    IN  /\ call[t].pc = "idle"
        /\ selector = "bump"
        /\ size + ObjectRefOffset < MaxNonLos
        /\ IF start = Null
             THEN /\ Enter(t, "flush", "slow", bytes, align, Null)
                  /\ UNCHANGED tlab
             ELSE /\ Enter(t, "initialize", "fast", bytes, align, start)
                  /\ tlab' = [tlab EXCEPT ![t].cursor = start + bytes]
        /\ UNCHANGED <<selector, bump, objs, vo, crossed>>

\* What flush_tlab leaves in MMTk's allocator.
Flushed(t) ==
    IF selector = "bump" /\ tlab[t].cursor # Null THEN tlab[t] ELSE bump[t]

FlushTlab(t) ==
    /\ call[t].pc = "flush"
    /\ bump' = [bump EXCEPT ![t] = Flushed(t)]
    /\ tlab' = [tlab EXCEPT ![t] = Empty]
    /\ call' = [call EXCEPT ![t].pc = "alloc"]
    /\ UNCHANGED <<selector, objs, vo, crossed>>

-----------------------------------------------------------------------------
(* MMTk: a bump allocator over blocks, and spaces that grant cells.  It    *)
(* keeps what it gives to one thread out of the blocks it gives to others. *)

InBlock(i, b) == b.start <= i.start /\ i.end <= b.end

\* No object lies in the interval.
FreeOfObjects(i) == \A o \in objs : Apart(i, o)

\* No other thread allocates in the block.
NotShared(t, b) ==
    \A u \in Threads \ {t} :
        /\ Apart(b, Buffer(bump[u]))
        /\ Unfinished(u) => Apart(b, Cell(u))

Granted(t, start) ==
    /\ call' = [call EXCEPT ![t].pc = "initialize", ![t].start = start]
    /\ UNCHANGED <<selector, tlab, objs, vo, crossed>>

FromBump(path) == selector = "bump" /\ path \in {"slow", "other_default"}

\* memory_manager::alloc; alloc_slow does not look at the current buffer.
AllocFromBuffer(t) ==
    LET start == AlignAllocation(bump[t].cursor, call[t].align, Offset(call[t].path))
    IN  /\ call[t].pc = "alloc"
        /\ FromBump(call[t].path) /\ call[t].path # "slow"
        /\ start + call[t].size <= bump[t].limit
        /\ bump' = [bump EXCEPT ![t].cursor = start + call[t].size]
        /\ Granted(t, start)

AllocFromBlock(t, b) ==
    LET start == AlignAllocation(b.start, call[t].align, Offset(call[t].path))
    IN  /\ call[t].pc = "alloc"
        /\ FromBump(call[t].path)
        /\ FreeOfObjects(b)
        /\ NotShared(t, b)
        /\ Apart(b, Buffer(bump[t]))
        /\ start + call[t].size <= b.end
        /\ bump' = [bump EXCEPT ![t] =
                      [cursor |-> start + call[t].size, limit |-> b.end]]
        /\ Granted(t, start)

AllocCell(t, b, start) ==
    LET cell == Interval(start, start + call[t].size)
    IN  /\ call[t].pc = "alloc"
        /\ ~FromBump(call[t].path)
        /\ InBlock(cell, b)
        /\ (start + Offset(call[t].path)) % call[t].align = 0
        /\ FreeOfObjects(cell)
        /\ NotShared(t, b)
        /\ Apart(cell, Buffer(bump[t]))
        /\ Granted(t, start)
        /\ UNCHANGED bump

-----------------------------------------------------------------------------
(* The new object                                                          *)

HeaderAligned == {"other", "other_default"}

\* What each path aligns: the reference, or only the header.
AlignedAt(path) == IF path \in HeaderAligned THEN 0 ELSE ObjectRefOffset

Done(t) == [start |-> call[t].start, end |-> call[t].start + call[t].size,
            align |-> call[t].align, offset |-> AlignedAt(call[t].path)]

Return(t) ==
    /\ objs' = objs \cup {Done(t)}
    /\ call' = [call EXCEPT ![t] = NoCall]

\* The byte that set_vo_bit loads.
VoByteOf(t) == {x \in vo : VoByte(x) = VoByte(Reference(Cell(t)))}

\* The reference of an object without fields is the end of its cell; at the end
\* of a block its bit is one of the memory behind the block.
Crosses(cell) == \E b \in Blocks : InBlock(cell, b) /\ Reference(cell) = b.end

\* The header is stored, and set_vo_bit loads the byte; allocate_los leaves
\* the bit to post_alloc.
Initialize(t) ==
    /\ call[t].pc = "initialize"
    /\ call' = [call EXCEPT
                  ![t].pc = IF call[t].path = "los" THEN "refill" ELSE "set_vo",
                  ![t].byte = VoByteOf(t)]
    /\ crossed' = IF Crosses(Cell(t)) THEN crossed \cup {VoByte(Reference(Cell(t)))}
                                      ELSE crossed
    /\ UNCHANGED <<selector, tlab, bump, objs, vo>>

\* Mutant: the byte that was loaded is not stored again.
MutNewByte(t) == {Reference(Cell(t))}

NewByte(t) == call[t].byte \cup {Reference(Cell(t))}

\* set_vo_bit stores the byte with the new bit; the fast path returns.
SetVoBit(t) ==
    /\ call[t].pc = "set_vo"
    /\ vo' = {x \in vo : VoByte(x) # VoByte(Reference(Cell(t)))} \cup NewByte(t)
    /\ IF call[t].path = "fast"
         THEN Return(t)
         ELSE call' = [call EXCEPT ![t].pc = "refill"] /\ UNCHANGED objs
    /\ UNCHANGED <<selector, tlab, bump, crossed>>

RefillTlab(t) ==
    /\ call[t].pc = "refill"
    /\ tlab' = IF selector = "bump" THEN [tlab EXCEPT ![t] = bump[t]] ELSE tlab
    /\ IF call[t].path = "los"
         THEN call' = [call EXCEPT ![t].pc = "post_alloc"] /\ UNCHANGED objs
         ELSE Return(t)
    /\ UNCHANGED <<selector, bump, vo, crossed>>

\* MMTk's post_alloc sets the bit.
PostAlloc(t) ==
    /\ call[t].pc = "post_alloc"
    /\ vo' = vo \cup {Reference(Cell(t))}
    /\ Return(t)
    /\ UNCHANGED <<selector, tlab, bump, crossed>>

-----------------------------------------------------------------------------
(* Collections                                                             *)

\* Mutant: buffers stay with their threads while the world is stopped.
MutTlabWhenStopped(t) == tlab[t]

\* stop_all_mutators flushes the TLAB of every thread it hands to MMTk.
TlabWhenStopped(t) == Empty

\* A collection reclaims the objects that nobody refers to; MMTk resets the
\* buffers of all threads and clears the VO bits of dead objects.
Collect(dead) ==
    /\ \A t \in Threads : call[t].pc \in {"idle", "alloc"}
    /\ tlab' = [t \in Threads |-> TlabWhenStopped(t)]
    /\ bump' = [t \in Threads |-> Empty]
    /\ objs' = objs \ dead
    /\ vo' = vo \ {Reference(o) : o \in dead}
    /\ UNCHANGED <<selector, call, crossed>>

Next ==
    \/ \E t \in Threads :
          \/ \E size \in Sizes, align \in Aligns :
                \/ AllocateFast(t, size, align)
                \/ \E semantics \in Semantics :
                      \/ AllocateOutOfLine(t, size, align, semantics)
                      \/ AllocateElsewhere(t, size, align, semantics)
          \/ FlushTlab(t) \/ AllocFromBuffer(t)
          \/ \E b \in Blocks :
                \/ AllocFromBlock(t, b)
                \/ \E start \in b.start..b.end : AllocCell(t, b, start)
          \/ Initialize(t) \/ SetVoBit(t) \/ RefillTlab(t) \/ PostAlloc(t)
    \/ \E dead \in SUBSET objs : Collect(dead)

Spec == Init /\ [][Next]_vars

-----------------------------------------------------------------------------
(* Safety                                                                  *)

\* The memory a thread may still allocate from without asking MMTk.
Reserve(t) == IF tlab[t] = Empty THEN Buffer(bump[t]) ELSE Buffer(tlab[t])

Used(t) == {Reserve(t)} \cup (IF Unfinished(t) THEN {Cell(t)} ELSE {})

\* No word is handed out twice: objects, cells of unfinished calls and the
\* threads' buffers are disjoint.  (The TLAB and MMTk's pair describe the same
\* memory; an allocation from the one that is out of date, or from a buffer a
\* collection has taken back, gives the same words to two objects.)
NothingHandedOutTwice ==
    /\ \A o, p \in objs : o # p => Apart(o, p)
    /\ \A t \in Threads : \A i \in Used(t) :
          /\ \A o \in objs : Apart(i, o)
          /\ \A j \in Used(t) : i # j => Apart(i, j)
          /\ \A u \in Threads \ {t} : \A j \in Used(u) : Apart(i, j)

\* References whose bits have been set.
Marked == {Reference(o) : o \in objs} \cup
          {Reference(Cell(t)) : t \in {u \in Threads :
              call[u].pc = "refill" /\ call[u].path # "los"}}

\* Exactly the objects have a VO bit, from the store of set_vo_bit on: no bit
\* is lost to another thread's store of the same byte, none outlives its
\* object, and none is forgotten on one of the six paths.  (set_vo_bit loads
\* and stores a whole byte without synchronisation, and the large object path
\* relies on MMTk for the bit.)  Bits may be lost only in a byte that an object
\* without fields has its bit in although it ends the block before.
VoBitsMatchObjects ==
    /\ vo \subseteq Marked
    /\ \A x \in Marked : x \in vo \/ VoByte(x) \in crossed

\* The reference has the alignment that was asked for or, through the arm of
\* allocate_out_of_line that passes 0 for the offset, the header has.
ReferencesAligned ==
    \A o \in objs : (o.start + o.offset) % o.align = 0

-----------------------------------------------------------------------------
(* The inductive invariant                                                 *)

\* NothingHandedOutTwice, from the side of one thread.
OwnApart(t) ==
    /\ \A o \in objs : Apart(Reserve(t), o)
    /\ \A u \in Threads \ {t} :
          /\ Apart(Reserve(t), Reserve(u))
          /\ Unfinished(u) => Apart(Reserve(t), Cell(u))
    /\ Unfinished(t) =>
          /\ Apart(Reserve(t), Cell(t))
          /\ \A o \in objs : Apart(Cell(t), o)
          /\ \A u \in Threads \ {t} :
                /\ Apart(Cell(t), Reserve(u))
                /\ Unfinished(u) => Apart(Cell(t), Cell(u))

Disjoint ==
    /\ \A o, p \in objs : o # p => Apart(o, p)
    /\ \A t \in Threads : OwnApart(t)

\* The TLAB is what MMTk's pair was when it was copied, or a rest of it.
TlabIsCopy ==
    \A t \in Threads :
        /\ bump[t] = Empty \/ bump[t].cursor # Null
        /\ tlab[t] # Empty => /\ selector = "bump"
                              /\ tlab[t].cursor # Null
                              /\ bump[t].cursor <= tlab[t].cursor
                              /\ tlab[t].limit = bump[t].limit

\* Between flush_tlab and refill_tlab there is no TLAB.
FlushedOutOfLine ==
    \A t \in Threads :
        \/ call[t].pc \in {"alloc", "refill"}
        \/ call[t].pc \in {"initialize", "set_vo"} /\ call[t].path # "fast"
        => tlab[t] = Empty

\* What is asked for is at least the header, aligned as the path promises.
CallsAreSound ==
    \A t \in Threads :
        /\ call[t].pc # "idle" => call[t].size > 0
        /\ Unfinished(t) =>
              (call[t].start + AlignedAt(call[t].path)) % call[t].align = 0

IInv ==
    /\ TypeOK
    /\ TlabIsCopy
    /\ FlushedOutOfLine
    /\ CallsAreSound
    /\ Disjoint
    /\ ReferencesAligned

-----------------------------------------------------------------------------
(* What VoBitsMatchObjects needs in addition                               *)

Touches(t, b) == \/ ~Apart(b, Buffer(bump[t]))
                 \/ Unfinished(t) /\ ~Apart(b, Cell(t))

\* At most one thread at a time has memory in a block that it has not finished
\* with, and so in a byte of VO bits.
OneThreadABlock ==
    \A b \in Blocks, t, u \in Threads : Touches(t, b) /\ Touches(u, b) => t = u

InSomeBlock(i) == \E b \in Blocks : InBlock(i, b)

Located ==
    /\ \A t \in Threads :
          /\ bump[t].cursor < bump[t].limit => InSomeBlock(Buffer(bump[t]))
          /\ Unfinished(t) => InSomeBlock(Cell(t))
    /\ \A o \in objs : InSomeBlock(o)

LInv == Located /\ OneThreadABlock

\* The byte that set_vo_bit has loaded is still what memory holds, unless the
\* block before has a bit in it; and none of the bits in it has been cleared.
LoadedByteIsCurrent ==
    \A t \in Threads : call[t].pc = "set_vo" =>
        /\ call[t].path # "los"
        /\ \A x \in call[t].byte :
              x \in Marked /\ VoByte(x) = VoByte(Reference(Cell(t)))
        /\ call[t].byte = VoByteOf(t) \/ VoByte(Reference(Cell(t))) \in crossed

\* Whose bit is in another block's byte is known before the byte is stored.
CrossingsKnown ==
    \A t \in Threads :
        call[t].pc \in {"set_vo", "refill", "post_alloc"} /\ Crosses(Cell(t)) =>
            VoByte(Reference(Cell(t))) \in crossed

\* No cell is empty, and so no two objects have the same reference.
ReferencesInside == \A o \in objs : Reference(o) <= o.end

VInv == LoadedByteIsCurrent /\ CrossingsKnown /\ ReferencesInside /\ VoBitsMatchObjects

-----------------------------------------------------------------------------
(* The promise to the runtime                                              *)

\* What the call in progress will return.
Wanted(t) ==
    IF call[t].pc = "idle"
      THEN {}
      ELSE {[size |-> call[t].size, align |-> call[t].align,
             offset |-> AlignedAt(call[t].path)]}

Wants == [t \in Threads |-> Wanted(t)]

\* A bit that set_vo_bit has set before the call returns is not visible yet, and
\* one that may be lost counts as set.
BitsOfObjects ==
    {Reference(o) : o \in {p \in objs : Reference(p) \in vo
                                         \/ VoByte(Reference(p)) \in crossed}}

Served == INSTANCE ObjectHeap WITH
            wants <- Wants, heap <- objs, bits <- BitsOfObjects

\* Allocation implements ObjectHeap: on whichever of its paths, and however the
\* steps of the threads and the collections interleave, a call of allocate gives
\* one object that is as large as was asked for, apart from all others, aligned
\* where the path aligns it and marked by its VO bit.
ServesRequests == Served!HSpec
=============================================================================
