-------------------------- MODULE Allocation_proofs --------------------------
(***************************************************************************)
(* Proofs about Allocation, for every number of threads, every set of      *)
(* blocks, sizes and alignments.                                           *)
(***************************************************************************)
EXTENDS Allocation, TLAPS

-----------------------------------------------------------------------------
(* Alignment                                                               *)

\* Rounding up gives a number that is no smaller.
LEMMA AlignUpGrows ==
    ASSUME NEW n \in Nat, NEW align \in Nat \ {0}
    PROVE  AlignUp(n, align) \in Nat /\ n <= AlignUp(n, align)
<1> DEFINE m == n + align - 1
<1>1. m \in Nat
  OBVIOUS
<1> HIDE DEF m
<1>2. m = (m \div align) * align + (m % align) /\ m % align \in 0..(align - 1)
  BY <1>1
<1>3. m \div align \in Nat
  BY <1>1
<1>4. (m \div align) * align \in Nat
  BY <1>3
<1>5. AlignUp(n, align) = (m \div align) * align
  BY DEF AlignUp, m
<1>6. m = n + align - 1
  BY DEF m
<1> QED BY <1>2, <1>4, <1>5, <1>6

\* So does the alignment of an allocation, and the address with the offset is
\* aligned.
LEMMA AlignAllocationAligns ==
    ASSUME NEW region \in Nat, NEW align \in Nat \ {0}, NEW offset \in Nat
    PROVE  LET result == AlignAllocation(region, align, offset)
           IN  /\ result \in Nat /\ region <= result
               /\ (result + offset) % align = 0
<1> DEFINE m == -offset - region
           q == m \div align
           r == m % align
<1>1. m \in Int
  OBVIOUS
<1>2. r \in 0..(align - 1) /\ q \in Int /\ m = q * align + r
  <2> HIDE DEF m
  <2> QED BY <1>1
<1>3. AlignAllocation(region, align, offset) = region + r
  BY DEF AlignAllocation
<1>4. region + r + offset = (-q) * align
  <2>1. q * align \in Int /\ (-q) * align = -(q * align)
    BY <1>2
  <2> HIDE DEF q, r
  <2> QED BY <1>2, <2>1
<1>5. ((-q) * align) % align = 0
  <2>1. -q \in Int
    BY <1>2
  <2>2. ASSUME NEW k \in Int PROVE (k * align) % align = 0
    OBVIOUS
  <2> HIDE DEF q
  <2> QED BY <2>1, <2>2
<1> HIDE DEF r, q, m
<1> QED BY <1>2, <1>3, <1>4, <1>5

-----------------------------------------------------------------------------
(* Intervals                                                               *)

IsInterval(i) == i.start \in Nat /\ i.end \in Nat

Inside(i, j) == j.start <= i.start /\ i.end <= j.end

\* An interval that t may use: no object and no other thread has part of it.
FreeFor(t, i) ==
    /\ \A o \in objs : Apart(i, o)
    /\ \A u \in Threads \ {t} :
          /\ Apart(i, Reserve(u))
          /\ Unfinished(u) => Apart(i, Cell(u))

\* Everything the threads have and every object is an interval.
LEMMA Intervals ==
    ASSUME TypeOK
    PROVE  /\ \A t \in Threads : /\ IsInterval(Reserve(t)) /\ IsInterval(Cell(t))
                                 /\ IsInterval(Buffer(bump[t]))
                                 /\ IsInterval(Buffer(tlab[t]))
           /\ \A o \in objs : IsInterval(o)
<1>1. ASSUME NEW t \in Threads
      PROVE  /\ IsInterval(Buffer(bump[t])) /\ IsInterval(Buffer(tlab[t]))
             /\ IsInterval(Reserve(t)) /\ IsInterval(Cell(t))
  <2>1. /\ tlab[t].cursor \in Nat /\ tlab[t].limit \in Nat
        /\ bump[t].cursor \in Nat /\ bump[t].limit \in Nat
        /\ call[t].start \in Nat /\ call[t].size \in Nat
    BY DEF TypeOK, BufferPair
  <2> QED BY <2>1 DEF IsInterval, Reserve, Cell, Buffer, Interval
<1>2. \A o \in objs : IsInterval(o)
  BY DEF TypeOK, Object, IsInterval
<1> QED BY <1>1, <1>2

\* Part of an interval that is apart from another is apart from it.
LEMMA PartIsApart ==
    ASSUME NEW i, NEW j, NEW k, IsInterval(i), IsInterval(j), IsInterval(k),
           Inside(i, j), Apart(j, k)
    PROVE  Apart(i, k)
  BY DEF IsInterval, Inside, Apart

\* So t may use part of what it may use.
LEMMA PartIsFree ==
    ASSUME TypeOK, NEW t \in Threads, NEW i, NEW j, IsInterval(i), IsInterval(j),
           Inside(i, j), FreeFor(t, j)
    PROVE  FreeFor(t, i)
  BY Intervals, PartIsApart DEF FreeFor

\* What t has it may use.
LEMMA OwnIsFree ==
    ASSUME Disjoint, NEW t \in Threads
    PROVE  /\ FreeFor(t, Reserve(t))
           /\ Unfinished(t) => FreeFor(t, Cell(t))
  BY DEF Disjoint, OwnApart, FreeFor

\* MMTk's pair covers what a thread may still allocate from.
LEMMA ReserveInsideBump ==
    ASSUME TypeOK, TlabIsCopy, NEW t \in Threads
    PROVE  Inside(Reserve(t), Buffer(bump[t]))
<1>1. /\ tlab[t].cursor \in Nat /\ tlab[t].limit \in Nat
      /\ bump[t].cursor \in Nat /\ bump[t].limit \in Nat
  BY DEF TypeOK, BufferPair
<1> QED BY <1>1 DEF TlabIsCopy, Reserve, Buffer, Interval, Inside

\* A step of one thread keeps memory disjoint when what the thread has
\* afterwards was free for it.
LEMMA OneThreadStep ==
    ASSUME TypeOK, Disjoint, NEW t \in Threads, objs' = objs,
           \A u \in Threads \ {t} : /\ tlab'[u] = tlab[u]
                                    /\ bump'[u] = bump[u]
                                    /\ call'[u] = call[u],
           FreeFor(t, Reserve(t)'),
           Unfinished(t)' => /\ FreeFor(t, Cell(t)')
                             /\ Apart(Reserve(t)', Cell(t)')
    PROVE  Disjoint'
<1>1. ASSUME NEW u \in Threads \ {t}
      PROVE  /\ Reserve(u)' = Reserve(u)
             /\ Cell(u)' = Cell(u)
             /\ Unfinished(u)' <=> Unfinished(u)
  BY <1>1 DEF Reserve, Cell, Unfinished
<1>2. OwnApart(t)'
  BY <1>1 DEF FreeFor, OwnApart
<1>3. ASSUME NEW i, NEW j, Apart(i, j) PROVE Apart(j, i)
  BY <1>3 DEF Apart
<1>4. ASSUME NEW u \in Threads \ {t} PROVE OwnApart(u)'
  <2>1. OwnApart(u)
    BY DEF Disjoint
  <2>2. /\ Apart(Reserve(u), Reserve(t)')
        /\ Unfinished(t)' => Apart(Reserve(u), Cell(t)')
        /\ Unfinished(u) => /\ Apart(Cell(u), Reserve(t)')
                            /\ Unfinished(t)' => Apart(Cell(u), Cell(t)')
    BY <1>3, <1>4 DEF FreeFor
  <2>3. ASSUME NEW w \in Threads \ {u}, w # t
        PROVE  /\ Apart(Reserve(u), Reserve(w)')
               /\ Unfinished(w)' => Apart(Reserve(u), Cell(w)')
               /\ Unfinished(u) => /\ Apart(Cell(u), Reserve(w)')
                                   /\ Unfinished(w)' => Apart(Cell(u), Cell(w)')
    BY <1>1, <2>1, <2>3 DEF OwnApart
  <2> QED BY <1>1, <1>4, <2>1, <2>2, <2>3 DEF OwnApart
<1> QED BY <1>2, <1>4 DEF Disjoint

\* A cell that is cut off an interval that t may use, with the rest as what t
\* may still allocate from, is such a step.
LEMMA CutOff ==
    ASSUME TypeOK, Disjoint, NEW t \in Threads, NEW area, objs' = objs,
           \A u \in Threads \ {t} : /\ tlab'[u] = tlab[u]
                                    /\ bump'[u] = bump[u]
                                    /\ call'[u] = call[u],
           IsInterval(area), FreeFor(t, area),
           IsInterval(Cell(t)'), IsInterval(Reserve(t)'),
           Inside(Cell(t)', area), Inside(Reserve(t)', area),
           Cell(t)'.end <= Reserve(t)'.start
    PROVE  Disjoint'
<1>1. FreeFor(t, Cell(t)') /\ FreeFor(t, Reserve(t)')
  BY PartIsFree
<1>2. Apart(Reserve(t)', Cell(t)')
  BY DEF Apart
<1> QED BY <1>1, <1>2, OneThreadStep

-----------------------------------------------------------------------------
(* The steps of a call                                                     *)

\* A call that has not got memory yet has what it had before.
LEMMA NothingGained ==
    ASSUME TypeOK, Disjoint, NEW t \in Threads, objs' = objs,
           \A u \in Threads \ {t} : /\ tlab'[u] = tlab[u]
                                    /\ bump'[u] = bump[u]
                                    /\ call'[u] = call[u],
           Reserve(t)' = Reserve(t),
           Unfinished(t)' => Unfinished(t) /\ Cell(t)' = Cell(t)
    PROVE  Disjoint'
<1>1. FreeFor(t, Reserve(t)')
  BY OwnIsFree
<1>2. Unfinished(t)' => FreeFor(t, Cell(t)')
  BY OwnIsFree
<1>3. Unfinished(t)' => Apart(Reserve(t)', Cell(t)')
  BY DEF Disjoint, OwnApart
<1> HIDE DEF Disjoint
<1> QED BY <1>1, <1>2, <1>3, OneThreadStep

\* The cell of a call is aligned as its path promises.
AlignedCall(t) == (call[t].start + AlignedAt(call[t].path)) % call[t].align = 0

\* The calls of the other threads stay sound.
LEMMA CallStaysSound ==
    ASSUME CallsAreSound, NEW t \in Threads,
           \A u \in Threads \ {t} : call'[u] = call[u],
           call'[t].pc # "idle" => call'[t].size > 0,
           Unfinished(t)' => AlignedCall(t)'
    PROVE  CallsAreSound'
<1>1. ASSUME NEW u \in Threads, u # t
      PROVE  /\ call'[u].pc # "idle" => call'[u].size > 0
             /\ Unfinished(u)' => AlignedCall(u)'
  <2>1. call'[u] = call[u]
    BY <1>1
  <2>2. (Unfinished(u)' <=> Unfinished(u)) /\ (AlignedCall(u)' <=> AlignedCall(u))
    BY <2>1 DEF Unfinished, AlignedCall
  <2>3. /\ call[u].pc # "idle" => call[u].size > 0
        /\ Unfinished(u) => AlignedCall(u)
    BY DEF CallsAreSound, AlignedCall
  <2> QED BY <2>1, <2>2, <2>3, Zenon
<1> QED BY <1>1, Zenon DEF CallsAreSound, AlignedCall

\* What a thread asks for holds at least the header.
LEMMA SizeHoldsHeader ==
    ASSUME NEW size \in Sizes, NEW align \in Aligns
    PROVE  /\ align \in Nat \ {0}
           /\ AlignUp(size + ObjectRefOffset, align) \in Nat
           /\ AlignUp(size + ObjectRefOffset, align) > 0
<1>1. size + 1 \in Nat /\ align \in Nat \ {0}
  BY AllocationSizes
<1>2. AlignUp(size + 1, align) \in Nat /\ size + 1 <= AlignUp(size + 1, align)
  BY <1>1, AlignUpGrows
<1> QED BY <1>1, <1>2, AllocationSizes DEF ObjectRefOffset

LEMMA AllocateOutOfLineStep ==
    ASSUME IInv, NEW t \in Threads, NEW size \in Sizes, NEW align \in Aligns,
           NEW semantics \in Semantics, AllocateOutOfLine(t, size, align, semantics)
    PROVE  IInv'
<1> DEFINE bytes == AlignUp(size + ObjectRefOffset, align)
           path == OutOfLinePath(size, semantics)
           now == [pc |-> "flush", path |-> path, size |-> bytes, align |-> align,
                   start |-> Null, byte |-> {}]
<1>1. bytes \in Nat /\ bytes > 0 /\ path \in Paths
  BY SizeHoldsHeader DEF OutOfLinePath, Paths, Semantics
<1>2. call' = [call EXCEPT ![t] = now] /\ call[t].pc = "idle"
  BY DEF AllocateOutOfLine, Enter
<1> HIDE DEF bytes, path
<1>3. UNCHANGED <<selector, tlab, bump, objs, vo, crossed>>
  BY DEF AllocateOutOfLine
<1>4. TypeOK'
  BY <1>1, <1>2, <1>3 DEF IInv, TypeOK, Steps, Null
<1>5. call'[t] = now /\ \A u \in Threads \ {t} : call'[u] = call[u]
  BY <1>2 DEF IInv, TypeOK
<1>6. TlabIsCopy'
  BY <1>3 DEF IInv, TlabIsCopy
<1>7. FlushedOutOfLine'
  BY <1>3, <1>5 DEF IInv, FlushedOutOfLine
<1>8. CallsAreSound'
  BY <1>1, <1>5 DEF IInv, CallsAreSound, Unfinished, Cell, Reference, Interval
<1>9. Disjoint'
  <2>1. Reserve(t)' = Reserve(t) /\ ~Unfinished(t)'
    BY <1>3, <1>5 DEF Reserve, Unfinished
  <2> QED BY <1>3, <1>5, <2>1, NothingGained DEF IInv
<1>10. ReferencesAligned'
  BY <1>3 DEF IInv, ReferencesAligned
<1> QED BY <1>4, <1>6, <1>7, <1>8, <1>9, <1>10 DEF IInv

LEMMA AllocateFastStep ==
    ASSUME IInv, NEW t \in Threads, NEW size \in Sizes, NEW align \in Aligns,
           AllocateFast(t, size, align)
    PROVE  IInv'
<1> DEFINE bytes == AlignUp(size + ObjectRefOffset, align)
           start == TlabAllocate(tlab[t], bytes, align)
           result == AlignAllocation(tlab[t].cursor, align, ObjectRefOffset)
<1>1. bytes \in Nat /\ bytes > 0 /\ align \in Nat \ {0}
  BY SizeHoldsHeader
<1>2. /\ tlab[t].cursor \in Nat /\ tlab[t].limit \in Nat
      /\ tlab[t].cursor <= tlab[t].limit
      /\ bump[t].cursor \in Nat /\ bump[t].limit \in Nat
  BY DEF IInv, TypeOK, BufferPair
<1>3. /\ result \in Nat /\ tlab[t].cursor <= result
      /\ (result + ObjectRefOffset) % align = 0
  BY <1>1, <1>2, AlignAllocationAligns DEF ObjectRefOffset
<1>4. AlignUp(bytes, align) \in Nat /\ bytes <= AlignUp(bytes, align)
  BY <1>1, AlignUpGrows
<1>5. start = IF result + AlignUp(bytes, align) > tlab[t].limit THEN Null ELSE result
  BY DEF TlabAllocate
<1>6. /\ call[t].pc = "idle" /\ selector = "bump"
      /\ UNCHANGED <<selector, bump, objs, vo, crossed>>
      /\ IF start = Null
           THEN /\ Enter(t, "flush", "slow", bytes, align, Null)
                /\ UNCHANGED tlab
           ELSE /\ Enter(t, "initialize", "fast", bytes, align, start)
                /\ tlab' = [tlab EXCEPT ![t].cursor = start + bytes]
  BY DEF AllocateFast
<1> HIDE DEF bytes, start, result
<1>7. CASE start = Null
  <2> DEFINE now == [pc |-> "flush", path |-> "slow", size |-> bytes, align |-> align,
                     start |-> Null, byte |-> {}]
  <2>1. call' = [call EXCEPT ![t] = now] /\ UNCHANGED <<selector, tlab, bump, objs, vo, crossed>>
    BY <1>6, <1>7 DEF Enter
  <2>2. TypeOK'
    BY <1>1, <2>1 DEF IInv, TypeOK, Steps, Paths, Null
  <2>3. call'[t] = now /\ \A u \in Threads \ {t} : call'[u] = call[u]
    BY <2>1 DEF IInv, TypeOK
  <2>4. TlabIsCopy'
    BY <2>1 DEF IInv, TlabIsCopy
  <2>5. FlushedOutOfLine'
    BY <2>1, <2>3 DEF IInv, FlushedOutOfLine
  <2>6. CallsAreSound'
    BY <1>1, <2>3 DEF IInv, CallsAreSound, Unfinished, Cell, Reference, Interval
  <2>7. Disjoint'
    <3>1. Reserve(t)' = Reserve(t) /\ ~Unfinished(t)'
      BY <2>1, <2>3 DEF Reserve, Unfinished
    <3> QED BY <2>1, <2>3, <3>1, NothingGained DEF IInv
  <2>8. ReferencesAligned'
    BY <2>1 DEF IInv, ReferencesAligned
  <2> QED BY <2>2, <2>4, <2>5, <2>6, <2>7, <2>8 DEF IInv
<1>8. CASE start # Null
  <2> DEFINE now == [pc |-> "initialize", path |-> "fast", size |-> bytes,
                     align |-> align, start |-> start, byte |-> {}]
             rest == [cursor |-> start + bytes, limit |-> tlab[t].limit]
  <2>1. /\ call' = [call EXCEPT ![t] = now]
        /\ tlab' = [tlab EXCEPT ![t].cursor = start + bytes]
    BY <1>6, <1>8 DEF Enter
  <2>2. /\ start = result /\ start \in Nat /\ start + bytes \in Nat
        /\ start + bytes <= tlab[t].limit /\ tlab[t].cursor <= start
        /\ start + bytes > 0
    BY <1>1, <1>2, <1>3, <1>4, <1>5, <1>8 DEF Null
  <2>3. tlab[t] = [cursor |-> tlab[t].cursor, limit |-> tlab[t].limit]
    BY DEF IInv, TypeOK, BufferPair
  <2>4. /\ call'[t] = now /\ \A u \in Threads \ {t} : call'[u] = call[u]
        /\ tlab'[t] = rest /\ \A u \in Threads \ {t} : tlab'[u] = tlab[u]
    BY <2>1, <2>3 DEF IInv, TypeOK
  <2>5. rest \in BufferPair /\ rest # Empty
    BY <1>2, <2>2 DEF BufferPair, Empty, Null
  <2>6. tlab[t] # Empty
    <3>1. tlab[t].limit > 0
      BY <1>2, <2>2
    <3> QED BY <3>1 DEF Empty, Null
  <2>7. TypeOK'
    <3>1. tlab' \in [Threads -> BufferPair]
      <4>1. tlab' = [u \in Threads |-> tlab'[u]]
        BY <2>1 DEF IInv, TypeOK
      <4>2. ASSUME NEW u \in Threads PROVE tlab'[u] \in BufferPair
        BY <2>4, <2>5 DEF IInv, TypeOK
      <4> QED BY <4>1, <4>2
    <3>2. call' \in [Threads -> [pc : Steps, path : Paths, size : Nat,
                                 align : Aligns \cup {1}, start : Nat, byte : SUBSET Nat]]
      BY <1>1, <2>1, <2>2 DEF IInv, TypeOK, Steps, Paths
    <3> QED BY <1>6, <3>1, <3>2 DEF IInv, TypeOK
  <2>8. TlabIsCopy'
    <3>1. bump[t].cursor <= tlab[t].cursor /\ tlab[t].limit = bump[t].limit
      BY <2>6 DEF IInv, TlabIsCopy
    <3>2. bump[t].cursor <= rest.cursor /\ rest.limit = bump[t].limit /\ rest.cursor # Null
      BY <1>1, <1>2, <2>2, <3>1 DEF Null
    <3> HIDE DEF rest
    <3> QED BY <1>6, <2>4, <3>2 DEF IInv, TlabIsCopy
  <2>9. FlushedOutOfLine'
    BY <2>4 DEF IInv, FlushedOutOfLine
  <2>10. CallsAreSound'
    <3>1. call'[t].size > 0 /\ AlignedCall(t)'
      BY <1>1, <1>3, <2>2, <2>4 DEF AlignedCall, AlignedAt, HeaderAligned
    <3> QED BY <2>4, <3>1, CallStaysSound DEF IInv
  <2>11. Disjoint'
    <3> DEFINE area == Reserve(t)
    <3>1. /\ Reserve(t)' = Interval(start + bytes, tlab[t].limit)
          /\ Cell(t)' = Interval(start, start + bytes)
      BY <2>4, <2>5 DEF Reserve, Cell, Buffer
    <3>2. area = Interval(tlab[t].cursor, tlab[t].limit)
      BY <2>6 DEF Reserve, Buffer
    <3>3. /\ IsInterval(area) /\ IsInterval(Reserve(t)') /\ IsInterval(Cell(t)')
          /\ Inside(Cell(t)', area) /\ Inside(Reserve(t)', area)
          /\ Cell(t)'.end <= Reserve(t)'.start
      BY <1>1, <1>2, <2>2, <3>1, <3>2 DEF IsInterval, Inside, Interval
    <3>4. FreeFor(t, area)
      BY OwnIsFree DEF IInv
    <3> HIDE DEF area
    <3> QED BY <1>6, <2>4, <3>3, <3>4, CutOff DEF IInv
  <2>12. ReferencesAligned'
    BY <1>6 DEF IInv, ReferencesAligned
  <2> QED BY <2>7, <2>8, <2>9, <2>10, <2>11, <2>12 DEF IInv
<1> QED BY <1>7, <1>8

LEMMA FlushTlabStep ==
    ASSUME IInv, NEW t \in Threads, FlushTlab(t)
    PROVE  IInv'
<1>1. /\ call[t].pc = "flush"
      /\ bump' = [bump EXCEPT ![t] = Flushed(t)]
      /\ tlab' = [tlab EXCEPT ![t] = Empty]
      /\ call' = [call EXCEPT ![t].pc = "alloc"]
      /\ UNCHANGED <<selector, objs, vo, crossed>>
  BY DEF FlushTlab
<1>2. /\ bump'[t] = Flushed(t) /\ \A u \in Threads \ {t} : bump'[u] = bump[u]
      /\ tlab'[t] = Empty /\ \A u \in Threads \ {t} : tlab'[u] = tlab[u]
      /\ call'[t] = [call[t] EXCEPT !.pc = "alloc"]
      /\ \A u \in Threads \ {t} : call'[u] = call[u]
  BY <1>1 DEF IInv, TypeOK
<1>3. /\ tlab[t] \in BufferPair /\ bump[t] \in BufferPair /\ Empty \in BufferPair
      /\ tlab[t] # Empty => selector = "bump" /\ tlab[t].cursor # Null
      /\ tlab[t] = Empty => tlab[t].cursor = Null
  BY DEF IInv, TypeOK, TlabIsCopy, BufferPair, Empty, Null
<1>4. Flushed(t) = IF tlab[t] = Empty THEN bump[t] ELSE tlab[t]
  BY <1>3 DEF Flushed
<1>5. TypeOK'
  <2>1. Flushed(t) \in BufferPair
    BY <1>3, <1>4
  <2>2. call' \in [Threads -> [pc : Steps, path : Paths, size : Nat,
                               align : Aligns \cup {1}, start : Nat, byte : SUBSET Nat]]
    BY <1>1 DEF IInv, TypeOK, Steps
  <2> QED BY <1>1, <1>3, <2>1, <2>2 DEF IInv, TypeOK
<1>6. TlabIsCopy'
  BY <1>1, <1>2, <1>3, <1>4 DEF IInv, TlabIsCopy
<1>7. FlushedOutOfLine'
  BY <1>2 DEF IInv, FlushedOutOfLine
<1>8. call'[t].pc = "alloc" /\ call'[t].size = call[t].size
  BY <1>2 DEF IInv, TypeOK
<1>9. ~Unfinished(t)'
  BY <1>8 DEF Unfinished
<1>10. CallsAreSound'
  <2>1. call'[t].size > 0
    BY <1>1, <1>8 DEF IInv, CallsAreSound
  <2> QED BY <1>2, <1>9, <2>1, CallStaysSound DEF IInv
<1>11. Disjoint'
  <2>1. Reserve(t)' = Reserve(t)
    BY <1>2, <1>4 DEF Reserve
  <2> QED BY <1>1, <1>2, <1>9, <2>1, NothingGained DEF IInv
<1>12. ReferencesAligned'
  BY <1>1 DEF IInv, ReferencesAligned
<1> QED BY <1>5, <1>6, <1>7, <1>10, <1>11, <1>12 DEF IInv

\* MMTk grants memory: the parts of the invariant that do not depend on where.
LEMMA GrantedStep ==
    ASSUME IInv, NEW t \in Threads, NEW start \in Nat, Granted(t, start),
           call[t].pc = "alloc",
           bump'[t] \in BufferPair, bump' = [bump EXCEPT ![t] = bump'[t]],
           bump'[t] = Empty \/ bump'[t].cursor # Null,
           (start + AlignedAt(call[t].path)) % call[t].align = 0,
           Disjoint'
    PROVE  IInv'
<1>1. /\ call' = [call EXCEPT ![t].pc = "initialize", ![t].start = start]
      /\ UNCHANGED <<selector, tlab, objs, vo, crossed>>
  BY DEF Granted
<1>2. /\ call'[t] = [call[t] EXCEPT !.pc = "initialize", !.start = start]
      /\ \A u \in Threads \ {t} : call'[u] = call[u]
      /\ \A u \in Threads \ {t} : bump'[u] = bump[u]
      /\ tlab[t] = Empty
  BY <1>1 DEF IInv, TypeOK, FlushedOutOfLine
<1>3. TypeOK'
  <2>1. call' \in [Threads -> [pc : Steps, path : Paths, size : Nat,
                               align : Aligns \cup {1}, start : Nat, byte : SUBSET Nat]]
    <3> DEFINE Calls == [pc : Steps, path : Paths, size : Nat,
                         align : Aligns \cup {1}, start : Nat, byte : SUBSET Nat]
    <3>1. call \in [Threads -> Calls]
      BY DEF IInv, TypeOK
    <3>2. "initialize" \in Steps /\ call[t] \in Calls
      BY <3>1 DEF Steps
    <3>3. [call[t] EXCEPT !.pc = "initialize", !.start = start] \in Calls
      BY <3>2
    <3> HIDE DEF Calls
    <3>4. call' = [call EXCEPT ![t] = [call[t] EXCEPT !.pc = "initialize", !.start = start]]
      BY <1>1
    <3>5. call' \in [Threads -> Calls]
      BY <3>1, <3>3, <3>4
    <3> QED BY <3>5 DEF Calls
  <2>2. bump' \in [Threads -> BufferPair]
    BY DEF IInv, TypeOK
  <2> QED BY <1>1, <2>1, <2>2 DEF IInv, TypeOK
<1>4. /\ call'[t].pc = "initialize" /\ call'[t].start = start
      /\ call'[t].size = call[t].size /\ call'[t].align = call[t].align
      /\ call'[t].path = call[t].path
  BY <1>2 DEF IInv, TypeOK
<1>5. TlabIsCopy'
  BY <1>1, <1>2 DEF IInv, TlabIsCopy
<1>6. FlushedOutOfLine'
  BY <1>1, <1>2 DEF IInv, FlushedOutOfLine
<1>7. CallsAreSound'
  <2>1. call'[t].size > 0
    BY <1>4 DEF IInv, CallsAreSound
  <2>2. AlignedCall(t)'
    BY <1>4 DEF AlignedCall
  <2> QED BY <1>2, <2>1, <2>2, CallStaysSound DEF IInv
<1>8. ReferencesAligned'
  BY <1>1 DEF IInv, ReferencesAligned
<1> QED BY <1>3, <1>5, <1>6, <1>7, <1>8 DEF IInv

\* The address MMTk computes is past the start of its buffer and aligned as
\* the path asks.
LEMMA AddressIsAligned ==
    ASSUME IInv, NEW t \in Threads, NEW from \in Nat
    PROVE  LET start == AlignAllocation(from, call[t].align, Offset(call[t].path))
           IN  /\ start \in Nat /\ from <= start
               /\ (start + AlignedAt(call[t].path)) % call[t].align = 0
<1>1. call[t].align \in Nat \ {0}
  <2>1. call[t].align \in Aligns \/ call[t].align = 1
    BY DEF IInv, TypeOK
  <2>2. CASE call[t].align \in Aligns
    BY <2>2, AllocationSizes
  <2>3. CASE call[t].align = 1
    BY <2>3
  <2> QED BY <2>1, <2>2, <2>3
<1>2. Offset(call[t].path) \in Nat /\ AlignedAt(call[t].path) = Offset(call[t].path)
  BY DEF Offset, AlignedAt, ObjectRefOffset, HeaderAligned
<1>3. LET start == AlignAllocation(from, call[t].align, Offset(call[t].path))
      IN  /\ start \in Nat /\ from <= start
          /\ (start + Offset(call[t].path)) % call[t].align = 0
  BY <1>1, <1>2, AlignAllocationAligns
<1> QED BY <1>2, <1>3

\* Cutting a cell off an area that is free for t.
LEMMA BumpCutOff ==
    ASSUME IInv, NEW t \in Threads, NEW from \in Nat, NEW limit \in Nat,
           NEW start \in Nat, from <= start, start + call[t].size <= limit,
           FreeFor(t, Interval(from, limit)),
           call[t].pc = "alloc", Granted(t, start),
           bump' = [bump EXCEPT ![t] = [cursor |-> start + call[t].size, limit |-> limit]],
           (start + AlignedAt(call[t].path)) % call[t].align = 0
    PROVE  IInv'
<1> DEFINE rest == [cursor |-> start + call[t].size, limit |-> limit]
           area == Interval(from, limit)
<1>1. /\ call' = [call EXCEPT ![t].pc = "initialize", ![t].start = start]
      /\ UNCHANGED <<selector, tlab, objs, vo, crossed>>
  BY DEF Granted
<1>2. call[t].size \in Nat /\ call[t].size > 0
  BY DEF IInv, TypeOK, CallsAreSound
<1>3. rest \in BufferPair /\ rest.cursor # Null
  BY <1>2 DEF BufferPair, Null
<1>4. /\ bump'[t] = rest /\ \A u \in Threads \ {t} : bump'[u] = bump[u]
      /\ call'[t].start = start /\ call'[t].size = call[t].size
      /\ \A u \in Threads \ {t} : call'[u] = call[u]
      /\ tlab'[t] = Empty
  BY <1>1 DEF IInv, TypeOK, FlushedOutOfLine
<1>5. /\ Cell(t)' = Interval(start, start + call[t].size)
      /\ Reserve(t)' = Interval(start + call[t].size, limit)
  BY <1>4 DEF Cell, Reserve, Buffer
<1>6. /\ IsInterval(area) /\ IsInterval(Reserve(t)') /\ IsInterval(Cell(t)')
      /\ Inside(Cell(t)', area) /\ Inside(Reserve(t)', area)
      /\ Cell(t)'.end <= Reserve(t)'.start
  BY <1>2, <1>5 DEF IsInterval, Inside, Interval
<1>7. Disjoint'
  <2> HIDE DEF area, rest
  <2>1. FreeFor(t, area)
    BY DEF area
  <2> QED BY <1>1, <1>4, <1>6, <2>1, CutOff DEF IInv
<1>8. /\ bump' = [bump EXCEPT ![t] = bump'[t]]
      /\ bump'[t] \in BufferPair /\ bump'[t].cursor # Null
  BY <1>3, <1>4
<1> HIDE DEF rest, area
<1> QED BY <1>7, <1>8, GrantedStep

LEMMA AllocFromBufferStep ==
    ASSUME IInv, NEW t \in Threads, AllocFromBuffer(t)
    PROVE  IInv'
<1> DEFINE start == AlignAllocation(bump[t].cursor, call[t].align, Offset(call[t].path))
           size == call[t].size
<1>1. /\ call[t].pc = "alloc" /\ start + size <= bump[t].limit
      /\ bump' = [bump EXCEPT ![t].cursor = start + size]
      /\ Granted(t, start)
  BY DEF AllocFromBuffer
<1>2. /\ bump[t].cursor \in Nat /\ bump[t].limit \in Nat
      /\ bump[t] = [cursor |-> bump[t].cursor, limit |-> bump[t].limit]
  BY DEF IInv, TypeOK, BufferPair
<1>3. /\ start \in Nat /\ bump[t].cursor <= start
      /\ (start + AlignedAt(call[t].path)) % call[t].align = 0
  BY <1>2, AddressIsAligned
<1> HIDE DEF start
<1>4. bump' = [bump EXCEPT ![t] = [cursor |-> start + size, limit |-> bump[t].limit]]
  <2>1. /\ bump'[t] = [cursor |-> start + size, limit |-> bump[t].limit]
        /\ \A u \in Threads \ {t} : bump'[u] = bump[u]
        /\ bump' = [u \in Threads |-> bump'[u]]
    BY <1>1, <1>2 DEF IInv, TypeOK
  <2> QED BY <2>1 DEF IInv, TypeOK
<1>5. FreeFor(t, Interval(bump[t].cursor, bump[t].limit))
  <2>1. Reserve(t) = Interval(bump[t].cursor, bump[t].limit)
    BY <1>1 DEF IInv, FlushedOutOfLine, Reserve, Buffer
  <2> QED BY <2>1, OwnIsFree DEF IInv
<1> QED BY <1>1, <1>2, <1>3, <1>4, <1>5, BumpCutOff

\* A block that MMTk does not share, or part of it, is free for t.
LEMMA UnsharedIsFree ==
    ASSUME IInv, NEW t \in Threads, NEW b, NEW i, IsInterval(b), IsInterval(i),
           Inside(i, b), NotShared(t, b), FreeOfObjects(i)
    PROVE  FreeFor(t, i)
<1>1. ASSUME NEW u \in Threads \ {t}
      PROVE  /\ Apart(i, Reserve(u))
             /\ Unfinished(u) => Apart(i, Cell(u))
  <2>1. /\ IsInterval(Buffer(bump[u])) /\ IsInterval(Reserve(u)) /\ IsInterval(Cell(u))
    BY Intervals DEF IInv
  <2>2. Inside(Reserve(u), Buffer(bump[u]))
    BY ReserveInsideBump DEF IInv
  <2>3. Apart(b, Buffer(bump[u])) /\ (Unfinished(u) => Apart(b, Cell(u)))
    BY DEF NotShared
  <2>4. Apart(Reserve(u), b)
    BY <2>1, <2>2, <2>3, PartIsApart DEF Apart
  <2>5. Apart(i, Reserve(u))
    BY <2>1, <2>4, PartIsApart DEF Apart
  <2> QED BY <2>1, <2>3, <2>5, PartIsApart
<1> QED BY <1>1 DEF FreeFor, FreeOfObjects

LEMMA AllocFromBlockStep ==
    ASSUME IInv, NEW t \in Threads, NEW b \in Blocks, AllocFromBlock(t, b)
    PROVE  IInv'
<1> DEFINE start == AlignAllocation(b.start, call[t].align, Offset(call[t].path))
           area == Interval(b.start, b.end)
<1>1. /\ call[t].pc = "alloc" /\ start + call[t].size <= b.end
      /\ bump' = [bump EXCEPT ![t] = [cursor |-> start + call[t].size, limit |-> b.end]]
      /\ Granted(t, start) /\ NotShared(t, b) /\ FreeOfObjects(b)
  BY DEF AllocFromBlock
<1>2. b.start \in Nat /\ b.end \in Nat
  BY BlocksApart
<1>3. /\ start \in Nat /\ b.start <= start
      /\ (start + AlignedAt(call[t].path)) % call[t].align = 0
  BY <1>2, AddressIsAligned
<1> HIDE DEF start
<1>4. FreeFor(t, area)
  <2>1. IsInterval(b) /\ IsInterval(area) /\ Inside(area, b)
    BY <1>2 DEF IsInterval, Interval, Inside
  <2>2. FreeOfObjects(area)
    BY <1>1 DEF FreeOfObjects, Apart, Interval
  <2> HIDE DEF area
  <2> QED BY <1>1, <2>1, <2>2, UnsharedIsFree
<1> QED BY <1>1, <1>2, <1>3, <1>4, BumpCutOff

LEMMA AllocCellStep ==
    ASSUME IInv, NEW t \in Threads, NEW b \in Blocks, NEW start \in b.start..b.end,
           AllocCell(t, b, start)
    PROVE  IInv'
<1> DEFINE cell == Interval(start, start + call[t].size)
<1>1. /\ call[t].pc = "alloc" /\ InBlock(cell, b)
      /\ (start + Offset(call[t].path)) % call[t].align = 0
      /\ FreeOfObjects(cell) /\ NotShared(t, b) /\ Apart(cell, Buffer(bump[t]))
      /\ Granted(t, start) /\ UNCHANGED bump
  BY DEF AllocCell
<1>2. b.start \in Nat /\ b.end \in Nat /\ start \in Nat
  BY BlocksApart
<1>3. call[t].size \in Nat
  BY DEF IInv, TypeOK
<1>4. /\ call' = [call EXCEPT ![t].pc = "initialize", ![t].start = start]
      /\ UNCHANGED <<selector, tlab, objs, vo, crossed>>
  BY <1>1 DEF Granted
<1>5. /\ call'[t].start = start /\ call'[t].size = call[t].size
      /\ \A u \in Threads \ {t} : call'[u] = call[u]
      /\ tlab[t] = Empty
  BY <1>1, <1>4 DEF IInv, TypeOK, FlushedOutOfLine
<1>6. /\ IsInterval(b) /\ IsInterval(cell) /\ Inside(cell, b)
  BY <1>1, <1>2, <1>3 DEF IsInterval, Interval, Inside, InBlock
<1>7. Cell(t)' = cell /\ Reserve(t)' = Reserve(t) /\ Reserve(t) = Buffer(bump[t])
  BY <1>1, <1>4, <1>5 DEF Cell, Reserve, Buffer
<1> HIDE DEF cell
<1>8. FreeFor(t, cell)
  BY <1>1, <1>6, UnsharedIsFree
<1>9. Disjoint'
  <2>1. FreeFor(t, Reserve(t)') /\ FreeFor(t, Cell(t)')
    BY <1>7, <1>8, OwnIsFree DEF IInv
  <2>2. Apart(Reserve(t)', Cell(t)')
    BY <1>1, <1>7 DEF Apart
  <2> QED BY <1>1, <1>4, <1>5, <2>1, <2>2, OneThreadStep DEF IInv
<1>10. (start + AlignedAt(call[t].path)) % call[t].align = 0
  BY <1>1 DEF HeaderAligned, AlignedAt, Offset
<1>11. /\ bump'[t] \in BufferPair /\ bump' = [bump EXCEPT ![t] = bump'[t]]
       /\ bump'[t] = Empty \/ bump'[t].cursor # Null
  BY <1>1 DEF IInv, TypeOK, TlabIsCopy
<1> QED BY <1>1, <1>2, <1>9, <1>10, <1>11, GrantedStep

-----------------------------------------------------------------------------
(* The new object                                                          *)

\* A step that takes the call to its next point, without a new object.
LEMMA CallGoesOn ==
    ASSUME IInv, NEW t \in Threads, NEW pc \in Steps, NEW byte \in SUBSET Nat,
           call[t].pc # "idle", Unfinished(t), pc # "idle",
           call' = [call EXCEPT ![t].pc = pc, ![t].byte = byte],
           pc \in {"initialize", "set_vo"} => call[t].pc \in {"initialize", "set_vo"},
           pc = "refill" =>
              call[t].pc \in {"initialize", "set_vo"} /\ call[t].path # "fast",
           pc # "alloc", pc # "flush",
           vo' \subseteq Nat, crossed' \subseteq Nat,
           UNCHANGED <<selector, tlab, bump, objs>>
    PROVE  IInv'
<1>1. /\ call'[t] = [call[t] EXCEPT !.pc = pc, !.byte = byte]
      /\ \A u \in Threads \ {t} : call'[u] = call[u]
  BY DEF IInv, TypeOK
<1>2. /\ call'[t].pc = pc /\ call'[t].path = call[t].path
      /\ call'[t].start = call[t].start /\ call'[t].size = call[t].size
      /\ call'[t].align = call[t].align
  BY <1>1 DEF IInv, TypeOK
<1>3. TypeOK'
  <2> DEFINE Calls == [pc : Steps, path : Paths, size : Nat,
                       align : Aligns \cup {1}, start : Nat, byte : SUBSET Nat]
  <2>1. call \in [Threads -> Calls]
    BY DEF IInv, TypeOK
  <2>2. [call[t] EXCEPT !.pc = pc, !.byte = byte] \in Calls
    BY <2>1
  <2>3. call' = [call EXCEPT ![t] = [call[t] EXCEPT !.pc = pc, !.byte = byte]]
    OBVIOUS
  <2>4. call' \in [Threads -> Calls]
    <3> HIDE DEF Calls
    <3> QED BY <2>1, <2>2, <2>3
  <2> QED BY <2>4 DEF IInv, TypeOK
<1>4. TlabIsCopy'
  BY DEF IInv, TlabIsCopy
<1>5. FlushedOutOfLine'
  <2>1. ASSUME NEW u \in Threads \ {t}
        PROVE  /\ call'[u] = call[u] /\ tlab'[u] = tlab[u]
    BY <1>1
  <2>2. \/ pc = "refill"
        \/ pc \in {"initialize", "set_vo"} /\ call[t].path # "fast"
        => tlab[t] = Empty
    BY DEF IInv, FlushedOutOfLine
  <2>3. tlab' = tlab /\ call'[t].pc = pc /\ call'[t].path = call[t].path
    BY <1>2
  <2>4. FlushedOutOfLine
    BY DEF IInv
  <2> HIDE DEF IInv
  <2> QED BY <2>1, <2>2, <2>3, <2>4 DEF FlushedOutOfLine
<1>6. Cell(t)' = Cell(t) /\ Reserve(t)' = Reserve(t)
  BY <1>2 DEF Cell, Reserve
<1>7. CallsAreSound'
  <2>1. call'[t].size > 0
    BY <1>2 DEF IInv, CallsAreSound
  <2>2. AlignedCall(t)'
    BY <1>2 DEF IInv, CallsAreSound, AlignedCall
  <2> QED BY <1>1, <2>1, <2>2, CallStaysSound DEF IInv
<1>8. Disjoint'
  BY <1>1, <1>6, NothingGained DEF IInv
<1>9. ReferencesAligned'
  BY DEF IInv, ReferencesAligned
<1> QED BY <1>3, <1>4, <1>5, <1>7, <1>8, <1>9 DEF IInv

\* The call returns: its cell becomes an object.
LEMMA ReturnStep ==
    ASSUME IInv, NEW t \in Threads, Unfinished(t), Return(t),
           UNCHANGED <<selector, bump, crossed>>, vo' \subseteq Nat,
           tlab'[t] \in BufferPair, tlab' = [tlab EXCEPT ![t] = tlab'[t]],
           Reserve(t)' = Reserve(t),
           tlab'[t] # Empty => /\ selector = "bump" /\ tlab'[t].cursor # Null
                               /\ bump[t].cursor <= tlab'[t].cursor
                               /\ tlab'[t].limit = bump[t].limit
    PROVE  IInv'
<1>1. objs' = objs \cup {Done(t)} /\ call' = [call EXCEPT ![t] = NoCall]
  BY DEF Return
<1>2. /\ call'[t] = NoCall
      /\ \A u \in Threads \ {t} : call'[u] = call[u]
      /\ \A u \in Threads \ {t} : tlab'[u] = tlab[u]
  BY <1>1 DEF IInv, TypeOK
<1>3. /\ call[t].start \in Nat /\ call[t].size \in Nat /\ call[t].path \in Paths
      /\ call[t].align \in Nat
  <2>1. call[t].align \in Aligns \/ call[t].align = 1
    BY DEF IInv, TypeOK
  <2>2. CASE call[t].align \in Aligns
    BY <2>2, AllocationSizes DEF IInv, TypeOK
  <2>3. CASE call[t].align = 1
    BY <2>3 DEF IInv, TypeOK
  <2> QED BY <2>1, <2>2, <2>3
<1>4. /\ Done(t) \in Object
      /\ Done(t).start = Cell(t).start /\ Done(t).end = Cell(t).end
  BY <1>3 DEF Done, Object, Cell, Interval, AlignedAt
<1>5. TypeOK'
  <2>1. call' \in [Threads -> [pc : Steps, path : Paths, size : Nat,
                               align : Aligns \cup {1}, start : Nat, byte : SUBSET Nat]]
    BY <1>1 DEF IInv, TypeOK, NoCall, Steps, Paths, Null
  <2>2. tlab' \in [Threads -> BufferPair]
    BY DEF IInv, TypeOK
  <2> QED BY <1>1, <1>4, <2>1, <2>2 DEF IInv, TypeOK
<1>6. TlabIsCopy'
  BY <1>2 DEF IInv, TlabIsCopy
<1>7. FlushedOutOfLine'
  BY <1>2 DEF IInv, FlushedOutOfLine, NoCall
<1>8. ~Unfinished(t)' /\ call'[t].pc = "idle"
  BY <1>2 DEF Unfinished, NoCall
<1>9. CallsAreSound'
  BY <1>2, <1>8, CallStaysSound DEF IInv
<1>10. ReferencesAligned'
  <2>1. (Done(t).start + Done(t).offset) % Done(t).align = 0
    BY DEF IInv, CallsAreSound, Done
  <2> QED BY <1>1, <2>1 DEF IInv, ReferencesAligned
<1>11. Disjoint'
  <2> DEFINE new == Done(t)
  <2>1. ASSUME NEW i PROVE /\ Apart(i, new) <=> Apart(i, Cell(t))
                           /\ Apart(new, i) <=> Apart(Cell(t), i)
    BY <1>4 DEF Apart
  <2>2. ASSUME NEW i, NEW j, Apart(i, j) PROVE Apart(j, i)
    BY <2>2 DEF Apart
  <2>3. ASSUME NEW u \in Threads \ {t}
        PROVE  /\ Reserve(u)' = Reserve(u) /\ Cell(u)' = Cell(u)
               /\ Unfinished(u)' <=> Unfinished(u)
    BY <1>2 DEF Reserve, Cell, Unfinished
  <2>4. /\ OwnApart(t) /\ \A u \in Threads : OwnApart(u)
        /\ \A o, p \in objs : o # p => Apart(o, p)
    BY DEF IInv, Disjoint
  <2> HIDE DEF new
  <2>5. \A o, p \in objs' : o # p => Apart(o, p)
    <3>1. \A o \in objs : Apart(o, new) /\ Apart(new, o)
      BY <2>1, <2>2, <2>4 DEF OwnApart
    <3>2. objs' = objs \cup {new}
      BY <1>1 DEF new
    <3> QED BY <2>4, <3>1, <3>2
  <2>6. objs' = objs \cup {new}
    BY <1>1 DEF new
  <2>7. OwnApart(t)'
    <3>1. /\ \A o \in objs : Apart(Reserve(t), o)
          /\ Apart(Reserve(t), new)
      BY <2>1, <2>4 DEF OwnApart
    <3>2. \A u \in Threads \ {t} :
             /\ Apart(Reserve(t), Reserve(u))
             /\ Unfinished(u) => Apart(Reserve(t), Cell(u))
      BY <2>4 DEF OwnApart
    <3> QED BY <1>8, <2>3, <2>6, <3>1, <3>2 DEF OwnApart
  <2>8. ASSUME NEW u \in Threads \ {t} PROVE OwnApart(u)'
    <3>1. OwnApart(u)
      BY <2>4
    <3>2. Apart(Reserve(u), new) /\ (Unfinished(u) => Apart(Cell(u), new))
      BY <2>1, <2>2, <2>4 DEF OwnApart
    <3>3. \A w \in Threads \ {u} :
             /\ Apart(Reserve(u), Reserve(w)')
             /\ Unfinished(w)' => Apart(Reserve(u), Cell(w)')
             /\ Unfinished(u) => /\ Apart(Cell(u), Reserve(w)')
                                 /\ Unfinished(w)' => Apart(Cell(u), Cell(w)')
      <4> TAKE w \in Threads \ {u}
      <4>1. CASE w = t
        BY <1>8, <3>1, <4>1 DEF OwnApart
      <4>2. CASE w # t
        BY <2>3, <3>1, <4>2 DEF OwnApart
      <4> QED BY <4>1, <4>2
    <3> QED BY <2>3, <2>6, <2>8, <3>1, <3>2, <3>3 DEF OwnApart
  <2> QED BY <2>5, <2>7, <2>8 DEF Disjoint
<1> QED BY <1>5, <1>6, <1>7, <1>9, <1>10, <1>11 DEF IInv

LEMMA InitializeStep ==
    ASSUME IInv, NEW t \in Threads, Initialize(t)
    PROVE  IInv'
<1> DEFINE pc == IF call[t].path = "los" THEN "refill" ELSE "set_vo"
<1>1. /\ call[t].pc = "initialize"
      /\ call' = [call EXCEPT ![t].pc = pc, ![t].byte = VoByteOf(t)]
      /\ UNCHANGED <<selector, tlab, bump, objs, vo>>
  BY DEF Initialize
<1>2. VoByteOf(t) \in SUBSET Nat /\ vo' \subseteq Nat
  BY <1>1 DEF IInv, TypeOK, VoByteOf
<1>5. crossed' \subseteq Nat
  <2>1. call[t].start \in Nat /\ VoWords \in Nat \ {0} /\ crossed \subseteq Nat
    BY AllocationSizes DEF IInv, TypeOK
  <2>2. VoByte(Reference(Cell(t))) \in Nat
    BY <2>1 DEF VoByte, Reference, Cell, Interval, ObjectRefOffset
  <2> QED BY <2>1, <2>2 DEF Initialize
<1>3. /\ pc \in {"refill", "set_vo"} /\ pc \in Steps
      /\ pc = "refill" => call[t].path # "fast"
  BY DEF Steps
<1> HIDE DEF pc
<1>4. Unfinished(t)
  BY <1>1 DEF Unfinished
<1> QED BY <1>1, <1>2, <1>3, <1>4, <1>5, CallGoesOn

LEMMA SetVoBitStep ==
    ASSUME IInv, NEW t \in Threads, SetVoBit(t)
    PROVE  IInv'
<1>1. /\ call[t].pc = "set_vo" /\ Unfinished(t)
      /\ UNCHANGED <<selector, tlab, bump, crossed>>
  BY DEF SetVoBit, Unfinished
<1>2. vo' \subseteq Nat
  <2>1. call[t].start \in Nat /\ call[t].byte \subseteq Nat
    BY DEF IInv, TypeOK
  <2>2. Reference(Cell(t)) \in Nat
    BY <2>1 DEF Reference, Cell, Interval, ObjectRefOffset
  <2> QED BY <2>1, <2>2 DEF IInv, TypeOK, SetVoBit, NewByte
<1>3. CASE call[t].path = "fast"
  <2>1. Return(t)
    BY <1>3 DEF SetVoBit
  <2>2. /\ tlab'[t] \in BufferPair /\ tlab' = [tlab EXCEPT ![t] = tlab'[t]]
        /\ Reserve(t)' = Reserve(t)
    BY <1>1 DEF IInv, TypeOK, Reserve
  <2>3. tlab'[t] # Empty => /\ selector = "bump" /\ tlab'[t].cursor # Null
                            /\ bump[t].cursor <= tlab'[t].cursor
                            /\ tlab'[t].limit = bump[t].limit
    BY <1>1 DEF IInv, TlabIsCopy
  <2> QED BY <1>1, <1>2, <2>1, <2>2, <2>3, ReturnStep
<1>4. CASE call[t].path # "fast"
  <2>1. call' = [call EXCEPT ![t].pc = "refill"] /\ UNCHANGED objs
    BY <1>4 DEF SetVoBit
  <2>2. call[t] = [call[t] EXCEPT !.byte = call[t].byte]
    BY DEF IInv, TypeOK
  <2>3. call' = [call EXCEPT ![t].pc = "refill", ![t].byte = call[t].byte]
    BY <2>1, <2>2 DEF IInv, TypeOK
  <2>4. call[t].byte \in SUBSET Nat /\ "refill" \in Steps /\ crossed \subseteq Nat
    BY DEF IInv, TypeOK, Steps
  <2> QED BY <1>1, <1>2, <1>4, <2>1, <2>3, <2>4, CallGoesOn
<1> QED BY <1>3, <1>4

LEMMA RefillTlabStep ==
    ASSUME IInv, NEW t \in Threads, RefillTlab(t)
    PROVE  IInv'
<1>1. /\ call[t].pc = "refill" /\ Unfinished(t) /\ tlab[t] = Empty
      /\ tlab' = IF selector = "bump" THEN [tlab EXCEPT ![t] = bump[t]] ELSE tlab
      /\ UNCHANGED <<selector, bump, vo, crossed>>
  BY DEF IInv, FlushedOutOfLine, RefillTlab, Unfinished
<1>2. /\ tlab'[t] = IF selector = "bump" THEN bump[t] ELSE Empty
      /\ \A u \in Threads \ {t} : tlab'[u] = tlab[u]
      /\ tlab'[t] \in BufferPair /\ tlab' = [tlab EXCEPT ![t] = tlab'[t]]
  BY <1>1 DEF IInv, TypeOK
<1>3. Reserve(t)' = Reserve(t)
  BY <1>1, <1>2 DEF Reserve
<1>4. tlab'[t] # Empty => /\ selector = "bump" /\ tlab'[t].cursor # Null
                          /\ bump[t].cursor <= tlab'[t].cursor
                          /\ tlab'[t].limit = bump[t].limit
  <2>1. bump[t].cursor \in Nat /\ (bump[t] = Empty \/ bump[t].cursor # Null)
    BY DEF IInv, TypeOK, TlabIsCopy, BufferPair
  <2> QED BY <1>2, <2>1
<1>5. vo' \subseteq Nat
  BY <1>1 DEF IInv, TypeOK
<1>6. CASE call[t].path # "los"
  <2>1. Return(t)
    BY <1>6 DEF RefillTlab
  <2> QED BY <1>1, <1>2, <1>3, <1>4, <1>5, <2>1, ReturnStep
<1>7. CASE call[t].path = "los"
  <2>1. call' = [call EXCEPT ![t].pc = "post_alloc"] /\ objs' = objs
    BY <1>7 DEF RefillTlab
  <2>2. /\ call'[t] = [call[t] EXCEPT !.pc = "post_alloc"]
        /\ \A u \in Threads \ {t} : call'[u] = call[u]
    BY <2>1 DEF IInv, TypeOK
  <2>3. /\ call'[t].pc = "post_alloc" /\ call'[t].path = call[t].path
        /\ call'[t].start = call[t].start /\ call'[t].size = call[t].size
        /\ call'[t].align = call[t].align
    BY <2>2 DEF IInv, TypeOK
  <2>4. TypeOK'
    <3> DEFINE Calls == [pc : Steps, path : Paths, size : Nat,
                         align : Aligns \cup {1}, start : Nat, byte : SUBSET Nat]
    <3>1. call' \in [Threads -> Calls]
      <4>1. call \in [Threads -> Calls]
        BY DEF IInv, TypeOK
      <4>2. "post_alloc" \in Steps /\ call[t] \in Calls
        BY <4>1 DEF Steps
      <4>3. [call[t] EXCEPT !.pc = "post_alloc"] \in Calls
        BY <4>2
      <4>4. call' = [call EXCEPT ![t] = [call[t] EXCEPT !.pc = "post_alloc"]]
        BY <2>1
      <4> HIDE DEF Calls
      <4> QED BY <4>1, <4>3, <4>4
    <3>2. tlab' \in [Threads -> BufferPair]
      BY <1>2 DEF IInv, TypeOK
    <3> QED BY <1>1, <2>1, <3>1, <3>2 DEF IInv, TypeOK
  <2>5. TlabIsCopy'
    BY <1>1, <1>2, <1>4 DEF IInv, TlabIsCopy
  <2>6. FlushedOutOfLine'
    BY <1>2, <2>2, <2>3 DEF IInv, FlushedOutOfLine
  <2>7. Cell(t)' = Cell(t)
    BY <2>3 DEF Cell
  <2>8. CallsAreSound'
    <3>1. call'[t].size > 0
      BY <1>1, <2>3 DEF IInv, CallsAreSound
    <3>2. AlignedCall(t)'
      BY <1>1, <2>3 DEF IInv, CallsAreSound, AlignedCall
    <3> QED BY <2>2, <3>1, <3>2, CallStaysSound DEF IInv
  <2>9. Disjoint'
    BY <1>1, <1>2, <1>3, <2>1, <2>2, <2>7, NothingGained DEF IInv
  <2>10. ReferencesAligned'
    BY <2>1 DEF IInv, ReferencesAligned
  <2> QED BY <2>4, <2>5, <2>6, <2>8, <2>9, <2>10 DEF IInv
<1> QED BY <1>6, <1>7

LEMMA PostAllocStep ==
    ASSUME IInv, NEW t \in Threads, PostAlloc(t)
    PROVE  IInv'
<1>1. /\ Unfinished(t) /\ Return(t) /\ UNCHANGED <<selector, tlab, bump, crossed>>
      /\ vo' = vo \cup {Reference(Cell(t))}
  BY DEF PostAlloc, Unfinished
<1>2. vo' \subseteq Nat
  <2>1. call[t].start \in Nat /\ vo \subseteq Nat
    BY DEF IInv, TypeOK
  <2>2. Reference(Cell(t)) \in Nat
    BY <2>1 DEF Reference, Cell, Interval, ObjectRefOffset
  <2> QED BY <1>1, <2>1, <2>2
<1>3. /\ tlab'[t] \in BufferPair /\ tlab' = [tlab EXCEPT ![t] = tlab'[t]]
      /\ Reserve(t)' = Reserve(t)
  BY <1>1 DEF IInv, TypeOK, Reserve
<1>4. tlab'[t] # Empty => /\ selector = "bump" /\ tlab'[t].cursor # Null
                          /\ bump[t].cursor <= tlab'[t].cursor
                          /\ tlab'[t].limit = bump[t].limit
  BY <1>1 DEF IInv, TlabIsCopy
<1> QED BY <1>1, <1>2, <1>3, <1>4, ReturnStep

\* Nobody is in the middle of an object, and every buffer is taken back.
LEMMA CollectStep ==
    ASSUME IInv, NEW dead \in SUBSET objs, Collect(dead)
    PROVE  IInv'
<1>1. /\ \A t \in Threads : call[t].pc \in {"idle", "alloc"}
      /\ tlab' = [t \in Threads |-> Empty] /\ bump' = [t \in Threads |-> Empty]
      /\ objs' = objs \ dead /\ vo' \subseteq vo
      /\ UNCHANGED <<selector, call, crossed>>
  BY DEF Collect, TlabWhenStopped
<1>2. TypeOK'
  BY <1>1 DEF IInv, TypeOK, Empty, Null, BufferPair
<1>3. TlabIsCopy' /\ FlushedOutOfLine'
  BY <1>1 DEF TlabIsCopy, FlushedOutOfLine
<1>4. \A t \in Threads : ~Unfinished(t)'
  BY <1>1 DEF Unfinished
<1>5. CallsAreSound'
  BY <1>1, <1>4 DEF IInv, CallsAreSound
<1>6. Disjoint'
  <2>1. \A t \in Threads : Reserve(t)' = Interval(0, 0)
    BY <1>1 DEF Reserve, Buffer, Empty, Null
  <2>2. ASSUME NEW i, IsInterval(i) PROVE Apart(Interval(0, 0), i)
    BY <2>2 DEF Apart, IsInterval, Interval
  <2>3. IsInterval(Interval(0, 0)) /\ \A o \in objs' : IsInterval(o)
    BY <1>1, Intervals DEF IInv, IsInterval, Interval
  <2>4. \A t \in Threads : OwnApart(t)'
    BY <1>4, <2>1, <2>2, <2>3 DEF OwnApart
  <2> QED BY <1>1, <2>4 DEF IInv, Disjoint
<1>7. ReferencesAligned'
  BY <1>1 DEF IInv, ReferencesAligned
<1> QED BY <1>2, <1>3, <1>5, <1>6, <1>7 DEF IInv

-----------------------------------------------------------------------------
(* Theorems                                                                *)

LEMMA InitIInv == Init => IInv
<1> SUFFICES ASSUME Init PROVE IInv
  OBVIOUS
<1>1. TypeOK
  BY DEF Init, TypeOK, Empty, Null, BufferPair, NoCall, Steps, Paths
<1>2. TlabIsCopy /\ FlushedOutOfLine /\ ReferencesAligned
  BY DEF Init, TlabIsCopy, FlushedOutOfLine, ReferencesAligned, NoCall
<1>3. \A t \in Threads : /\ ~Unfinished(t) /\ call[t].pc = "idle"
                         /\ Reserve(t) = Interval(0, 0)
  BY DEF Init, Unfinished, Reserve, Buffer, NoCall, Empty, Null
<1>4. CallsAreSound
  BY <1>3 DEF CallsAreSound
<1>5. Disjoint
  <2>1. objs = {}
    BY DEF Init
  <2>2. Apart(Interval(0, 0), Interval(0, 0))
    BY DEF Apart, Interval
  <2> QED BY <1>3, <2>1, <2>2 DEF Disjoint, OwnApart
<1> QED BY <1>1, <1>2, <1>4, <1>5 DEF IInv

LEMMA NextIInv == IInv /\ [Next]_vars => IInv'
<1> SUFFICES ASSUME IInv, [Next]_vars PROVE IInv'
  OBVIOUS
<1>1. ASSUME NEW t \in Threads, NEW size \in Sizes, NEW align \in Aligns,
             \/ AllocateFast(t, size, align)
             \/ \E semantics \in Semantics :
                   \/ AllocateOutOfLine(t, size, align, semantics)
                   \/ AllocateElsewhere(t, size, align, semantics)
      PROVE  IInv'
  BY <1>1, AllocateFastStep, AllocateOutOfLineStep DEF AllocateElsewhere
<1>2. ASSUME NEW t \in Threads,
             \/ FlushTlab(t) \/ AllocFromBuffer(t)
             \/ Initialize(t) \/ SetVoBit(t) \/ RefillTlab(t) \/ PostAlloc(t)
      PROVE  IInv'
  BY <1>2, FlushTlabStep, AllocFromBufferStep, InitializeStep, SetVoBitStep,
     RefillTlabStep, PostAllocStep
<1>3. ASSUME NEW t \in Threads, NEW b \in Blocks,
             \/ AllocFromBlock(t, b)
             \/ \E start \in b.start..b.end : AllocCell(t, b, start)
      PROVE  IInv'
  BY <1>3, AllocFromBlockStep, AllocCellStep
<1>4. CASE \E dead \in SUBSET objs : Collect(dead)
  BY <1>4, CollectStep
<1>5. CASE UNCHANGED vars
  BY <1>5 DEF vars, IInv, TypeOK, TlabIsCopy, FlushedOutOfLine, CallsAreSound,
     Disjoint, OwnApart, ReferencesAligned, Reserve, Unfinished, Cell, Reference
<1> QED BY <1>1, <1>2, <1>3, <1>4, <1>5 DEF Next

\* The invariant holds in every state: buffers, unfinished cells and objects
\* are disjoint, and a TLAB is MMTk's pair or a rest of it.
THEOREM Invariance == Spec => []IInv
  BY InitIInv, NextIInv, PTL DEF Spec

\* The variables have their types.
THEOREM TypeCorrect == Spec => []TypeOK
<1>1. IInv => TypeOK
  BY DEF IInv
<1> QED BY <1>1, Invariance, PTL

\* No word of memory is handed out twice, for any number of threads, any
\* disjoint blocks and any sizes and alignments.
THEOREM NothingHandedOutTwiceThm == Spec => []NothingHandedOutTwice
<1>1. IInv => NothingHandedOutTwice
  <2> SUFFICES ASSUME IInv PROVE NothingHandedOutTwice
    OBVIOUS
  <2>1. \A o, p \in objs : o # p => Apart(o, p)
    BY DEF IInv, Disjoint
  <2>2. ASSUME NEW t \in Threads, NEW i \in Used(t)
        PROVE  /\ \A o \in objs : Apart(i, o)
               /\ \A j \in Used(t) : i # j => Apart(i, j)
               /\ \A u \in Threads \ {t} : \A j \in Used(u) : Apart(i, j)
    <3>1. OwnApart(t)
      BY DEF IInv, Disjoint
    <3>2. \A u \in Threads : \A j \in Used(u) : j = Reserve(u) \/ (Unfinished(u) /\ j = Cell(u))
      BY DEF Used
    <3>3. Unfinished(t) => Apart(Cell(t), Reserve(t))
      BY <3>1 DEF OwnApart, Apart
    <3>4. CASE i = Reserve(t)
      BY <3>1, <3>2, <3>4 DEF OwnApart
    <3>5. CASE Unfinished(t) /\ i = Cell(t)
      BY <3>1, <3>2, <3>3, <3>5 DEF OwnApart
    <3> QED BY <3>2, <3>4, <3>5
  <2> QED BY <2>1, <2>2 DEF NothingHandedOutTwice
<1> QED BY <1>1, Invariance, PTL

\* Whatever the path, the cell of every object is aligned at the offset the path
\* passes, to the alignment that was asked for: at the reference, or at the header.
THEOREM ReferencesAlignedThm == Spec => []ReferencesAligned
<1>1. IInv => ReferencesAligned
  BY DEF IInv
<1> QED BY <1>1, Invariance, PTL

-----------------------------------------------------------------------------
(* Blocks                                                                  *)

\* A block is an interval, above address 0.
LEMMA BlockIsInterval ==
    ASSUME NEW b \in Blocks
    PROVE  IsInterval(b) /\ b.start > 0
  BY BlocksApart DEF IsInterval

\* What touches part of an interval touches the interval.
LEMMA PartTouches ==
    ASSUME NEW i, NEW j, IsInterval(i), IsInterval(j), Inside(i, j),
           NEW b \in Blocks, Apart(b, j)
    PROVE  Apart(b, i)
  BY BlockIsInterval DEF IsInterval, Inside, Apart

\* Part of what lies in a block lies in it.
LEMMA PartIsLocated ==
    ASSUME NEW i, NEW j, IsInterval(i), IsInterval(j), Inside(i, j), InSomeBlock(j)
    PROVE  InSomeBlock(i)
<1>1. PICK b \in Blocks : InBlock(j, b)
  BY DEF InSomeBlock
<1>2. InBlock(i, b)
  BY <1>1, BlockIsInterval DEF InBlock, Inside, IsInterval
<1> QED BY <1>2 DEF InSomeBlock

\* Only its own block is touched by what lies in a block.
LEMMA OwnBlockOnly ==
    ASSUME NEW i, IsInterval(i), NEW b \in Blocks, NEW c \in Blocks, InBlock(i, b),
           c # b
    PROVE  Apart(c, i)
<1>1. Apart(c, b)
  BY BlocksApart DEF Apart
<1>2. Inside(i, b)
  BY DEF Inside, InBlock
<1> QED BY <1>1, <1>2, BlockIsInterval, PartTouches

\* MMTk's guard, and the invariant, in terms of Touches.
LEMMA NotSharedMeans ==
    ASSUME NEW t \in Threads, NEW b \in Blocks, NotShared(t, b)
    PROVE  \A u \in Threads \ {t} : ~Touches(u, b)
  BY DEF NotShared, Touches

\* A step of one thread keeps LInv when the blocks that it touches afterwards are
\* its own or nobody else's.
LEMMA OneThreadMoves ==
    ASSUME LInv, NEW t \in Threads,
           \A u \in Threads \ {t} : bump'[u] = bump[u] /\ call'[u] = call[u],
           \A b \in Blocks : Touches(t, b)' => Touches(t, b) \/ NotShared(t, b),
           bump'[t].cursor < bump'[t].limit => InSomeBlock(Buffer(bump[t]))',
           Unfinished(t)' => InSomeBlock(Cell(t))',
           \A o \in objs' : o \in objs \/ InSomeBlock(o)
    PROVE  LInv'
<1>1. ASSUME NEW u \in Threads \ {t}
      PROVE  /\ Cell(u)' = Cell(u) /\ Buffer(bump[u])' = Buffer(bump[u])
             /\ Unfinished(u)' <=> Unfinished(u)
             /\ \A b \in Blocks : Touches(u, b)' <=> Touches(u, b)
  BY <1>1 DEF Cell, Buffer, Unfinished, Touches
<1>2. \A i : InSomeBlock(i)' <=> InSomeBlock(i)
  BY DEF InSomeBlock, InBlock
<1>3. Located'
  <2>1. ASSUME NEW u \in Threads
        PROVE  /\ bump'[u].cursor < bump'[u].limit => InSomeBlock(Buffer(bump[u]))'
               /\ Unfinished(u)' => InSomeBlock(Cell(u))'
    <3>1. CASE u = t
      BY <3>1
    <3>2. CASE u # t
      BY <1>1, <1>2, <3>2 DEF LInv, Located
    <3> QED BY <3>1, <3>2
  <2>2. \A o \in objs' : InSomeBlock(o)'
    BY <1>2 DEF LInv, Located
  <2> QED BY <2>1, <2>2 DEF Located
<1>4. ASSUME NEW b \in Blocks, NEW u \in Threads, NEW w \in Threads,
             Touches(u, b)', Touches(w, b)', u # w
      PROVE  FALSE
  <2>1. ASSUME NEW v \in Threads \ {t}, Touches(v, b)', Touches(t, b)' PROVE FALSE
    <3>1. Touches(v, b)
      BY <1>1, <2>1
    <3>2. ~NotShared(t, b)
      BY <3>1, NotSharedMeans
    <3>3. Touches(t, b)
      BY <2>1, <3>2
    <3> QED BY <3>1, <3>3 DEF LInv, OneThreadABlock
  <2>2. u # t /\ w # t
    BY <1>4, <2>1
  <2>3. Touches(u, b) /\ Touches(w, b)
    BY <1>1, <1>4, <2>2
  <2> QED BY <1>4, <2>3 DEF LInv, OneThreadABlock
<1>5. OneThreadABlock'
  BY <1>4 DEF OneThreadABlock
<1> QED BY <1>3, <1>5 DEF LInv

\* Such is a step after which all that the thread has is part of its buffer, or
\* the cell it had.
LEMMA WithinOwn ==
    ASSUME IInv, LInv, NEW t \in Threads,
           \A u \in Threads \ {t} : bump'[u] = bump[u] /\ call'[u] = call[u],
           IsInterval(Buffer(bump[t])'), Inside(Buffer(bump[t])', Buffer(bump[t])),
           Unfinished(t)' =>
              \/ Unfinished(t) /\ Cell(t)' = Cell(t)
              \/ /\ IsInterval(Cell(t)') /\ Inside(Cell(t)', Buffer(bump[t]))
                 /\ bump[t].cursor < bump[t].limit,
           \A o \in objs' : o \in objs \/ InSomeBlock(o)
    PROVE  LInv'
<1>1. IsInterval(Buffer(bump[t])) /\ IsInterval(Cell(t))
  BY Intervals DEF IInv
<1>2. ASSUME NEW b \in Blocks, Touches(t, b)' PROVE Touches(t, b)
  <2>1. ~Apart(b, Buffer(bump[t])') \/ (Unfinished(t)' /\ ~Apart(b, Cell(t)'))
    BY <1>2 DEF Touches, Apart
  <2> QED BY <1>1, <2>1, PartTouches DEF Touches
<1>3. \A i : InSomeBlock(i)' <=> InSomeBlock(i)
  BY DEF InSomeBlock, InBlock
<1>4. ASSUME bump'[t].cursor < bump'[t].limit PROVE InSomeBlock(Buffer(bump[t]))'
  <2>1. bump[t].cursor < bump[t].limit
    BY <1>1, <1>4 DEF IsInterval, Inside, Buffer, Interval
  <2>2. InSomeBlock(Buffer(bump[t]))
    BY <2>1 DEF LInv, Located
  <2> QED BY <1>1, <1>3, <2>2, PartIsLocated
<1>5. ASSUME Unfinished(t)' PROVE InSomeBlock(Cell(t))'
  <2>1. CASE Unfinished(t) /\ Cell(t)' = Cell(t)
    BY <1>3, <2>1 DEF LInv, Located
  <2>2. CASE /\ IsInterval(Cell(t)') /\ Inside(Cell(t)', Buffer(bump[t]))
             /\ bump[t].cursor < bump[t].limit
    <3>1. InSomeBlock(Buffer(bump[t]))
      BY <2>2 DEF LInv, Located
    <3> QED BY <1>1, <1>3, <2>2, <3>1, PartIsLocated
  <2> QED BY <1>5, <2>1, <2>2
<1> QED BY <1>2, <1>4, <1>5, OneThreadMoves

\* So is one after which the thread has part of a block that nobody shared.
LEMMA WithinBlock ==
    ASSUME IInv, LInv, NEW t \in Threads, NEW b \in Blocks, NotShared(t, b),
           \A u \in Threads \ {t} : bump'[u] = bump[u] /\ call'[u] = call[u],
           IsInterval(Cell(t)'), InBlock(Cell(t)', b),
           \/ bump'[t] = bump[t]
           \/ IsInterval(Buffer(bump[t])') /\ InBlock(Buffer(bump[t])', b),
           objs' = objs
    PROVE  LInv'
<1>1. \A i : InSomeBlock(i)' <=> InSomeBlock(i)
  BY DEF InSomeBlock, InBlock
<1>2. ASSUME NEW c \in Blocks, Touches(t, c)'
      PROVE  Touches(t, c) \/ NotShared(t, c)
  <2>1. CASE c = b
    BY <2>1
  <2>2. CASE c # b
    <3>1. Apart(c, Cell(t)')
      BY <2>2, OwnBlockOnly
    <3>2. ~Apart(c, Buffer(bump[t])')
      BY <1>2, <3>1 DEF Touches, Apart
    <3>3. ~(IsInterval(Buffer(bump[t])') /\ InBlock(Buffer(bump[t])', b))
      BY <2>2, <3>2, OwnBlockOnly
    <3>4. Buffer(bump[t])' = Buffer(bump[t])
      BY <3>3 DEF Buffer
    <3> QED BY <3>2, <3>4 DEF Touches
  <2> QED BY <2>1, <2>2
<1>3. InSomeBlock(Cell(t))'
  BY <1>1 DEF InSomeBlock
<1>4. ASSUME bump'[t].cursor < bump'[t].limit PROVE InSomeBlock(Buffer(bump[t]))'
  <2>1. CASE bump'[t] = bump[t]
    <3>1. InSomeBlock(Buffer(bump[t]))
      BY <1>4, <2>1 DEF LInv, Located
    <3> QED BY <1>1, <2>1, <3>1 DEF Buffer
  <2>2. CASE IsInterval(Buffer(bump[t])') /\ InBlock(Buffer(bump[t])', b)
    <3>1. InSomeBlock(Buffer(bump[t])')
      BY <2>2 DEF InSomeBlock
    <3> QED BY <1>1, <3>1
  <2> QED BY <2>1, <2>2
<1> QED BY <1>2, <1>3, <1>4, OneThreadMoves

\* MMTk's pair is an interval in itself.
LEMMA BufferIsInside ==
    ASSUME IInv, NEW t \in Threads
    PROVE  IsInterval(Buffer(bump[t])) /\ Inside(Buffer(bump[t]), Buffer(bump[t]))
<1>1. IsInterval(Buffer(bump[t]))
  BY Intervals DEF IInv
<1> QED BY <1>1 DEF IsInterval, Inside

\* The start of a call.
LEMMA EntersOutOfLine ==
    ASSUME IInv, NEW t \in Threads, NEW size \in Sizes, NEW align \in Aligns,
           NEW semantics \in Semantics, AllocateOutOfLine(t, size, align, semantics)
    PROVE  /\ call[t].pc = "idle" /\ call'[t].pc = "flush"
           /\ call'[t].size = AlignUp(size + ObjectRefOffset, align)
           /\ \A u \in Threads \ {t} : call'[u] = call[u]
           /\ UNCHANGED <<selector, tlab, bump, objs, vo, crossed>>
<1>1. /\ call[t].pc = "idle" /\ UNCHANGED <<selector, tlab, bump, objs, vo, crossed>>
      /\ call' = [call EXCEPT ![t] =
            [pc |-> "flush", path |-> OutOfLinePath(size, semantics),
             size |-> AlignUp(size + ObjectRefOffset, align), align |-> align,
             start |-> Null, byte |-> {}]]
  BY DEF AllocateOutOfLine, Enter
<1> QED BY <1>1 DEF IInv, TypeOK

\* Or of one that finds room in the TLAB.
LEMMA EntersFast ==
    ASSUME IInv, NEW t \in Threads, NEW size \in Sizes, NEW align \in Aligns,
           AllocateFast(t, size, align)
    PROVE  /\ call[t].pc = "idle"
           /\ call'[t].size = AlignUp(size + ObjectRefOffset, align)
           /\ \A u \in Threads \ {t} : call'[u] = call[u]
           /\ UNCHANGED <<selector, bump, objs, vo, crossed>>
           /\ \/ call'[t].pc = "flush"
              \/ /\ call'[t].pc = "initialize"
                 /\ IsInterval(Cell(t)') /\ Inside(Cell(t)', Buffer(bump[t]))
                 /\ bump[t].cursor < bump[t].limit
<1> DEFINE bytes == AlignUp(size + ObjectRefOffset, align)
           start == TlabAllocate(tlab[t], bytes, align)
           result == AlignAllocation(tlab[t].cursor, align, ObjectRefOffset)
<1>1. bytes \in Nat /\ bytes > 0 /\ align \in Nat \ {0}
  BY SizeHoldsHeader
<1>2. /\ tlab[t].cursor \in Nat /\ tlab[t].limit \in Nat
      /\ tlab[t].cursor <= tlab[t].limit
      /\ bump[t].cursor \in Nat /\ bump[t].limit \in Nat
  BY DEF IInv, TypeOK, BufferPair
<1>3. result \in Nat /\ tlab[t].cursor <= result
  BY <1>1, <1>2, AlignAllocationAligns DEF ObjectRefOffset
<1>4. AlignUp(bytes, align) \in Nat /\ bytes <= AlignUp(bytes, align)
  BY <1>1, AlignUpGrows
<1>5. start = IF result + AlignUp(bytes, align) > tlab[t].limit THEN Null ELSE result
  BY DEF TlabAllocate
<1>6. /\ call[t].pc = "idle" /\ UNCHANGED <<selector, bump, objs, vo, crossed>>
      /\ IF start = Null
           THEN /\ Enter(t, "flush", "slow", bytes, align, Null)
                /\ UNCHANGED tlab
           ELSE /\ Enter(t, "initialize", "fast", bytes, align, start)
                /\ tlab' = [tlab EXCEPT ![t].cursor = start + bytes]
  BY DEF AllocateFast
<1> HIDE DEF bytes, start, result
<1>7. /\ call'[t].size = bytes /\ \A u \in Threads \ {t} : call'[u] = call[u]
      /\ IF start = Null THEN call'[t].pc = "flush"
                         ELSE call'[t].pc = "initialize" /\ call'[t].start = start
  BY <1>6 DEF Enter, IInv, TypeOK
<1>8. ASSUME start # Null
      PROVE  /\ IsInterval(Cell(t)') /\ Inside(Cell(t)', Buffer(bump[t]))
             /\ bump[t].cursor < bump[t].limit
  <2>1. /\ start = result /\ start + bytes <= tlab[t].limit /\ tlab[t].cursor <= start
        /\ start \in Nat /\ start + bytes \in Nat
    BY <1>1, <1>2, <1>3, <1>4, <1>5, <1>8
  <2>2. tlab[t] # Empty
    <3>1. tlab[t].limit > 0
      BY <1>1, <1>2, <2>1
    <3> QED BY <3>1 DEF Empty, Null
  <2>3. bump[t].cursor <= tlab[t].cursor /\ tlab[t].limit = bump[t].limit
    BY <2>2 DEF IInv, TlabIsCopy
  <2>4. Cell(t)' = Interval(start, start + bytes)
    BY <1>7, <1>8 DEF Cell
  <2> QED BY <1>1, <1>2, <2>1, <2>3, <2>4 DEF IsInterval, Inside, Buffer, Interval
<1> QED BY <1>6, <1>7, <1>8 DEF bytes

\* Memory that MMTk grants is a cell of the size asked for.
LEMMA GrantsCell ==
    ASSUME IInv, NEW t \in Threads, NEW start \in Nat, Granted(t, start)
    PROVE  /\ call'[t].pc = "initialize" /\ call'[t].size = call[t].size
           /\ call'[t].path = call[t].path /\ call'[t].align = call[t].align
           /\ Cell(t)' = Interval(start, start + call[t].size)
           /\ IsInterval(Cell(t)')
           /\ \A u \in Threads \ {t} : call'[u] = call[u]
           /\ UNCHANGED <<selector, tlab, objs, vo, crossed>>
<1>1. /\ call' = [call EXCEPT ![t].pc = "initialize", ![t].start = start]
      /\ UNCHANGED <<selector, tlab, objs, vo, crossed>>
  BY DEF Granted
<1>0. call[t] \in [pc : Steps, path : Paths, size : Nat,
                   align : Aligns \cup {1}, start : Nat, byte : SUBSET Nat]
  BY DEF IInv, TypeOK
<1>2. call[t].size \in Nat
  BY <1>0
<1>3. /\ call'[t] = [call[t] EXCEPT !.pc = "initialize", !.start = start]
      /\ \A u \in Threads \ {t} : call'[u] = call[u]
  BY <1>1 DEF IInv, TypeOK
<1>4. /\ call'[t].pc = "initialize" /\ call'[t].size = call[t].size /\ call'[t].start = start
      /\ call'[t].path = call[t].path /\ call'[t].align = call[t].align
  BY <1>3, <1>0
<1>5. Cell(t)' = Interval(start, start + call[t].size)
  BY <1>4 DEF Cell
<1>6. IsInterval(Interval(start, start + call[t].size))
  BY <1>2 DEF Interval, IsInterval
<1> QED BY <1>1, <1>3, <1>4, <1>5, <1>6

\* An unfinished call that goes on keeps its cell.
LEMMA KeepsCell ==
    ASSUME IInv, NEW t \in Threads, NEW pc, NEW byte,
           call' = [call EXCEPT ![t].pc = pc, ![t].byte = byte]
    PROVE  /\ call'[t].pc = pc /\ call'[t].byte = byte /\ call'[t].path = call[t].path
           /\ call'[t].size = call[t].size
           /\ Cell(t)' = Cell(t)
           /\ \A u \in Threads \ {t} : call'[u] = call[u]
<1>1. /\ call'[t].pc = pc /\ call'[t].byte = byte /\ call'[t].path = call[t].path
      /\ call'[t].size = call[t].size /\ call'[t].start = call[t].start
      /\ \A u \in Threads \ {t} : call'[u] = call[u]
  BY DEF IInv, TypeOK
<1> QED BY <1>1 DEF Cell

\* The object that a call returns is its cell.
LEMMA ReturnsCell ==
    ASSUME IInv, NEW t \in Threads, Return(t)
    PROVE  /\ objs' = objs \cup {Done(t)}
           /\ Done(t).start = Cell(t).start /\ Done(t).end = Cell(t).end
           /\ Reference(Done(t)) = Reference(Cell(t))
           /\ Done(t).end = Done(t).start + call[t].size
           /\ call'[t].pc = "idle" /\ \A u \in Threads \ {t} : call'[u] = call[u]
<1>1. objs' = objs \cup {Done(t)} /\ call' = [call EXCEPT ![t] = NoCall]
  BY DEF Return
<1>2. call'[t].pc = "idle" /\ \A u \in Threads \ {t} : call'[u] = call[u]
  BY <1>1 DEF IInv, TypeOK, NoCall
<1> QED BY <1>1, <1>2 DEF Done, Cell, Interval, Reference

LEMMA ReturnLocated ==
    ASSUME IInv, LInv, NEW t \in Threads, Return(t), Unfinished(t), UNCHANGED bump
    PROVE  LInv'
<1>1. InSomeBlock(Done(t))
  <2>1. InSomeBlock(Cell(t))
    BY DEF LInv, Located
  <2> QED BY <2>1, ReturnsCell DEF InSomeBlock, InBlock
<1>2. ~Unfinished(t)'
  BY ReturnsCell DEF Unfinished
<1>3. IsInterval(Buffer(bump[t])') /\ Inside(Buffer(bump[t])', Buffer(bump[t]))
  BY BufferIsInside DEF Buffer
<1> QED BY <1>1, <1>2, <1>3, ReturnsCell, WithinOwn

\* Steps of a call that grant no memory.
LEMMA CallLocated ==
    ASSUME IInv, LInv, NEW t \in Threads,
           \/ \E size \in Sizes, align \in Aligns :
                 \/ AllocateFast(t, size, align)
                 \/ \E semantics \in Semantics : AllocateOutOfLine(t, size, align, semantics)
           \/ Initialize(t) \/ SetVoBit(t) \/ RefillTlab(t) \/ PostAlloc(t)
    PROVE  LInv'
<1>1. IsInterval(Buffer(bump[t])) /\ Inside(Buffer(bump[t]), Buffer(bump[t]))
  BY BufferIsInside
<1>2. ASSUME NEW size \in Sizes, NEW align \in Aligns, AllocateFast(t, size, align)
      PROVE  LInv'
  <2>1. /\ \A u \in Threads \ {t} : bump'[u] = bump[u] /\ call'[u] = call[u]
        /\ Buffer(bump[t])' = Buffer(bump[t]) /\ objs' = objs
    BY <1>2, EntersFast DEF Buffer
  <2>2. Unfinished(t)' => /\ IsInterval(Cell(t)') /\ Inside(Cell(t)', Buffer(bump[t]))
                          /\ bump[t].cursor < bump[t].limit
    BY <1>2, EntersFast DEF Unfinished
  <2> QED BY <1>1, <2>1, <2>2, WithinOwn
<1>3. ASSUME NEW size \in Sizes, NEW align \in Aligns, NEW semantics \in Semantics,
             AllocateOutOfLine(t, size, align, semantics)
      PROVE  LInv'
  <2>1. /\ \A u \in Threads \ {t} : bump'[u] = bump[u] /\ call'[u] = call[u]
        /\ Buffer(bump[t])' = Buffer(bump[t]) /\ objs' = objs /\ ~Unfinished(t)'
    BY <1>3, EntersOutOfLine DEF Buffer, Unfinished
  <2> QED BY <1>1, <2>1, WithinOwn
<1>4. ASSUME Initialize(t) \/ (SetVoBit(t) /\ call[t].path # "fast")
             \/ (RefillTlab(t) /\ call[t].path = "los")
      PROVE  LInv'
  <2>1. PICK pc, byte : call' = [call EXCEPT ![t].pc = pc, ![t].byte = byte]
    <3>1. CASE Initialize(t)
      BY <3>1 DEF Initialize
    <3>2. CASE SetVoBit(t) \/ RefillTlab(t)
      <4>1. PICK pc \in {"refill", "post_alloc"} : call' = [call EXCEPT ![t].pc = pc]
        <5>1. CASE SetVoBit(t) /\ call[t].path # "fast"
          <6>1. call' = [call EXCEPT ![t].pc = "refill"]
            BY <5>1 DEF SetVoBit
          <6> QED BY <6>1
        <5>2. CASE RefillTlab(t) /\ call[t].path = "los"
          <6>1. call' = [call EXCEPT ![t].pc = "post_alloc"]
            BY <5>2 DEF RefillTlab
          <6> QED BY <6>1
        <5>3. CASE Initialize(t)
          BY <5>3, <3>2 DEF Initialize, SetVoBit, RefillTlab
        <5> QED BY <1>4, <5>1, <5>2, <5>3
      <4>2. call' = [call EXCEPT ![t].pc = pc, ![t].byte = call[t].byte]
        BY <4>1 DEF IInv, TypeOK
      <4> QED BY <4>2
    <3> QED BY <1>4, <3>1, <3>2
  <2>2. Unfinished(t) /\ UNCHANGED <<bump, objs>>
    BY <1>4 DEF Initialize, SetVoBit, RefillTlab, Unfinished
  <2>3. Cell(t)' = Cell(t) /\ \A u \in Threads \ {t} : call'[u] = call[u]
    BY <2>1, KeepsCell
  <2> QED BY <1>1, <2>2, <2>3, WithinOwn DEF Buffer
<1>5. ASSUME (SetVoBit(t) /\ call[t].path = "fast") \/ PostAlloc(t)
             \/ (RefillTlab(t) /\ call[t].path # "los")
      PROVE  LInv'
  <2>1. Return(t) /\ Unfinished(t) /\ UNCHANGED bump
    BY <1>5 DEF SetVoBit, PostAlloc, RefillTlab, Unfinished
  <2> QED BY <2>1, ReturnLocated
<1> QED BY <1>2, <1>3, <1>4, <1>5

\* What flush_tlab leaves to MMTk is the rest of the buffer it had.
LEMMA FlushLocated ==
    ASSUME IInv, LInv, NEW t \in Threads, FlushTlab(t)
    PROVE  LInv'
<1>1. /\ bump' = [bump EXCEPT ![t] = Flushed(t)]
      /\ call' = [call EXCEPT ![t].pc = "alloc"]
      /\ UNCHANGED objs
  BY DEF FlushTlab
<1>2. /\ bump'[t] = Flushed(t) /\ call'[t].pc = "alloc"
      /\ \A u \in Threads \ {t} : bump'[u] = bump[u] /\ call'[u] = call[u]
  BY <1>1 DEF IInv, TypeOK
<1>3. Flushed(t) = bump[t] \/ (tlab[t] # Empty /\ Flushed(t) = tlab[t])
  BY DEF Flushed, Empty
<1>4. IsInterval(Buffer(Flushed(t))) /\ Inside(Buffer(Flushed(t)), Buffer(bump[t]))
  <2>1. CASE Flushed(t) = bump[t]
    BY <2>1, BufferIsInside
  <2>2. CASE tlab[t] # Empty /\ Flushed(t) = tlab[t]
    <3>1. Reserve(t) = Buffer(tlab[t])
      BY <2>2 DEF Reserve
    <3> QED BY <2>2, <3>1, ReserveInsideBump, Intervals DEF IInv
  <2> QED BY <1>3, <2>1, <2>2
<1>5. Buffer(bump[t])' = Buffer(Flushed(t)) /\ ~Unfinished(t)'
  BY <1>2 DEF Buffer, Unfinished
<1> QED BY <1>1, <1>2, <1>4, <1>5, WithinOwn

LEMMA AllocFromBufferLocated ==
    ASSUME IInv, LInv, NEW t \in Threads, AllocFromBuffer(t)
    PROVE  LInv'
<1> DEFINE start == AlignAllocation(bump[t].cursor, call[t].align, Offset(call[t].path))
           size == call[t].size
<1>1. /\ call[t].pc = "alloc" /\ start + size <= bump[t].limit
      /\ bump' = [bump EXCEPT ![t].cursor = start + size]
      /\ Granted(t, start)
  BY DEF AllocFromBuffer
<1>2. bump[t].cursor \in Nat /\ bump[t].limit \in Nat
  BY DEF IInv, TypeOK, BufferPair
<1>3. start \in Nat /\ bump[t].cursor <= start
  BY <1>2, AddressIsAligned
<1>4. size \in Nat /\ size > 0
  BY <1>1 DEF IInv, TypeOK, CallsAreSound
<1> HIDE DEF start, size
<1>5. /\ bump'[t].cursor = start + size /\ bump'[t].limit = bump[t].limit
      /\ \A u \in Threads \ {t} : bump'[u] = bump[u]
  BY <1>1 DEF IInv, TypeOK, BufferPair
<1>6. /\ Cell(t)' = Interval(start, start + size) /\ objs' = objs
      /\ \A u \in Threads \ {t} : call'[u] = call[u]
  BY <1>1, <1>3, GrantsCell DEF size
<1>7. Buffer(bump[t])' = Interval(start + size, bump[t].limit)
  BY <1>5 DEF Buffer
<1>8. /\ IsInterval(Buffer(bump[t])') /\ Inside(Buffer(bump[t])', Buffer(bump[t]))
      /\ IsInterval(Cell(t)') /\ Inside(Cell(t)', Buffer(bump[t]))
      /\ bump[t].cursor < bump[t].limit
  BY <1>1, <1>2, <1>3, <1>4, <1>6, <1>7 DEF IsInterval, Inside, Buffer, Interval
<1> QED BY <1>5, <1>6, <1>8, WithinOwn

LEMMA AllocFromBlockLocated ==
    ASSUME IInv, LInv, NEW t \in Threads, NEW b \in Blocks, AllocFromBlock(t, b)
    PROVE  LInv'
<1> DEFINE start == AlignAllocation(b.start, call[t].align, Offset(call[t].path))
           size == call[t].size
           rest == [cursor |-> start + size, limit |-> b.end]
<1>1. /\ start + size <= b.end /\ bump' = [bump EXCEPT ![t] = rest]
      /\ Granted(t, start) /\ NotShared(t, b)
  BY DEF AllocFromBlock
<1>2. b.start \in Nat /\ b.end \in Nat
  BY BlocksApart
<1>3. start \in Nat /\ b.start <= start
  BY <1>2, AddressIsAligned
<1>4. size \in Nat
  BY DEF IInv, TypeOK
<1> HIDE DEF start, size
<1>5. bump'[t] = rest /\ \A u \in Threads \ {t} : bump'[u] = bump[u]
  BY <1>1 DEF IInv, TypeOK
<1>6. /\ Cell(t)' = Interval(start, start + size) /\ objs' = objs
      /\ \A u \in Threads \ {t} : call'[u] = call[u]
  BY <1>1, <1>3, GrantsCell DEF size
<1>7. Buffer(bump[t])' = Interval(start + size, b.end)
  BY <1>5 DEF Buffer
<1>8. /\ IsInterval(Buffer(bump[t])') /\ InBlock(Buffer(bump[t])', b)
      /\ IsInterval(Cell(t)') /\ InBlock(Cell(t)', b)
  BY <1>1, <1>2, <1>3, <1>4, <1>6, <1>7 DEF IsInterval, InBlock, Interval
<1> QED BY <1>1, <1>5, <1>6, <1>8, WithinBlock

LEMMA AllocCellLocated ==
    ASSUME IInv, LInv, NEW t \in Threads, NEW b \in Blocks, NEW start \in b.start..b.end,
           AllocCell(t, b, start)
    PROVE  LInv'
<1>1. /\ InBlock(Interval(start, start + call[t].size), b)
      /\ Granted(t, start) /\ NotShared(t, b) /\ UNCHANGED bump
  BY DEF AllocCell
<1>2. start \in Nat
  BY BlocksApart
<1>3. /\ IsInterval(Cell(t)') /\ InBlock(Cell(t)', b) /\ objs' = objs
      /\ \A u \in Threads \ {t} : call'[u] = call[u]
  BY <1>1, <1>2, GrantsCell
<1> QED BY <1>1, <1>3, WithinBlock

\* A collection leaves no thread with a buffer.
LEMMA CollectLocated ==
    ASSUME LInv, NEW dead \in SUBSET objs, Collect(dead)
    PROVE  LInv'
<1>1. /\ \A t \in Threads : call[t].pc \in {"idle", "alloc"}
      /\ bump' = [t \in Threads |-> Empty] /\ objs' \subseteq objs
      /\ call' = call
  BY DEF Collect
<1>2. \A t \in Threads : /\ ~Unfinished(t)' /\ bump'[t].cursor = 0 /\ bump'[t].limit = 0
                         /\ Buffer(bump[t])' = Interval(0, 0)
  BY <1>1 DEF Unfinished, Empty, Null, Buffer
<1>3. \A b \in Blocks, t \in Threads : ~Touches(t, b)'
  BY <1>2, BlockIsInterval DEF Touches, Apart, Interval, IsInterval
<1>4. Located'
  BY <1>1, <1>2 DEF LInv, Located, InSomeBlock, InBlock
<1>5. OneThreadABlock'
  BY <1>3 DEF OneThreadABlock
<1> QED BY <1>4, <1>5 DEF LInv

LEMMA NextLInv == IInv /\ LInv /\ [Next]_vars => LInv'
<1> SUFFICES ASSUME IInv, LInv, [Next]_vars PROVE LInv'
  OBVIOUS
<1>1. ASSUME NEW t \in Threads,
             \/ \E size \in Sizes, align \in Aligns :
                   \/ AllocateFast(t, size, align)
                   \/ \E semantics \in Semantics :
                         \/ AllocateOutOfLine(t, size, align, semantics)
                         \/ AllocateElsewhere(t, size, align, semantics)
             \/ Initialize(t) \/ SetVoBit(t) \/ RefillTlab(t) \/ PostAlloc(t)
      PROVE  LInv'
  BY <1>1, CallLocated DEF AllocateElsewhere
<1>2. ASSUME NEW t \in Threads, FlushTlab(t) \/ AllocFromBuffer(t)
      PROVE  LInv'
  BY <1>2, FlushLocated, AllocFromBufferLocated
<1>3. ASSUME NEW t \in Threads, NEW b \in Blocks,
             AllocFromBlock(t, b) \/ \E start \in b.start..b.end : AllocCell(t, b, start)
      PROVE  LInv'
  BY <1>3, AllocFromBlockLocated, AllocCellLocated
<1>4. CASE \E dead \in SUBSET objs : Collect(dead)
  BY <1>4, CollectLocated
<1>5. CASE UNCHANGED vars
  BY <1>5 DEF vars, LInv, Located, OneThreadABlock, Touches, Unfinished, Cell, InSomeBlock,
     InBlock
<1> QED BY <1>1, <1>2, <1>3, <1>4, <1>5 DEF Next

LEMMA InitLInv == Init => LInv
<1> SUFFICES ASSUME Init PROVE LInv
  OBVIOUS
<1>1. \A t \in Threads : /\ ~Unfinished(t) /\ bump[t].cursor = 0 /\ bump[t].limit = 0
                         /\ Buffer(bump[t]) = Interval(0, 0)
  BY DEF Init, Unfinished, Empty, Null, Buffer, NoCall
<1>2. ASSUME NEW b \in Blocks, NEW t \in Threads PROVE ~Touches(t, b)
  <2>1. Apart(b, Interval(0, 0))
    BY BlockIsInterval DEF Apart, Interval, IsInterval
  <2> QED BY <1>1, <2>1 DEF Touches
<1> QED BY <1>1, <1>2 DEF Init, LInv, Located, OneThreadABlock

\* Objects and the threads' memory lie in blocks, and no two threads have memory
\* in the same block at a time, through flushes, refills and collections.
THEOREM BlocksUnshared == Spec => []LInv
<1>1. Init => IInv /\ LInv
  BY InitIInv, InitLInv
<1>2. (IInv /\ LInv) /\ [Next]_vars => (IInv /\ LInv)'
  BY NextIInv, NextLInv
<1> QED BY <1>1, <1>2, PTL DEF Spec

-----------------------------------------------------------------------------
(* VO bits                                                                 *)

\* The call has set its bit and not yet returned.
HasItsBit(t) == call[t].pc = "refill" /\ call[t].path # "los"

BitOfCall(t, x) == HasItsBit(t) /\ x = Reference(Cell(t))

BitOfObject(x) == \E o \in objs : x = Reference(o)

\* The byte that the bit of a call is in.
ByteOf(t) == VoByte(Reference(Cell(t)))

\* Marked, bit by bit.
LEMMA BitByBit ==
    ASSUME NEW x
    PROVE  x \in Marked <=> BitOfObject(x) \/ \E t \in Threads : BitOfCall(t, x)
  BY DEF Marked, BitOfObject, BitOfCall, HasItsBit

\* Where the reference of an unfinished call is: in a block that the call
\* touches, or just behind it.
LEMMA BitIsNear ==
    ASSUME IInv, LInv, NEW t \in Threads, Unfinished(t)
    PROVE  \/ Crosses(Cell(t))
           \/ \E b \in Blocks : /\ Touches(t, b)
                                /\ Reference(Cell(t)) \in b.start..(b.end - 1)
<1>1. PICK b \in Blocks : InBlock(Cell(t), b)
  BY DEF LInv, Located, InSomeBlock
<1>2. IsInterval(Cell(t)) /\ IsInterval(b)
  BY Intervals, BlockIsInterval DEF IInv
<1>3. call[t].size \in Nat /\ call[t].start \in Nat
  BY DEF IInv, TypeOK
<1>4. call[t].size > 0
  BY DEF IInv, CallsAreSound, Unfinished
<1>5. /\ Cell(t).start = call[t].start
      /\ Cell(t).end = call[t].start + call[t].size
  BY DEF Cell, Interval
<1>6. b.start <= Cell(t).start /\ Cell(t).end <= b.end
  BY <1>1 DEF InBlock
<1>7. Touches(t, b)
  BY <1>2, <1>3, <1>4, <1>5, <1>6 DEF Touches, Apart, IsInterval
<1>8. Reference(Cell(t)) = b.end \/ Reference(Cell(t)) \in b.start..(b.end - 1)
  BY <1>2, <1>3, <1>4, <1>5, <1>6 DEF Reference, IsInterval, ObjectRefOffset
<1> QED BY <1>1, <1>7, <1>8 DEF Crosses

\* The references of two unfinished calls are in different bytes, because their
\* cells are in different blocks, unless one of them is behind its block.
LEMMA BytesDiffer ==
    ASSUME IInv, LInv, NEW t \in Threads, NEW u \in Threads, t # u,
           Unfinished(t), Unfinished(u), ~Crosses(Cell(t)), ~Crosses(Cell(u))
    PROVE  ByteOf(t) # ByteOf(u)
<1>1. PICK b \in Blocks : Touches(t, b) /\ Reference(Cell(t)) \in b.start..(b.end - 1)
  BY BitIsNear
<1>2. PICK c \in Blocks : Touches(u, c) /\ Reference(Cell(u)) \in c.start..(c.end - 1)
  BY BitIsNear
<1>3. b # c
  BY <1>1, <1>2 DEF LInv, OneThreadABlock
<1> QED BY <1>1, <1>2, <1>3, BlocksApart DEF ByteOf

\* So a call that stores its bit does it in no byte that another has loaded,
\* unless the byte is known to have a bit of the block before.
LEMMA StoresElsewhere ==
    ASSUME IInv, LInv, VInv, NEW t \in Threads, NEW u \in Threads, t # u,
           call[t].pc \in {"set_vo", "refill", "post_alloc"}, call[u].pc = "set_vo"
    PROVE  ByteOf(t) # ByteOf(u) \/ ByteOf(u) \in crossed
<1>1. Unfinished(t) /\ Unfinished(u)
  BY DEF Unfinished
<1>2. /\ Crosses(Cell(t)) => ByteOf(t) \in crossed
      /\ Crosses(Cell(u)) => ByteOf(u) \in crossed
  BY DEF VInv, CrossingsKnown, ByteOf
<1> QED BY <1>1, <1>2, BytesDiffer

\* A step of one call: the bits it adds are those of the objects and of the call
\* it leaves.  Bits are lost, and bytes that others have loaded are changed, in
\* the bytes of crossed alone.
LEMMA BitsMove ==
    ASSUME VInv, NEW t \in Threads, NEW added,
           \A u \in Threads \ {t} : call'[u] = call[u],
           crossed \subseteq crossed',
           \A x : BitOfObject(x)' \/ BitOfCall(t, x)' <=>
                     BitOfObject(x) \/ BitOfCall(t, x) \/ x \in added,
           vo' \subseteq Marked \cup added,
           \A x \in vo \cup added : x \in vo' \/ VoByte(x) \in crossed',
           \A u \in Threads \ {t} : call[u].pc = "set_vo" =>
               \/ \A x : VoByte(x) = ByteOf(u) => (x \in vo' <=> x \in vo)
               \/ ByteOf(u) \in crossed',
           \A o \in objs' : o \in objs \/ Reference(o) <= o.end,
           call'[t].pc = "set_vo" =>
               call'[t].byte = VoByteOf(t)' /\ call'[t].path # "los",
           call'[t].pc \in {"set_vo", "refill", "post_alloc"} /\ Crosses(Cell(t)') =>
               ByteOf(t)' \in crossed'
    PROVE  VInv'
<1>1. ASSUME NEW u \in Threads \ {t}
      PROVE  /\ Cell(u)' = Cell(u) /\ ByteOf(u)' = ByteOf(u)
             /\ \A x : BitOfCall(u, x)' <=> BitOfCall(u, x)
  BY <1>1 DEF Cell, BitOfCall, HasItsBit, Reference, ByteOf, VoByte
<1>2. ASSUME NEW x PROVE x \in Marked' <=> x \in Marked \/ x \in added
  <2>1. x \in Marked <=> BitOfObject(x) \/ \E u \in Threads : BitOfCall(u, x)
    BY BitByBit
  <2>2. x \in Marked' <=> BitOfObject(x)' \/ \E u \in Threads : BitOfCall(u, x)'
    BY DEF Marked, BitOfObject, BitOfCall, HasItsBit
  <2>3. /\ BitOfObject(x)' \/ BitOfCall(t, x)' <=>
             BitOfObject(x) \/ BitOfCall(t, x) \/ x \in added
        /\ \A u \in Threads \ {t} : BitOfCall(u, x)' <=> BitOfCall(u, x)
    BY <1>1
  <2> QED BY <2>1, <2>2, <2>3, Zenon
<1>3. \A x : VoByte(x)' = VoByte(x) /\ Reference(x)' = Reference(x)
  BY DEF VoByte, Reference
<1>4. VoBitsMatchObjects'
  <2>1. vo' \subseteq Marked'
    BY <1>2
  <2>2. ASSUME NEW x \in Marked' PROVE x \in vo' \/ VoByte(x) \in crossed'
    <3>1. CASE x \in added
      BY <3>1
    <3>2. CASE x \in Marked
      BY <3>2 DEF VInv, VoBitsMatchObjects
    <3> QED BY <1>2, <3>1, <3>2
  <2> QED BY <1>3, <2>1, <2>2 DEF VoBitsMatchObjects
<1>5. ReferencesInside'
  BY <1>3 DEF VInv, ReferencesInside
<1>6. ASSUME NEW u \in Threads, call'[u].pc = "set_vo"
      PROVE  /\ call'[u].path # "los"
             /\ \A x \in call'[u].byte : x \in Marked' /\ VoByte(x) = ByteOf(u)'
             /\ call'[u].byte = VoByteOf(u)' \/ ByteOf(u)' \in crossed'
  <2>1. VoByteOf(u)' = {x \in vo' : VoByte(x) = ByteOf(u)'}
    BY DEF VoByteOf, VoByte, ByteOf
  <2>2. CASE u = t
    BY <1>2, <1>6, <2>1, <2>2
  <2>3. CASE u # t
    <3>1. /\ call[u].pc = "set_vo" /\ call[u].path # "los"
          /\ \A x \in call[u].byte : x \in Marked /\ VoByte(x) = ByteOf(u)
          /\ call[u].byte = VoByteOf(u) \/ ByteOf(u) \in crossed
      BY <1>6, <2>3 DEF VInv, LoadedByteIsCurrent, ByteOf
    <3>2. VoByteOf(u)' = VoByteOf(u) \/ ByteOf(u) \in crossed'
      <4>1. CASE \A x : VoByte(x) = ByteOf(u) => (x \in vo' <=> x \in vo)
        BY <1>1, <2>1, <2>3, <4>1 DEF VoByteOf, ByteOf
      <4> QED BY <2>3, <3>1, <4>1
    <3> QED BY <1>1, <1>2, <2>3, <3>1, <3>2
  <2> QED BY <2>2, <2>3
<1>7. LoadedByteIsCurrent'
  BY <1>3, <1>6 DEF LoadedByteIsCurrent, ByteOf
<1>8. ASSUME NEW u \in Threads,
             call'[u].pc \in {"set_vo", "refill", "post_alloc"}, Crosses(Cell(u)')
      PROVE  ByteOf(u)' \in crossed'
  <2>1. CASE u = t
    BY <1>8, <2>1
  <2>2. CASE u # t
    <3>1. Crosses(Cell(u)) /\ call[u].pc \in {"set_vo", "refill", "post_alloc"}
      BY <1>1, <1>8, <2>2
    <3>2. ByteOf(u) \in crossed
      BY <3>1 DEF VInv, CrossingsKnown, ByteOf
    <3> QED BY <1>1, <2>2, <3>2
  <2> QED BY <2>1, <2>2
<1>9. CrossingsKnown'
  <2>1. \A i : Crosses(i)' <=> Crosses(i)
    BY <1>3 DEF Crosses
  <2> QED BY <1>8, <2>1 DEF CrossingsKnown, ByteOf, Crosses
<1> QED BY <1>4, <1>5, <1>7, <1>9 DEF VInv

\* A step that adds no bit, of a call that has not set its own.
LEMMA NoBitMoves ==
    ASSUME VInv, NEW t \in Threads,
           \A u \in Threads \ {t} : call'[u] = call[u],
           UNCHANGED <<objs, vo>>, crossed \subseteq crossed',
           ~HasItsBit(t), ~HasItsBit(t)',
           call'[t].pc = "set_vo" =>
               call'[t].byte = VoByteOf(t)' /\ call'[t].path # "los",
           call'[t].pc \in {"set_vo", "refill", "post_alloc"} /\ Crosses(Cell(t)') =>
               ByteOf(t)' \in crossed'
    PROVE  VInv'
<1>1. \A x : /\ BitOfObject(x)' <=> BitOfObject(x)
             /\ ~BitOfCall(t, x) /\ ~BitOfCall(t, x)'
  BY DEF BitOfObject, BitOfCall, Reference
<1>2. /\ \A x : BitOfObject(x)' \/ BitOfCall(t, x)' <=>
                   BitOfObject(x) \/ BitOfCall(t, x) \/ x \in {}
      /\ vo' \subseteq Marked \cup {}
      /\ \A x \in vo \cup {} : x \in vo' \/ VoByte(x) \in crossed'
      /\ \A u \in Threads \ {t} : call[u].pc = "set_vo" =>
            \/ \A x : VoByte(x) = ByteOf(u) => (x \in vo' <=> x \in vo)
            \/ ByteOf(u) \in crossed'
      /\ \A o \in objs' : o \in objs \/ Reference(o) <= o.end
  BY <1>1 DEF VInv, VoBitsMatchObjects
<1> QED BY <1>2, BitsMove

LEMMA EnterBits ==
    ASSUME IInv, VInv, NEW t \in Threads,
           \E size \in Sizes, align \in Aligns :
              \/ AllocateFast(t, size, align)
              \/ \E semantics \in Semantics : AllocateOutOfLine(t, size, align, semantics)
    PROVE  VInv'
<1>1. /\ call[t].pc = "idle" /\ call'[t].pc \in {"flush", "initialize"}
      /\ \A u \in Threads \ {t} : call'[u] = call[u]
      /\ UNCHANGED <<objs, vo, crossed>>
  BY EntersFast, EntersOutOfLine
<1>2. /\ ~HasItsBit(t) /\ ~HasItsBit(t)'
      /\ call'[t].pc \notin {"set_vo", "refill", "post_alloc"}
  BY <1>1 DEF HasItsBit
<1> QED BY <1>1, <1>2, NoBitMoves

\* Up to the memory that MMTk grants no bit changes.
LEMMA GrantBits ==
    ASSUME IInv, VInv, NEW t \in Threads,
           \/ FlushTlab(t) \/ AllocFromBuffer(t)
           \/ \E b \in Blocks :
                 \/ AllocFromBlock(t, b)
                 \/ \E start \in b.start..b.end : AllocCell(t, b, start)
    PROVE  VInv'
<1>1. ASSUME FlushTlab(t) PROVE VInv'
  <2>1. /\ call[t].pc = "flush" /\ call' = [call EXCEPT ![t].pc = "alloc"]
        /\ UNCHANGED <<objs, vo, crossed>>
    BY <1>1 DEF FlushTlab
  <2>2. /\ call'[t].pc = "alloc"
        /\ \A u \in Threads \ {t} : call'[u] = call[u]
    BY <2>1 DEF IInv, TypeOK
  <2>3. ~HasItsBit(t) /\ ~HasItsBit(t)'
    BY <2>1, <2>2 DEF HasItsBit
  <2> QED BY <2>1, <2>2, <2>3, NoBitMoves
<1>2. ASSUME NEW start \in Nat, Granted(t, start), call[t].pc = "alloc"
      PROVE  VInv'
  <2>1. /\ call'[t].pc = "initialize"
        /\ \A u \in Threads \ {t} : call'[u] = call[u]
        /\ UNCHANGED <<objs, vo, crossed>>
    BY <1>2, GrantsCell
  <2>2. ~HasItsBit(t) /\ ~HasItsBit(t)'
    BY <1>2, <2>1 DEF HasItsBit
  <2> QED BY <1>2, <2>1, <2>2, NoBitMoves
<1>3. ASSUME AllocFromBuffer(t) PROVE VInv'
  <2> DEFINE start == AlignAllocation(bump[t].cursor, call[t].align, Offset(call[t].path))
  <2>1. call[t].pc = "alloc" /\ Granted(t, start)
    BY <1>3 DEF AllocFromBuffer
  <2>2. bump[t].cursor \in Nat
    BY DEF IInv, TypeOK, BufferPair
  <2>3. start \in Nat
    BY <2>2, AddressIsAligned
  <2> QED BY <1>2, <2>1, <2>3
<1>4. ASSUME NEW b \in Blocks, AllocFromBlock(t, b) PROVE VInv'
  <2> DEFINE start == AlignAllocation(b.start, call[t].align, Offset(call[t].path))
  <2>1. call[t].pc = "alloc" /\ Granted(t, start)
    BY <1>4 DEF AllocFromBlock
  <2>2. b.start \in Nat
    BY BlocksApart
  <2>3. start \in Nat
    BY <2>2, AddressIsAligned
  <2> QED BY <1>2, <2>1, <2>3
<1>5. ASSUME NEW b \in Blocks, NEW start \in b.start..b.end, AllocCell(t, b, start)
      PROVE  VInv'
  <2>1. call[t].pc = "alloc" /\ Granted(t, start)
    BY <1>5 DEF AllocCell
  <2>2. start \in Nat
    BY BlocksApart
  <2> QED BY <1>2, <2>1, <2>2
<1> QED BY <1>1, <1>3, <1>4, <1>5

LEMMA InitializeBits ==
    ASSUME IInv, VInv, NEW t \in Threads, Initialize(t)
    PROVE  VInv'
<1>1. /\ call[t].pc = "initialize" /\ UNCHANGED <<objs, vo>>
      /\ crossed' = IF Crosses(Cell(t)) THEN crossed \cup {ByteOf(t)} ELSE crossed
  BY DEF Initialize, ByteOf
<1>2. PICK pc, byte : /\ call' = [call EXCEPT ![t].pc = pc, ![t].byte = byte]
                      /\ pc = IF call[t].path = "los" THEN "refill" ELSE "set_vo"
                      /\ byte = VoByteOf(t)
  BY DEF Initialize
<1>3. /\ call'[t].pc = pc /\ call'[t].byte = byte /\ call'[t].path = call[t].path
      /\ Cell(t)' = Cell(t)
      /\ \A u \in Threads \ {t} : call'[u] = call[u]
  <2>1. /\ call'[t].pc = pc /\ call'[t].byte = byte /\ call'[t].path = call[t].path
        /\ call'[t].size = call[t].size /\ call'[t].start = call[t].start
        /\ \A u \in Threads \ {t} : call'[u] = call[u]
    BY <1>2 DEF IInv, TypeOK
  <2> QED BY <2>1 DEF Cell
<1>4. VoByteOf(t)' = VoByteOf(t) /\ ByteOf(t)' = ByteOf(t)
  <2>1. vo' = vo /\ Cell(t)' = Cell(t)
    BY <1>1, <1>3
  <2> QED BY <2>1 DEF VoByteOf, Reference, VoByte, ByteOf
<1>5. ~HasItsBit(t) /\ ~HasItsBit(t)'
  BY <1>1, <1>3, <1>2 DEF HasItsBit
<1>6. call'[t].pc = "set_vo" => call'[t].byte = VoByteOf(t)' /\ call'[t].path # "los"
  BY <1>3, <1>2, <1>4
<1>7. Crosses(Cell(t)') => ByteOf(t)' \in crossed'
  <2>1. Crosses(Cell(t)') <=> Crosses(Cell(t))
    BY <1>3
  <2> QED BY <1>1, <1>4, <2>1
<1>8. crossed \subseteq crossed'
  BY <1>1
<1> QED BY <1>3, <1>1, <1>5, <1>6, <1>7, <1>8, NoBitMoves

\* The bit of a call is stored: in a byte that no other call has loaded, or in
\* one of crossed.
LEMMA StoredBit ==
    ASSUME IInv, LInv, VInv, NEW t \in Threads,
           call[t].pc \in {"set_vo", "post_alloc"}, crossed' = crossed,
           \A x : VoByte(x) # ByteOf(t) => (x \in vo' <=> x \in vo)
    PROVE  \A u \in Threads \ {t} : call[u].pc = "set_vo" =>
               \/ \A x : VoByte(x) = ByteOf(u) => (x \in vo' <=> x \in vo)
               \/ ByteOf(u) \in crossed'
  BY StoresElsewhere

\* A call that returns: the object's bit is the call's, or is set now.
LEMMA ReturnBits ==
    ASSUME IInv, VInv, NEW t \in Threads, Return(t), Unfinished(t), crossed' = crossed,
           NEW added,
           added = IF HasItsBit(t) THEN {} ELSE {Reference(Cell(t))},
           vo' \subseteq Marked \cup added,
           \A x \in vo \cup added : x \in vo' \/ VoByte(x) \in crossed',
           \A u \in Threads \ {t} : call[u].pc = "set_vo" =>
               \/ \A x : VoByte(x) = ByteOf(u) => (x \in vo' <=> x \in vo)
               \/ ByteOf(u) \in crossed'
    PROVE  VInv'
<1>1. /\ objs' = objs \cup {Done(t)} /\ Reference(Done(t)) = Reference(Cell(t))
      /\ Done(t).end = Done(t).start + call[t].size
      /\ Done(t).start = call[t].start
      /\ call'[t].pc = "idle" /\ \A u \in Threads \ {t} : call'[u] = call[u]
  BY ReturnsCell DEF Done
<1>2. Reference(Done(t)) <= Done(t).end
  <2>1. call[t].size > 0
    BY DEF IInv, CallsAreSound, Unfinished
  <2>2. call[t].size \in Nat /\ call[t].start \in Nat
    BY DEF IInv, TypeOK
  <2> QED BY <1>1, <2>1, <2>2 DEF Reference, ObjectRefOffset
<1>3. ASSUME NEW x
      PROVE  BitOfObject(x)' \/ BitOfCall(t, x)' <=>
                BitOfObject(x) \/ BitOfCall(t, x) \/ x \in added
  <2>1. BitOfObject(x)' <=> BitOfObject(x) \/ x = Reference(Cell(t))
    BY <1>1 DEF BitOfObject, Reference
  <2>2. ~BitOfCall(t, x)'
    BY <1>1 DEF BitOfCall, HasItsBit
  <2>3. BitOfCall(t, x) \/ x \in added <=> x = Reference(Cell(t))
    BY DEF BitOfCall
  <2> QED BY <2>1, <2>2, <2>3
<1>4. \A o \in objs' : o \in objs \/ Reference(o) <= o.end
  BY <1>1, <1>2
<1>5. call'[t].pc \notin {"set_vo", "refill", "post_alloc"}
  BY <1>1
<1> QED BY <1>1, <1>3, <1>4, <1>5, BitsMove

\* set_vo_bit stores the byte that it loaded with the new bit, and of what it
\* stores over only bits of a byte in crossed are lost.
LEMMA SetVoBitAdds ==
    ASSUME IInv, LInv, VInv, NEW t \in Threads, SetVoBit(t)
    PROVE  /\ call[t].path # "los" /\ crossed' = crossed
           /\ vo' \subseteq Marked \cup {Reference(Cell(t))}
           /\ \A x \in vo \cup {Reference(Cell(t))} : x \in vo' \/ VoByte(x) \in crossed'
           /\ \A x : VoByte(x) # ByteOf(t) => (x \in vo' <=> x \in vo)
<1>1. /\ call[t].path # "los"
      /\ \A x \in call[t].byte : x \in Marked /\ VoByte(x) = ByteOf(t)
      /\ call[t].byte = VoByteOf(t) \/ ByteOf(t) \in crossed
  BY DEF SetVoBit, VInv, LoadedByteIsCurrent, ByteOf
<1>2. /\ vo' = {x \in vo : VoByte(x) # ByteOf(t)} \cup call[t].byte
                   \cup {Reference(Cell(t))}
      /\ crossed' = crossed
  BY DEF SetVoBit, NewByte, ByteOf
<1>3. vo \subseteq Marked
  BY DEF VInv, VoBitsMatchObjects
<1>4. ASSUME NEW x \in vo PROVE x \in vo' \/ VoByte(x) \in crossed'
  <2>1. CASE VoByte(x) # ByteOf(t)
    BY <1>2, <2>1
  <2>2. CASE VoByte(x) = ByteOf(t)
    <3>1. x \in VoByteOf(t)
      BY <2>2 DEF VoByteOf, ByteOf
    <3> QED BY <1>1, <1>2, <2>2, <3>1
  <2> QED BY <2>1, <2>2
<1>5. VoByte(Reference(Cell(t))) = ByteOf(t)
  BY DEF ByteOf
<1> QED BY <1>1, <1>2, <1>3, <1>4, <1>5

LEMMA SetVoBitBits ==
    ASSUME IInv, LInv, VInv, NEW t \in Threads, SetVoBit(t)
    PROVE  VInv'
<1>1. call[t].pc = "set_vo" /\ Unfinished(t) /\ ~HasItsBit(t)
  BY DEF SetVoBit, Unfinished, HasItsBit
<1>2. \A u \in Threads \ {t} : call[u].pc = "set_vo" =>
          \/ \A x : VoByte(x) = ByteOf(u) => (x \in vo' <=> x \in vo)
          \/ ByteOf(u) \in crossed'
  BY <1>1, SetVoBitAdds, StoredBit
<1>3. CASE call[t].path = "fast"
  <2>1. Return(t)
    BY <1>3 DEF SetVoBit
  <2> QED BY <1>1, <1>2, <2>1, SetVoBitAdds, ReturnBits
<1>4. CASE call[t].path # "fast"
  <2>1. call' = [call EXCEPT ![t].pc = "refill"] /\ objs' = objs
    BY <1>4 DEF SetVoBit
  <2>2. call' = [call EXCEPT ![t].pc = "refill", ![t].byte = call[t].byte]
    BY <2>1 DEF IInv, TypeOK
  <2>3. /\ call'[t].pc = "refill" /\ call'[t].path = call[t].path
        /\ Cell(t)' = Cell(t) /\ \A u \in Threads \ {t} : call'[u] = call[u]
    BY <2>2, KeepsCell
  <2>4. ASSUME NEW x
        PROVE  BitOfObject(x)' \/ BitOfCall(t, x)' <=>
                  BitOfObject(x) \/ BitOfCall(t, x) \/ x \in {Reference(Cell(t))}
    <3>1. BitOfObject(x)' <=> BitOfObject(x)
      BY <2>1 DEF BitOfObject, Reference
    <3>2. BitOfCall(t, x)' <=> x = Reference(Cell(t))
      BY SetVoBitAdds, <2>3 DEF BitOfCall, HasItsBit, Reference
    <3> QED BY <1>1, <3>1, <3>2 DEF BitOfCall
  <2>5. \A o \in objs' : o \in objs \/ Reference(o) <= o.end
    BY <2>1
  <2>6. call'[t].pc # "set_vo"
    BY <2>3
  <2>7. Crosses(Cell(t)') => ByteOf(t)' \in crossed'
    <3>1. Crosses(Cell(t)) => ByteOf(t) \in crossed
      BY <1>1 DEF VInv, CrossingsKnown, ByteOf
    <3>2. ByteOf(t)' = ByteOf(t)
      BY <2>3 DEF ByteOf, VoByte, Reference
    <3> QED BY <2>3, <3>1, <3>2, SetVoBitAdds
  <2> DEFINE added == {Reference(Cell(t))}
  <2>8. /\ crossed \subseteq crossed' /\ vo' \subseteq Marked \cup added
        /\ \A x \in vo \cup added : x \in vo' \/ VoByte(x) \in crossed'
    BY SetVoBitAdds
  <2>9. \A x : BitOfObject(x)' \/ BitOfCall(t, x)' <=>
                  BitOfObject(x) \/ BitOfCall(t, x) \/ x \in added
    BY <2>4
  <2> HIDE DEF added
  <2> QED BY <1>2, <2>3, <2>5, <2>6, <2>7, <2>8, <2>9, BitsMove
<1> QED BY <1>3, <1>4

\* refill_tlab changes no bit; where it ends the call, the bit becomes the
\* object's.
LEMMA RefillTlabBits ==
    ASSUME IInv, VInv, NEW t \in Threads, RefillTlab(t)
    PROVE  VInv'
<1>1. call[t].pc = "refill" /\ Unfinished(t) /\ vo' = vo /\ crossed' = crossed
  BY DEF RefillTlab, Unfinished
<1>2. CASE call[t].path = "los"
  <2>1. call' = [call EXCEPT ![t].pc = "post_alloc"] /\ UNCHANGED <<objs, vo>>
    BY <1>2 DEF RefillTlab
  <2>2. call' = [call EXCEPT ![t].pc = "post_alloc", ![t].byte = call[t].byte]
    BY <2>1 DEF IInv, TypeOK
  <2>3. /\ call'[t].pc = "post_alloc" /\ Cell(t)' = Cell(t)
        /\ \A u \in Threads \ {t} : call'[u] = call[u]
    BY <2>2, KeepsCell
  <2>4. ~HasItsBit(t) /\ ~HasItsBit(t)' /\ call'[t].pc # "set_vo"
    BY <1>2, <2>3 DEF HasItsBit
  <2>5. Crosses(Cell(t)') => ByteOf(t)' \in crossed'
    <3>1. Crosses(Cell(t)) => ByteOf(t) \in crossed
      BY <1>1 DEF VInv, CrossingsKnown, ByteOf
    <3>2. ByteOf(t)' = ByteOf(t)
      BY <2>3 DEF ByteOf, VoByte, Reference
    <3> QED BY <1>1, <2>3, <3>1, <3>2
  <2> QED BY <1>1, <2>1, <2>3, <2>4, <2>5, NoBitMoves
<1>3. CASE call[t].path # "los"
  <2>1. Return(t) /\ HasItsBit(t)
    BY <1>1, <1>3 DEF RefillTlab, HasItsBit
  <2>2. /\ vo' \subseteq Marked \cup {}
        /\ \A x \in vo \cup {} : x \in vo' \/ VoByte(x) \in crossed'
        /\ \A u \in Threads \ {t} : call[u].pc = "set_vo" =>
              \/ \A x : VoByte(x) = ByteOf(u) => (x \in vo' <=> x \in vo)
              \/ ByteOf(u) \in crossed'
    BY <1>1 DEF VInv, VoBitsMatchObjects
  <2> QED BY <1>1, <2>1, <2>2, ReturnBits
<1> QED BY <1>2, <1>3

LEMMA PostAllocBitsKept ==
    ASSUME IInv, LInv, VInv, NEW t \in Threads, PostAlloc(t)
    PROVE  VInv'
<1>1. /\ Return(t) /\ Unfinished(t) /\ ~HasItsBit(t) /\ call[t].pc = "post_alloc"
      /\ vo' = vo \cup {Reference(Cell(t))} /\ crossed' = crossed
  BY DEF PostAlloc, Unfinished, HasItsBit
<1>2. \A x : VoByte(x) # ByteOf(t) => (x \in vo' <=> x \in vo)
  BY <1>1 DEF ByteOf
<1>3. \A u \in Threads \ {t} : call[u].pc = "set_vo" =>
          \/ \A x : VoByte(x) = ByteOf(u) => (x \in vo' <=> x \in vo)
          \/ ByteOf(u) \in crossed'
  BY <1>1, <1>2, StoredBit
<1>4. vo' \subseteq Marked \cup {Reference(Cell(t))}
  BY <1>1 DEF VInv, VoBitsMatchObjects
<1>5. \A x \in vo \cup {Reference(Cell(t))} : x \in vo' \/ VoByte(x) \in crossed'
  BY <1>1
<1> QED BY <1>1, <1>3, <1>4, <1>5, ReturnBits

\* Two objects have different references.
LEMMA OwnReference ==
    ASSUME IInv, ReferencesInside, NEW o \in objs, NEW p \in objs,
           Reference(o) = Reference(p)
    PROVE  o = p
<1>1. /\ o.start \in Nat /\ o.end \in Nat /\ p.start \in Nat /\ p.end \in Nat
  BY DEF IInv, TypeOK, Object
<1>2. Reference(o) <= o.end /\ Reference(p) <= p.end
  BY DEF ReferencesInside
<1>3. ~Apart(o, p)
  BY <1>1, <1>2 DEF Apart, Reference, ObjectRefOffset
<1> QED BY <1>3 DEF IInv, Disjoint

\* A collection clears the bits of the objects it reclaims and of no other.
LEMMA CollectBits ==
    ASSUME IInv, VInv, NEW dead \in SUBSET objs, Collect(dead)
    PROVE  VInv'
<1>1. /\ \A t \in Threads : call[t].pc \in {"idle", "alloc"}
      /\ objs' = objs \ dead /\ vo' = vo \ {Reference(o) : o \in dead}
      /\ call' = call /\ crossed' = crossed
  BY DEF Collect
<1>2. Marked = {Reference(o) : o \in objs} /\ Marked' = {Reference(o) : o \in objs'}
  BY <1>1 DEF Marked, Reference
<1>3. /\ vo \subseteq Marked
      /\ \A x \in Marked : x \in vo \/ VoByte(x) \in crossed
  BY DEF VInv, VoBitsMatchObjects
<1>4. VoBitsMatchObjects'
  <2>1. vo' \subseteq Marked'
    BY <1>1, <1>2, <1>3
  <2>2. ASSUME NEW o \in objs' PROVE Reference(o) \in vo' \/ VoByte(Reference(o)) \in crossed'
    <3>1. \A p \in dead : Reference(o) # Reference(p)
      BY <1>1, OwnReference DEF VInv
    <3> QED BY <1>1, <1>2, <1>3, <3>1
  <2>3. \A x : VoByte(x)' = VoByte(x)
    BY DEF VoByte
  <2> QED BY <1>2, <2>1, <2>2, <2>3 DEF VoBitsMatchObjects
<1>5. ReferencesInside'
  BY <1>1 DEF VInv, ReferencesInside, Reference
<1>6. LoadedByteIsCurrent' /\ CrossingsKnown'
  BY <1>1 DEF LoadedByteIsCurrent, CrossingsKnown
<1> QED BY <1>4, <1>5, <1>6 DEF VInv

LEMMA NextVInv == IInv /\ LInv /\ VInv /\ [Next]_vars => VInv'
<1> SUFFICES ASSUME IInv, LInv, VInv, [Next]_vars PROVE VInv'
  OBVIOUS
<1>1. ASSUME NEW t \in Threads,
             \E size \in Sizes, align \in Aligns :
                \/ AllocateFast(t, size, align)
                \/ \E semantics \in Semantics :
                      \/ AllocateOutOfLine(t, size, align, semantics)
                      \/ AllocateElsewhere(t, size, align, semantics)
      PROVE  VInv'
  BY <1>1, EnterBits DEF AllocateElsewhere
<1>2. ASSUME NEW t \in Threads,
             \/ FlushTlab(t) \/ AllocFromBuffer(t)
             \/ \E b \in Blocks :
                   \/ AllocFromBlock(t, b)
                   \/ \E start \in b.start..b.end : AllocCell(t, b, start)
      PROVE  VInv'
  BY <1>2, GrantBits
<1>3. ASSUME NEW t \in Threads,
             Initialize(t) \/ SetVoBit(t) \/ RefillTlab(t) \/ PostAlloc(t)
      PROVE  VInv'
  BY <1>3, InitializeBits, SetVoBitBits, RefillTlabBits, PostAllocBitsKept
<1>4. CASE \E dead \in SUBSET objs : Collect(dead)
  BY <1>4, CollectBits
<1>5. CASE UNCHANGED vars
  BY <1>5 DEF vars, VInv, ReferencesInside, LoadedByteIsCurrent, CrossingsKnown,
     VoBitsMatchObjects, Marked, Crosses, InBlock, VoByteOf, Cell, Reference, VoByte
<1> QED BY <1>1, <1>2, <1>3, <1>4, <1>5 DEF Next

LEMMA InitVInv == Init => VInv
  BY DEF Init, NoCall, VInv, ReferencesInside, LoadedByteIsCurrent, CrossingsKnown,
     VoBitsMatchObjects, Marked

\* set_vo_bit never stores a byte that has changed since it was loaded, on any
\* thread, unless an object without fields has its bit in that byte although it
\* ends the block before.
THEOREM VoBitsInvariance == Spec => [](IInv /\ LInv /\ VInv)
<1>1. Init => IInv /\ LInv /\ VInv
  BY InitIInv, InitLInv, InitVInv
<1>2. (IInv /\ LInv /\ VInv) /\ [Next]_vars => (IInv /\ LInv /\ VInv)'
  BY NextIInv, NextLInv, NextVInv
<1> QED BY <1>1, <1>2, PTL DEF Spec

\* So exactly the objects have a VO bit, on all six paths of allocate and for
\* every size, but for the bits of such a byte.
THEOREM VoBitsMatchObjectsThm == Spec => []VoBitsMatchObjects
<1>1. VInv => VoBitsMatchObjects
  BY DEF VInv
<1> QED BY <1>1, VoBitsInvariance, PTL

-----------------------------------------------------------------------------
(* The promise to the runtime                                              *)

\* Every object's bit is set or may be lost, and the bits of calls do not count.
LEMMA BitsOfObjectsAre ==
    /\ VInv => BitsOfObjects = {Reference(o) : o \in objs}
    /\ VInv' => BitsOfObjects' = {Reference(o) : o \in objs'}
<1>1. VInv => \A o \in objs : Reference(o) \in vo \/ VoByte(Reference(o)) \in crossed
  BY DEF VInv, VoBitsMatchObjects, Marked
<1>2. VInv' => \A o \in objs' : Reference(o) \in vo' \/ VoByte(Reference(o)) \in crossed'
  BY DEF VInv, VoBitsMatchObjects, Marked, Reference, VoByte
<1> QED BY <1>1, <1>2 DEF BitsOfObjects, Reference, VoByte

\* A step of one call changes what no other wants.
LEMMA WantsMove ==
    ASSUME NEW t \in Threads, \A u \in Threads \ {t} : call'[u] = call[u]
    PROVE  /\ Wants' = [Wants EXCEPT ![t] = Wanted(t)']
           /\ Wants[t] = Wanted(t) /\ Wants'[t] = Wanted(t)'
<1>1. \A u \in Threads \ {t} : Wanted(u)' = Wanted(u)
  BY DEF Wanted
<1> QED BY <1>1 DEF Wants

\* A call that starts asks for memory.
LEMMA EnterAsks ==
    ASSUME IInv, VInv, VInv', NEW t \in Threads,
           \E size \in Sizes, align \in Aligns :
              \/ AllocateFast(t, size, align)
              \/ \E semantics \in Semantics : AllocateOutOfLine(t, size, align, semantics)
    PROVE  Served!HNext
<1>1. /\ call[t].pc = "idle" /\ call'[t].pc \in {"flush", "initialize"}
      /\ \A u \in Threads \ {t} : call'[u] = call[u]
      /\ objs' = objs
  BY EntersFast, EntersOutOfLine
<1> DEFINE request == [size |-> call'[t].size, align |-> call'[t].align,
                       offset |-> AlignedAt(call'[t].path)]
<1>2. Wanted(t) = {} /\ Wanted(t)' = {request}
  BY <1>1 DEF Wanted, AlignedAt
<1>3. BitsOfObjects' = BitsOfObjects
  BY <1>1, BitsOfObjectsAre
<1>4. Served!Ask(t, request) /\ request \in Wants'[t]
  BY <1>1, <1>2, <1>3, WantsMove DEF Served!Ask
<1> QED BY <1>4 DEF Served!HNext

\* A call that goes on has been given nothing yet.
LEMMA NothingGiven ==
    ASSUME VInv, VInv', NEW t \in Threads,
           \A u \in Threads \ {t} : call'[u] = call[u],
           call[t].pc # "idle", call'[t].pc # "idle",
           call'[t].size = call[t].size, call'[t].align = call[t].align,
           call'[t].path = call[t].path, objs' = objs
    PROVE  UNCHANGED Served!hvars
<1>1. Wanted(t)' = Wanted(t)
  BY DEF Wanted, AlignedAt
<1>2. Wants' = Wants
  <2>1. \A u \in Threads : Wanted(u)' = Wanted(u)
    BY <1>1 DEF Wanted, AlignedAt
  <2> QED BY <2>1 DEF Wants
<1>3. BitsOfObjects' = BitsOfObjects
  BY BitsOfObjectsAre
<1> QED BY <1>2, <1>3 DEF Served!hvars

LEMMA FlushGivesNothing ==
    ASSUME IInv, VInv, VInv', NEW t \in Threads, FlushTlab(t)
    PROVE  UNCHANGED Served!hvars
<1>1. /\ call[t].pc = "flush" /\ call' = [call EXCEPT ![t].pc = "alloc"] /\ objs' = objs
  BY DEF FlushTlab
<1>2. /\ call'[t].pc = "alloc" /\ call'[t].size = call[t].size
      /\ call'[t].align = call[t].align /\ call'[t].path = call[t].path
      /\ \A u \in Threads \ {t} : call'[u] = call[u]
  BY <1>1 DEF IInv, TypeOK
<1> QED BY <1>1, <1>2, NothingGiven

\* Nor has a call that MMTk grants memory.
LEMMA GrantGivesNothing ==
    ASSUME IInv, VInv, VInv', NEW t \in Threads,
           \/ AllocFromBuffer(t)
           \/ \E b \in Blocks :
                 \/ AllocFromBlock(t, b)
                 \/ \E start \in b.start..b.end : AllocCell(t, b, start)
    PROVE  UNCHANGED Served!hvars
<1>1. ASSUME NEW start \in Nat, Granted(t, start), call[t].pc = "alloc"
      PROVE  UNCHANGED Served!hvars
  <2>1. /\ call'[t].pc = "initialize" /\ call'[t].size = call[t].size
        /\ call'[t].align = call[t].align /\ call'[t].path = call[t].path
        /\ \A u \in Threads \ {t} : call'[u] = call[u]
        /\ objs' = objs
    BY <1>1, GrantsCell
  <2> QED BY <1>1, <2>1, NothingGiven
<1>2. ASSUME AllocFromBuffer(t) PROVE UNCHANGED Served!hvars
  <2> DEFINE start == AlignAllocation(bump[t].cursor, call[t].align, Offset(call[t].path))
  <2>1. call[t].pc = "alloc" /\ Granted(t, start)
    BY <1>2 DEF AllocFromBuffer
  <2>2. bump[t].cursor \in Nat
    BY DEF IInv, TypeOK, BufferPair
  <2>3. start \in Nat
    BY <2>2, AddressIsAligned
  <2> QED BY <1>1, <2>1, <2>3
<1>3. ASSUME NEW b \in Blocks, AllocFromBlock(t, b) PROVE UNCHANGED Served!hvars
  <2> DEFINE start == AlignAllocation(b.start, call[t].align, Offset(call[t].path))
  <2>1. call[t].pc = "alloc" /\ Granted(t, start)
    BY <1>3 DEF AllocFromBlock
  <2>2. b.start \in Nat
    BY BlocksApart
  <2>3. start \in Nat
    BY <2>2, AddressIsAligned
  <2> QED BY <1>1, <2>1, <2>3
<1>4. ASSUME NEW b \in Blocks, NEW start \in b.start..b.end, AllocCell(t, b, start)
      PROVE  UNCHANGED Served!hvars
  <2>1. call[t].pc = "alloc" /\ Granted(t, start)
    BY <1>4 DEF AllocCell
  <2>2. start \in Nat
    BY BlocksApart
  <2> QED BY <1>1, <2>1, <2>2
<1> QED BY <1>2, <1>3, <1>4

\* A call that returns gives the object that was asked for.
LEMMA ReturnGives ==
    ASSUME IInv, VInv, VInv', NEW t \in Threads, Return(t), Unfinished(t)
    PROVE  Served!HNext
<1> DEFINE new == Done(t)
           request == [size |-> call[t].size, align |-> call[t].align,
                       offset |-> AlignedAt(call[t].path)]
<1>1. /\ objs' = objs \cup {new}
      /\ new.start = Cell(t).start /\ new.end = Cell(t).end
      /\ Reference(new) = Reference(Cell(t))
      /\ new.end = new.start + call[t].size
      /\ call'[t].pc = "idle" /\ \A u \in Threads \ {t} : call'[u] = call[u]
  BY ReturnsCell
<1>2. Wanted(t) = {request} /\ Wanted(t)' = {}
  BY <1>1 DEF Wanted, Unfinished, AlignedAt
<1>3. call[t].size \in Nat /\ call[t].start \in Nat
  BY DEF IInv, TypeOK
<1>4. /\ new.align = call[t].align /\ new.offset = AlignedAt(call[t].path)
      /\ (new.start + new.offset) % new.align = 0
  <2>1. (call[t].start + AlignedAt(call[t].path)) % call[t].align = 0
    BY DEF IInv, CallsAreSound
  <2> QED BY <2>1 DEF Done
<1> HIDE DEF new
<1>5. Served!Meets(new, request)
  BY <1>1, <1>4 DEF Served!Meets
<1>6. \A p \in objs : Served!Disjoint(new, p)
  <2>1. \A p \in objs : Apart(Cell(t), p)
    BY DEF IInv, Disjoint, OwnApart
  <2> QED BY <1>1, <2>1 DEF Apart, Served!Disjoint
<1>7. BitsOfObjects' = BitsOfObjects \cup {Served!RefTo(new)}
  <2>1. Reference(new) = Served!RefTo(new)
    BY DEF Reference, ObjectRefOffset, Served!RefTo
  <2>2. {Reference(o) : o \in objs'} = {Reference(o) : o \in objs} \cup {Reference(new)}
    BY <1>1
  <2> QED BY <2>1, <2>2, BitsOfObjectsAre
<1>8. Served!Give(t, new)
  BY <1>1, <1>2, <1>5, <1>6, <1>7, WantsMove DEF Served!Give
<1>9. new \in objs'
  BY <1>1
<1> QED BY <1>8, <1>9 DEF Served!HNext

\* A collection reclaims objects and their bits, of calls' objects none.
LEMMA CollectReclaims ==
    ASSUME IInv, VInv, VInv', NEW dead \in SUBSET objs, Collect(dead)
    PROVE  Served!HNext
<1>1. /\ objs' = objs \ dead /\ vo' = vo \ {Reference(o) : o \in dead} /\ call' = call
  BY DEF Collect
<1>2. Wants' = Wants
  BY <1>1 DEF Wants, Wanted
<1>3. BitsOfObjects' = BitsOfObjects \ {Served!RefTo(o) : o \in dead}
  <2>1. {Reference(o) : o \in dead} = {Served!RefTo(o) : o \in dead}
    BY DEF Reference, ObjectRefOffset, Served!RefTo
  <2>2. BitsOfObjects' = {Reference(o) : o \in objs'}
        /\ BitsOfObjects = {Reference(o) : o \in objs}
    BY BitsOfObjectsAre
  <2>3. \A o \in objs', p \in dead : Reference(o) # Reference(p)
    BY <1>1, OwnReference DEF VInv
  <2> QED BY <1>1, <2>1, <2>2, <2>3
<1>4. Served!Reclaim(dead)
  BY <1>1, <1>2, <1>3 DEF Served!Reclaim
<1> QED BY <1>4 DEF Served!HNext

\* The steps that write the object: the last of the call's path returns it.
LEMMA ObjectIsGiven ==
    ASSUME IInv, VInv, VInv', NEW t \in Threads,
           Initialize(t) \/ SetVoBit(t) \/ RefillTlab(t) \/ PostAlloc(t)
    PROVE  Served!HNext \/ UNCHANGED Served!hvars
<1>1. ASSUME NEW pc, pc # "idle", NEW byte, Unfinished(t), objs' = objs,
             call' = [call EXCEPT ![t].pc = pc, ![t].byte = byte]
      PROVE  UNCHANGED Served!hvars
  <2>1. /\ call'[t].pc = pc /\ call'[t].size = call[t].size
        /\ \A u \in Threads \ {t} : call'[u] = call[u]
    BY <1>1, KeepsCell
  <2>3. call'[t].align = call[t].align /\ call'[t].path = call[t].path
    BY <1>1 DEF IInv, TypeOK
  <2>2. call[t].pc # "idle"
    BY <1>1 DEF Unfinished
  <2> QED BY <1>1, <2>1, <2>2, <2>3, NothingGiven
<1>2. ASSUME NEW pc, pc # "idle", Unfinished(t), objs' = objs,
             call' = [call EXCEPT ![t].pc = pc]
      PROVE  UNCHANGED Served!hvars
  <2>1. call' = [call EXCEPT ![t].pc = pc, ![t].byte = call[t].byte]
    BY <1>2 DEF IInv, TypeOK
  <2> QED BY <1>1, <1>2, <2>1
<1>3. Unfinished(t)
  BY DEF Unfinished, Initialize, SetVoBit, RefillTlab, PostAlloc
<1>4. CASE Initialize(t)
  <2> DEFINE pc == IF call[t].path = "los" THEN "refill" ELSE "set_vo"
             byte == VoByteOf(t)
  <2>1. /\ call' = [call EXCEPT ![t].pc = pc, ![t].byte = byte]
        /\ objs' = objs /\ pc # "idle"
    BY <1>4 DEF Initialize
  <2> HIDE DEF pc, byte
  <2> QED BY <1>1, <1>3, <2>1
<1>5. CASE SetVoBit(t)
  <2>1. \/ Return(t)
        \/ call' = [call EXCEPT ![t].pc = "refill"] /\ objs' = objs
    BY <1>5 DEF SetVoBit
  <2> QED BY <1>2, <1>3, <2>1, ReturnGives
<1>6. CASE RefillTlab(t)
  <2>1. \/ Return(t)
        \/ call' = [call EXCEPT ![t].pc = "post_alloc"] /\ objs' = objs
    BY <1>6 DEF RefillTlab
  <2> QED BY <1>2, <1>3, <2>1, ReturnGives
<1>7. CASE PostAlloc(t)
  BY <1>3, <1>7, ReturnGives DEF PostAlloc
<1> QED BY <1>4, <1>5, <1>6, <1>7

LEMMA StepServes ==
    IInv /\ VInv /\ VInv' /\ [Next]_vars => [Served!HNext]_(Served!hvars)
<1> SUFFICES ASSUME IInv, VInv, VInv', [Next]_vars
             PROVE  Served!HNext \/ UNCHANGED Served!hvars
  OBVIOUS
<1>1. ASSUME NEW t \in Threads,
             \E size \in Sizes, align \in Aligns :
                \/ AllocateFast(t, size, align)
                \/ \E semantics \in Semantics :
                      \/ AllocateOutOfLine(t, size, align, semantics)
                      \/ AllocateElsewhere(t, size, align, semantics)
      PROVE  Served!HNext
  BY <1>1, EnterAsks DEF AllocateElsewhere
<1>2. ASSUME NEW t \in Threads,
             \/ FlushTlab(t) \/ AllocFromBuffer(t)
             \/ \E b \in Blocks :
                   \/ AllocFromBlock(t, b)
                   \/ \E start \in b.start..b.end : AllocCell(t, b, start)
      PROVE  UNCHANGED Served!hvars
  BY <1>2, FlushGivesNothing, GrantGivesNothing
<1>3. ASSUME NEW t \in Threads,
             Initialize(t) \/ SetVoBit(t) \/ RefillTlab(t) \/ PostAlloc(t)
      PROVE  Served!HNext \/ UNCHANGED Served!hvars
  BY <1>3, ObjectIsGiven
<1>4. CASE \E dead \in SUBSET objs : Collect(dead)
  BY <1>4, CollectReclaims
<1>5. CASE UNCHANGED vars
  <2>1. Wants' = Wants /\ objs' = objs /\ BitsOfObjects' = BitsOfObjects
    BY <1>5 DEF vars, Wants, Wanted, AlignedAt, BitsOfObjects, Reference, VoByte
  <2> QED BY <2>1 DEF Served!hvars
<1> QED BY <1>1, <1>2, <1>3, <1>4, <1>5 DEF Next

LEMMA InitServes == Init => Served!HInit
  BY DEF Init, NoCall, Wants, Wanted, BitsOfObjects, Served!HInit

\* Allocation serves requests as ObjectHeap promises, whatever path each call
\* takes and however large the objects are.
THEOREM Refinement == Spec => ServesRequests
<1>1. (IInv /\ LInv /\ VInv) /\ (IInv /\ LInv /\ VInv)' /\ [Next]_vars
         => [Served!HNext]_(Served!hvars)
  BY StepServes
<1> QED BY <1>1, InitServes, VoBitsInvariance, PTL DEF Spec, ServesRequests, Served!HSpec
=============================================================================
