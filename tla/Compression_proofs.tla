-------------------------- MODULE Compression_proofs --------------------------
(***************************************************************************)
(* Narrow references lead back to the object they were made from, for      *)
(* every span, scale and heap that satisfies the limits init assumes, and  *)
(* so do the narrow fields of the objects that Allocation allocates in it. *)
(***************************************************************************)
EXTENDS CompressedHeap, Allocation_proofs

\* A multiple of d is d times the quotient.
LEMMA DivisionIsExact ==
    ASSUME NEW n \in Nat, NEW d \in Nat \ {0}, n % d = 0
    PROVE  n \div d \in Nat /\ n = (n \div d) * d
  OBVIOUS

\* A common factor can be cancelled.
LEMMA FactorCancels ==
    ASSUME NEW k \in Nat, NEW m \in Nat, NEW d \in Nat \ {0}, k * d < m * d
    PROVE  k < m
<1>1. ASSUME m <= k PROVE FALSE
  <2>1. PICK j \in Nat : k = m + j
    BY <1>1
  <2>2. k * d = m * d + j * d
    BY <2>1
  <2>3. j * d \in Nat
    OBVIOUS
  <2>4. k * d \in Nat /\ m * d \in Nat
    OBVIOUS
  <2> QED BY <2>2, <2>3, <2>4
<1> QED BY <1>1

\* And a positive factor keeps numbers apart.
LEMMA FactorGrows ==
    ASSUME NEW k \in Nat, NEW m \in Nat, NEW d \in Nat \ {0}, k < m
    PROVE  k * d < m * d
<1>1. PICK j \in Nat \ {0} : m = k + j
  BY m - k \in Nat \ {0} /\ m = k + (m - k)
<1>2. m * d = k * d + j * d
  BY <1>1
<1>3. j * d \in Nat /\ j * d > 0 /\ k * d \in Nat
  OBVIOUS
<1> QED BY <1>2, <1>3

\* A product of positive numbers is at least each factor.
LEMMA SpanIsShortest ==
    /\ NarrowSpan * MinAlignment \in Nat
    /\ NarrowSpan * TaggedScale \in Nat
    /\ NarrowSpan <= NarrowSpan * MinAlignment
<1>1. PICK m \in Nat : MinAlignment = m + 1
  <2>1. MinAlignment - 1 \in Nat /\ MinAlignment = (MinAlignment - 1) + 1
    BY CompressionAssumption
  <2> QED BY <2>1
<1>2. NarrowSpan * MinAlignment = NarrowSpan * m + NarrowSpan
  BY <1>1, CompressionAssumption
<1>3. NarrowSpan * m \in Nat /\ NarrowSpan * TaggedScale \in Nat
  BY <1>1, CompressionAssumption
<1> QED BY <1>2, <1>3, CompressionAssumption

\* init chooses base and scale so that every distance in a heap that fits is
\* positive and has a narrow reference.
LEMMA DistancesFit ==
    ASSUME NEW heap \in Heap, NEW tagged \in BOOLEAN, Fits(heap, tagged),
           NEW ops, ops = InitOps(heap, tagged),
           NEW addr \in heap.start..(heap.end - 1)
    PROVE  /\ ops.base \in Nat
           /\ ops.scale \in Nat \ {0}
           /\ 0 < addr - ops.base
           /\ addr - ops.base < NarrowSpan * ops.scale
<1>1. /\ heap.start \in Nat /\ heap.end \in Nat /\ addr \in Nat
      /\ Page \in Nat \ {0} /\ Page < heap.start
      /\ heap.start <= addr /\ addr < heap.end
  BY CompressionAssumption DEF Heap
<1>2. /\ NarrowSpan \in Nat \ {0} /\ NarrowSpan * 1 = NarrowSpan
      /\ MinAlignment \in Nat \ {0} /\ TaggedScale \in Nat \ {0}
      /\ NarrowSpan * MinAlignment \in Nat
      /\ NarrowSpan * TaggedScale \in Nat
      /\ NarrowSpan <= NarrowSpan * MinAlignment
  BY SpanIsShortest, CompressionAssumption
<1> DEFINE scaled == NarrowSpan * MinAlignment
           marked == NarrowSpan * TaggedScale
<1>3. CASE tagged
  <2>1. ops.base = heap.start - Page /\ ops.scale = TaggedScale
    BY <1>3 DEF InitOps, InitTagged, BelowHeap
  <2>2. heap.end - heap.start + Page <= marked
    BY <1>3 DEF Fits
  <2>3. marked \in Nat /\ NarrowSpan * ops.scale = marked
    BY <2>1, <1>2
  <2> HIDE DEF marked
  <2> QED BY <1>1, <1>2, <2>1, <2>2, <2>3
<1>4. CASE ~tagged
  <2>1. ops.base = Base(heap) /\ ops.scale = Scale(heap)
    BY <1>4 DEF InitOps, InitUntagged
  <2>2. heap.end - heap.start + Page <= scaled
    BY <1>4 DEF Fits
  <2>3. scaled \in Nat /\ NarrowSpan <= scaled
    BY <1>2
  <2>4. CASE heap.end <= scaled
    <3>1. ops.base = 0
      BY <2>1, <2>4 DEF Base, NoObject
    <3>2. CASE heap.end <= NarrowSpan
      <4>1. ops.scale = 1
        BY <1>1, <1>2, <2>1, <3>2 DEF Scale
      <4> QED BY <1>1, <1>2, <3>1, <3>2, <4>1
    <3>3. CASE heap.end > NarrowSpan
      <4>1. ops.scale = MinAlignment /\ NarrowSpan * ops.scale = scaled
        BY <2>1, <3>3 DEF Scale
      <4> HIDE DEF scaled
      <4> QED BY <1>1, <1>2, <2>4, <3>1, <4>1
    <3> QED BY <1>1, <1>2, <3>2, <3>3
  <2>5. CASE heap.end > scaled
    <3>1. ops.base = heap.start - Page
      <4>1. ~(heap.end <= scaled)
        <5> HIDE DEF scaled
        <5> QED BY <1>1, <2>3, <2>5
      <4> QED BY <2>1, <4>1 DEF Base, BelowHeap
    <3>2. ops.scale = MinAlignment /\ NarrowSpan * ops.scale = scaled
      <4>1. heap.end > NarrowSpan
        <5> HIDE DEF scaled
        <5> QED BY <1>1, <1>2, <2>3, <2>5
      <4> QED BY <2>1, <4>1 DEF Scale
    <3> HIDE DEF scaled
    <3> QED BY <1>1, <1>2, <2>2, <2>3, <3>1, <3>2
  <2>6. heap.end <= scaled \/ heap.end > scaled
    <3> HIDE DEF scaled
    <3> QED BY <1>1, <2>3
  <2> QED BY <2>4, <2>5, <2>6
<1> QED BY <1>3, <1>4

\* In every heap, whether it fits or not, distances are positive.
LEMMA DistancesPositive ==
    ASSUME NEW heap \in Heap, NEW tagged \in BOOLEAN,
           NEW ops, ops = InitOps(heap, tagged),
           NEW addr \in Nat, heap.start <= addr
    PROVE  /\ ops.base \in Nat
           /\ ops.scale \in Nat \ {0}
           /\ addr - ops.base \in Nat \ {0}
<1>1. /\ heap.start \in Nat /\ heap.end \in Nat
      /\ Page \in Nat \ {0} /\ Page < heap.start
      /\ MinAlignment \in Nat \ {0} /\ TaggedScale \in Nat \ {0}
  BY CompressionAssumption DEF Heap
<1>2. ops.base = heap.start - Page \/ ops.base = 0
  BY DEF InitOps, InitTagged, InitUntagged, BelowHeap, Base, NoObject
<1>3. ops.scale \in {TaggedScale, MinAlignment, 1}
  BY DEF InitOps, InitTagged, InitUntagged, Scale
<1> QED BY <1>1, <1>2, <1>3

\* CompressedOps::decode undoes CompressedOps::encode, which makes no object look
\* like null, exactly for the addresses within reach, in every heap and with and
\* without tags: a distance that the cast cuts leads to another address.
LEMMA LeadsBackInReach ==
    ASSUME NEW heap \in Heap, NEW tagged \in BOOLEAN,
           NEW addr \in heap.start..heap.end,
           (addr - InitOps(heap, tagged).base) % InitOps(heap, tagged).scale = 0
    PROVE  LET ops == InitOps(heap, tagged)
           IN  /\ Decode(ops, Encode(ops, addr)) = addr <=> InReach(ops, addr)
               /\ InReach(ops, addr) => Encode(ops, addr) # NoObject
<1> DEFINE ops == InitOps(heap, tagged)
           distance == addr - ops.base
           narrow == distance \div ops.scale
           stored == narrow % NarrowSpan
<1>1. addr \in Nat /\ heap.start <= addr /\ addr # 0
  BY CompressionAssumption DEF Heap
<1>2. /\ ops.base \in Nat
      /\ ops.scale \in Nat \ {0}
      /\ distance \in Nat \ {0}
  BY <1>1, DistancesPositive
<1>3. NarrowSpan \in Nat \ {0} /\ distance % ops.scale = 0
  BY CompressionAssumption
<1> HIDE DEF ops
<1>4. narrow \in Nat /\ distance = narrow * ops.scale
  <2> HIDE DEF distance
  <2> QED BY <1>2, <1>3, DivisionIsExact
<1>5. narrow # 0
  BY <1>2, <1>4
<1>6. Encode(ops, addr) = stored
  BY <1>1 DEF Encode, NoObject
<1>7. InReach(ops, addr) <=> narrow < NarrowSpan
  <2>1. InReach(ops, addr) <=> distance < NarrowSpan * ops.scale
    BY DEF InReach
  <2> HIDE DEF distance, narrow
  <2>2. narrow * ops.scale < NarrowSpan * ops.scale => narrow < NarrowSpan
    BY <1>2, <1>3, <1>4, FactorCancels
  <2>3. narrow < NarrowSpan => narrow * ops.scale < NarrowSpan * ops.scale
    BY <1>2, <1>3, <1>4, FactorGrows
  <2> QED BY <1>4, <2>1, <2>2, <2>3
<1>8. addr = ops.base + narrow * ops.scale
  BY <1>1, <1>2, <1>4
<1>9. CASE narrow < NarrowSpan
  <2>1. stored = narrow
    <3> HIDE DEF narrow
    <3> QED BY <1>3, <1>4, <1>9
  <2>2. Decode(ops, narrow) = addr
    BY <1>5, <1>8 DEF Decode, NoObject
  <2> QED BY <1>5, <1>6, <1>7, <1>9, <2>1, <2>2 DEF ops, NoObject
<1>10. CASE NarrowSpan <= narrow
  <2>1. stored \in Nat /\ stored < narrow
    <3> HIDE DEF narrow
    <3> QED BY <1>3, <1>4, <1>10
  <2>2. stored * ops.scale < narrow * ops.scale
    <3> HIDE DEF narrow, stored
    <3> QED BY <1>2, <1>4, <2>1, FactorGrows
  <2>3. Decode(ops, stored) # addr
    <3>1. CASE stored = 0
      BY <1>1, <3>1 DEF Decode, NoObject
    <3>2. CASE stored # 0
      <4>1. Decode(ops, stored) = ops.base + stored * ops.scale
        BY <3>2 DEF Decode, NoObject
      <4>2. stored * ops.scale \in Nat /\ narrow * ops.scale \in Nat
        <5> HIDE DEF narrow, stored
        <5> QED BY <1>2, <1>4, <2>1
      <4> DEFINE i == stored * ops.scale
                 j == narrow * ops.scale
      <4>3. i \in Nat /\ j \in Nat /\ i < j /\ addr = ops.base + j
            /\ Decode(ops, stored) = ops.base + i
        BY <1>8, <2>2, <4>1, <4>2
      <4> HIDE DEF i, j, stored
      <4> QED BY <1>2, <4>3
    <3> QED BY <3>1, <3>2
  <2>4. ~(narrow < NarrowSpan)
    <3> HIDE DEF narrow
    <3> QED BY <1>3, <1>4, <1>10
  <2> QED BY <1>6, <1>7, <2>3, <2>4 DEF ops
<1>11. narrow < NarrowSpan \/ NarrowSpan <= narrow
  <2> HIDE DEF narrow
  <2> QED BY <1>3, <1>4
<1> QED BY <1>9, <1>10, <1>11

\* A heap that fits has every address below its end within reach.
LEMMA FitsReaches ==
    ASSUME NEW heap \in Heap, NEW tagged \in BOOLEAN, Fits(heap, tagged),
           NEW addr \in heap.start..heap.end, addr < heap.end
    PROVE  InReach(InitOps(heap, tagged), addr)
<1>1. addr \in heap.start..(heap.end - 1)
  BY DEF Heap
<1> QED BY <1>1, DistancesFit DEF InReach

\* So in such a heap a narrow reference leads back, and is not null.
THEOREM NarrowRoundTrip ==
    ASSUME NEW heap \in Heap, NEW tagged \in BOOLEAN, Fits(heap, tagged),
           NEW addr \in Reachable(heap, InitOps(heap, tagged))
    PROVE  LET ops == InitOps(heap, tagged)
           IN  /\ Encode(ops, addr) # NoObject
               /\ Decode(ops, Encode(ops, addr)) = addr
<1>1. /\ addr \in heap.start..heap.end /\ addr < heap.end
      /\ (addr - InitOps(heap, tagged).base) % InitOps(heap, tagged).scale = 0
  BY DEF Reachable, Heap
<1> QED BY <1>1, FitsReaches, LeadsBackInReach

-----------------------------------------------------------------------------
(* Narrow fields of allocated objects                                      *)

\* A multiple is divisible.
LEMMA MultipleDivides ==
    ASSUME NEW n \in Int, NEW d \in Nat \ {0}
    PROVE  (n * d) % d = 0
  OBVIOUS

LEMMA ProductIsWhole ==
    ASSUME NEW n \in Int, NEW m \in Int
    PROVE  n * m \in Int
  OBVIOUS

\* Factors are taken out of differences, and regrouped.
LEMMA Distributes ==
    ASSUME NEW i \in Int, NEW j \in Int, NEW d \in Int
    PROVE  i * d - j * d = (i - j) * d
  OBVIOUS

LEMMA Regroups ==
    ASSUME NEW i \in Int, NEW j \in Int, NEW d \in Int
    PROVE  i * (j * d) = (i * j) * d
  OBVIOUS

LEMMA ProductIsOneOf ==
    ASSUME NEW i \in Int, NEW j \in Int, NEW d \in Nat \ {0}, i * d = j * d
    PROVE  i = j
  OBVIOUS

LEMMA FactorKeepsOrder ==
    ASSUME NEW i \in Nat, NEW j \in Nat, NEW d \in Nat, i <= j
    PROVE  i * d <= j * d
<1>1. PICK k \in Nat : j = i + k
  BY j - i \in Nat /\ j = i + (j - i)
<1>2. j * d = i * d + k * d /\ k * d \in Nat /\ i * d \in Nat
  BY <1>1
<1> QED BY <1>2

\* The highest block.
LEMMA LastWordIsLast ==
    /\ LastWord \in {b.end : b \in Blocks}
    /\ \A b \in Blocks : b.end <= LastWord
  BY BlocksInHeaps DEF LastWord

\* An object in a block has a reference inside the heap, or at its end if it is
\* the last and has no fields.
LEMMA AddressInHeap ==
    ASSUME NEW o \in Object, InSomeBlock(o), Reference(o) <= o.end, NEW heap \in Heaps
    PROVE  AddressIn(heap, o) \in heap.start..heap.end
<1>1. PICK b \in Blocks : b.start <= o.start /\ o.end <= b.end
  BY DEF InSomeBlock, InBlock
<1>2. /\ b.start \in Nat /\ b.end \in Nat /\ b.end <= LastWord /\ LastWord \in Nat
  BY BlocksApart, LastWordIsLast
<1>3. /\ o.start \in Nat /\ o.end \in Nat /\ Reference(o) = o.start + 1
  BY DEF Object, Reference, ObjectRefOffset
<1>4. heap.start \in Nat /\ heap.end \in Nat
  BY HeapsAligned DEF Heap
<1>5. MinAlignment \in Nat \ {0}
  BY CompressionAssumption
<1> DEFINE far == LastWord - Reference(o)
           farthest == LastWord - b.start
<1>6. far \in Nat /\ farthest \in Nat /\ far <= farthest
  BY <1>1, <1>2, <1>3
<1>7. farthest * MinAlignment <= heap.end - heap.start
  BY BlocksInHeaps
<1> HIDE DEF far, farthest
<1>8. far * MinAlignment <= farthest * MinAlignment
  BY <1>5, <1>6, FactorKeepsOrder
<1>9. far * MinAlignment \in Nat /\ farthest * MinAlignment \in Int
  BY <1>5, <1>6, ProductIsWhole
<1>10. AddressIn(heap, o) = heap.end - far * MinAlignment
  BY DEF AddressIn, far
<1>11. heap.end - far * MinAlignment \in heap.start..heap.end
  <2> DEFINE down == far * MinAlignment
             most == farthest * MinAlignment
  <2>1. /\ down \in Nat /\ most \in Int /\ down <= most
        /\ most <= heap.end - heap.start
    BY <1>5, <1>7, <1>8, <1>9
  <2> HIDE DEF down, most
  <2>2. heap.end - down \in heap.start..heap.end
    BY <1>4, <1>5, <2>1
  <2> QED BY <2>2 DEF down
<1> QED BY <1>10, <1>11

\* Its distance from the base loses nothing to the scale.
LEMMA AddressIsScaled ==
    ASSUME NEW o \in Object, NEW heap \in Heaps, NEW tagged \in BOOLEAN
    PROVE  LET ops == InitOps(heap, tagged)
           IN  (AddressIn(heap, o) - ops.base) % ops.scale = 0
<1> DEFINE ops == InitOps(heap, tagged)
<1>1. /\ heap \in Heap /\ heap.start \in Nat /\ heap.end \in Nat
      /\ heap.start % MinAlignment = 0 /\ heap.end % MinAlignment = 0
      /\ Page % MinAlignment = 0 /\ MinAlignment % TaggedScale = 0
  BY HeapsAligned DEF Heap
<1>2. MinAlignment \in Nat \ {0} /\ TaggedScale \in Nat \ {0} /\ Page \in Nat
  BY CompressionAssumption
<1>3. PICK s \in Nat, e \in Nat, p \in Nat :
         heap.start = s * MinAlignment /\ heap.end = e * MinAlignment
         /\ Page = p * MinAlignment
  <2>1. ASSUME NEW n \in Nat, n % MinAlignment = 0
        PROVE  \E i \in Nat : n = i * MinAlignment
    BY <1>2, <2>1, DivisionIsExact
  <2>2. /\ \E s \in Nat : heap.start = s * MinAlignment
        /\ \E e \in Nat : heap.end = e * MinAlignment
        /\ \E p \in Nat : Page = p * MinAlignment
    BY <1>1, <1>2, <2>1
  <2> QED BY <2>2
<1>4. PICK q \in Nat : MinAlignment = q * TaggedScale
  BY <1>1, <1>2, DivisionIsExact, ZenonT(40)
<1> DEFINE far == LastWord - Reference(o)
<1>5. far \in Int
  <2>1. LastWord \in Nat
    BY LastWordIsLast, BlocksApart
  <2> QED BY <2>1 DEF Object, Reference, ObjectRefOffset
<1>6. AddressIn(heap, o) = (e - far) * MinAlignment
  <2>1. AddressIn(heap, o) = e * MinAlignment - far * MinAlignment
    BY <1>3 DEF AddressIn
  <2> HIDE DEF far
  <2> QED BY <1>2, <1>5, <2>1, Distributes
<1>7. BelowHeap(heap) = (s - p) * MinAlignment
  <2>1. BelowHeap(heap) = s * MinAlignment - p * MinAlignment
    BY <1>3 DEF BelowHeap
  <2> QED BY <1>2, <2>1, Distributes
<1> HIDE DEF far
<1>8. PICK k \in Int : AddressIn(heap, o) - ops.base = k * MinAlignment
  <2>1. CASE ops.base = BelowHeap(heap)
    <3>1. e - far \in Int /\ s - p \in Int /\ (e - far) - (s - p) \in Int
      BY <1>5
    <3>2. (e - far) * MinAlignment - (s - p) * MinAlignment
             = ((e - far) - (s - p)) * MinAlignment
      BY <1>2, <3>1, Distributes
    <3> QED BY <1>6, <1>7, <2>1, <3>1, <3>2
  <2>2. CASE ops.base = 0
    <3>1. e - far \in Int
      BY <1>5
    <3>2. (e - far) * MinAlignment \in Int
      BY <1>2, <3>1, ProductIsWhole
    <3>3. AddressIn(heap, o) - ops.base = (e - far) * MinAlignment
      BY <1>6, <2>2, <3>2
    <3> QED BY <3>1, <3>3
  <2>3. ops.base = BelowHeap(heap) \/ ops.base = 0
    BY DEF InitOps, InitTagged, InitUntagged, Base, NoObject
  <2> QED BY <2>1, <2>2, <2>3
<1>9. \/ ops.scale = TaggedScale \/ ops.scale = MinAlignment \/ ops.scale = 1
  BY DEF InitOps, InitTagged, InitUntagged, Scale
<1> HIDE DEF ops
<1>10. (k * MinAlignment) % MinAlignment = 0
  BY <1>2, MultipleDivides
<1>11. (k * MinAlignment) % TaggedScale = 0
  <2>1. k * MinAlignment = (k * q) * TaggedScale
    BY <1>2, <1>4, Regroups
  <2>2. k * q \in Int
    BY ProductIsWhole
  <2> QED BY <1>2, <2>1, <2>2, MultipleDivides
<1>12. (k * MinAlignment) % 1 = 0
  <2>1. k * MinAlignment \in Int
    BY <1>2, ProductIsWhole
  <2> DEFINE n == k * MinAlignment
  <2>2. n \in Int
    BY <2>1
  <2> HIDE DEF n
  <2>3. n % 1 = 0
    BY <2>2
  <2> QED BY <2>3 DEF n
<1> QED BY <1>8, <1>9, <1>10, <1>11, <1>12 DEF ops

\* An allocated object has an address in the heap or at its end, at a distance
\* that loses nothing to the scale.
LEMMA ObjectsAreInHeap ==
    ASSUME IInv, LInv, VInv, NEW o \in objs, NEW heap \in Heaps, NEW tagged \in BOOLEAN
    PROVE  LET ops  == InitOps(heap, tagged)
               addr == AddressIn(heap, o)
           IN  /\ heap \in Heap
               /\ addr \in heap.start..heap.end
               /\ (addr - ops.base) % ops.scale = 0
<1>1. o \in Object /\ InSomeBlock(o) /\ Reference(o) <= o.end
  BY DEF IInv, TypeOK, LInv, Located, VInv, ReferencesInside
<1> QED BY <1>1, AddressInHeap, AddressIsScaled, HeapsAligned

\* A narrow field leads back to the allocated object that was stored in it exactly
\* where its distance from the base is within the span, in every heap that holds
\* the blocks; and in a heap that fits it is, for all objects below the end.
THEOREM NarrowFieldsLeadBackThm == Spec => []NarrowFieldsLeadBack
<1>1. IInv /\ LInv /\ VInv => NarrowFieldsLeadBack
  <2> SUFFICES ASSUME IInv, LInv, VInv, NEW o \in objs, NEW heap \in Heaps,
                      NEW tagged \in BOOLEAN
               PROVE  LET ops == InitOps(heap, tagged)
                          addr == AddressIn(heap, o)
                      IN  /\ Decode(ops, Encode(ops, addr)) = addr <=> InReach(ops, addr)
                          /\ Fits(heap, tagged) /\ addr < heap.end => InReach(ops, addr)
    BY DEF NarrowFieldsLeadBack, ObjectOf, FieldOf
  <2> QED BY ObjectsAreInHeap, LeadsBackInReach, FitsReaches
<1> QED BY <1>1, VoBitsInvariance, PTL

\* Two allocated objects at one address are the same: no cell is empty.
LEMMA AddressesDiffer ==
    ASSUME IInv, VInv, NEW o \in objs, NEW p \in objs, NEW heap \in Heaps,
           AddressIn(heap, o) = AddressIn(heap, p)
    PROVE  o = p
<1> DEFINE words(x) == LastWord - Reference(x)
<1>1. /\ o.start \in Nat /\ o.end \in Nat /\ p.start \in Nat /\ p.end \in Nat
      /\ Reference(o) <= o.end /\ Reference(p) <= p.end
  BY DEF IInv, TypeOK, Object, VInv, ReferencesInside
<1>2. /\ heap.end \in Int /\ LastWord \in Int /\ MinAlignment \in Nat \ {0}
      /\ Reference(o) \in Int /\ Reference(p) \in Int
  BY <1>1, HeapsAligned, LastWordIsLast, BlocksApart, CompressionAssumption
     DEF Heap, Reference, ObjectRefOffset
<1>3. words(o) * MinAlignment = words(p) * MinAlignment
  <2> DEFINE i == words(o) * MinAlignment
             j == words(p) * MinAlignment
  <2>1. i \in Int /\ j \in Int
    <3> HIDE DEF words, i, j
    <3>1. words(o) \in Int /\ words(p) \in Int
      BY <1>2 DEF words
    <3> QED BY <1>2, <3>1, ProductIsWhole DEF i, j
  <2>2. heap.end - i = heap.end - j
    BY DEF AddressIn
  <2> HIDE DEF i, j
  <2>3. i = j
    BY <1>2, <2>1, <2>2
  <2> QED BY <2>3 DEF i, j
<1>4. words(o) = words(p)
  <2>1. words(o) \in Int /\ words(p) \in Int
    BY <1>2
  <2> HIDE DEF words
  <2> QED BY <1>2, <1>3, <2>1, ProductIsOneOf
<1>5. Reference(o) = Reference(p)
  BY <1>2, <1>4
<1>6. ~Apart(o, p)
  BY <1>1, <1>5 DEF Apart, Reference, ObjectRefOffset
<1> QED BY <1>6 DEF IInv, Disjoint

\* Narrow fields of allocated objects within their reach are not null, and tell
\* the objects apart.
THEOREM NarrowFieldsTellApartThm == Spec => []NarrowFieldsTellApart
<1>1. IInv /\ LInv /\ VInv => NarrowFieldsTellApart
  <2> SUFFICES ASSUME IInv, LInv, VInv, NEW o \in objs, NEW p \in objs,
                      NEW heap \in Heaps, NEW tagged \in BOOLEAN,
                      InReach(InitOps(heap, tagged), AddressIn(heap, o)),
                      InReach(InitOps(heap, tagged), AddressIn(heap, p))
               PROVE  LET ops == InitOps(heap, tagged)
                          field(x) == Encode(ops, AddressIn(heap, x))
                      IN  field(o) # NoObject /\ (o # p => field(o) # field(p))
    BY DEF NarrowFieldsTellApart, FieldOf
  <2> DEFINE ops == InitOps(heap, tagged)
  <2>1. ASSUME NEW x \in objs, InReach(ops, AddressIn(heap, x))
        PROVE  /\ Encode(ops, AddressIn(heap, x)) # NoObject
               /\ Decode(ops, Encode(ops, AddressIn(heap, x))) = AddressIn(heap, x)
    BY <2>1, ObjectsAreInHeap, LeadsBackInReach
  <2>2. ASSUME Encode(ops, AddressIn(heap, o)) = Encode(ops, AddressIn(heap, p))
        PROVE  o = p
    <3>1. AddressIn(heap, o) = AddressIn(heap, p)
      BY <2>1, <2>2
    <3> QED BY <3>1, AddressesDiffer
  <2> QED BY <2>1, <2>2
<1> QED BY <1>1, VoBitsInvariance, PTL
=============================================================================
