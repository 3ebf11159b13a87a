-------------------------- MODULE HashMove_proofs ---------------------------
(***************************************************************************)
(* Proofs about HashMove for every set of objects, every size, alignment   *)
(* and heap.  The invariant is restated object by object (ObjectOK), as a  *)
(* predicate of the memory and of the object's own entries, so that what a *)
(* step leaves alone follows from one lemma (Frame).                       *)
(***************************************************************************)
EXTENDS HashMove, TLAPS

Range3 == {Unhashed, Hashed, HashedAndMoved}

\* The part of IInv that speaks of one live object o with the reference r and
\* the cell c in the memory m; f and h are its history.
ObjectOK(o, m, r, c, f, h) ==
    /\ c.start \in {r - 1, r - 2}
    /\ r + Size[o] <= c.start + c.bytes
    /\ c.start + c.bytes <= Last + 1
    /\ m[r - 1].val \in Range3
    /\ m[r - 1] = Header(o, m[r - 1].val)
    /\ \A i \in 0..(Size[o] - 1) : m[r + i] = Field(o, i)
    /\ m[r - 1].val = HashedAndMoved => c.start = r - 2
    /\ ~h /\ m[r - 1].val # HashedAndMoved => c.start = r - 1
    /\ f # NoHash /\ ~h =>
          \/ m[r - 1].val = Hashed /\ r = f
          \/ m[r - 1].val = HashedAndMoved /\ m[r - 2].val = f
    /\ r % Align[o] = 0

Typed ==
    /\ mem \in [Addr -> Word]
    /\ ref \in [Objects -> Reference]
    /\ cell \in [Objects -> [start : Addr, bytes : Nat]]
    /\ first \in [Objects -> Nat]
    /\ rehashed \in [Objects -> BOOLEAN]

EachOK ==
    \A o \in Objects :
        /\ Live(o) => ObjectOK(o, mem, ref[o], cell[o], first[o], rehashed[o])
        /\ ~Live(o) => first[o] = NoHash

\* The invariant, restated object by object.
LEMMA Restated == IInv <=> Typed /\ CellsDisjoint /\ EachOK
<1> USE DEF Live, HashState, Range3
<1>1. TypeOK <=> Typed /\ \A o \in Objects : Live(o) => HashState(o) \in Range3
  BY DEF TypeOK, Typed
<1>2. IInv => EachOK
  BY DEF IInv, TypeOK, CellHolds, BodyIntact, HashWordThere, HashKept,
         RefAligned, EachOK, ObjectOK
<1>3. EachOK => /\ CellHolds /\ BodyIntact /\ HashWordThere /\ HashKept
                /\ RefAligned
                /\ \A o \in Objects : Live(o) => HashState(o) \in Range3
  BY DEF CellHolds, BodyIntact, HashWordThere, HashKept, RefAligned, EachOK,
         ObjectOK
<1> QED
  BY <1>1, <1>2, <1>3 DEF IInv

\* What is true of an object stays true when memory changes outside its cell.
LEMMA Frame ==
    ASSUME NEW o \in Objects, NEW m, NEW n, NEW r \in Reference, NEW c, NEW f, NEW h,
           c \in [start : Addr, bytes : Nat],
           ObjectOK(o, m, r, c, f, h),
           \A a \in Words(c) : n[a] = m[a]
    PROVE  ObjectOK(o, n, r, c, f, h)
<1> USE HashConstants DEF Addr, Reference
<1>0. /\ Size[o] \in Nat /\ Last \in Nat /\ r \in Int
      /\ c.start \in Int /\ c.bytes \in Int /\ c.start >= 0
  OBVIOUS
<1>1. n[r - 1] = m[r - 1]
  <2>1. r - 1 \in Words(c)
    BY <1>0 DEF ObjectOK, Words
  <2> QED BY <2>1
<1>2. ASSUME NEW i \in 0..(Size[o] - 1) PROVE n[r + i] = m[r + i]
  <2>1. r + i \in Words(c)
    BY <1>0 DEF ObjectOK, Words
  <2> QED BY <2>1
<1>3. c.start = r - 2 => n[r - 2] = m[r - 2]
  <2>1. c.start = r - 2 => r - 2 \in Words(c)
    BY <1>0 DEF ObjectOK, Words
  <2> QED BY <2>1
<1> QED
  BY <1>1, <1>2, <1>3 DEF ObjectOK

\* The initial states satisfy the invariant.
LEMMA InitInv == Init => IInv
<1> SUFFICES ASSUME Init PROVE Typed /\ CellsDisjoint /\ EachOK
  BY Restated
<1>1. Junk \in Word
  BY DEF Junk, Word
<1>2. Typed
  BY <1>1, HashConstants DEF Init, Typed, Addr, Reference, null, NoHash, NoCell
<1> QED
  BY <1>2 DEF Init, CellsDisjoint, EachOK, Live, null, NoHash

LEMMA RestatedNext == IInv' <=> (Typed /\ CellsDisjoint /\ EachOK)'
  BY Restated, PTL

\* Rounding up does not make a size smaller.
LEMMA AlignUpBounds ==
    ASSUME NEW n \in Nat, NEW align \in Nat \ {0}
    PROVE  AlignUp(n, align) \in Nat /\ AlignUp(n, align) >= n
<1> DEFINE q == (n + align - 1) \div align
           r == (n + align - 1) % align
<1>1. q \in Nat /\ r \in 0..(align - 1) /\ n + align - 1 = q * align + r
  BY Z3
<1> HIDE DEF q, r
<1>2. q * align \in Nat
  BY <1>1
<1>3. q * align >= n
  BY <1>1, <1>2
<1> QED
  BY <1>2, <1>3 DEF AlignUp, q

\* A cell that is granted has no word in common with an object's.
LEMMA GrantedIsFree ==
    ASSUME Typed, NEW p \in Objects, Live(p), NEW addr \in Addr, NEW bytes \in Nat,
           NEW align, NEW offset, Grants(addr, bytes, align, offset)
    PROVE  /\ Words(cell[p]) \cap Words([start |-> addr, bytes |-> bytes]) = {}
           /\ \/ addr + bytes <= cell[p].start
              \/ cell[p].start + cell[p].bytes <= addr
<1>1. cell[p].start \in Nat /\ cell[p].bytes \in Nat /\ addr \in Nat
  BY HashConstants DEF Typed, Addr
<1> QED
  BY <1>1 DEF Grants, Words

\* Where a live object's parts are in its cell.
LEMMA Inside ==
    ASSUME Typed, EachOK, NEW o \in Objects, Live(o)
    PROVE  /\ ObjectOK(o, mem, ref[o], cell[o], first[o], rehashed[o])
           /\ Words(cell[o]) \subseteq Addr
           /\ ref[o] - 1 \in Words(cell[o])
           /\ cell[o].start = ref[o] - 2 => ref[o] - 2 \in Words(cell[o])
           /\ \A i \in 0..(Size[o] - 1) : ref[o] + i \in Words(cell[o])
           /\ ref[o] \in 1..(Last + 1) /\ Size[o] \in Nat /\ Last \in Nat
           /\ cell[o].start \in Nat /\ cell[o].bytes \in Nat
<1>1. ObjectOK(o, mem, ref[o], cell[o], first[o], rehashed[o])
  BY DEF EachOK
<1>2. /\ ref[o] \in 1..(Last + 1) /\ Size[o] \in Nat /\ Last \in Nat
      /\ cell[o].start \in Nat /\ cell[o].bytes \in Nat
  BY HashConstants DEF Typed, Live, null, Addr, Reference
<1>3. /\ cell[o].start \in {ref[o] - 1, ref[o] - 2}
      /\ ref[o] + Size[o] <= cell[o].start + cell[o].bytes
      /\ cell[o].start + cell[o].bytes <= Last + 1
  BY <1>1 DEF ObjectOK
<1> QED
  BY <1>1, <1>2, <1>3 DEF Words, Addr

\* Allocation keeps the invariant.
LEMMA AllocateInv ==
    ASSUME IInv, NEW o \in Objects, NEW addr \in Addr, Allocate(o, addr)
    PROVE  IInv'
<1> DEFINE bytes == AlignUp(Size[o] + 1, Align[o])
           obj == addr + 1
           c == [start |-> addr, bytes |-> bytes]
<1>1. Typed /\ CellsDisjoint /\ EachOK
  BY Restated
<1>2. /\ Size[o] \in Nat /\ Align[o] \in Nat \ {0} /\ Last \in Nat
      /\ addr \in Nat /\ addr <= Last
  BY HashConstants DEF Addr
<1>3. bytes \in Nat /\ bytes >= Size[o] + 1
  BY <1>2, AlignUpBounds
<1>4. /\ ~Live(o)
      /\ Grants(addr, bytes, Align[o], 1)
      /\ mem' = [a \in Addr |->
                   IF a = addr THEN Header(o, Unhashed)
                   ELSE IF a \in obj..(obj + Size[o] - 1) THEN Field(o, a - obj)
                   ELSE mem[a]]
      /\ ref' = [ref EXCEPT ![o] = obj]
      /\ cell' = [cell EXCEPT ![o] = c]
      /\ first' = first /\ rehashed' = rehashed
  BY DEF Allocate
<1> HIDE DEF bytes
<1>5. addr + bytes <= Last + 1 /\ (addr + 1) % Align[o] = 0
  BY <1>2, <1>3, <1>4 DEF Grants, Addr
<1>6. Typed'
  <2>1. obj \in Reference /\ c \in [start : Addr, bytes : Nat]
    <3>1. obj <= Last + 1 /\ bytes >= 1
      BY <1>2, <1>3, <1>5
    <3> QED BY <1>2, <1>3, <1>5, <3>1 DEF Addr, Reference
  <2>2. Header(o, Unhashed) \in Word
    BY DEF Header, Word, Unhashed
  <2>3. \A a \in obj..(obj + Size[o] - 1) : Field(o, a - obj) \in Word
    BY <1>2 DEF Field, Word
  <2> QED
    BY <1>1, <1>4, <2>1, <2>2, <2>3 DEF Typed
<1>7. ASSUME NEW p \in Objects, Live(p)
      PROVE  /\ p # o
             /\ \/ addr + bytes <= cell[p].start
                \/ cell[p].start + cell[p].bytes <= addr
             /\ \A a \in Words(cell[p]) : a \in Addr => mem'[a] = mem[a]
  <2>1. p # o
    BY <1>4, <1>7
  <2>2. /\ Words(cell[p]) \cap Words(c) = {}
        /\ \/ addr + bytes <= cell[p].start
           \/ cell[p].start + cell[p].bytes <= addr
    BY <1>1, <1>3, <1>4, <1>7, GrantedIsFree
  <2>3. addr..(obj + Size[o] - 1) \subseteq Words(c)
    BY <1>2, <1>3 DEF Words
  <2>4. \A a \in Words(cell[p]) : a \notin addr..(obj + Size[o] - 1)
    BY <2>2, <2>3
  <2> QED
    BY <1>2, <1>4, <2>1, <2>2, <2>4 DEF Addr
<1>8. CellsDisjoint'
  <2> SUFFICES ASSUME NEW p \in Objects, NEW q \in Objects,
                      Live(p)', Live(q)', p # q
               PROVE  \/ cell'[p].start + cell'[p].bytes <= cell'[q].start
                      \/ cell'[q].start + cell'[q].bytes <= cell'[p].start
    BY DEF CellsDisjoint
  <2>1. \A x \in Objects : x # o => (Live(x)' <=> Live(x)) /\ cell'[x] = cell[x]
    BY <1>1, <1>4 DEF Live, Typed
  <2>2. cell'[o] = c
    BY <1>1, <1>4 DEF Typed
  <2>3. CASE p = o
    BY <2>1, <2>2, <2>3, <1>7
  <2>4. CASE q = o
    BY <2>1, <2>2, <2>4, <1>7
  <2>5. CASE p # o /\ q # o
    BY <2>1, <2>5, <1>1 DEF CellsDisjoint
  <2> QED BY <2>3, <2>4, <2>5
<1>9. EachOK'
  <2> SUFFICES ASSUME NEW p \in Objects
               PROVE  /\ Live(p)' => ObjectOK(p, mem', ref'[p], cell'[p],
                                              first'[p], rehashed'[p])
                      /\ ~Live(p)' => first'[p] = NoHash
    BY DEF EachOK
  <2>1. CASE p = o
    <3>1. /\ ref'[o] = obj /\ cell'[o] = c /\ first'[o] = NoHash
      BY <1>1, <1>4 DEF Typed, EachOK
    <3>2. mem'[obj - 1] = Header(o, Unhashed)
      BY <1>2, <1>4 DEF Addr
    <3>3. \A i \in 0..(Size[o] - 1) : mem'[obj + i] = Field(o, i)
      <4> TAKE i \in 0..(Size[o] - 1)
      <4>1. obj + i \in Addr /\ obj + i # addr /\ obj + i - obj = i
        BY <1>2, <1>3, <1>5 DEF Addr
      <4>2. obj + i \in obj..(obj + Size[o] - 1)
        BY <1>2
      <4>3. mem'[obj + i] = Field(o, (obj + i) - obj)
        BY <1>4, <4>1, <4>2
      <4> QED BY <4>1, <4>3, <1>2 DEF Field
    <3>4. mem'[obj - 1].val = Unhashed
      BY <3>2 DEF Header
    <3>5. Live(o)' /\ obj - 1 = addr
      BY <3>1, <1>2 DEF Live, null
    <3> QED
      BY <2>1, <3>1, <3>2, <3>3, <3>4, <3>5, <1>2, <1>3, <1>5
         DEF ObjectOK, Range3, Unhashed, HashedAndMoved
  <2>2. CASE p # o
    <3>1. /\ ref'[p] = ref[p] /\ cell'[p] = cell[p]
          /\ first'[p] = first[p] /\ rehashed'[p] = rehashed[p]
      BY <1>1, <1>4, <2>2 DEF Typed
    <3>2. Live(p)' <=> Live(p)
      BY <3>1 DEF Live
    <3>3. ASSUME Live(p)
          PROVE  ObjectOK(p, mem', ref[p], cell[p], first[p], rehashed[p])
      <4>1. ObjectOK(p, mem, ref[p], cell[p], first[p], rehashed[p])
        BY <1>1, <3>3 DEF EachOK
      <4>2. Words(cell[p]) \subseteq Addr
        BY <1>1, <3>3, Inside
      <4>3. \A a \in Words(cell[p]) : mem'[a] = mem[a]
        BY <1>7, <3>3, <4>2
      <4>4. ref[p] \in Reference /\ cell[p] \in [start : Addr, bytes : Nat]
        BY <1>1 DEF Typed
      <4> HIDE DEF obj, c
      <4> QED
        BY <4>1, <4>3, <4>4, Frame
    <3> QED
      BY <1>1, <3>1, <3>2, <3>3 DEF EachOK
  <2> QED BY <2>1, <2>2
<1> QED
  BY <1>6, <1>8, <1>9, RestatedNext

\* Cells that do not overlap have no word in common.
LEMMA Apart ==
    ASSUME Typed, CellsDisjoint, NEW o \in Objects, NEW p \in Objects,
           Live(o), Live(p), o # p
    PROVE  Words(cell[o]) \cap Words(cell[p]) = {}
<1>1. /\ cell[o].start \in Nat /\ cell[o].bytes \in Nat
      /\ cell[p].start \in Nat /\ cell[p].bytes \in Nat
  BY HashConstants DEF Typed, Addr
<1> QED
  BY <1>1 DEF CellsDisjoint, Words

\* A step that changes one object keeps what the invariant says of another
\* one, if it changes no word of that one's cell.
LEMMA OthersKeep ==
    ASSUME Typed, EachOK, NEW p \in Objects,
           ref'[p] = ref[p], cell'[p] = cell[p],
           first'[p] = first[p], rehashed'[p] = rehashed[p],
           Live(p) => \A a \in Words(cell[p]) : mem'[a] = mem[a]
    PROVE  /\ Live(p)' => ObjectOK(p, mem', ref'[p], cell'[p],
                                   first'[p], rehashed'[p])
           /\ ~Live(p)' => first'[p] = NoHash
<1>1. Live(p)' <=> Live(p)
  BY DEF Live
<1>2. ASSUME Live(p)
      PROVE  ObjectOK(p, mem', ref[p], cell[p], first[p], rehashed[p])
  <2>1. ObjectOK(p, mem, ref[p], cell[p], first[p], rehashed[p])
    BY <1>2 DEF EachOK
  <2> QED
    BY <1>2, <2>1, Frame DEF Typed
<1> QED
  BY <1>1, <1>2 DEF EachOK

\* Taking a hash code keeps the invariant.
LEMMA TakeHashInv ==
    ASSUME IInv, NEW o \in Objects, TakeHash(o)
    PROVE  IInv'
<1> DEFINE h == ref[o] - 1
           state == mem[h].val
           state2 == IF state = HashedAndMoved THEN state ELSE Hashed
<1>1. Typed /\ CellsDisjoint /\ EachOK
  BY Restated
<1>2. /\ Live(o)
      /\ mem' = [mem EXCEPT ![h].val = state2]
      /\ first' = [first EXCEPT ![o] = IF @ = NoHash THEN HashCode(o) ELSE @]
      /\ ref' = ref /\ cell' = cell /\ rehashed' = rehashed
  BY DEF TakeHash
<1>3. /\ ObjectOK(o, mem, ref[o], cell[o], first[o], rehashed[o])
      /\ Words(cell[o]) \subseteq Addr
      /\ h \in Words(cell[o])
      /\ ref[o] \in 1..(Last + 1) /\ Last \in Nat
      /\ cell[o].start = ref[o] - 2 => ref[o] - 2 \in Words(cell[o])
      /\ \A i \in 0..(Size[o] - 1) : ref[o] + i \in Words(cell[o])
  BY <1>1, <1>2, Inside
<1>4. /\ mem[h] = Header(o, state) /\ state \in Range3
      /\ state = HashedAndMoved => cell[o].start = ref[o] - 2
  BY <1>3 DEF ObjectOK
<1>5. state2 \in Range3 /\ Header(o, state2) \in Word
  BY <1>4 DEF Range3, Unhashed, Hashed, HashedAndMoved, Header, Word
<1>6. /\ mem' \in [Addr -> Word]
      /\ mem'[h] = Header(o, state2)
      /\ \A a \in Addr : a # h => mem'[a] = mem[a]
  <2>1. [mem[h] EXCEPT !.val = state2] = Header(o, state2)
    BY <1>4 DEF Header
  <2>2. mem' = [mem EXCEPT ![h] = Header(o, state2)]
    BY <1>1, <1>2, <1>3, <2>1 DEF Typed
  <2> QED
    BY <1>1, <1>3, <1>5, <2>2 DEF Typed
<1>7. HashCode(o) \in Nat
  <2>1. state = HashedAndMoved => ref[o] - 2 \in Addr
    BY <1>3, <1>4
  <2> QED
    BY <1>1, <1>3, <2>1 DEF HashCode, HashState, Typed, Word
<1>8. Typed'
  BY <1>1, <1>2, <1>6, <1>7 DEF Typed
<1>9. CellsDisjoint'
  BY <1>1, <1>2 DEF CellsDisjoint, Live
<1>10. ASSUME NEW p \in Objects, p # o
       PROVE  /\ Live(p)' => ObjectOK(p, mem', ref'[p], cell'[p],
                                      first'[p], rehashed'[p])
              /\ ~Live(p)' => first'[p] = NoHash
  <2>1. ASSUME Live(p), NEW a \in Words(cell[p]) PROVE mem'[a] = mem[a]
    <3>1. Words(cell[p]) \subseteq Addr
      BY <1>1, <2>1, Inside
    <3>2. Words(cell[o]) \cap Words(cell[p]) = {}
      BY <1>1, <1>2, <1>10, <2>1, Apart
    <3> HIDE DEF h
    <3>3. a \in Addr /\ a # h
      BY <1>3, <2>1, <3>1, <3>2
    <3> QED BY <3>3, <1>6
  <2>2. first'[p] = first[p]
    BY <1>1, <1>2, <1>10 DEF Typed
  <2> QED
    BY <1>1, <1>2, <2>1, <2>2, OthersKeep
<1>11. /\ Live(o)' => ObjectOK(o, mem', ref'[o], cell'[o],
                               first'[o], rehashed'[o])
       /\ ~Live(o)' => first'[o] = NoHash
  <2>1. /\ Live(o)' /\ ref'[o] = ref[o] /\ cell'[o] = cell[o]
        /\ rehashed'[o] = rehashed[o]
        /\ first'[o] = IF first[o] = NoHash THEN HashCode(o) ELSE first[o]
    BY <1>1, <1>2 DEF Live, Typed
  <2>2. mem'[h].val = state2
    BY <1>6 DEF Header
  <2>3. \A i \in 0..(Size[o] - 1) : mem'[ref[o] + i] = mem[ref[o] + i]
    <3> TAKE i \in 0..(Size[o] - 1)
    <3>1. ref[o] + i \in Addr /\ ref[o] + i # h
      BY <1>3
    <3> QED BY <3>1, <1>6
  <2>4. state = HashedAndMoved => mem'[ref[o] - 2].val = mem[ref[o] - 2].val
    <3>1. state = HashedAndMoved => ref[o] - 2 \in Addr /\ ref[o] - 2 # h
      BY <1>3, <1>4
    <3> QED BY <3>1, <1>6
  <2>5. state2 = HashedAndMoved <=> state = HashedAndMoved
    BY DEF Hashed, HashedAndMoved
  <2>6. state2 # HashedAndMoved => state2 = Hashed
    OBVIOUS
  <2>7. HashCode(o) = IF state = HashedAndMoved THEN mem[ref[o] - 2].val ELSE ref[o]
    BY DEF HashCode, HashState
  <2>8. first'[o] # NoHash /\ ~rehashed[o] =>
           \/ state2 = Hashed /\ ref[o] = first'[o]
           \/ state2 = HashedAndMoved /\ mem'[ref[o] - 2].val = first'[o]
    BY <1>3, <2>1, <2>4, <2>5, <2>6, <2>7
       DEF ObjectOK, Hashed, HashedAndMoved
  <2> HIDE DEF state2
  <2>9. ObjectOK(o, mem', ref[o], cell[o], first'[o], rehashed[o])
    BY <1>3, <1>4, <1>5, <1>6, <2>2, <2>3, <2>5, <2>8 DEF ObjectOK
  <2> QED BY <2>1, <2>9
<1> QED
  BY <1>8, <1>9, <1>10, <1>11, RestatedNext DEF EachOK

\* When the collector reclaims an object the invariant stays.
LEMMA ReclaimInv ==
    ASSUME IInv, NEW o \in Objects, Reclaim(o)
    PROVE  IInv'
<1>1. Typed /\ CellsDisjoint /\ EachOK
  BY Restated
<1>2. /\ Live(o)
      /\ mem' = [a \in Addr |-> IF a \in Words(cell[o]) THEN Junk ELSE mem[a]]
      /\ ref' = [ref EXCEPT ![o] = null]
      /\ cell' = [cell EXCEPT ![o] = NoCell]
      /\ first' = [first EXCEPT ![o] = NoHash]
      /\ rehashed' = [rehashed EXCEPT ![o] = FALSE]
  BY DEF Reclaim
<1>3. Typed'
  <2>1. /\ Junk \in Word /\ null \in Reference /\ NoHash \in Nat
        /\ NoCell \in [start : Addr, bytes : Nat]
    BY HashConstants DEF Junk, Word, null, Reference, NoHash, NoCell, Addr
  <2> QED
    BY <1>1, <1>2, <2>1 DEF Typed
<1>4. ~Live(o)' /\ first'[o] = NoHash
  BY <1>1, <1>2 DEF Live, Typed
<1>5. ASSUME NEW p \in Objects, p # o
      PROVE  /\ ref'[p] = ref[p] /\ cell'[p] = cell[p]
             /\ first'[p] = first[p] /\ rehashed'[p] = rehashed[p]
             /\ Live(p)' <=> Live(p)
             /\ Live(p) => \A a \in Words(cell[p]) : mem'[a] = mem[a]
  <2>1. /\ ref'[p] = ref[p] /\ cell'[p] = cell[p]
        /\ first'[p] = first[p] /\ rehashed'[p] = rehashed[p]
    BY <1>1, <1>2, <1>5 DEF Typed
  <2>2. ASSUME Live(p), NEW a \in Words(cell[p]) PROVE mem'[a] = mem[a]
    <3>1. a \in Addr /\ a \notin Words(cell[o])
      BY <1>1, <1>2, <1>5, <2>2, Inside, Apart
    <3> QED BY <3>1, <1>2
  <2> QED
    BY <2>1, <2>2 DEF Live
<1>6. CellsDisjoint'
  BY <1>1, <1>4, <1>5 DEF CellsDisjoint
<1>7. EachOK'
  <2> SUFFICES ASSUME NEW p \in Objects
               PROVE  /\ Live(p)' => ObjectOK(p, mem', ref'[p], cell'[p],
                                              first'[p], rehashed'[p])
                      /\ ~Live(p)' => first'[p] = NoHash
    BY DEF EachOK
  <2>1. CASE p = o
    BY <2>1, <1>4
  <2>2. CASE p # o
    BY <1>1, <1>5, <2>2, OthersKeep
  <2> QED BY <2>1, <2>2
<1> QED
  BY <1>3, <1>6, <1>7, RestatedNext

\* What a copy does: the object's header, fields and hash word are where the
\* new reference expects them, and only the two cells have changed.
LEMMA CopyEffect ==
    ASSUME IInv, NEW o \in Objects, NEW addr \in Addr, Copy(o, addr)
    PROVE  LET state == HashState(o)
               words == Size[o] + 1 + (IF state = Unhashed THEN 0 ELSE 1)
               obj == addr + 1 + (IF state = Unhashed THEN 0 ELSE 1)
           IN  /\ state \in Range3 /\ mem[ref[o] - 1] = Header(o, state)
               /\ Grants(addr, words, Align[o], obj - addr)
               /\ ref' = [ref EXCEPT ![o] = obj]
               /\ cell' = [cell EXCEPT ![o] = [start |-> addr, bytes |-> words]]
               /\ first' = first
               /\ rehashed' = [rehashed EXCEPT
                                 ![o] = @ \/ state = HashedAndMoved]
               /\ mem' \in [Addr -> Word]
               /\ mem'[obj - 1] = Header(o, MovedState(state))
               /\ \A i \in 0..(Size[o] - 1) : mem'[obj + i] = Field(o, i)
               /\ state = Hashed => mem'[obj - 2].val = ref[o]
               /\ \A a \in Addr :
                     a \notin Words(cell[o]) /\ a \notin addr..(addr + words - 1)
                       => mem'[a] = mem[a]
<1> DEFINE state == HashState(o)
           extra == IF state = Unhashed THEN 0 ELSE 1
           words == Size[o] + 1 + extra
           obj == addr + 1 + extra
           lead == IF state = HashedAndMoved THEN 2 ELSE 1
           to == IF state = Hashed THEN addr + 1 ELSE addr
           from == ref[o] - lead
           copied == [a \in Addr |->
                        IF a \in to..(to + CopyBytes(o) - 1) THEN mem[from + (a - to)]
                        ELSE IF a \in Words(cell[o]) THEN Junk
                        ELSE mem[a]]
           withHash == IF state = Hashed
                         THEN [copied EXCEPT ![obj - 2] =
                                 HashWord(StoredHash(o, obj))]
                         ELSE copied
<1>1. Typed /\ CellsDisjoint /\ EachOK
  BY Restated
<1>2. Live(o)
  BY DEF Copy
<1>3. /\ ObjectOK(o, mem, ref[o], cell[o], first[o], rehashed[o])
      /\ Words(cell[o]) \subseteq Addr
      /\ ref[o] \in 1..(Last + 1) /\ Last \in Nat /\ Size[o] \in Nat
      /\ ref[o] - 1 \in Words(cell[o])
      /\ cell[o].start = ref[o] - 2 => ref[o] - 2 \in Words(cell[o])
      /\ \A i \in 0..(Size[o] - 1) : ref[o] + i \in Words(cell[o])
      /\ addr \in Nat /\ addr <= Last
  BY <1>1, <1>2, Inside DEF Addr
<1>4. /\ state \in Range3 /\ mem[ref[o] - 1] = Header(o, state)
      /\ state = HashedAndMoved => cell[o].start = ref[o] - 2
  BY <1>3 DEF ObjectOK, HashState
<1>5. InstanceSize(o) = Size[o]
  BY <1>4 DEF InstanceSize, Header
<1>6. /\ HashcodeOverhead(o, TRUE) = extra
      /\ BytesRequiredWhenCopied(o) = words
      /\ OffsetForAlignment(o) = obj - addr
      /\ CopyBytes(o) = Size[o] + lead
      /\ extra \in {0, 1} /\ lead \in {1, 2}
      /\ to + lead = obj
      /\ to + Size[o] + lead = addr + words
      /\ to >= addr /\ to \in Nat /\ obj \in Nat
      /\ CopyBytes(o) \in Nat
  <2>1. Size[o] \in Nat /\ addr \in Nat
    BY <1>3
  <2>2. /\ HashcodeOverhead(o, TRUE) = extra
        /\ BytesRequiredWhenCopied(o) = words
        /\ OffsetForAlignment(o) = obj - addr
        /\ CopyBytes(o) = IF state = Hashed THEN words - 1 ELSE words
    BY <1>5, <2>1 DEF HashcodeOverhead, BytesRequiredWhenCopied, OffsetForAlignment,
                      CopyBytes
  <2>3. \/ state = 0 /\ extra = 0 /\ lead = 1 /\ to = addr
        \/ state = 1 /\ extra = 1 /\ lead = 1 /\ to = addr + 1
        \/ state = 2 /\ extra = 1 /\ lead = 2 /\ to = addr
    <3> HIDE DEF state
    <3> QED BY <1>4 DEF Range3, Unhashed, Hashed, HashedAndMoved
  <2> HIDE DEF extra, lead, to
  <2>4. /\ extra \in {0, 1} /\ lead \in {1, 2}
        /\ to + lead = obj
        /\ to + Size[o] + lead = addr + words
        /\ to >= addr /\ to \in Nat /\ obj \in Nat
    BY <2>1, <2>3
  <2>5. /\ state = 1 => words - 1 = Size[o] + lead
        /\ state # 1 => words = Size[o] + lead
    <3> HIDE DEF state
    <3>1. CASE extra = 0
      BY <2>1, <2>3, <3>1
    <3>2. CASE extra = 1 /\ lead = 1 /\ state = 1
      BY <2>1, <3>2
    <3>3. CASE extra = 1 /\ lead = 2 /\ state # 1
      <4>1. words = Size[o] + lead
        BY <2>1, <3>3
      <4> QED BY <3>3, <4>1
    <3> QED BY <2>3, <3>1, <3>2, <3>3
  <2>6. CopyBytes(o) = Size[o] + lead /\ CopyBytes(o) \in Nat
    <3> HIDE DEF state
    <3>1. CopyBytes(o) = IF state = 1 THEN words - 1 ELSE words
      BY <2>2 DEF Hashed
    <3> HIDE DEF words
    <3>2. CopyBytes(o) = Size[o] + lead
      BY <2>5, <3>1, Zenon
    <3>3. Size[o] + lead \in Nat
      <4>1. lead = 1 \/ lead = 2
        BY <2>3, Zenon
      <4> QED BY <2>1, <4>1
    <3> QED BY <3>2, <3>3, Zenon
  <2> QED BY <2>2, <2>4, <2>6
<1>7. /\ Grants(addr, words, Align[o], obj - addr)
      /\ ref' = [ref EXCEPT ![o] = to + lead]
      /\ mem' = [withHash EXCEPT ![obj - 1].val = MovedState(state)]
      /\ cell' = [cell EXCEPT ![o] = [start |-> addr, bytes |-> words]]
      /\ rehashed' = [rehashed EXCEPT ![o] = @ \/ state = HashedAndMoved]
      /\ first' = first
  BY <1>6 DEF Copy, MoveObject
<1>8. /\ addr + words - 1 \in Addr /\ addr..(addr + words - 1) \subseteq Addr
      /\ words \in Nat
      /\ Words(cell[o]) \cap addr..(addr + words - 1) = {}
  <2>1. words \in Nat
    BY <1>3, <1>6
  <2>2. Words([start |-> addr, bytes |-> words]) = addr..(addr + words - 1)
    BY DEF Words
  <2>3. addr + words - 1 \in Addr
    BY <1>7 DEF Grants
  <2> HIDE DEF words
  <2>4. Words(cell[o]) \cap Words([start |-> addr, bytes |-> words]) = {}
    BY <1>1, <1>2, <1>7, <2>1, GrantedIsFree
  <2>5. addr..(addr + words - 1) \subseteq Addr
    BY <1>3, <2>1, <2>3 DEF Addr
  <2> QED
    BY <2>1, <2>2, <2>3, <2>4, <2>5
<1>9. \A i \in 0..(Size[o] - 1) :
         /\ to + lead + i \in to..(to + Size[o] + lead - 1)
         /\ from + ((to + lead + i) - to) = ref[o] + i
  BY <1>3, <1>6
<1> HIDE DEF extra, lead, to
<1>10. \A a \in Addr :
          copied[a] = IF a \in to..(to + Size[o] + lead - 1) THEN mem[from + (a - to)]
                      ELSE IF a \in Words(cell[o]) THEN Junk
                      ELSE mem[a]
  <2>1. to + CopyBytes(o) - 1 = to + Size[o] + lead - 1
    BY <1>3, <1>6
  <2> QED BY <2>1
<1>11. ASSUME NEW a \in to..(to + Size[o] + lead - 1)
       PROVE  a \in Addr /\ from + (a - to) \in Addr
  <2>1. a \in addr..(addr + words - 1)
    BY <1>3, <1>6, <1>8
  <2>2. from + (a - to) \in (ref[o] - lead)..(ref[o] + Size[o] - 1)
    BY <1>3, <1>6
  <2>3. lead = 2 => cell[o].start = ref[o] - 2
    BY <1>4 DEF lead
  <2>4. lead = 2 => ref[o] - 2 >= 0
    BY <1>3, <2>3 DEF Addr
  <2>5. ref[o] + Size[o] <= Last + 1
    <3>1. cell[o].start \in Nat /\ cell[o].bytes \in Nat
      BY <1>1, <1>2, Inside
    <3> QED BY <1>3, <3>1 DEF ObjectOK
  <2>6. ref[o] - lead >= 0
    BY <2>4, <1>3, <1>6
  <2>7. (ref[o] - lead)..(ref[o] + Size[o] - 1) \subseteq Addr
    BY <2>5, <2>6, <1>3, <1>6 DEF Addr
  <2> QED
    BY <2>1, <2>2, <2>7, <1>8
<1>12. copied \in [Addr -> Word]
  <2>1. Junk \in Word
    BY DEF Junk, Word
  <2>2. \A a \in Addr : copied[a] \in Word
    BY <1>1, <1>10, <1>11, <2>1 DEF Typed
  <2> QED BY <2>2
<1> HIDE DEF copied
<1>13. obj - 1 \in Addr /\ copied[obj - 1] = Header(o, state)
  <2>1. obj - 1 \in to..(to + Size[o] + lead - 1)
    BY <1>3, <1>6
  <2>2. from + ((obj - 1) - to) = ref[o] - 1
    BY <1>3, <1>6
  <2> QED BY <2>1, <2>2, <1>4, <1>10, <1>11
<1>14. /\ withHash \in [Addr -> Word]
       /\ \A a \in Addr : a # obj - 2 => withHash[a] = copied[a]
       /\ state = Hashed => obj - 2 \in Addr /\ withHash[obj - 2] = HashWord(ref[o])
       /\ state # Hashed => withHash = copied
  <2>1. HashWord(ref[o]) \in Word
    BY <1>3 DEF HashWord, Word
  <2>2. state = Hashed => obj - 2 \in Addr
    BY <1>3, <1>8 DEF extra, Hashed, Unhashed, Addr
  <2> QED
    BY <1>12, <2>1, <2>2 DEF StoredHash
<1>15. MovedState(state) \in Range3 /\ Header(o, MovedState(state)) \in Word
  BY DEF MovedState, Range3, Header, Word, Hashed, HashedAndMoved
<1>16. mem' = [withHash EXCEPT ![obj - 1] = Header(o, MovedState(state))]
  <2>1. obj - 1 # obj - 2
    BY <1>3, <1>6
  <2>2. withHash[obj - 1] = Header(o, state)
    BY <1>13, <1>14, <2>1
  <2>3. [withHash[obj - 1] EXCEPT !.val = MovedState(state)]
          = Header(o, MovedState(state))
    BY <2>2 DEF Header
  <2> HIDE DEF withHash, obj, state
  <2> QED BY <1>7, <1>13, <1>14, <2>3
<1>17. /\ mem' \in [Addr -> Word]
       /\ mem'[obj - 1] = Header(o, MovedState(state))
       /\ \A a \in Addr : a # obj - 1 => mem'[a] = withHash[a]
  <2> HIDE DEF withHash, obj, state
  <2> QED BY <1>13, <1>14, <1>15, <1>16
<1>18. ASSUME NEW i \in 0..(Size[o] - 1) PROVE mem'[obj + i] = Field(o, i)
  <2> HIDE DEF withHash, from
  <2>1. to + lead + i \in to..(to + Size[o] + lead - 1)
        /\ from + ((to + lead + i) - to) = ref[o] + i
    BY <1>9
  <2>2. copied[to + lead + i] = mem[ref[o] + i]
    BY <1>10, <1>11, <2>1
  <2>3. to + lead + i = obj + i /\ obj + i # obj - 1 /\ obj + i # obj - 2
    BY <1>6
  <2>4. obj + i \in Addr
    BY <1>11, <2>1, <2>3
  <2> HIDE DEF obj
  <2>5. mem'[obj + i] = mem[ref[o] + i]
    BY <1>14, <1>17, <2>2, <2>3, <2>4
  <2> QED
    BY <1>3, <2>5 DEF ObjectOK
<1>19. state = Hashed => mem'[obj - 2].val = ref[o]
  <2>1. obj - 2 # obj - 1
    BY <1>6
  <2> HIDE DEF withHash, obj, state
  <2> QED
    BY <1>14, <1>17, <2>1 DEF HashWord
<1>20. ASSUME NEW a \in Addr, a \notin Words(cell[o]),
              a \notin addr..(addr + words - 1)
       PROVE  mem'[a] = mem[a]
  <2>1. a # obj - 1 /\ (state = Hashed => a # obj - 2)
    <3>1. obj - 1 \in addr..(addr + words - 1)
      BY <1>3, <1>6
    <3>2. state = Hashed => obj - 2 \in addr..(addr + words - 1)
      BY <1>3, <1>6 DEF extra, Hashed, Unhashed
    <3> QED BY <1>20, <3>1, <3>2
  <2>2. a \notin to..(to + Size[o] + lead - 1)
    BY <1>3, <1>6, <1>20
  <2>3. copied[a] = mem[a]
    BY <1>10, <1>20, <2>2
  <2> HIDE DEF withHash, obj, state
  <2> QED
    BY <1>14, <1>17, <2>1, <2>3
<1>21. obj = addr + 1 + extra /\ words = Size[o] + 1 + extra
  OBVIOUS
<1> HIDE DEF obj, words, withHash, state
<1> QED
  BY <1>4, <1>6, <1>7, <1>17, <1>18, <1>19, <1>20, <1>21 DEF extra, state

\* A copy keeps the invariant.
LEMMA CopyInv ==
    ASSUME IInv, NEW o \in Objects, NEW addr \in Addr, Copy(o, addr)
    PROVE  IInv'
<1> DEFINE state == HashState(o)
           extra == IF state = Unhashed THEN 0 ELSE 1
           words == Size[o] + 1 + extra
           obj == addr + 1 + extra
           c == [start |-> addr, bytes |-> words]
<1>1. Typed /\ CellsDisjoint /\ EachOK
  BY Restated
<1>2. /\ state \in Range3 /\ mem[ref[o] - 1] = Header(o, state)
      /\ Grants(addr, words, Align[o], obj - addr)
      /\ ref' = [ref EXCEPT ![o] = obj]
      /\ cell' = [cell EXCEPT ![o] = c]
      /\ first' = first
      /\ rehashed' = [rehashed EXCEPT ![o] = @ \/ state = HashedAndMoved]
      /\ mem' \in [Addr -> Word]
      /\ mem'[obj - 1] = Header(o, MovedState(state))
      /\ \A i \in 0..(Size[o] - 1) : mem'[obj + i] = Field(o, i)
      /\ state = Hashed => mem'[obj - 2].val = ref[o]
      /\ \A a \in Addr :
            a \notin Words(cell[o]) /\ a \notin addr..(addr + words - 1)
              => mem'[a] = mem[a]
  BY CopyEffect
<1>3. Live(o)
  BY DEF Copy
<1>4. /\ ObjectOK(o, mem, ref[o], cell[o], first[o], rehashed[o])
      /\ ref[o] \in 1..(Last + 1) /\ Last \in Nat /\ Size[o] \in Nat
      /\ addr \in Nat /\ addr <= Last
  BY <1>1, <1>3, Inside DEF Addr
<1>5. /\ words \in Nat /\ obj \in Nat /\ obj >= 1
      /\ addr + words <= Last + 1
      /\ obj + Size[o] = addr + words
      /\ obj % Align[o] = 0
  <2>1. addr + (obj - addr) = obj
    BY <1>4
  <2>2. addr + words - 1 \in Addr /\ (addr + (obj - addr)) % Align[o] = 0
    BY <1>2 DEF Grants
  <2>3. obj % Align[o] = 0
    BY <2>1, <2>2
  <2> QED
    BY <1>4, <2>2, <2>3 DEF Addr
<1>6. MovedState(state) \in Range3
  BY DEF MovedState, Range3
<1>7. Typed'
  <2>1. obj \in Reference /\ c \in [start : Addr, bytes : Nat]
    BY <1>4, <1>5 DEF Reference
  <2> QED
    BY <1>1, <1>2, <2>1 DEF Typed
<1>8. /\ Live(o)' /\ ref'[o] = obj /\ cell'[o] = c /\ first'[o] = first[o]
      /\ rehashed'[o] = (rehashed[o] \/ state = HashedAndMoved)
  <2>1. /\ ref'[o] = obj /\ cell'[o] = c /\ first'[o] = first[o]
        /\ rehashed'[o] = (rehashed[o] \/ state = HashedAndMoved)
    BY <1>1, <1>2 DEF Typed
  <2> QED
    BY <2>1, <1>5 DEF Live, null
<1> HIDE DEF words, obj
<1>9. ASSUME NEW p \in Objects, p # o
      PROVE  /\ ref'[p] = ref[p] /\ cell'[p] = cell[p]
             /\ first'[p] = first[p] /\ rehashed'[p] = rehashed[p]
             /\ Live(p)' <=> Live(p)
             /\ Live(p) => /\ \/ addr + words <= cell[p].start
                              \/ cell[p].start + cell[p].bytes <= addr
                           /\ \A a \in Words(cell[p]) : mem'[a] = mem[a]
  <2>1. /\ ref'[p] = ref[p] /\ cell'[p] = cell[p]
        /\ first'[p] = first[p] /\ rehashed'[p] = rehashed[p]
    BY <1>1, <1>2, <1>9 DEF Typed
  <2>2. ASSUME Live(p)
        PROVE  /\ \/ addr + words <= cell[p].start
                  \/ cell[p].start + cell[p].bytes <= addr
               /\ Words(cell[p]) \cap Words(c) = {}
    BY <1>1, <1>2, <1>5, <2>2, GrantedIsFree
  <2>3. Words(c) = addr..(addr + words - 1)
    BY DEF Words
  <2>4. ASSUME Live(p), NEW a \in Words(cell[p]) PROVE mem'[a] = mem[a]
    <3>1. a \in Addr /\ a \notin Words(cell[o])
      BY <1>1, <1>3, <1>9, <2>4, Inside, Apart
    <3>2. a \notin addr..(addr + words - 1)
      BY <2>2, <2>3, <2>4
    <3> QED BY <3>1, <3>2, <1>2
  <2> QED
    BY <2>1, <2>2, <2>4 DEF Live
<1>10. CellsDisjoint'
  <2> SUFFICES ASSUME NEW p \in Objects, NEW q \in Objects,
                      Live(p)', Live(q)', p # q
               PROVE  \/ cell'[p].start + cell'[p].bytes <= cell'[q].start
                      \/ cell'[q].start + cell'[q].bytes <= cell'[p].start
    BY DEF CellsDisjoint
  <2>1. CASE p = o
    BY <2>1, <1>8, <1>9
  <2>2. CASE q = o
    BY <2>2, <1>8, <1>9
  <2>3. CASE p # o /\ q # o
    BY <2>3, <1>1, <1>9 DEF CellsDisjoint
  <2> QED BY <2>1, <2>2, <2>3
<1>11. ObjectOK(o, mem', obj, c, first'[o], rehashed'[o])
  <2>1. mem'[obj - 1].val = MovedState(state)
    BY <1>2 DEF Header
  <2>2. /\ state = Unhashed => c.start = obj - 1
        /\ state # Unhashed => c.start = obj - 2
    BY <1>4 DEF obj
  <2>3. /\ MovedState(state) = HashedAndMoved <=> state = Hashed
        /\ state # Hashed => MovedState(state) = Hashed
    BY DEF MovedState, Hashed, HashedAndMoved
  <2>4. first'[o] # NoHash /\ ~rehashed'[o] => state = Hashed /\ ref[o] = first'[o]
    BY <1>4, <1>8 DEF ObjectOK, HashState
  <2>5. /\ c.start \in {obj - 1, obj - 2} /\ c.start + c.bytes = addr + words
        /\ c.start \in Nat /\ c.bytes \in Nat
    BY <2>2, <1>4, <1>5
  <2>6. ~rehashed'[o] /\ MovedState(state) # HashedAndMoved => c.start = obj - 1
    BY <1>2, <1>8, <2>2, <2>3 DEF Range3
  <2>7. mem'[obj - 1].val = HashedAndMoved => c.start = obj - 2
    BY <2>1, <2>2, <2>3 DEF Hashed, Unhashed
  <2>8. first'[o] # NoHash /\ ~rehashed'[o] =>
           mem'[obj - 1].val = HashedAndMoved /\ mem'[obj - 2].val = first'[o]
    BY <1>2, <2>1, <2>3, <2>4
  <2> HIDE DEF c, state
  <2>9. obj + Size[o] <= c.start + c.bytes /\ c.start + c.bytes <= Last + 1
    BY <1>4, <1>5, <2>5
  <2> QED
    BY <1>2, <1>5, <1>6, <2>1, <2>5, <2>6, <2>7, <2>8, <2>9 DEF ObjectOK
<1>12. EachOK'
  <2> SUFFICES ASSUME NEW p \in Objects
               PROVE  /\ Live(p)' => ObjectOK(p, mem', ref'[p], cell'[p],
                                              first'[p], rehashed'[p])
                      /\ ~Live(p)' => first'[p] = NoHash
    BY DEF EachOK
  <2>1. CASE p = o
    BY <2>1, <1>8, <1>11
  <2>2. CASE p # o
    BY <1>1, <1>9, <2>2, OthersKeep
  <2> QED BY <2>1, <2>2
<1> QED
  BY <1>7, <1>10, <1>12, RestatedNext

\* Every step keeps the invariant.
LEMMA NextInv == IInv /\ [Next]_vars => IInv'
<1> SUFFICES ASSUME IInv, [Next]_vars PROVE IInv'
  OBVIOUS
<1>1. CASE \E o \in Objects : TakeHash(o)
  BY <1>1, TakeHashInv
<1>2. CASE \E o \in Objects : Reclaim(o)
  BY <1>2, ReclaimInv
<1>3. CASE \E o \in Objects, addr \in Addr : Allocate(o, addr)
  BY <1>3, AllocateInv
<1>4. CASE \E o \in Objects, addr \in Addr : Copy(o, addr)
  BY <1>4, CopyInv
<1>5. CASE UNCHANGED vars
  BY <1>5 DEF vars, IInv, TypeOK, CellsDisjoint, CellHolds, BodyIntact,
              HashWordThere, HashKept, RefAligned, Live, HashState
<1> QED
  BY <1>1, <1>2, <1>3, <1>4, <1>5 DEF Next

\* The invariant holds in every reachable state.
THEOREM Invariance == Spec => []IInv
  BY InitInv, NextInv, PTL DEF Spec

\* Types, and the two bits of hash state never leave their three values.
THEOREM TypeCorrect == Spec => []TypeOK
<1>1. IInv => TypeOK
  BY DEF IInv
<1> QED BY <1>1, Invariance, PTL

\* Header and fields survive every sequence of hashes and moves.
THEOREM BodyIntactThm == Spec => []BodyIntact
<1>1. IInv => BodyIntact
  BY DEF IInv
<1> QED BY <1>1, Invariance, PTL

\* References stay aligned when the header in front of them grows.
THEOREM RefAlignedThm == Spec => []RefAligned
<1>1. IInv => RefAligned
  BY DEF IInv
<1> QED BY <1>1, Invariance, PTL

\* A hash code survives the move that stores it in the object.
THEOREM HashSurvivesMoveThm == Spec => []HashSurvivesMove
<1>1. IInv => HashSurvivesMove
  BY DEF IInv, HashKept, HashSurvivesMove, HashCode, Hashed, HashedAndMoved
<1> QED BY <1>1, Invariance, PTL

\* Start and size, computed from the header, stay in the cell, and the start
\* is the cell's until a second move.
THEOREM ExtentIsCellThm == Spec => []ExtentIsCell
<1>1. ASSUME IInv PROVE ExtentIsCell
  <2> SUFFICES ASSUME NEW o \in Objects, Live(o)
               PROVE  /\ cell[o].start <= ObjectStart(o)
                      /\ ObjectStart(o) + BytesUsed(o)
                           <= cell[o].start + cell[o].bytes
                      /\ ~rehashed[o] => ObjectStart(o) = cell[o].start
    BY DEF ExtentIsCell
  <2>1. Typed /\ EachOK
    BY <1>1, Restated
  <2>2. /\ ObjectOK(o, mem, ref[o], cell[o], first[o], rehashed[o])
        /\ ref[o] \in 1..(Last + 1) /\ Size[o] \in Nat /\ Last \in Nat
        /\ cell[o].start \in Nat /\ cell[o].bytes \in Nat
    BY <2>1, Inside
  <2>3. InstanceSize(o) = Size[o]
    BY <2>2 DEF InstanceSize, ObjectOK, Header
  <2>4. CASE HashState(o) = HashedAndMoved
    <3>1. ObjectStart(o) = ref[o] - 2 /\ BytesUsed(o) = Size[o] + 2
      BY <2>2, <2>3, <2>4 DEF ObjectStart, BytesUsed, HashcodeOverhead
    <3> QED BY <2>2, <2>4, <3>1 DEF ObjectOK, HashState
  <2>5. CASE HashState(o) # HashedAndMoved
    <3>1. ObjectStart(o) = ref[o] - 1 /\ BytesUsed(o) = Size[o] + 1
      BY <2>2, <2>3, <2>5 DEF ObjectStart, BytesUsed, HashcodeOverhead
    <3> QED BY <2>2, <2>5, <3>1 DEF ObjectOK, HashState
  <2> QED BY <2>4, <2>5
<1> QED BY <1>1, Invariance, PTL

\* The reference promised before a copy is the reference of the copy.
THEOREM CopyIsWherePromisedThm == Spec => CopyIsWherePromised
<1> DEFINE Promised == \A o \in Objects : Live(o) /\ ref'[o] \notin {ref[o], null} =>
                         ref'[o] = ReferenceWhenCopiedTo(o, cell'[o].start)
<1>1. ASSUME IInv, [Next]_vars PROVE [Promised]_vars
  <2> SUFFICES ASSUME NEW o \in Objects, Live(o), ref'[o] # ref[o], ref'[o] # null
               PROVE  ref'[o] = ReferenceWhenCopiedTo(o, cell'[o].start)
    OBVIOUS
  <2>1. Typed
    BY <1>1, Restated
  <2>2. PICK p \in Objects, addr \in Addr : Copy(p, addr) /\ p = o
    <3>1. UNCHANGED vars => ref'[o] = ref[o]
      BY DEF vars
    <3>2. ASSUME NEW p \in Objects, TakeHash(p) PROVE ref'[o] = ref[o]
      BY <3>2 DEF TakeHash
    <3>3. ASSUME NEW p \in Objects, Reclaim(p) PROVE ref'[o] \in {ref[o], null}
      BY <3>3, <2>1 DEF Reclaim, Typed
    <3>4. ASSUME NEW p \in Objects, NEW addr \in Addr, Allocate(p, addr)
          PROVE  ref'[o] = ref[o]
      BY <3>4, <2>1 DEF Allocate, Typed
    <3>5. ASSUME NEW p \in Objects, NEW addr \in Addr, Copy(p, addr)
          PROVE  p = o
      BY <3>5, <2>1 DEF Copy, MoveObject, Typed
    <3> QED BY <1>1, <3>1, <3>2, <3>3, <3>4, <3>5 DEF Next
  <2>3. /\ ref' = [ref EXCEPT
                    ![o] = addr + 1 + (IF HashState(o) = Unhashed THEN 0 ELSE 1)]
        /\ cell'[o].start = addr
    BY <1>1, <2>1, <2>2, CopyEffect DEF Typed
  <2> QED
    BY <2>1, <2>3 DEF ReferenceWhenCopiedTo, HashcodeOverhead, Typed
<1> QED BY <1>1, Invariance, PTL DEF Spec, CopyIsWherePromised
=============================================================================
