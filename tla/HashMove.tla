------------------------------ MODULE HashMove ------------------------------
(***************************************************************************)
(* Address-based hash codes of objects that a collection moves, from       *)
(* vmkit/src/object_model.rs, object_model/object.rs and header.rs, with   *)
(* the feature address_based_hashing, which is on by default.              *)
(*                                                                         *)
(* Memory is an array of words, and all sizes, offsets and addresses count *)
(* words: an address shifted by LOG_BYTES_IN_ADDRESS is the address here.  *)
(* A reference points behind the header; the hash word of a moved object   *)
(* comes before its header:                                                *)
(*                                                                         *)
(*      ref - 2     ref - 1     ref  ...  ref + Size - 1                   *)
(*     (hash)       header      fields                                     *)
(*                                                                         *)
(* The header holds two bits of hash state and the runtime's metadata,     *)
(* from which the size is computed; the metadata is the object's name.     *)
(* The collector copies objects one by one, while no mutator runs, to      *)
(* cells that MMTk's allocator grants.  A cell that is given back holds    *)
(* Junk.  copy_to, which a compacting plan uses, is not modelled.          *)
(***************************************************************************)
EXTENDS Integers

CONSTANTS
    Objects,    \* objects that may exist at one time
    Nobody,     \* the name in a word that belongs to no object
    Size,       \* words of each object's instance
    Align,      \* its alignment in words
    Last        \* bound: the last address of the heap

ASSUME HashConstants ==
    /\ Nobody \notin Objects
    /\ Size \in [Objects -> Nat]
    /\ Align \in [Objects -> Nat \ {0}]
    /\ Last \in Nat

VARIABLES
    mem,        \* the heap, word by word
    ref,        \* the reference of each object, or null
    cell,       \* what the allocator granted for it: first word and length
    first,      \* history: the first hash code that was handed out
    rehashed    \* history: moved again after its hash code was stored

vars == <<mem, ref, cell, first, rehashed>>

Addr == 0..Last
Reference == 0..(Last + 1)  \* an object without fields ends where it begins
null == 0
NoHash == 0
NoCell == [start |-> 0, bytes |-> 0]

\* HashState, as it is encoded in the header.
Unhashed == 0
Hashed == 1
HashedAndMoved == 2

Header(o, state) == [tag |-> "header", obj |-> o, val |-> state]
Field(o, i) == [tag |-> "field", obj |-> o, val |-> i]
HashWord(h) == [tag |-> "hash", obj |-> Nobody, val |-> h]
Junk == [tag |-> "junk", obj |-> Nobody, val |-> 0]

Live(o) == ref[o] # null

HashState(o) == mem[ref[o] - 1].val

Word == [tag : {"header", "field", "hash", "junk"},
         obj : Objects \cup {Nobody}, val : Nat]

TypeOK ==
    /\ mem \in [Addr -> Word]
    /\ ref \in [Objects -> Reference]
    /\ cell \in [Objects -> [start : Addr, bytes : Nat]]
    /\ first \in [Objects -> Nat]
    /\ rehashed \in [Objects -> BOOLEAN]
    /\ \A o \in Objects : Live(o) =>
          HashState(o) \in {Unhashed, Hashed, HashedAndMoved}

Init ==
    /\ mem = [a \in Addr |-> Junk]
    /\ ref = [o \in Objects |-> null]
    /\ cell = [o \in Objects |-> NoCell]
    /\ first = [o \in Objects |-> NoHash]
    /\ rehashed = [o \in Objects |-> FALSE]

-----------------------------------------------------------------------------
(* Sizes and offsets, computed from the header                             *)

InstanceSize(o) == Size[mem[ref[o] - 1].obj]

\* Mutant: the copy of an object that has been hashed gets no hash word.
MutHashcodeOverhead(o, whenCopied) ==
    IF HashState(o) = HashedAndMoved THEN 1 ELSE 0

HashcodeOverhead(o, whenCopied) ==
    IF \/ whenCopied /\ HashState(o) # Unhashed
       \/ ~whenCopied /\ HashState(o) = HashedAndMoved
    THEN 1 ELSE 0

BytesUsed(o) == HashcodeOverhead(o, FALSE) + InstanceSize(o) + 1

BytesRequiredWhenCopied(o) == HashcodeOverhead(o, TRUE) + InstanceSize(o) + 1

ObjectStart(o) == ref[o] - (1 + HashcodeOverhead(o, FALSE))

\* Mutant: aligns the header instead of what follows it.
MutOffsetForAlignment(o) == 1

OffsetForAlignment(o) == 1 + HashcodeOverhead(o, TRUE)

\* Mutant: the header the copy will have is taken for the present one.
MutReferenceWhenCopiedTo(o, addr) == addr + 1 + HashcodeOverhead(o, FALSE)

ReferenceWhenCopiedTo(o, addr) == addr + 1 + HashcodeOverhead(o, TRUE)

HashCode(o) ==
    IF HashState(o) = HashedAndMoved THEN mem[ref[o] - 2].val ELSE ref[o]

-----------------------------------------------------------------------------
(* MMTk's allocator: a cell of `bytes` words, aligned at `offset`, in      *)
(* memory that no object has.                                              *)

Words(c) == c.start .. (c.start + c.bytes - 1)

Grants(addr, bytes, align, offset) ==
    /\ addr + bytes - 1 \in Addr
    /\ (addr + offset) % align = 0
    /\ \A p \in Objects : Live(p) =>
          \/ addr + bytes <= cell[p].start
          \/ cell[p].start + cell[p].bytes <= addr

AlignUp(n, align) == ((n + align - 1) \div align) * align

\* MemoryManager::allocate with Default semantics; the runtime then sets the
\* fields.
Allocate(o, addr) ==
    LET bytes == AlignUp(Size[o] + 1, Align[o])
        obj == addr + 1
    IN  /\ ~Live(o)
        /\ Grants(addr, bytes, Align[o], 1)
        /\ mem' = [a \in Addr |->
                     IF a = addr THEN Header(o, Unhashed)
                     ELSE IF a \in obj..(obj + Size[o] - 1) THEN Field(o, a - obj)
                     ELSE mem[a]]
        /\ ref' = [ref EXCEPT ![o] = obj]
        /\ cell' = [cell EXCEPT ![o] = [start |-> addr, bytes |-> bytes]]
        /\ UNCHANGED <<first, rehashed>>

\* VMKitObject::hashcode, called by a mutator.
TakeHash(o) ==
    /\ Live(o)
    /\ mem' = [mem EXCEPT ![ref[o] - 1].val =
                 IF @ = HashedAndMoved THEN @ ELSE Hashed]
    /\ first' = [first EXCEPT ![o] = IF @ = NoHash THEN HashCode(o) ELSE @]
    /\ UNCHANGED <<ref, cell, rehashed>>

-----------------------------------------------------------------------------
(* Moving                                                                  *)

MovedState(state) == IF state = Hashed THEN HashedAndMoved ELSE Hashed

\* Mutant: takes the hash word off although the source has one.
MutCopyBytes(o) == BytesRequiredWhenCopied(o) - HashcodeOverhead(o, TRUE)

\* The words that move_object copies.
CopyBytes(o) ==
    BytesRequiredWhenCopied(o) - (IF HashState(o) = Hashed THEN 1 ELSE 0)

\* Mutant: hashes the new address.
MutStoredHash(o, toObj) == toObj

\* The hash code that move_object stores with the copy at toObj.
StoredHash(o, toObj) == ref[o]

\* move_object to the address addr: what memory holds afterwards, once the
\* collector has given back the old cell.
MoveObject(o, addr) ==
    LET state == HashState(o)
        objRefOffset == IF state = HashedAndMoved THEN 2 ELSE 1
        to == IF state = Hashed THEN addr + 1 ELSE addr
        toObj == to + objRefOffset
        from == ref[o] - objRefOffset
        copied == [a \in Addr |->
                     IF a \in to..(to + CopyBytes(o) - 1) THEN mem[from + (a - to)]
                     ELSE IF a \in Words(cell[o]) THEN Junk
                     ELSE mem[a]]
        withHash == IF state = Hashed
                      THEN [copied EXCEPT ![toObj - 2] =
                              HashWord(StoredHash(o, toObj))]
                      ELSE copied
    IN  /\ mem' = [withHash EXCEPT ![toObj - 1].val = MovedState(state)]
        /\ ref' = [ref EXCEPT ![o] = toObj]

\* ObjectModel::copy, called by a collector.
Copy(o, addr) ==
    LET bytes == BytesRequiredWhenCopied(o)
    IN  /\ Live(o)
        /\ Grants(addr, bytes, Align[o], OffsetForAlignment(o))
        /\ MoveObject(o, addr)
        /\ cell' = [cell EXCEPT ![o] = [start |-> addr, bytes |-> bytes]]
        /\ rehashed' = [rehashed EXCEPT
                          ![o] = @ \/ HashState(o) = HashedAndMoved]
        /\ UNCHANGED first

\* A collection finds that nobody refers to the object.
Reclaim(o) ==
    /\ Live(o)
    /\ mem' = [a \in Addr |-> IF a \in Words(cell[o]) THEN Junk ELSE mem[a]]
    /\ ref' = [ref EXCEPT ![o] = null]
    /\ cell' = [cell EXCEPT ![o] = NoCell]
    /\ first' = [first EXCEPT ![o] = NoHash]
    /\ rehashed' = [rehashed EXCEPT ![o] = FALSE]

Next ==
    \E o \in Objects :
        \/ TakeHash(o) \/ Reclaim(o)
        \/ \E addr \in Addr : Allocate(o, addr) \/ Copy(o, addr)

Spec == Init /\ [][Next]_vars

-----------------------------------------------------------------------------
(* Safety                                                                  *)

\* However often an object is hashed and moved, its header and its fields
\* arrive whole and no move of another object writes over them.  (move_object
\* has three layouts to copy between, with its own count of bytes and its own
\* offset on either side.)
BodyIntact ==
    \A o \in Objects : Live(o) =>
        /\ mem[ref[o] - 1] = Header(o, HashState(o))
        /\ \A i \in 0..(Size[o] - 1) : mem[ref[o] + i] = Field(o, i)

\* A hash code that was handed out stays the object's hash code across the
\* move that stores it in the object.
HashSurvivesMove ==
    \A o \in Objects :
        Live(o) /\ first[o] # NoHash /\ ~rehashed[o] => HashCode(o) = first[o]

\* Where the object starts and how much it uses, as computed from its header,
\* is the cell the allocator granted for it, until it is moved again after
\* its hash code was stored.  (A heap walk steps over objects by these sizes.)
ExtentIsCell ==
    \A o \in Objects : Live(o) =>
        /\ cell[o].start <= ObjectStart(o)
        /\ ObjectStart(o) + BytesUsed(o) <= cell[o].start + cell[o].bytes
        /\ ~rehashed[o] => ObjectStart(o) = cell[o].start

\* References stay aligned, although the header in front of them grows when a
\* hashed object is moved.
RefAligned ==
    \A o \in Objects : Live(o) => ref[o] % Align[o] = 0

\* A copy has the reference that get_reference_when_copied_to promised before
\* the copy was made.  (A plan may forward references before it moves.)
CopyIsWherePromised ==
    [][\A o \in Objects : Live(o) /\ ref'[o] \notin {ref[o], null} =>
          ref'[o] = ReferenceWhenCopiedTo(o, cell'[o].start)]_vars

\* "If GC moves the object, object hash is stored in the object itself"
\* (object_model/object.rs:25-27): the hash code of an object never changes.
\* A second move after the one that stored it sets the state back to Hashed,
\* and the next hash code is the new address.
HashNeverChanges ==
    \A o \in Objects : Live(o) /\ first[o] # NoHash => HashCode(o) = first[o]

-----------------------------------------------------------------------------
(* The inductive invariant behind the safety properties                    *)

CellsDisjoint ==
    \A o, p \in Objects : Live(o) /\ Live(p) /\ o # p =>
        \/ cell[o].start + cell[o].bytes <= cell[p].start
        \/ cell[p].start + cell[p].bytes <= cell[o].start

\* The cell of an object holds its header and fields, in the heap, and in front
\* of them at most a word for the hash code.
CellHolds ==
    \A o \in Objects : Live(o) =>
        /\ cell[o].start \in {ref[o] - 1, ref[o] - 2}
        /\ ref[o] + Size[o] <= cell[o].start + cell[o].bytes
        /\ cell[o].start + cell[o].bytes <= Last + 1

\* There is a hash word exactly in the cells of objects whose state says so,
\* except that a second move hides it.
HashWordThere ==
    \A o \in Objects : Live(o) =>
        /\ HashState(o) = HashedAndMoved => cell[o].start = ref[o] - 2
        /\ ~rehashed[o] /\ HashState(o) # HashedAndMoved =>
              cell[o].start = ref[o] - 1

\* Where the first hash code can be found again.
HashKept ==
    \A o \in Objects :
        /\ ~Live(o) => first[o] = NoHash
        /\ Live(o) /\ first[o] # NoHash /\ ~rehashed[o] =>
              \/ HashState(o) = Hashed /\ ref[o] = first[o]
              \/ HashState(o) = HashedAndMoved /\ mem[ref[o] - 2].val = first[o]

IInv ==
    /\ TypeOK
    /\ CellsDisjoint
    /\ CellHolds
    /\ BodyIntact
    /\ HashWordThere
    /\ HashKept
    /\ RefAligned
=============================================================================
