----------------------------- MODULE BdwgcShim -----------------------------
(***************************************************************************)
(* The Boehm collector's interface over VMKit: allocation, typed objects,  *)
(* registered roots, disappearing links and finalizers, from               *)
(* vmkit/src/bdwgc_shim.rs and object_model/finalization.rs.               *)
(*                                                                         *)
(* An object is its name and an array of words; a word holds an object's   *)
(* address or Null.  The shim is built with signal-based suspension, so a  *)
(* collection may stop a thread anywhere.  In a call that changes tables   *)
(* under a lock, the collector, which takes it too, waits for that lock    *)
(* forever (StopInCall); a call that has the lock ends before or begins    *)
(* after any other collection, so it is one step.  Allocation holds no     *)
(* lock: it is two steps, up to the header and from set_vo_bit on, and a   *)
(* collection may come in between.  Objects do not move                    *)
(* (immix_non_moving).  GC_disable and GC_enable only count and do not     *)
(* disable collections; they are not modelled.                             *)
(***************************************************************************)
EXTENDS Integers, FiniteSets, Sequences

CONSTANTS
    Objects,
    Null,
    NWords,         \* words of every object
    Descriptors,    \* what clients make for GC_new_kind without GC_make_descriptor
    Procedures,     \* mark procedures: the words that each pushes
    Links,          \* the disappearing links that clients register
    Spans,          \* bound: the objects that registered spans may point to
    MAXOBJKINDS,    \* the code's limit on kinds
    GC_MAX_MARK_PROCS,
    MaxDue          \* bound: finalizers of each object not yet run

Words == 1..NWords

\* The tag of a descriptor.  One that is kept elsewhere, per object, is in the
\* object itself or in a type descriptor that its first word points to.
PerObject == {"direct", "indirect"}
Tags == {"length", "bitmap", "proc"} \cup PerObject

ASSUME ShimConstants ==
    /\ Null \notin Objects
    /\ NWords \in 1..3
    /\ Descriptors \subseteq [tag : Tags, words : SUBSET Words, proc : Nat \ {0},
                              named : SUBSET Words]
    /\ \A d \in Descriptors : d.tag \in {"length", "bitmap"} => d.named = d.words
    /\ Procedures \subseteq SUBSET Words
    /\ Spans \subseteq Objects
    /\ Links \subseteq [object : Objects, home : Objects, word : Words]
    /\ MAXOBJKINDS \in Nat
    /\ GC_MAX_MARK_PROCS \in Nat
    /\ MaxDue \in [Objects -> Nat]

VARIABLES
    heap,       \* objects with a VO bit
    fresh,      \* objects whose header is stored and whose set_vo_bit is to come
    free,       \* what MMTk may hand out
    immortal,   \* objects in its immortal space
    kind,       \* metadata: a plain kind or an index of obj_kinds
    words,      \* contents
    stack,      \* objects that stacks, registers and static data point to
    roots,      \* objects that spans of BDWGC.roots point to
    obj_kinds,  \* the descriptors of BDWGC.obj_kinds
    mark_procs, \* the procedures of BDWGC.mark_procs
    links,      \* BDWGC.disappearing_links: an object and a word to clear
    registered, \* REGISTERED_FINALIZERS: how many each object has
    pending,    \* PENDING_FINALIZERS
    gc,         \* the phase of the collection
    marked,     \* objects the collection has reached
    due,        \* history: finalizers registered and not yet run
    revived     \* history: objects the last collection made pending

clientVars == <<stack, roots, obj_kinds, mark_procs>>
heapVars == <<heap, fresh, free, immortal, kind, words>>
finalizerVars == <<registered, pending, due, revived>>
collectorVars == <<gc, marked>>
vars == <<clientVars, heapVars, links, finalizerVars, collectorVars>>

Composite == 0
Atomic == -1
Zeroed == -2       \* no header: the size in it is 0
PlainKinds == {Composite, Atomic}
Kinds == PlainKinds \cup {Zeroed} \cup (1..MAXOBJKINDS)
Tracing == {"links", "finalizers", "sweep"}
Phases == {"idle", "waiting", "looping"} \cup Tracing

IsPrefix(S) == \A i \in S : 1..i \subseteq S

\* GC_make_descriptor of a bitmap of up to three words, which the client names.
\* A bitmap that is not a prefix gives 0.  A prefix gives its length in words,
\* which the callback takes for a tag: 1 is an empty bitmap, 2 the first mark
\* procedure and 3 a descriptor in the object.
GC_make_descriptor(S) ==
    [tag |-> IF IsPrefix(S)
               THEN <<"length", "bitmap", "proc", "direct">>[Cardinality(S) + 1]
               ELSE "length",
     words |-> {}, proc |-> 1, named |-> S]

ClientDescriptors == Descriptors \cup {GC_make_descriptor(S) : S \in SUBSET Words}

TypeOK ==
    /\ heap \subseteq Objects
    /\ fresh \subseteq Objects
    /\ free \subseteq Objects
    /\ immortal \subseteq Objects
    /\ kind \in [Objects -> Kinds]
    /\ words \in [Objects -> [Words -> Objects \cup {Null}]]
    /\ stack \subseteq Objects
    /\ roots \subseteq Objects
    /\ obj_kinds \in Seq(ClientDescriptors) /\ Len(obj_kinds) <= MAXOBJKINDS
    /\ mark_procs \in Seq(Procedures) /\ Len(mark_procs) <= GC_MAX_MARK_PROCS
    /\ links \subseteq Links
    /\ registered \in [Objects -> Nat]
    /\ pending \in [Objects -> Nat]
    /\ gc \in Phases
    /\ marked \subseteq Objects
    /\ due \in [Objects -> Nat]
    /\ revived \subseteq Objects
    /\ \A o \in Objects : kind[o] \in PlainKinds \cup {Zeroed} \cup (1..Len(obj_kinds))

Blank == [i \in Words |-> Null]

Init ==
    /\ heap = {}
    /\ fresh = {}
    /\ free = Objects
    /\ immortal = {}
    /\ kind = [o \in Objects |-> Zeroed]
    /\ words = [o \in Objects |-> Blank]
    /\ stack = {}
    /\ roots = {}
    /\ obj_kinds = <<>>
    /\ mark_procs = <<>>
    /\ links = {}
    /\ registered = [o \in Objects |-> 0]
    /\ pending = [o \in Objects |-> 0]
    /\ gc = "idle"
    /\ marked = {}
    /\ due = [o \in Objects |-> 0]
    /\ revived = {}

-----------------------------------------------------------------------------
(* What the trace callback of CONSERVATIVE_METADATA does with an object    *)

IsTyped(o) == kind[o] \in 1..Len(obj_kinds)

Descriptor(o) == obj_kinds[kind[o]]

Registered(d) == d.proc \in 1..Len(mark_procs)

\* The words that the callback looks at: of a bitmap those before its first clear
\* bit, where it does not get any further; those that a mark procedure pushes, if
\* there is one; none if the descriptor is kept elsewhere.
Followed(d) ==
    CASE d.tag \in {"length", "bitmap"} -> d.words
      [] d.tag = "proc" /\ Registered(d) -> mark_procs[d.proc]
      [] OTHER -> {}

\* A loop of the callback does not end: for a bitmap when it comes to a clear
\* bit before the last set one, for a descriptor in the object always, because
\* the next round reads the descriptor of the kind again.
Hangs(o) ==
    IsTyped(o) /\ \/ Descriptor(o).tag = "bitmap" /\ ~IsPrefix(Descriptor(o).words)
                  \/ Descriptor(o).tag = "direct"

\* So it does for a type descriptor, unless that has 0 for the object.
MayHang(o) ==
    IsTyped(o) /\ Descriptor(o).tag = "indirect" /\ words[o][1] # Null

\* Mutant: typed objects are scanned like atomic ones.
MutScanned(o) == IF kind[o] = Composite THEN Words ELSE {}

\* The words in which the callback looks for pointers.
Scanned(o) ==
    CASE kind[o] = Composite -> Words
      [] IsTyped(o) -> Followed(Descriptor(o))
      [] OTHER -> {}

\* A word is a pointer when find_object_from_internal_pointer finds a VO bit.
Found(S) == S \cap heap

Targets(o, S) == Found({words[o][i] : i \in S})

\* Tracing from S: the least set with its objects that is closed under the
\* words that F names.
Closed(C, F) == \A p \in C : Targets(p, F[p]) \subseteq C

Closure(S, F) ==
    {o \in heap : \A C \in SUBSET heap : Found(S) \subseteq C /\ Closed(C, F) => o \in C}

Trace(S) == Closure(S, [o \in Objects |-> Scanned(o)])

-----------------------------------------------------------------------------
(* The client                                                              *)

Client == gc = "idle" /\ UNCHANGED collectorVars

\* The objects that the client has got.
Has == stack \ fresh

\* GC_generic_malloc takes a kind that GC_new_kind has given out.
AllocKinds == PlainKinds \cup (1..Len(obj_kinds))

\* Up to the header: GC_malloc and its variants, GC_malloc_atomic (and GC_strdup),
\* GC_generic_malloc and GC_realloc; explicitly typed objects are composite, as
\* their descriptor is dropped.  The uncollectable variants of GC_malloc and
\* GC_generic_malloc ask for the immortal space.
GC_malloc(o, k, uncollectable) ==
    /\ Client
    /\ o \in free \ fresh
    /\ k \in AllocKinds /\ (uncollectable => k # Atomic)
    /\ free' = free \ {o}
    /\ fresh' = fresh \cup {o}
    /\ immortal' = IF uncollectable THEN immortal \cup {o} ELSE immortal \ {o}
    /\ kind' = [kind EXCEPT ![o] = k]
    /\ words' = [words EXCEPT ![o] = Blank]
    /\ stack' = stack \cup {o}
    /\ UNCHANGED <<heap, roots, obj_kinds, mark_procs, links, finalizerVars>>

\* set_vo_bit, and the return to the client.
FinishMalloc(o) ==
    /\ Client
    /\ o \in fresh
    /\ heap' = heap \cup {o}
    /\ fresh' = fresh \ {o}
    /\ UNCHANGED <<free, immortal, kind, words, clientVars, links, finalizerVars>>

\* GC_realloc asks the old object's header; the descriptor of a typed object
\* and the immortality of an uncollectable one are lost.
ReallocKind(o) == IF kind[o] = Atomic THEN Atomic ELSE Composite

\* It copies to what it has allocated so.  (It copies as much as the new object
\* holds, beyond the end of an old one that is smaller; all have one size here.)
GC_realloc(o, p) ==
    /\ Client
    /\ o \in Has /\ p \in Has
    /\ kind[p] = ReallocKind(o) /\ p \notin immortal /\ words[p] = Blank
    /\ words' = [words EXCEPT ![p] = words[o]]
    /\ UNCHANGED <<heap, fresh, free, immortal, kind, clientVars, links, finalizerVars>>

\* The client stores a pointer it has, or Null.  Atomic objects are for data that
\* holds no pointers.
Store(o, i, v) ==
    /\ Client
    /\ o \in Has /\ kind[o] # Atomic
    /\ v \in Has \cup {Null}
    /\ words' = [words EXCEPT ![o][i] = v]
    /\ UNCHANGED <<heap, fresh, free, immortal, kind, clientVars, links, finalizerVars>>

\* The client reads a word that the collector scans, a registered link or a
\* registered root, or forgets a pointer.
Load(p) ==
    /\ Client
    /\ \/ \E o \in Has : \E i \in Scanned(o) : p = words[o][i] /\ p # Null
       \/ \E l \in links : l.home \in Has /\ words[l.home][l.word] = p
                             /\ l.object = p
       \/ p \in roots
    /\ stack' = stack \cup {p}
    /\ UNCHANGED <<heapVars, roots, obj_kinds, mark_procs, links, finalizerVars>>

Forget(o) ==
    /\ Client
    /\ o \in Has
    /\ stack' = stack \ {o}
    /\ UNCHANGED <<heapVars, roots, obj_kinds, mark_procs, links, finalizerVars>>

\* GC_new_kind panics when the table is full.
MayAddKind == Len(obj_kinds) < MAXOBJKINDS

GC_new_kind(d) ==
    /\ Client
    /\ MayAddKind
    /\ obj_kinds' = Append(obj_kinds, d)
    /\ UNCHANGED <<heapVars, stack, roots, mark_procs, links, finalizerVars>>

\* GC_new_proc panics when its table is full.
GC_new_proc(S) ==
    /\ Client
    /\ Len(mark_procs) < GC_MAX_MARK_PROCS
    /\ mark_procs' = Append(mark_procs, S)
    /\ UNCHANGED <<heapVars, stack, roots, obj_kinds, links, finalizerVars>>

\* GC_add_roots, GC_remove_roots and GC_clear_roots.
GC_roots(S) ==
    /\ Client
    /\ \/ \E o \in Has \cap Spans : S = roots \cup {o}
       \/ \E o \in roots : S = roots \ {o}
       \/ S = {}
    /\ roots' = S
    /\ UNCHANGED <<heapVars, obj_kinds, mark_procs, stack, links, finalizerVars>>

\* GC_general_register_disappearing_link; GC_register_disappearing_link takes
\* the object that contains the word (home = object).
GC_register_disappearing_link(l) ==
    /\ Client
    /\ l.object \in Has /\ l.home \in Has
    /\ links' = links \cup {l}
    /\ UNCHANGED <<heapVars, clientVars, finalizerVars>>

\* Finds a link only by the object that contains the word.
GC_unregister_disappearing_link(home, i) ==
    /\ Client
    /\ home \in Has
    /\ links' = links \ {[object |-> home, home |-> home, word |-> i]}
    /\ UNCHANGED <<heapVars, clientVars, finalizerVars>>

\* The four GC_register_finalizer functions do the same.
GC_register_finalizer(o) ==
    /\ Client
    /\ o \in Has
    /\ due[o] < MaxDue[o]
    /\ registered' = [registered EXCEPT ![o] = @ + 1]
    /\ due' = [due EXCEPT ![o] = @ + 1]
    /\ UNCHANGED <<heapVars, clientVars, links, pending, revived>>

\* Mutant: looks at the finalizer without taking it out.
MutPopped(o) == pending

\* What get_finalized_object leaves pending.
Popped(o) == [pending EXCEPT ![o] = @ - 1]

\* One round of run_finalizers: the callback gets the object.  (The code hands
\* out the address of an object that a later collection has reclaimed, too.)
RunFinalizer(o) ==
    /\ Client
    /\ pending[o] > 0
    /\ pending' = Popped(o)
    /\ due' = [due EXCEPT ![o] = @ - 1]
    /\ stack' = IF o \in heap THEN stack \cup {o} ELSE stack
    /\ UNCHANGED <<heapVars, roots, obj_kinds, mark_procs, links, registered, revived>>

-----------------------------------------------------------------------------
(* A collection, while all threads are stopped                             *)

\* The collection has stopped a call that holds the lock of the roots, the links
\* or one of the queues of finalizers.  It takes all of them and waits forever.
StopInCall ==
    /\ gc = "idle"
    /\ gc' = "waiting"
    /\ UNCHANGED <<clientVars, heapVars, links, finalizerVars, marked>>

\* The closure from S, in which the callback may loop forever.
Reach(S) ==
    /\ marked' = Trace(S)
    /\ \/ gc' = "looping" /\ \E o \in Trace(S) : Hangs(o) \/ MayHang(o)
       \/ gc' = "links" /\ \A o \in Trace(S) : ~Hangs(o)

\* Mutant: registered roots are left out.
MutRootObjects == stack

RootObjects == stack \cup roots

\* Stopped between two steps of every thread: scan_roots_in_mutator_thread and
\* scan_vm_specific_roots, which locks roots.
ScanRoots ==
    /\ gc = "idle"
    /\ Reach(RootObjects)
    /\ UNCHANGED <<clientVars, heapVars, links, finalizerVars>>

Dead(l) == l.object \notin marked

\* Mutant: links of dead objects are cleared and kept.
MutKeptLinks == links

KeptLinks == {l \in links : ~Dead(l)}

\* process_weak_refs: clears the links of objects that were not reached.
ClearLinks ==
    /\ gc = "links"
    /\ links' = KeptLinks
    /\ words' = [o \in Objects |-> [i \in Words |->
                   IF \E l \in links : Dead(l) /\ l.home = o /\ l.word = i
                     THEN Null ELSE words[o][i]]]
    /\ gc' = "finalizers"
    /\ UNCHANGED <<clientVars, heap, fresh, free, immortal, kind, finalizerVars, marked>>

\* Mutant: the object is queued and not traced.
MutRevive(S) == marked

\* The objects that the closure after the finalizers has reached.
Revive(S) == marked \cup S

\* Mutant: asks for another round whether it has found anything or not.
MutClosureRequired(found) == TRUE

\* Whether process has traced anything.
ClosureRequired(found) == found # {}

\* FinalizerProcessing::process: one finalizer of each object that was not
\* reached becomes pending, and the object is traced, which keeps its other
\* finalizers registered.  Then MMTk calls process_weak_refs again.
ProcessFinalizers ==
    LET found == {o \in Objects : registered[o] > 0 /\ o \notin marked}
    IN  /\ gc = "finalizers"
        /\ registered' = [o \in Objects |-> registered[o] - (IF o \in found THEN 1 ELSE 0)]
        /\ pending' = [o \in Objects |-> pending[o] + (IF o \in found THEN 1 ELSE 0)]
        /\ revived' = revived \cup found
        /\ IF ClosureRequired(found) THEN Reach(Revive(found))
                                     ELSE gc' = "sweep" /\ UNCHANGED marked
        /\ UNCHANGED <<clientVars, heapVars, links, due>>

\* MMTk takes back what was not reached, outside the immortal space: also the
\* memory of an object that has no VO bit yet.
Survivors == marked \cup immortal

\* It zeroes that memory (immix_zero_on_release).
Sweep ==
    /\ gc = "sweep"
    /\ gc' = "idle"
    /\ heap' = heap \cap Survivors
    /\ free' = Objects \ Survivors
    /\ kind' = [o \in Objects |-> IF o \in Survivors THEN kind[o] ELSE Zeroed]
    /\ words' = [o \in Objects |-> IF o \in Survivors THEN words[o] ELSE Blank]
    /\ revived' = {}
    /\ marked' = {}
    /\ UNCHANGED <<clientVars, fresh, immortal, links, registered, pending, due>>

-----------------------------------------------------------------------------

LockedCall ==
    \/ \E S \in SUBSET Objects : GC_roots(S)
    \/ \E l \in Links : GC_register_disappearing_link(l)
    \/ \E o \in Objects : \E i \in Words : GC_unregister_disappearing_link(o, i)
    \/ \E o \in Objects : GC_register_finalizer(o) \/ RunFinalizer(o)

Collection == StopInCall \/ ScanRoots \/ ClearLinks \/ ProcessFinalizers \/ Sweep

Next ==
    \/ \E o \in Objects :
          \/ \E k \in Kinds, u \in BOOLEAN : GC_malloc(o, k, u)
          \/ FinishMalloc(o)
          \/ \E p \in Objects : GC_realloc(o, p)
          \/ \E i \in Words, v \in Objects \cup {Null} : Store(o, i, v)
          \/ Load(o) \/ Forget(o)
    \/ \E d \in ClientDescriptors : GC_new_kind(d)
    \/ \E S \in Procedures : GC_new_proc(S)
    \/ LockedCall
    \/ Collection

Spec == Init /\ [][Next]_vars

FairSpec == Spec /\ WF_vars(ClearLinks \/ ProcessFinalizers \/ Sweep)

-----------------------------------------------------------------------------
(* Properties                                                              *)

\* Descriptors that do not do what the client named with them: all that
\* GC_make_descriptor makes of a bitmap that is not empty, those with a mark
\* procedure that is not registered or pushes other words, and those whose
\* descriptor is kept elsewhere.
Unfaithful(d) ==
    \/ d \in {GC_make_descriptor(S) : S \in (SUBSET Words) \ {{}}}
    \/ d.tag = "proc" /\ (Registered(d) => ~(d.named \subseteq mark_procs[d.proc]))
    \/ d.tag \in PerObject

\* What a client may use by the contract of the Boehm collector: what its
\* stacks and registered roots lead to through the words of composite objects
\* and the words that it named for typed ones.  Two things break the contract,
\* and lead nowhere here: objects of an unfaithful descriptor, and objects
\* whose header a collection has zeroed before they had their VO bit.
Promised(o) ==
    CASE kind[o] = Composite -> Words
      [] IsTyped(o) /\ ~Unfaithful(Descriptor(o)) -> Descriptor(o).named
      [] OTHER -> {}

LeadsTo(S) == Closure(S, [o \in Objects |-> Promised(o)])

Reachable == LeadsTo(stack \cup roots)

\* A collection takes back no object that the client can reach through objects
\* of any faithful kind, nor one that it is about to get, but for this: an object
\* that a signal has kept from getting its VO bit (CONSERVATIVE_METADATA.trace,
\* scan_vm_specific_roots; mm.rs:142-151).
NothingReachableLost ==
    [][\A o \in Reachable \cup (stack \cap fresh) :
          (o \in heap \ heap' \/ o \in free' \ free) => o \in fresh \ heap]_vars

\* process_weak_refs clears no link and FinalizerProcessing::process finalizes no
\* object that the client can still reach through objects of faithful kinds.
OnlyDeadObjects ==
    [][/\ \A l \in links \ links' : gc = "links" => l.object \notin Reachable
       /\ \A o \in Objects : pending'[o] > pending[o] => o \notin Reachable]_vars

\* A collection reclaims no object that a registered link refers to: the link
\* would later clear a word because of whatever has got the address.  (The word
\* may lie in an object that is reclaimed; then the link clears what comes there.)
NoStaleLinks ==
    [][gc = "sweep" => \A l \in links : l.object \in heap => l.object \in heap']_vars

\* Each finalizer that was registered waits in exactly one of the two queues
\* until it has run, once.
FinalizersConserved == \A o \in Objects : due[o] = registered[o] + pending[o]

\* An object whose finalizer became pending, and all it leads to through objects
\* of faithful kinds, is there for the finalizer after the collection.
RevivedSurvive == [][gc = "sweep" => LeadsTo(revived) \subseteq heap']_vars

\* A descriptor with which the callback returns.
Harmless(d) ==
    \/ d.tag \in {"length", "proc"}
    \/ d.tag = "bitmap" /\ IsPrefix(d.words)

\* A collection that has stopped no call that holds a lock ends, unless the
\* descriptor of some kind makes the callback loop: its rounds of links and
\* finalizers come to an end (CONSERVATIVE_METADATA.trace, process_weak_refs).
CollectionEnds ==
    (/\ gc \in Tracing \cup {"looping"}
     /\ \A k \in 1..Len(obj_kinds) : Harmless(obj_kinds[k])) ~> gc = "idle"

-----------------------------------------------------------------------------
(* The inductive invariant                                                 *)

\* What has been reached is closed, and holds the roots and the revived.
MarkedIsClosed ==
    \A p \in marked : \A i \in Scanned(p) : words[p][i] \in heap => words[p][i] \in marked

MarkedHoldsRoots ==
    gc \in Tracing => /\ marked \subseteq heap
                      /\ MarkedIsClosed
                      /\ Found(stack \cup roots) \subseteq marked
                      /\ Found(revived) \subseteq marked

LinksAreLive ==
    gc \in {"finalizers", "sweep"} => \A l \in links : ~Dead(l)

NothingRevived == gc = "idle" => revived = {}

IInv ==
    /\ TypeOK
    /\ FinalizersConserved
    /\ MarkedHoldsRoots
    /\ LinksAreLive
    /\ NothingRevived
=============================================================================
