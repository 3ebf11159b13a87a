-------------------------- MODULE BdwgcShim_proofs --------------------------
(***************************************************************************)
(* Proofs about BdwgcShim, for every set of objects and links, every       *)
(* number of kinds and mark procedures and every number of finalizers.     *)
(***************************************************************************)
EXTENDS BdwgcShim, TLAPS

ScannedWords == [o \in Objects |-> Scanned(o)]

-----------------------------------------------------------------------------
(* Tracing                                                                 *)

\* What is traced lies in the heap, holds what it starts from and is closed.
LEMMA ClosureIsClosed ==
    ASSUME NEW S, NEW F
    PROVE  /\ Closure(S, F) \subseteq heap
           /\ Found(S) \subseteq Closure(S, F)
           /\ Closed(Closure(S, F), F)
<1>1. Closure(S, F) \subseteq heap /\ Found(S) \subseteq Closure(S, F)
  BY DEF Closure, Found
<1>2. ASSUME NEW p \in Closure(S, F), NEW q \in Targets(p, F[p])
      PROVE  q \in Closure(S, F)
  <2>1. q \in heap
    BY <1>2 DEF Targets, Found
  <2>2. ASSUME NEW C \in SUBSET heap, Found(S) \subseteq C, Closed(C, F)
        PROVE  q \in C
    <3>1. p \in C
      BY <1>2, <2>2 DEF Closure
    <3> QED BY <1>2, <2>2, <3>1 DEF Closed
  <2> QED BY <2>1, <2>2 DEF Closure
<1> QED BY <1>1, <1>2 DEF Closed

\* And nothing else is: it is the least such set.
LEMMA ClosureIsLeast ==
    ASSUME NEW S, NEW F, NEW C \in SUBSET heap, Found(S) \subseteq C, Closed(C, F)
    PROVE  Closure(S, F) \subseteq C
  BY DEF Closure

\* Closed, said word by word.
LEMMA ClosedWordByWord ==
    ASSUME NEW C, C \subseteq Objects
    PROVE  Closed(C, ScannedWords)
             <=> \A p \in C : \A i \in Scanned(p) : words[p][i] \in heap => words[p][i] \in C
<1>1. ASSUME NEW p \in C PROVE ScannedWords[p] = Scanned(p)
  BY <1>1 DEF ScannedWords
<1> QED BY <1>1 DEF Closed, Targets, Found

\* Through objects of faithful kinds the callback looks for pointers wherever the
\* contract promises it.
LEMMA PromisedIsScanned ==
    ASSUME TypeOK, NEW o \in Objects
    PROVE  Promised(o) \subseteq Scanned(o)
<1>1. CASE kind[o] = Composite
  BY <1>1 DEF Promised, Scanned
<1>2. CASE kind[o] # Composite /\ IsTyped(o) /\ ~Unfaithful(Descriptor(o))
  <2> DEFINE d == Descriptor(o)
  <2>1. /\ Promised(o) = d.named
        /\ Scanned(o) = Followed(d)
    BY <1>2 DEF Promised, Scanned
  <2>2. d \in ClientDescriptors
    BY <1>2 DEF TypeOK, IsTyped, Descriptor
  <2>3. CASE d \in Descriptors
    <3>1. d.tag \in Tags /\ d.tag \notin PerObject
      BY <1>2, <2>3, ShimConstants DEF Unfaithful
    <3>2. CASE d.tag \in {"length", "bitmap"}
      BY <2>1, <2>3, <3>2, ShimConstants DEF Followed
    <3>3. CASE d.tag = "proc"
      BY <1>2, <2>1, <3>3 DEF Followed, Unfaithful
    <3> QED BY <3>1, <3>2, <3>3 DEF Tags
  <2>4. CASE d \in {GC_make_descriptor(S) : S \in SUBSET Words}
    <3>1. d = GC_make_descriptor({})
      BY <1>2, <2>4 DEF Unfaithful
    <3>2. d.named = {}
      BY <3>1 DEF GC_make_descriptor
    <3> QED BY <2>1, <3>2
  <2> QED BY <2>2, <2>3, <2>4 DEF ClientDescriptors
<1>3. CASE kind[o] # Composite /\ ~(IsTyped(o) /\ ~Unfaithful(Descriptor(o)))
  BY <1>3 DEF Promised
<1> QED BY <1>1, <1>2, <1>3

\* While the collector traces, what the client can reach from objects that
\* have been reached has been reached.
LEMMA ReachedFromMarked ==
    ASSUME IInv, gc \in Tracing, NEW S, Found(S) \subseteq marked
    PROVE  LeadsTo(S) \subseteq marked
<1> DEFINE F == [o \in Objects |-> Promised(o)]
<1>1. marked \subseteq heap /\ marked \subseteq Objects /\ MarkedIsClosed /\ TypeOK
  BY DEF IInv, MarkedHoldsRoots, TypeOK
<1>2. ASSUME NEW p \in marked PROVE Targets(p, F[p]) \subseteq marked
  <2>1. p \in Objects /\ F[p] = Promised(p)
    BY <1>1, <1>2
  <2>2. F[p] \subseteq Scanned(p)
    BY <1>1, <2>1, PromisedIsScanned
  <2> QED BY <1>1, <1>2, <2>2 DEF MarkedIsClosed, Targets, Found
<1>3. Closed(marked, F)
  BY <1>2 DEF Closed
<1>4. LeadsTo(S) = Closure(S, F)
  BY DEF LeadsTo
<1> HIDE DEF F
<1> QED BY <1>1, <1>3, <1>4, ClosureIsLeast

\* The callback reads only words of the object.
LEMMA ScannedAreWords ==
    ASSUME TypeOK, NEW o \in Objects PROVE Scanned(o) \subseteq Words
<1>1. CASE IsTyped(o)
  <2> DEFINE d == Descriptor(o)
  <2>1. d \in ClientDescriptors
    BY <1>1 DEF TypeOK, IsTyped, Descriptor
  <2>2. d.words \subseteq Words
    BY <2>1, ShimConstants DEF ClientDescriptors, GC_make_descriptor
  <2>3. Registered(d) => mark_procs[d.proc] \subseteq Words
    BY ShimConstants DEF Registered, TypeOK
  <2>4. Followed(d) \subseteq Words
    BY <2>2, <2>3 DEF Followed
  <2> QED BY <1>1, <2>4 DEF Scanned
<1>2. CASE ~IsTyped(o)
  BY <1>2 DEF Scanned
<1> QED BY <1>1, <1>2

\* After tracing, the marked objects satisfy what MarkedHoldsRoots says of them.
LEMMA TraceIsMarked ==
    ASSUME NEW S, heap \subseteq Objects
    PROVE  /\ Trace(S) \subseteq heap
           /\ Found(S) \subseteq Trace(S)
           /\ \A p \in Trace(S) : \A i \in Scanned(p) :
                 words[p][i] \in heap => words[p][i] \in Trace(S)
<1>1. Trace(S) = Closure(S, ScannedWords)
  BY DEF Trace, ScannedWords
<1>2. /\ Trace(S) \subseteq heap
      /\ Found(S) \subseteq Trace(S)
      /\ Closed(Trace(S), ScannedWords)
  BY <1>1, ClosureIsClosed
<1>3. Trace(S) \subseteq Objects
  BY <1>2
<1> QED BY <1>2, <1>3, ClosedWordByWord

-----------------------------------------------------------------------------
(* Calls of the client                                                     *)

\* A full table is never extended.
LEMMA NewKindTypes ==
    ASSUME TypeOK, NEW d \in ClientDescriptors, GC_new_kind(d)
    PROVE  TypeOK'
<1>1. /\ obj_kinds' = Append(obj_kinds, d)
      /\ Len(obj_kinds) < MAXOBJKINDS
      /\ obj_kinds \in Seq(ClientDescriptors)
  BY DEF GC_new_kind, MayAddKind, TypeOK
<1>2. /\ obj_kinds' \in Seq(ClientDescriptors)
      /\ Len(obj_kinds') = Len(obj_kinds) + 1
      /\ Len(obj_kinds) \in Nat
  BY <1>1
<1>3. Len(obj_kinds') <= MAXOBJKINDS
  BY <1>1, <1>2, ShimConstants
<1>4. 1..Len(obj_kinds) \subseteq 1..Len(obj_kinds')
  BY <1>2
<1>5. UNCHANGED <<heap, fresh, free, immortal, kind, words, stack, roots, mark_procs,
                  links, registered, pending, due, revived, gc, marked>>
  BY DEF GC_new_kind, Client, heapVars, finalizerVars, collectorVars
<1> QED BY <1>2, <1>3, <1>4, <1>5 DEF TypeOK

LEMMA NewProcTypes ==
    ASSUME TypeOK, NEW S \in Procedures, GC_new_proc(S)
    PROVE  TypeOK'
<1>1. /\ mark_procs' = Append(mark_procs, S)
      /\ Len(mark_procs) < GC_MAX_MARK_PROCS
      /\ mark_procs \in Seq(Procedures)
  BY DEF GC_new_proc, TypeOK
<1>2. /\ mark_procs' \in Seq(Procedures)
      /\ Len(mark_procs') = Len(mark_procs) + 1
      /\ Len(mark_procs) \in Nat
  BY <1>1
<1>3. Len(mark_procs') <= GC_MAX_MARK_PROCS
  BY <1>1, <1>2, ShimConstants
<1>4. UNCHANGED <<heap, fresh, free, immortal, kind, words, stack, roots, obj_kinds,
                  links, registered, pending, due, revived, gc, marked>>
  BY DEF GC_new_proc, Client, heapVars, finalizerVars, collectorVars
<1> QED BY <1>2, <1>3, <1>4 DEF TypeOK

\* A new object has a kind that was given out.
LEMMA AllocatedTypes ==
    ASSUME TypeOK, NEW o \in Objects, NEW k, NEW u, GC_malloc(o, k, u)
    PROVE  TypeOK'
<1>1. k \in Kinds /\ k \in PlainKinds \cup (1..Len(obj_kinds))
  <2>1. Len(obj_kinds) \in Nat /\ Len(obj_kinds) <= MAXOBJKINDS
    BY DEF TypeOK
  <2>2. 1..Len(obj_kinds) \subseteq 1..MAXOBJKINDS
    BY <2>1, ShimConstants
  <2> QED BY <2>2 DEF GC_malloc, Kinds, AllocKinds
<1>2. Blank \in [Words -> Objects \cup {Null}]
  BY DEF Blank
<1>3. /\ kind' \in [Objects -> Kinds]
      /\ words' \in [Objects -> [Words -> Objects \cup {Null}]]
  BY <1>1, <1>2 DEF TypeOK, GC_malloc
<1>4. \A p \in Objects : kind'[p] \in PlainKinds \cup {Zeroed} \cup (1..Len(obj_kinds'))
  BY <1>1 DEF TypeOK, GC_malloc
<1>5. immortal' \subseteq Objects
  BY DEF TypeOK, GC_malloc
<1> QED BY <1>3, <1>4, <1>5 DEF TypeOK, GC_malloc, Client, finalizerVars, collectorVars

\* Every call of the client keeps the types.
LEMMA ClientTypes ==
    ASSUME TypeOK, FinalizersConserved, NEW o \in Objects
    PROVE  /\ \A k \in Kinds, u \in BOOLEAN : GC_malloc(o, k, u) => TypeOK'
           /\ FinishMalloc(o) => TypeOK'
           /\ \A p \in Objects : GC_realloc(o, p) => TypeOK'
           /\ \A i \in Words, v \in Objects \cup {Null} : Store(o, i, v) => TypeOK'
           /\ Load(o) => TypeOK'
           /\ Forget(o) => TypeOK'
           /\ GC_register_finalizer(o) => TypeOK'
           /\ RunFinalizer(o) => TypeOK'
<1> USE DEF Client, heapVars, clientVars, finalizerVars, collectorVars
<1>1. ASSUME NEW k \in Kinds, NEW u \in BOOLEAN, GC_malloc(o, k, u) PROVE TypeOK'
  BY <1>1, AllocatedTypes
<1>2. ASSUME NEW p \in Objects, GC_realloc(o, p) PROVE TypeOK'
  <2>1. words' \in [Objects -> [Words -> Objects \cup {Null}]]
    BY <1>2 DEF GC_realloc, TypeOK
  <2> QED BY <1>2, <2>1 DEF GC_realloc, TypeOK
<1>3. ASSUME NEW i \in Words, NEW v \in Objects \cup {Null}, Store(o, i, v)
      PROVE  TypeOK'
  <2>1. words' \in [Objects -> [Words -> Objects \cup {Null}]]
    BY <1>3 DEF Store, Has, TypeOK
  <2> QED BY <1>3, <2>1 DEF Store, TypeOK
<1>4. ASSUME Load(o) PROVE TypeOK'
  BY <1>4 DEF Load, TypeOK
<1>5. ASSUME Forget(o) PROVE TypeOK'
  BY <1>5 DEF Forget, TypeOK
<1>6. ASSUME GC_register_finalizer(o) PROVE TypeOK'
  <2>1. registered' \in [Objects -> Nat] /\ due' \in [Objects -> Nat]
    BY <1>6 DEF GC_register_finalizer, TypeOK
  <2> QED BY <1>6, <2>1 DEF GC_register_finalizer, TypeOK
<1>7. ASSUME RunFinalizer(o) PROVE TypeOK'
  <2>1. pending[o] \in Nat /\ registered[o] \in Nat /\ due[o] \in Nat
        /\ pending[o] > 0 /\ due[o] = registered[o] + pending[o]
    BY <1>7 DEF RunFinalizer, TypeOK, FinalizersConserved
  <2>2. pending[o] - 1 \in Nat /\ due[o] - 1 \in Nat
    BY <2>1
  <2>3. pending' \in [Objects -> Nat] /\ due' \in [Objects -> Nat]
    BY <1>7, <2>2 DEF RunFinalizer, Popped, TypeOK
  <2>4. stack' \subseteq Objects
    BY <1>7 DEF RunFinalizer, TypeOK
  <2> QED BY <1>7, <2>3, <2>4 DEF RunFinalizer, TypeOK
<1>8. ASSUME FinishMalloc(o) PROVE TypeOK'
  BY <1>8 DEF FinishMalloc, TypeOK
<1> QED BY <1>1, <1>2, <1>3, <1>4, <1>5, <1>6, <1>7, <1>8

\* Between collections the invariant is about types and counts.
LEMMA ClientKeeps ==
    ASSUME IInv, Client, UNCHANGED revived, TypeOK', FinalizersConserved'
    PROVE  IInv'
  BY DEF IInv, Client, collectorVars, Tracing, MarkedHoldsRoots, LinksAreLive,
         NothingRevived

\* A finalizer is registered, made pending and run as often as it is due.
LEMMA ClientConserves ==
    ASSUME TypeOK, FinalizersConserved, NEW o \in Objects
    PROVE  /\ GC_register_finalizer(o) => FinalizersConserved'
           /\ RunFinalizer(o) => FinalizersConserved'
           /\ UNCHANGED <<registered, pending, due>> => FinalizersConserved'
<1>1. ASSUME NEW p \in Objects
      PROVE  registered[p] \in Nat /\ pending[p] \in Nat /\ due[p] = registered[p] + pending[p]
  BY DEF TypeOK, FinalizersConserved
<1>2. ASSUME GC_register_finalizer(o), NEW p \in Objects
      PROVE  due'[p] = registered'[p] + pending'[p]
  BY <1>1, <1>2 DEF GC_register_finalizer, TypeOK
<1>3. ASSUME RunFinalizer(o), NEW p \in Objects
      PROVE  due'[p] = registered'[p] + pending'[p]
  BY <1>1, <1>3 DEF RunFinalizer, Popped, TypeOK
<1> QED BY <1>2, <1>3 DEF FinalizersConserved

\* Every call of the client keeps the invariant.
LEMMA ClientIInv ==
    ASSUME IInv, NEW o \in Objects
    PROVE  /\ \A k \in Kinds, u \in BOOLEAN : GC_malloc(o, k, u) => IInv'
           /\ FinishMalloc(o) => IInv'
           /\ \A p \in Objects : GC_realloc(o, p) => IInv'
           /\ \A i \in Words, v \in Objects \cup {Null} : Store(o, i, v) => IInv'
           /\ Load(o) => IInv'
           /\ Forget(o) => IInv'
           /\ GC_register_finalizer(o) => IInv'
           /\ RunFinalizer(o) => IInv'
<1> USE DEF finalizerVars
<1>1. TypeOK /\ FinalizersConserved
  BY DEF IInv
<1>2. ASSUME NEW k \in Kinds, NEW u \in BOOLEAN, GC_malloc(o, k, u) PROVE IInv'
  BY <1>1, <1>2, ClientTypes, ClientConserves, ClientKeeps DEF GC_malloc
<1>3. ASSUME NEW p \in Objects, GC_realloc(o, p) PROVE IInv'
  BY <1>1, <1>3, ClientTypes, ClientConserves, ClientKeeps DEF GC_realloc
<1>4. ASSUME NEW i \in Words, NEW v \in Objects \cup {Null}, Store(o, i, v) PROVE IInv'
  BY <1>1, <1>4, ClientTypes, ClientConserves, ClientKeeps DEF Store
<1>5. ASSUME Load(o) PROVE IInv'
  BY <1>1, <1>5, ClientTypes, ClientConserves, ClientKeeps DEF Load
<1>6. ASSUME Forget(o) PROVE IInv'
  BY <1>1, <1>6, ClientTypes, ClientConserves, ClientKeeps DEF Forget
<1>7. ASSUME GC_register_finalizer(o) PROVE IInv'
  BY <1>1, <1>7, ClientTypes, ClientConserves, ClientKeeps DEF GC_register_finalizer
<1>8. ASSUME RunFinalizer(o) PROVE IInv'
  BY <1>1, <1>8, ClientTypes, ClientConserves, ClientKeeps DEF RunFinalizer
<1>9. ASSUME FinishMalloc(o) PROVE IInv'
  BY <1>1, <1>9, ClientTypes, ClientConserves, ClientKeeps DEF FinishMalloc
<1> QED BY <1>2, <1>3, <1>4, <1>5, <1>6, <1>7, <1>8, <1>9

\* So do the calls that name no object.
LEMMA TableIInv ==
    ASSUME IInv
    PROVE  /\ \A d \in ClientDescriptors : GC_new_kind(d) => IInv'
           /\ \A S \in Procedures : GC_new_proc(S) => IInv'
           /\ \A S \in SUBSET Objects : GC_roots(S) => IInv'
           /\ \A l \in Links : GC_register_disappearing_link(l) => IInv'
           /\ \A o \in Objects, i \in Words :
                 GC_unregister_disappearing_link(o, i) => IInv'
<1> USE DEF finalizerVars
<1>1. TypeOK /\ FinalizersConserved
  BY DEF IInv
<1>2. ASSUME NEW d \in ClientDescriptors, GC_new_kind(d) PROVE IInv'
  <2>1. FinalizersConserved'
    BY <1>1, <1>2 DEF GC_new_kind, FinalizersConserved
  <2> QED BY <1>1, <1>2, <2>1, NewKindTypes, ClientKeeps DEF GC_new_kind
<1>3. ASSUME NEW S \in SUBSET Objects, GC_roots(S) PROVE IInv'
  <2>1. TypeOK'
    BY <1>1, <1>3 DEF GC_roots, TypeOK, Client, heapVars, collectorVars
  <2>2. FinalizersConserved'
    BY <1>1, <1>3 DEF GC_roots, FinalizersConserved
  <2> QED BY <1>3, <2>1, <2>2, ClientKeeps DEF GC_roots
<1>4. ASSUME NEW l \in Links, GC_register_disappearing_link(l) PROVE IInv'
  <2>1. TypeOK'
    BY <1>1, <1>4 DEF GC_register_disappearing_link, TypeOK, Client, heapVars,
                      clientVars, collectorVars
  <2>2. FinalizersConserved'
    BY <1>1, <1>4 DEF GC_register_disappearing_link, FinalizersConserved
  <2> QED BY <1>4, <2>1, <2>2, ClientKeeps DEF GC_register_disappearing_link
<1>5. ASSUME NEW o \in Objects, NEW i \in Words, GC_unregister_disappearing_link(o, i)
      PROVE  IInv'
  <2>1. TypeOK'
    BY <1>1, <1>5 DEF GC_unregister_disappearing_link, TypeOK, Client, heapVars,
                      clientVars, collectorVars
  <2>2. FinalizersConserved'
    BY <1>1, <1>5 DEF GC_unregister_disappearing_link, FinalizersConserved
  <2> QED BY <1>5, <2>1, <2>2, ClientKeeps DEF GC_unregister_disappearing_link
<1>6. ASSUME NEW S \in Procedures, GC_new_proc(S) PROVE IInv'
  <2>1. FinalizersConserved'
    BY <1>1, <1>6 DEF GC_new_proc, FinalizersConserved
  <2> QED BY <1>1, <1>6, <2>1, NewProcTypes, ClientKeeps DEF GC_new_proc
<1> QED BY <1>2, <1>3, <1>4, <1>5, <1>6

-----------------------------------------------------------------------------
(* The collection                                                          *)

\* A collection that cannot begin its work changes only the phase.
LEMMA StopInCallIInv == ASSUME IInv, StopInCall PROVE IInv'
<1>1. /\ gc = "idle" /\ gc' = "waiting"
      /\ UNCHANGED <<heap, fresh, free, immortal, kind, words, stack, roots, obj_kinds,
                     mark_procs, links, registered, pending, due, revived, marked>>
  BY DEF StopInCall, clientVars, heapVars, finalizerVars
<1>2. TypeOK'
  BY <1>1 DEF IInv, TypeOK, Phases, Tracing
<1>3. FinalizersConserved'
  BY <1>1 DEF IInv, FinalizersConserved
<1> QED BY <1>1, <1>2, <1>3 DEF IInv, MarkedHoldsRoots, LinksAreLive, NothingRevived,
                              Tracing

\* Tracing from objects that include the roots and the revived establishes what
\* the invariant says of the marked objects.
LEMMA ReachMarks ==
    ASSUME TypeOK, NEW S, Reach(S),
           Found(stack \cup roots \cup revived') \subseteq Found(S),
           UNCHANGED <<clientVars, heapVars>>
    PROVE  /\ MarkedHoldsRoots'
           /\ marked' \subseteq Objects
           /\ gc' \in {"links", "looping"}
<1>1. /\ marked' = Trace(S) /\ gc' \in {"links", "looping"}
      /\ UNCHANGED <<heap, kind, words, stack, roots, obj_kinds, mark_procs>>
  BY DEF Reach, clientVars, heapVars
<1>2. /\ marked' \subseteq heap
      /\ Found(S) \subseteq marked'
      /\ \A p \in marked' : \A i \in Scanned(p) :
            words[p][i] \in heap => words[p][i] \in marked'
  BY <1>1, TraceIsMarked DEF TypeOK
<1>3. \A p : Scanned(p)' = Scanned(p)
  BY <1>1 DEF Scanned, IsTyped, Descriptor, Followed, Registered
<1>4. MarkedIsClosed'
  BY <1>1, <1>2, <1>3 DEF MarkedIsClosed
<1>5. Found(stack \cup roots)' \subseteq marked' /\ Found(revived)' \subseteq marked'
  BY <1>1, <1>2 DEF Found
<1> QED BY <1>1, <1>2, <1>4, <1>5 DEF MarkedHoldsRoots, TypeOK

LEMMA ScanRootsIInv == ASSUME IInv, ScanRoots PROVE IInv'
<1>1. /\ gc = "idle" /\ Reach(RootObjects) /\ revived = {}
      /\ UNCHANGED <<clientVars, heapVars, links, finalizerVars>>
  BY DEF ScanRoots, IInv, NothingRevived
<1>2. Found(stack \cup roots \cup revived') \subseteq Found(RootObjects)
  BY <1>1 DEF finalizerVars, RootObjects, Found
<1>3. MarkedHoldsRoots' /\ marked' \subseteq Objects /\ gc' \in {"links", "looping"}
  BY <1>1, <1>2, ReachMarks DEF IInv
<1>4. TypeOK'
  BY <1>1, <1>3 DEF IInv, TypeOK, clientVars, heapVars, finalizerVars, Phases, Tracing
<1>5. FinalizersConserved'
  BY <1>1 DEF IInv, FinalizersConserved, finalizerVars
<1> QED BY <1>3, <1>4, <1>5 DEF IInv, LinksAreLive, NothingRevived

\* Clearing links takes pointers away, so what was closed stays closed.
LEMMA ClearLinksIInv == ASSUME IInv, ClearLinks PROVE IInv'
<1>1. /\ gc = "links" /\ gc' = "finalizers" /\ links' = KeptLinks
      /\ UNCHANGED <<stack, roots, obj_kinds, mark_procs, heap, fresh, free, immortal,
                     kind, registered, pending, due, revived, marked>>
  BY DEF ClearLinks, clientVars, finalizerVars
<1>2. TypeOK
  BY DEF IInv
<1>3. ASSUME NEW p \in Objects, NEW i \in Words
      PROVE  words'[p][i] = words[p][i] \/ words'[p][i] = Null
  BY <1>3 DEF ClearLinks
<1>4. words' \in [Objects -> [Words -> Objects \cup {Null}]]
  <2>1. ASSUME NEW p \in Objects, NEW i \in Words
        PROVE  (IF \E l \in links : Dead(l) /\ l.home = p /\ l.word = i
                  THEN Null ELSE words[p][i]) \in Objects \cup {Null}
    BY <1>2 DEF TypeOK
  <2> QED BY <2>1 DEF ClearLinks
<1>5. TypeOK'
  BY <1>1, <1>2, <1>4 DEF TypeOK, KeptLinks, Phases, Tracing
<1>6. FinalizersConserved'
  BY <1>1 DEF IInv, FinalizersConserved
<1>7. MarkedHoldsRoots'
  <2>1. /\ marked \subseteq heap /\ MarkedIsClosed
        /\ Found(stack \cup roots) \subseteq marked /\ Found(revived) \subseteq marked
    BY <1>1 DEF IInv, MarkedHoldsRoots, Tracing
  <2>2. \A p : Scanned(p)' = Scanned(p)
    BY <1>1 DEF Scanned, IsTyped, Descriptor, Followed, Registered
  <2>3. ASSUME NEW p \in marked, NEW i \in Scanned(p), words'[p][i] \in heap
        PROVE  words'[p][i] \in marked
    <3>1. p \in Objects /\ Null \notin heap
      BY <1>2, <2>1, ShimConstants DEF TypeOK
    <3>2. i \in Words
      BY <1>2, <2>3, <3>1, ScannedAreWords
    <3> QED BY <1>3, <2>1, <2>3, <3>1, <3>2 DEF MarkedIsClosed
  <2>4. MarkedIsClosed'
    BY <1>1, <2>2, <2>3 DEF MarkedIsClosed
  <2> QED BY <1>1, <2>1, <2>4 DEF MarkedHoldsRoots, Found
<1>8. LinksAreLive'
  BY <1>1 DEF LinksAreLive, KeptLinks, Dead
<1> QED BY <1>1, <1>5, <1>6, <1>7, <1>8 DEF IInv, NothingRevived

\* A finalizer moves from one queue to the other, with its object reached.
LEMMA ProcessFinalizersIInv == ASSUME IInv, ProcessFinalizers PROVE IInv'
<1> DEFINE found == {o \in Objects : registered[o] > 0 /\ o \notin marked}
<1>1. TypeOK /\ FinalizersConserved
  BY DEF IInv
<1>2. /\ gc = "finalizers"
      /\ registered' = [o \in Objects |-> registered[o] - (IF o \in found THEN 1 ELSE 0)]
      /\ pending' = [o \in Objects |-> pending[o] + (IF o \in found THEN 1 ELSE 0)]
      /\ revived' = revived \cup found
      /\ IF ClosureRequired(found) THEN Reach(Revive(found))
                                   ELSE gc' = "sweep" /\ UNCHANGED marked
      /\ UNCHANGED <<stack, roots, obj_kinds, mark_procs, heap, fresh, free, immortal,
                     kind, words, links, due>>
  BY DEF ProcessFinalizers, clientVars, heapVars
<1>3. ASSUME NEW o \in Objects
      PROVE  /\ registered[o] \in Nat /\ pending[o] \in Nat
             /\ due[o] = registered[o] + pending[o]
             /\ o \in found => registered[o] > 0
  BY <1>1, <1>3 DEF TypeOK, FinalizersConserved
<1>4. found \subseteq Objects
  OBVIOUS
<1>5. /\ marked \subseteq heap /\ MarkedIsClosed
      /\ Found(stack \cup roots) \subseteq marked /\ Found(revived) \subseteq marked
      /\ \A l \in links : ~Dead(l)
  BY <1>2 DEF IInv, MarkedHoldsRoots, Tracing, LinksAreLive
<1> HIDE DEF found
<1>6. ASSUME NEW o \in Objects
      PROVE  /\ registered'[o] \in Nat /\ pending'[o] \in Nat
             /\ due[o] = registered'[o] + pending'[o]
  <2>1. /\ registered'[o] = registered[o] - (IF o \in found THEN 1 ELSE 0)
        /\ pending'[o] = pending[o] + (IF o \in found THEN 1 ELSE 0)
    BY <1>2, <1>6
  <2>2. CASE o \in found
    BY <1>3, <1>6, <2>1, <2>2
  <2>3. CASE o \notin found
    BY <1>3, <1>6, <2>1, <2>3
  <2> QED BY <2>2, <2>3
<1>7. FinalizersConserved'
  BY <1>2, <1>6 DEF FinalizersConserved
<1>8. registered' \in [Objects -> Nat] /\ pending' \in [Objects -> Nat]
  BY <1>2, <1>6
<1>9. CASE found = {}
  <2>1. gc' = "sweep" /\ marked' = marked /\ revived' = revived
    BY <1>2, <1>9 DEF ClosureRequired
  <2>2. TypeOK'
    BY <1>1, <1>2, <1>8, <2>1 DEF TypeOK, Phases, Tracing
  <2>3. \A p : Scanned(p)' = Scanned(p)
    BY <1>2 DEF Scanned, IsTyped, Descriptor, Followed, Registered
  <2>4. MarkedIsClosed'
    BY <1>2, <1>5, <2>1, <2>3 DEF MarkedIsClosed
  <2>5. MarkedHoldsRoots'
    BY <1>2, <1>5, <2>1, <2>4 DEF MarkedHoldsRoots, Found
  <2>6. LinksAreLive'
    BY <1>2, <1>5, <2>1 DEF LinksAreLive, Dead
  <2> QED BY <1>7, <2>1, <2>2, <2>5, <2>6 DEF IInv, NothingRevived
<1>10. CASE found # {}
  <2>1. Reach(Revive(found))
    BY <1>2, <1>10 DEF ClosureRequired
  <2>2. Found(stack \cup roots \cup revived') \subseteq Found(Revive(found))
    BY <1>2, <1>5 DEF Found, Revive
  <2>3. UNCHANGED <<clientVars, heapVars>>
    BY <1>2 DEF clientVars, heapVars
  <2>4. MarkedHoldsRoots' /\ marked' \subseteq Objects /\ gc' \in {"links", "looping"}
    BY <1>1, <2>1, <2>2, <2>3, ReachMarks
  <2>5. TypeOK'
    BY <1>1, <1>2, <1>4, <1>8, <2>4 DEF TypeOK, Phases, Tracing
  <2> QED BY <1>7, <2>4, <2>5 DEF IInv, LinksAreLive, NothingRevived
<1> QED BY <1>9, <1>10

\* The sweep ends the collection and keeps the kinds of what it keeps.
LEMMA SweepIInv == ASSUME IInv, Sweep PROVE IInv'
<1>1. /\ gc' = "idle" /\ revived' = {} /\ marked' = {} /\ heap' = heap \cap Survivors
      /\ free' = Objects \ Survivors
      /\ UNCHANGED <<stack, roots, obj_kinds, mark_procs, fresh, immortal, links, registered,
                     pending, due>>
  BY DEF Sweep, clientVars
<1>2. TypeOK /\ FinalizersConserved
  BY DEF IInv
<1>3. kind' \in [Objects -> Kinds]
  BY <1>2 DEF Sweep, TypeOK, Kinds, PlainKinds
<1>4. words' \in [Objects -> [Words -> Objects \cup {Null}]]
  BY <1>2 DEF Sweep, TypeOK, Blank
<1>5. \A o \in Objects : kind'[o] \in PlainKinds \cup {Zeroed} \cup (1..Len(obj_kinds'))
  BY <1>1, <1>2 DEF Sweep, TypeOK
<1>6. TypeOK'
  BY <1>1, <1>2, <1>3, <1>4, <1>5 DEF TypeOK, Phases, Tracing
<1>7. FinalizersConserved'
  BY <1>1, <1>2 DEF FinalizersConserved
<1> QED BY <1>1, <1>6, <1>7 DEF IInv, MarkedHoldsRoots, LinksAreLive, NothingRevived,
                              Tracing

-----------------------------------------------------------------------------
(* Invariance                                                              *)

\* Nothing is allocated, registered or pending at first.
LEMMA InitIInv == Init => IInv
<1> SUFFICES ASSUME Init PROVE IInv
  OBVIOUS
<1>1. TypeOK
  BY ShimConstants DEF Init, TypeOK, Kinds, PlainKinds, Blank, Phases, Tracing
<1>2. FinalizersConserved
  BY DEF Init, FinalizersConserved
<1> QED BY <1>1, <1>2 DEF Init, IInv, MarkedHoldsRoots, LinksAreLive, NothingRevived,
                          Tracing

\* Every step keeps the invariant.
LEMMA NextIInv == IInv /\ [Next]_vars => IInv'
<1> SUFFICES ASSUME IInv, [Next]_vars PROVE IInv'
  OBVIOUS
<1>1. CASE LockedCall
  BY <1>1, TableIInv, ClientIInv DEF LockedCall
<1>2. CASE Collection
  BY <1>2, StopInCallIInv, ScanRootsIInv, ClearLinksIInv, ProcessFinalizersIInv, SweepIInv
     DEF Collection
<1>3. CASE UNCHANGED vars
  <2>1. UNCHANGED <<heap, fresh, free, immortal, kind, words, stack, roots, obj_kinds,
                    mark_procs, links, registered, pending, due, revived, gc, marked>>
    BY <1>3 DEF vars, clientVars, heapVars, finalizerVars, collectorVars
  <2>2. TypeOK'
    BY <2>1 DEF IInv, TypeOK
  <2>3. FinalizersConserved'
    BY <2>1 DEF IInv, FinalizersConserved
  <2>4. \A p : Scanned(p)' = Scanned(p)
    BY <2>1 DEF Scanned, IsTyped, Descriptor, Followed, Registered
  <2>5. MarkedHoldsRoots'
    BY <2>1, <2>4 DEF IInv, MarkedHoldsRoots, MarkedIsClosed, Found
  <2> QED BY <2>1, <2>2, <2>3, <2>5 DEF IInv, LinksAreLive, Dead, NothingRevived
<1>4. CASE \/ \E d \in ClientDescriptors : GC_new_kind(d)
           \/ \E S \in Procedures : GC_new_proc(S)
  BY <1>4, TableIInv
<1>5. ASSUME NEW o \in Objects,
             \/ \E k \in Kinds, u \in BOOLEAN : GC_malloc(o, k, u)
             \/ FinishMalloc(o)
             \/ \E p \in Objects : GC_realloc(o, p)
             \/ \E i \in Words, v \in Objects \cup {Null} : Store(o, i, v)
             \/ Load(o) \/ Forget(o)
      PROVE  IInv'
  BY <1>5, ClientIInv
<1> QED BY <1>1, <1>2, <1>3, <1>4, <1>5 DEF Next

\* The inductive invariant: while the collector traces, what it has marked is
\* closed and holds the roots and the objects of pending finalizers.
THEOREM Invariance == Spec => []IInv
BY InitIInv, NextIInv, PTL DEF Spec

\* TypeOK: no table grows over its limit, and every object has a kind that
\* GC_new_kind has given out.
THEOREM TypeCorrect == Spec => []TypeOK
<1>1. IInv => TypeOK
  BY DEF IInv
<1> QED BY <1>1, Invariance, PTL

\* FinalizersConserved: register_finalizer, process and get_finalized_object
\* neither lose a finalizer nor run one twice.
THEOREM FinalizersConservedThm == Spec => []FinalizersConserved
<1>1. IInv => FinalizersConserved
  BY DEF IInv
<1> QED BY <1>1, Invariance, PTL

-----------------------------------------------------------------------------
(* What a collection reclaims                                              *)

\* Only the sweep takes objects from the heap or memory back.
LEMMA OnlySweepReclaims ==
    ASSUME [Next]_vars, ~Sweep PROVE heap \subseteq heap' /\ free' \subseteq free
<1>1. CASE LockedCall
  BY <1>1 DEF LockedCall, GC_roots, GC_register_disappearing_link,
       GC_unregister_disappearing_link, GC_register_finalizer, RunFinalizer, heapVars
<1>2. CASE Collection
  BY <1>2 DEF Collection, StopInCall, ScanRoots, ClearLinks,
       ProcessFinalizers, heapVars
<1>3. CASE UNCHANGED vars
  BY <1>3 DEF vars, heapVars
<1>4. CASE \/ \E d \in ClientDescriptors : GC_new_kind(d)
           \/ \E S \in Procedures : GC_new_proc(S)
  BY <1>4 DEF GC_new_kind, GC_new_proc, heapVars
<1>5. ASSUME NEW o \in Objects,
             \/ \E k \in Kinds, u \in BOOLEAN : GC_malloc(o, k, u)
             \/ FinishMalloc(o)
             \/ \E p \in Objects : GC_realloc(o, p)
             \/ \E i \in Words, v \in Objects \cup {Null} : Store(o, i, v)
             \/ Load(o) \/ Forget(o)
      PROVE  heap \subseteq heap' /\ free' \subseteq free
  BY <1>5 DEF GC_malloc, FinishMalloc, GC_realloc, Store, Load, Forget, heapVars
<1> QED BY <1>1, <1>2, <1>3, <1>4, <1>5 DEF Next

\* While the collector traces, the client does nothing.
LEMMA OnlyCollectorSteps ==
    ASSUME [Next]_vars, gc \in Tracing
    PROVE  ClearLinks \/ ProcessFinalizers \/ Sweep \/ UNCHANGED vars
<1> USE DEF Tracing
<1>1. CASE LockedCall
  BY <1>1 DEF LockedCall, GC_roots, GC_register_disappearing_link,
       GC_unregister_disappearing_link, GC_register_finalizer, RunFinalizer, Client
<1>2. CASE Collection
  BY <1>2 DEF Collection, StopInCall, ScanRoots
<1>3. CASE \/ \E d \in ClientDescriptors : GC_new_kind(d)
           \/ \E S \in Procedures : GC_new_proc(S)
  BY <1>3 DEF GC_new_kind, GC_new_proc, Client
<1>4. ASSUME NEW o \in Objects,
             \/ \E k \in Kinds, u \in BOOLEAN : GC_malloc(o, k, u)
             \/ FinishMalloc(o)
             \/ \E p \in Objects : GC_realloc(o, p)
             \/ \E i \in Words, v \in Objects \cup {Null} : Store(o, i, v)
             \/ Load(o) \/ Forget(o)
      PROVE  FALSE
  BY <1>4 DEF GC_malloc, FinishMalloc, GC_realloc, Store, Load, Forget, Client
<1> QED BY <1>1, <1>2, <1>3, <1>4 DEF Next

\* NothingReachableLost: whatever the client reaches through its stacks and
\* registered roots, by way of objects of faithful kinds, survives every
\* collection, for every shape of the heap, and so does what an allocation is
\* about to return, unless it lacks its VO bit.
THEOREM NothingReachableLostThm == Spec => NothingReachableLost
<1> DEFINE Kept == \A o \in Reachable \cup (stack \cap fresh) :
                     (o \in heap \ heap' \/ o \in free' \ free) => o \in fresh \ heap
<1>1. ASSUME IInv, [Next]_vars PROVE Kept
  <2>1. Reachable \subseteq heap
    BY DEF Reachable, LeadsTo, Closure
  <2>2. CASE ~Sweep
    BY <1>1, <2>2, OnlySweepReclaims
  <2>3. CASE Sweep
    <3>1. gc \in Tracing /\ heap' = heap \cap Survivors /\ free' = Objects \ Survivors
      BY <2>3 DEF Sweep, Tracing
    <3>2. Reachable \subseteq marked
      BY <1>1, <3>1, ReachedFromMarked DEF IInv, MarkedHoldsRoots, Reachable
    <3>3. stack \cap heap \subseteq marked
      BY <1>1, <3>1 DEF IInv, MarkedHoldsRoots, Found
    <3> QED BY <2>1, <3>1, <3>2, <3>3 DEF Survivors
  <2> QED BY <2>2, <2>3
<1>2. IInv /\ [Next]_vars => [Kept]_vars
  BY <1>1
<1> QED BY <1>2, Invariance, PTL DEF Spec, NothingReachableLost

\* RevivedSurvive: an object whose finalizer became pending survives the
\* collection that made it so, with all it leads to through objects of faithful
\* kinds.
THEOREM RevivedSurviveThm == Spec => RevivedSurvive
<1>1. ASSUME IInv, [Next]_vars, gc = "sweep" PROVE LeadsTo(revived) \subseteq heap'
  <2>1. gc \in Tracing
    BY <1>1 DEF Tracing
  <2>2. LeadsTo(revived) \subseteq marked
    BY <1>1, <2>1, ReachedFromMarked DEF IInv, MarkedHoldsRoots
  <2>3. LeadsTo(revived) \subseteq heap
    BY DEF LeadsTo, Closure
  <2>4. CASE Sweep
    BY <2>2, <2>3, <2>4 DEF Sweep, Survivors
  <2>5. CASE UNCHANGED vars
    BY <2>3, <2>5 DEF vars, heapVars
  <2>6. ~ClearLinks /\ ~ProcessFinalizers
    BY <1>1 DEF ClearLinks, ProcessFinalizers
  <2> QED BY <1>1, <2>1, <2>4, <2>5, <2>6, OnlyCollectorSteps
<1>2. IInv /\ [Next]_vars => [gc = "sweep" => LeadsTo(revived) \subseteq heap']_vars
  BY <1>1
<1> QED BY <1>2, Invariance, PTL DEF Spec, RevivedSurvive

\* NoStaleLinks: no link that process_weak_refs kept refers to an object that
\* the same collection reclaims.
THEOREM NoStaleLinksThm == Spec => NoStaleLinks
<1> DEFINE Kept == \A l \in links : l.object \in heap => l.object \in heap'
<1>1. ASSUME IInv, [Next]_vars, gc = "sweep" PROVE Kept
  <2>1. \A l \in links : l.object \in marked
    BY <1>1 DEF IInv, LinksAreLive, Dead
  <2>2. CASE Sweep
    BY <2>1, <2>2 DEF Sweep, Survivors
  <2>3. CASE UNCHANGED vars
    BY <2>3 DEF vars, heapVars
  <2>4. ~ClearLinks /\ ~ProcessFinalizers /\ gc \in Tracing
    BY <1>1 DEF ClearLinks, ProcessFinalizers, Tracing
  <2> QED BY <1>1, <2>2, <2>3, <2>4, OnlyCollectorSteps
<1>2. IInv /\ [Next]_vars => [gc = "sweep" => Kept]_vars
  BY <1>1
<1> QED BY <1>2, Invariance, PTL DEF Spec, NoStaleLinks

\* Only process makes finalizers pending, and only of objects not reached.
LEMMA BecomesPending ==
    ASSUME IInv, [Next]_vars, NEW o \in Objects, pending'[o] > pending[o]
    PROVE  gc = "finalizers" /\ o \notin marked
<1>1. pending[o] \in Nat /\ pending \in [Objects -> Nat]
  BY DEF IInv, TypeOK
<1>2. CASE ProcessFinalizers
  <2>1. /\ gc = "finalizers"
        /\ pending'[o] = pending[o] + (IF registered[o] > 0 /\ o \notin marked THEN 1 ELSE 0)
    BY <1>2 DEF ProcessFinalizers
  <2> QED BY <1>1, <2>1
<1>3. ASSUME NEW p \in Objects, RunFinalizer(p) PROVE FALSE
  BY <1>1, <1>3 DEF RunFinalizer, Popped
<1>4. CASE UNCHANGED pending
  BY <1>1, <1>4
<1>5. \/ UNCHANGED pending \/ ProcessFinalizers
      \/ \E p \in Objects : RunFinalizer(p)
  <2> USE DEF finalizerVars
  <2>1. CASE LockedCall
    BY <2>1 DEF LockedCall, GC_roots, GC_register_disappearing_link,
         GC_unregister_disappearing_link, GC_register_finalizer
  <2>2. CASE Collection
    BY <2>2 DEF Collection, StopInCall, ScanRoots, ClearLinks, Sweep
  <2>3. CASE UNCHANGED vars
    BY <2>3 DEF vars
  <2>4. CASE \/ \E d \in ClientDescriptors : GC_new_kind(d)
             \/ \E S \in Procedures : GC_new_proc(S)
    BY <2>4 DEF GC_new_kind, GC_new_proc
  <2>5. ASSUME NEW p \in Objects,
               \/ \E k \in Kinds, u \in BOOLEAN : GC_malloc(p, k, u)
               \/ FinishMalloc(p)
               \/ \E q \in Objects : GC_realloc(p, q)
               \/ \E i \in Words, v \in Objects \cup {Null} : Store(p, i, v)
               \/ Load(p) \/ Forget(p)
        PROVE  UNCHANGED pending
    BY <2>5 DEF GC_malloc, FinishMalloc, GC_realloc, Store, Load, Forget
  <2> QED BY <2>1, <2>2, <2>3, <2>4, <2>5 DEF Next
<1> QED BY <1>2, <1>3, <1>4, <1>5

\* OnlyDeadObjects: process_weak_refs and process act only on objects that the
\* client cannot reach any more.
THEOREM OnlyDeadObjectsThm == Spec => OnlyDeadObjects
<1> DEFINE Linked == \A l \in links \ links' : gc = "links" => l.object \notin Reachable
           Finalized == \A o \in Objects : pending'[o] > pending[o] => o \notin Reachable
<1>1. ASSUME IInv, [Next]_vars, gc \in Tracing PROVE Reachable \subseteq marked
  BY <1>1, ReachedFromMarked DEF IInv, MarkedHoldsRoots, Reachable
<1>2. ASSUME IInv, [Next]_vars, gc = "links", NEW l \in links \ links'
      PROVE  l.object \notin Reachable
  <2>1. gc \in Tracing /\ ~ProcessFinalizers /\ ~Sweep
    BY <1>2 DEF Tracing, ProcessFinalizers, Sweep
  <2>2. CASE ClearLinks
    <3>1. l.object \notin marked
      BY <1>2, <2>2 DEF ClearLinks, KeptLinks, Dead
    <3> QED BY <1>1, <1>2, <2>1, <3>1
  <2>3. CASE UNCHANGED vars
    BY <1>2, <2>3 DEF vars
  <2> QED BY <1>2, <2>1, <2>2, <2>3, OnlyCollectorSteps
<1>3. ASSUME IInv, [Next]_vars, NEW o \in Objects, pending'[o] > pending[o]
      PROVE  o \notin Reachable
  <2>1. gc \in Tracing /\ o \notin marked
    BY <1>3, BecomesPending DEF Tracing
  <2> QED BY <1>1, <1>3, <2>1
<1>4. IInv /\ [Next]_vars => [Linked /\ Finalized]_vars
  BY <1>2, <1>3
<1> QED BY <1>4, Invariance, PTL DEF Spec, OnlyDeadObjects
=============================================================================
