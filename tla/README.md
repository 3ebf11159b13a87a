# vmkit-core: TLA+ specification

vmkit is a toolkit for building managed runtimes on MMTk. This directory holds
TLA+ modules that model its thread system with both ways of stopping the world,
its lock, its allocation paths, its moving objects, its compressed references
and its Boehm-compatible interface; TLC configurations that check them on small
instances; and proofs that TLAPS checks for every value of the constants. Paths
below are relative to `src/vmkit/src/` of the repository.

## 1. Inventory

| Component | State | Operations | Talks to |
|---|---|---|---|
| Mutator thread (`threading.rs`, `Thread`) | `exec_status`, `take_yieldpoint`, `yieldpoint_request_pending`, `yieldpoints_enabled_count`, `should_block_for_gc`, `is_blocked_for_gc`, `is_about_to_terminate`, its `monitor` and `communication_lock` | start, terminate, enter and leave native code, yieldpoint, enable and disable yieldpoints, block, unblock | its own monitor; the thread manager; MMTk |
| Thread manager (`threading.rs`, `ThreadManager`) | table of threads, free indices, `about_to_terminate`, handshake counters | `add_thread`, `block_all_mutators_for_gc`, `unblock_all_mutators_for_gc`, `process_about_to_terminate`, `join_all` | every thread's monitor |
| Collector interface (`mm/collection.rs`) | none of its own | `stop_all_mutators`, `resume_mutators`, `block_for_gc` | called by MMTk's workers and by a failed allocation |
| Monitor (`sync/monitor.rs`) | mutex, condition variable, `holder`, `rec_count` | lock, wait, notify, each with and without a handshake | the thread system, when it waits with a handshake |
| Soft handshakes and pairing (`threading.rs`) | `soft_handshake_left`, `handshake_lock` and its list, communication locks | `soft_handshake`, `begin_pair_with`, `block`, `async_block` | other threads' monitors, the table's lock |
| Signal suspension (`threading.rs`, `sync/semaphore.rs`) | `suspend_count`, `stack_pointer`, `TARGET_THREAD`, a global semaphore | `suspend`, `resume`, the signal handler | the operating system |
| Object header and hash (`object_model.rs`, `object_model/`) | hash state in the header, hash word before the object | hash code, copy, sizes | MMTk's copying |
| Allocation (`mm.rs`, `mm/tlab.rs`, `mm/align.rs`) | each thread's TLAB, the allocator's bump pointer, VO bits | allocate, flush, refill, set a VO bit | MMTk's allocators, stop-the-world |
| Compression (`object_model/compression.rs`) | base and shift, set once | encode, decode | narrow fields of objects |
| Weak references and finalizers (`mm/scanning.rs`, `object_model/finalization.rs`) | registered and pending finalizers | register, process, run | MMTk's reachability |
| BDWGC shim (`bdwgc_shim.rs`) | kinds and descriptors, registered roots, disappearing links, `gc_disabled_depth` | C entry points, `CONSERVATIVE_METADATA` | all of the above, in signal mode |

What is hard here: threads change `exec_status` by compare-and-swap and store
two flags without a lock while the collector changes the same fields under the
thread's monitor; threads start, end, enter native code, and ask for a
collection themselves while the collector looks for a fixpoint; every wait is on
a condition variable whose condition several paths change; the collector holds
the lock of the table while it waits; one signal means two things; a TLAB and
MMTk's bump pointer describe the same memory, and one of them is always out of
date; a collection repeats its weak processing until no finalizer is left.
`PROJECT.json` lists the places one by one ("hazards").

What makes each component correct:

- *Stop the world*: a thread handed to the collector does not run managed code
  until the world is resumed; no thread in the table is forgotten; a request and
  a wakeup are never lost; every requested collection stops the world and every
  blocked thread runs again.
- *Monitor*: it is a recursive mutex; a thread that waits with a handshake never
  holds a collection up, never leaves native code against it, and never keeps
  the mutex while the collection holds it; who asks for the lock gets it.
- *Registry*: an index names one thread. *Handshake*: no thread runs managed
  code past it without having acknowledged, and it returns. *Pairing*: a blocked
  thread stays out of managed code, and `block` returns.
- *Signals*: a signal is never taken for the other kind; a suspended thread
  stays suspended until resumed; everybody runs again.
- *Allocation*: no memory is handed out twice; a call gets what it asked for,
  aligned; exactly the objects have a VO bit, although eight of them share a
  byte that is stored without synchronisation. *Compression*: decode inverts
  encode for exactly the objects within reach.
- *Hash*: an object's hash code never changes, and its size agrees with its
  layout.
- *Shim*: nothing that a client reaches through the words it named is reclaimed,
  cleared or finalized; no link outlives its object; each finalizer runs once; a
  collection ends.

## 2. Plan

| Order | Module | Content | State |
|---|---|---|---|
| 1 | `WorldControl` | abstract promise to the collector | done |
| 2 | `StopTheWorld`, `StopTheWorld_proofs` | cooperative stop and resume; refines `WorldControl` | done |
| 3 | `Monitor`, `Monitor_proofs` | the lock and its handshakes | done |
| | `ReentrantLock` | abstract promise of the lock to its users; `Monitor` refines it | done |
| 4 | `HashMove`, `HashMove_proofs` | hash states and layouts across copies | done, except `copy_to` |
| 5 | `SoftHandshake`, `SoftHandshake_proofs` | the table with its indices and reaping, the soft handshake, pairing and blocking | done |
| 6 | `SignalSuspend`, `SignalSuspend_proofs` | uncooperative mode; refines `WorldControl` | done |
| 7 | `Allocation`, `Allocation_proofs` | TLAB, flush and refill against MMTk's allocator, VO bits, collections between | done |
| | `ObjectHeap` | abstract promise of allocation to the runtime; `Allocation` refines it | done |
| 8 | `Compression`, `Compression_proofs`, `CompressedHeap` | encode and decode; composed with `Allocation` | done |
| 9 | `BdwgcShim`, `BdwgcShim_proofs` | the Boehm interface, weak links, finalizers across collections | done |

Worth doing next: a composition of `SoftHandshake` with the collector of
`StopTheWorld`, whose two users of the table's lock and of `exec_status` are so
far checked apart; the composition of `BdwgcShim` with `SignalSuspend`, so that
a call that holds a lock is stopped by a signal and not by a choice; scopes over
native code (`parked_scope` inside `parked_scope`), as a counter per thread;
`copy_to` for a compacting plan.

## 3. What is modelled

### StopTheWorld

One action is one critical section of a thread's monitor, one compare-and-swap
of `exec_status`, or one store made without a lock. A wait on a condition
variable ends an action, and another one starts when the sleeper has been
notified; `waiters[t]` holds who sleeps on the monitor of `t`. Variables have
the names of the fields. `pc` is where a mutator is, `gc_pc` where the collector
is in `block_all_mutators_for_gc` and `unblock_all_mutators_for_gc`; `todo`
holds the threads its current pass has not dealt with, and, in the wait of a
synchronous `block_unchecked`, the thread waited for.

| Actions | Code |
|---|---|
| `Start`, `EnterAddThread`, `AddThread` | `Thread::start`, `startoff`, `add_thread` with its parked scope |
| `Terminate`, `AddAboutToTerminate`, `AddAboutToTerminateCurrent` | the end of a thread; it stays in the table |
| `EnterNative`, `EnterNativeBlocked`, `FinishNative`, `AttemptLeaveNativeNoBlock`, `LeaveNativeBlocked` | the fast and slow paths of native code |
| `DisableYieldpoints`, `EnableYieldpoints`, `Yieldpoint`, `DeferYieldpoint`, `ClearTakeYieldpoint`, `TakeYieldpoint` | yieldpoints and the sections that defer them |
| `CheckBlock`, `Wake` | `check_block_no_save_context` and its loop |
| `RequestGc`, `BlockForGc` | a failed allocation: MMTk's request (external), then `block_for_gc` |
| `GcScan`, `GcFilter...`, `GcFiltered`, `GcBlock...`, `GcWake`, `GcRescan`, `GcSnapshot` | the four numbered steps of `block_all_mutators_for_gc` |
| `GcResume`, `Unblock`, `GcResumed` | `unblock_all_mutators_for_gc` |

Sections without yieldpoints nest down to `MaxNest`. `enable_yieldpoints` adds 1
to the count whatever it is, so that one call too many makes it 2;
`yieldpoints_enabled` asks for exactly 1, and the thread polls no more. Threads
in `Careless` may do this, once over (`MayEnable` names both bounds), and may
leave it again with `disable_yieldpoints`.

Four facts about the code shape the model. `block_all_mutators_for_gc` binds
the guard of the table's lock and its borrow to the same name and drops only the
borrow, so the lock is held until the end of a pass (`InnerFree`).
`process_about_to_terminate` tests for a state that no code stores, so it reaps
nothing and has no effect but to need the lock. A block request made of a thread
that is about to terminate is left standing. The main thread is in the table twice, from
`add_main_thread` and from `startoff`; here the table is a set, as the second
visit of a pass finds the thread blocked.

Two properties have exceptions because of an enable too many.
`RequestReachesThread` lets a careless thread keep a deferred request at the count
1, which it has come back to from 2, and where no enable raises it.
`CollectionHappens` and `StartedGetsRegistered` end in `WaitsForCareless`, the
collector waiting for such a thread; without it TLC finds both violated.

Left out: stacks and registers, the hooks of the runtime's context, collector
threads and threads that ignore handshakes (the collector's passes skip them),
threads made by `register_mutator_manual`, and block adapters other than
`GCBlockAdapter`, of which the repository has none. Atomics are sequentially
consistent in this and in every other model here; the code uses relaxed
ordering, under which the unlocked stores of `yieldpoint` could be seen in the
other order.

### WorldControl

The promise behind `stop_all_mutators`: threads that run, threads that are held,
threads that are gone. A held thread does not run before `Resume`, and
`Announce` is possible only when each thread the collector knows is held or
gone. Two modules implement it, one for each way of stopping the world:
`KeepsPromise` of `StopTheWorld` and of `SignalSuspend` is this specification
under a refinement mapping.

| | `StopTheWorld` | `SignalSuspend` |
|---|---|---|
| running | the managed locations of `pc` | no handler has the thread, or the handler has not got far (`Running`) |
| held | `is_blocked_for_gc` | stopped in the handler, and not about to end (`Held`) |
| roster | what the last scan of the table saw | the table without the `late` threads (`Roster`) |

A late thread is never held, so that for signals the promise is about the others
only. `Survey` lets the collector learn of threads whenever the world is not
stopped, as with signals a thread enters the table at any time.

### Monitor

One monitor and any number of threads. `mutex` is the parking_lot mutex,
`holder` and `rec_count` the fields, `guards` counts live `MonitorGuard`s of a
thread, `saved` is the count a waiting operation keeps in a local variable.
`holder` is read before the mutex is taken (`LockNoHandshake`), so that the lock
is two actions. Locking, waiting and relocking with a handshake leave native
code only while they own the mutex and give it back when they may not leave
(`HandshakeAcquire`, `LeaveWithMutex`, `GiveMutexBack`). The thread system is
reduced to `exec_status` and the set `detained`, changed as `block_unchecked`
and `unblock` do. `rec_count` wraps like an unsigned integer, at a small value.
Spurious wakeups are excluded, as parking_lot documents.

### ReentrantLock

What a user of the monitor sees, who has guards and calls operations: `held`
counts the guards of each thread, `away` has the threads that gave the lock up
and keep their guards, in a wait or in `unlocked_no_handshake`, and `asleep`
those that are still to be notified. There is no holder, count or mutex. A
thread is given a guard only while nobody else is inside, and comes back only
when it has been woken and nobody is inside. `IsReentrantLock` of `Monitor` is
this specification with `held` as `guards`, `away` as the threads with a saved
count, and `asleep` as `sleepers`, up to and including the first return from
`wait_with_handshake`. Taking the mutex, the tests of `holder`, the retries on
the way out of native code and all that collections do are stutters.

### SoftHandshake

The table, with its indices, and the two other ways in which one thread stops
another. Positions count from 1 and index 0 is unset. The table's lock (`inner`)
and the monitor of a thread are variables only as far as a soft handshake keeps
them over several steps; every other critical section is one action.

| Actions | Code |
|---|---|
| `Start`, `BeginAdd`, `AddThread` | `start`, and `add_thread` with its reaping and its parked scope |
| `ProcessAboutToTerminate` | the loop of `process_about_to_terminate`, one removal at a time |
| `Terminate`, `AddAboutToTerminateCurrent` | the end of a thread |
| `EnterNative`, `LeaveNative`, `Yieldpoint`, `Wake`, `CheckBlock` | native code, yieldpoints and `check_block`, for one block adapter |
| `Call`, `LockTable`, `Snapshot`, `Drain`, `Visit`, `Sleep`, `GoOn`, `Reap`, `Return` | `soft_handshake` and `snapshot_handshake_threads` |
| `BeginPair`, `LockCommunication`, `RequestBlock`, `FinishBlock`, `EndPair` | `safe_block_impl`: `begin_pair_with_current`, `block_unchecked`, and the end of the pair |
| `Unblock` | `unblock` |

What `check_and_signal` of a visitor answers is a choice (`Signal` or
`PassOver`), because the runtime supplies it. An asynchronous block is the same
path without the wait; the model has the synchronous one, which waits under both
communication locks.

How the code behaves here, and how the model and its properties show it:

- The main thread is in the table twice: `add_main_thread` puts it there, and
  `startoff` calls `add_thread` for it again. `FoundByIndex` holds because the
  index is that of the second entry; a handshake visits the thread twice.
- `process_about_to_terminate` compares the status of `threads[i]`, where `i`
  counts positions of `about_to_terminate`, with a state that no code stores.
  Nothing is removed, no index is used again, and the table never shrinks
  (theorem `NothingRemovedThm`); `join_all`, which waits for an empty table,
  does not return once there was a thread. For that reason it is not an action.
- `soft_handshake_left` is only ever incremented. A handshake that finds a
  thread in managed code waits for good, in native code, with `handshake_lock`
  and perhaps monitors held.
- Two handshakes that overlap may deadlock (`HandshakesDeadlock`): one keeps
  `handshake_lock`, the other holds the table's lock in
  `snapshot_handshake_threads` and waits for `handshake_lock`, and the first
  needs the table's lock to reap. They also share the drained list, from which
  each takes the first *n* entries, whoever has put them there.
- `begin_pair_with` takes the other thread's communication lock and then the
  caller's own, in no order over all threads. The comment in `safe_block_impl`
  says "threads are paired, no deadlock can occur" (`threading.rs:944`). With two
  threads that block each other it does: each holds the other's lock and waits,
  in managed code, for its own. `PairDeadlock` is the cycle, through locks and
  through the wait for an acknowledgement (`WaitsFor`); the run `pair_deadlock`
  finds it.
- `HandshakeEnds` and `PairEnds` have these three as outcomes, and say that
  nothing else is in the way: a handshake returns, or `soft_handshake_left > 0`,
  or two handshakes wait for each other; a block returns, or one of these, or
  there is a cycle of pairs. Neither excludes overlap or cycles by a premise. A
  thread that performs no handshake meets the deadlock of two that do, when it
  blocks one of them. Each outcome is needed: without it TLC finds the property
  violated.
- `unblock` takes no communication lock, so that it may fall between the request
  and the acknowledgement of a block that another thread has begun;
  `FinishBlock` accounts for that.

### SignalSuspend

The feature `uncooperative`. One action is one step of a thread, of its signal
handler or of the collector between two accesses to what they share:
`suspend_count`, `TARGET_THREAD`, `stack_pointer`, the semaphore, the pending
signal and the table's lock. `pc` is what a thread does when no handler
interrupts it, `handler` how far its handler is; a signal may arrive wherever
the thread is.

| Actions | Code |
|---|---|
| `Start`, `AddThread`, `StoreHandle` | a thread enters the table before its handle is stored |
| `WantGc`, `RequestBlock`, `AcknowledgeBlock`, `CheckBlocked` | `block_for_gc`: the thread asks itself to block and waits |
| `Terminate`, `LockTable`, `Exit` | the end of a thread; it stays in the table |
| `Deliver`, `HandlerBacksOff`, `HandlerPosts`, `HandlerSuspends`, `HandlerNested`, `HandlerResumes` | the signal handler, with `sigsuspend` and the nested handler that ends it |
| `GcStart`, `SkipTerminating`, `SuspendNext`, `SendSuspend`, `SendToExited`, `Answered`, `AllSuspended` | `block_all_mutators_for_gc` and `suspend` |
| `ResumeAll`, `ResumeNext`, `Resumed`, `Unblock`, `AllResumed` | `unblock_all_mutators_for_gc`, `resume` and `unblock` |

The alternative stack is a choice of the handler (`HandlerBacksOff`), for the
threads in `AltStack`. `suspend_count` wraps at `Width`; one bound departs from
the code: the count of a dead thread stops at 2 on its way down (`CountDown`),
where the code would need 2^64 collections.

MMTk's request is a flag (`gc_requested`): a thread whose poll finds memory
exhausted sets it, and the collector consumes it and starts. A thread that wants
a collection does not start one by itself.

Four weaknesses are stated as the exceptions of the properties:

- `late`: `resume` counts every thread of the table down, also one that entered
  it after the pass that suspends. Its count wraps to the largest value, and
  `suspend` sends no signal to a thread whose count is not 0. Such a thread runs
  through this and all later collections.
- `TableLockSuspended`: a thread suspended between `lock` and `unlock` of the
  table in `add_about_to_terminate_current` keeps that lock, which the collector
  takes next.
- `WaitsForExited`: `is_about_to_terminate` is read before the signal is sent. The
  thread may be gone by then; `pthread_kill` gives an error or, in newer versions
  of the C library, success, and then nobody posts the semaphore.

- A thread may be suspended between the poll and `block_unchecked`, sleep through
  the collection it asked for, and then block itself, when nobody is going to
  wake it. `BlockedIsReleased` is stated for a thread that has a collection to
  come (`CollectionToCome`): a pass that suspends, or a request. Without that
  premise TLC finds the thread that oversleeps.

The table is a set, though the main thread is in the code's twice: its
`suspend_count` goes up and down by two, and it is signalled by the first
suspension and the second resumption.

The handler also calls `flush_tlab` on every entry, which may fall into the
middle of an allocation that has loaded the cursor of the TLAB and stores it
back later. That is not modelled: what the allocator then finds depends on the
order in which the compiler stores cursor and limit.

### Allocation

Addresses count words; a header is one word, and a reference points behind it.
A call of `allocate` is a sequence of steps (`call[t].pc`): the TLAB, or
`flush_tlab`, MMTk's `alloc`, the header, the VO bit, `refill_tlab` and
`post_alloc`. A collection may come when all threads are between calls or inside
`alloc`, where the safepoints are.

| Actions | Code |
|---|---|
| `AllocateFast` | `MemoryManager::allocate` with `TLAB::allocate` and `align_allocation` |
| `AllocateElsewhere`, `AllocateOutOfLine`, `FlushTlab` | the other ways into `allocate_out_of_line` and its arms, `flush_tlab` |
| `AllocFromBuffer`, `AllocFromBlock`, `AllocCell` | MMTk's allocators (external): a bump allocator over blocks, and spaces that grant cells |
| `Initialize`, `SetVoBit` | the header's store, and the load and the store of `set_vo_bit` |
| `RefillTlab`, `PostAlloc` | `refill_tlab`, and MMTk's `post_alloc` for large objects |
| `Collect` | `stop_all_mutators` flushes every TLAB; MMTk resets its buffers, reclaims and clears bits |

`bump[t]` is MMTk's pair of cursor and limit. While there is a TLAB, the pair is
what it was when the TLAB was copied from it. `Collect` flushes the TLAB of every
thread; the code flushes those that `block_all_mutators_for_gc` returned, and the
late ones of `StopTheWorld` keep theirs. They are not modelled here.

`set_vo_bit` loads and stores a whole byte, the bits of eight words, without
synchronisation (`VoByte`, of `VoWords` words). Objects of one thread share bytes
all the time; two threads do not, because MMTk gives a block to one thread, and
`BlocksApart` says that blocks, which are of many pages, share no byte. One case
is left: an object without fields at the end of its block is a header only, its
reference is the first word behind the block, and its bit is in that block's
byte, where another thread may be between load and store. `allocate` tests for no
size, and `GC_malloc(0)` comes here. `crossed` records the bytes in which that has
happened; `VoBitsMatchObjects` says that in every other byte exactly the objects
have their bits. Without `crossed` TLC finds a bit lost. In the run the second
block begins where the first one ends, the first has three words in one byte, and
both sizes are used, so that bits are stored next to others and across blocks.

The last arm of `allocate_out_of_line` passes offset 0 to MMTk where the others
pass `OBJECT_REF_OFFSET`: for read-only objects, and for objects of Default
semantics that come there by a direct call, the header is aligned and not the
reference. An object records the alignment that was asked for, and at which of the
two places it has it (`offset`); `ReferencesAligned` and `ServesRequests` say that
it has it there.

### ObjectHeap

What allocation promises to a runtime: a thread asks (`Ask`), is given an object
in one step (`Give`), and a collection reclaims objects with their bits
(`Reclaim`). The object is as large as was asked for, lies apart from all others
and is aligned at the offset of its path, and its bit is set when the thread gets
it. There are no buffers,
blocks or paths. `Allocation!ServesRequests` is this specification where a call
in progress is a request (`Wants`) and the bits are those of returned objects
(`BitsOfObjects`): on the slow path `set_vo_bit` stores the bit before the call
returns. A bit in a byte of `crossed`, which may be lost, counts as set.

### Compression and CompressedHeap

`InitOps` is `CompressedOps::init`, `Encode` and `Decode` are `encode` and
`decode`; addresses count bytes, and a shift is a multiplication with `scale`.
The code checks no limit: `Fits` is what a runtime has to see to. Nor does
`allocate` raise the alignment it is asked for to `MIN_ALIGNMENT`, on which an
untagged scaled reference relies; `Reachable` and `AddressIn` take objects at
multiples of the scale. `CompressedHeap` extends `Allocation` and `Compression`:
the references of the objects that are allocated are stored in narrow fields,
for each of several heaps that the operating system may have reserved. The blocks
are the highest ones of a heap (`BlocksInHeaps`), which is aligned like objects
(`HeapsAligned`). `NarrowFieldsLeadBack` says which objects survive the cast to 32
bits: exactly those within reach (`InReach`), and in a heap that fits, every one
below its end. One of the heaps is too large by a page, so that some objects are
out of reach; an empty object whose reference is the end of the heap is another
one that may be.

### HashMove

Memory is an array of words; a header is a word with the object's name (for its
metadata, from which the code computes the size) and the two bits of hash state.
Addresses count words, so that the hash code of an object that has not moved,
its address shifted by three, is its reference. `TakeHash` is `hashcode`, `Copy`
is `ObjectModel::copy` with the whole of `move_object`: the layout before and
after depends on the state, and count, source and target offset are computed as
in the code. MMTk's allocator grants any free, aligned cell (`Grants`), which
includes the cells that a collection has freed before. Moves of different
objects in one collection are independent, so a collection is a sequence of
`Copy` and `Reclaim`; no mutator runs in between in the code, and letting one
run only adds behaviours. `first` and `rehashed` are history variables.
Allocation is the one with Default semantics; the fields are what the runtime
stores in them.

### BdwgcShim

An object is a name, a kind and an array of words, each null or the address of
an object; objects do not move. `stack` and `roots` are the objects that
conservative scanning finds in stacks and in registered spans. A call of the
client that changes a table under a lock is one action; allocation, which holds
none, is two. A collection is a sequence of steps during which the client does not
run.

| Actions | Code |
|---|---|
| `GC_malloc`, `FinishMalloc` | the allocation functions, by the kind that they give the object and the space they ask for: up to the header, and from `set_vo_bit` on |
| `GC_realloc` | the copy into what it has allocated |
| `Store`, `Load`, `Forget` | what the client does with pointers (external) |
| `GC_new_kind`, `GC_make_descriptor`, `GC_new_proc` | kinds of typed objects, their descriptors, mark procedures |
| `GC_roots` | `GC_add_roots`, `GC_remove_roots`, `GC_clear_roots` |
| `GC_register_disappearing_link`, `GC_unregister_disappearing_link` | weak links |
| `GC_register_finalizer`, `RunFinalizer` | `register_finalizer` and `run_finalizers` |
| `ScanRoots` | roots, and the closure by the callback of `CONSERVATIVE_METADATA` (`Scanned`, `Hangs`, `MayHang`) |
| `ClearLinks`, `ProcessFinalizers` | `process_weak_refs` and `FinalizerProcessing::process`, repeated until no finalizer is found |
| `Sweep` | MMTk reclaims and zeroes (external) |
| `StopInCall` | a signal stops a client in a call that holds a lock the collection takes |

What a client may rely on and what the callback does are two definitions.
`Promised` has the words that the client *named* for a kind, `Scanned` those that
the callback looks at for its descriptor; `NothingReachableLost`,
`OnlyDeadObjects` and `RevivedSurvive` are about what `Promised` words lead to.
They differ for the kinds in `Unfaithful`, which are the exception of all three:

- `GC_make_descriptor` returns 0 for a bitmap that is not a prefix, so that no word
  is scanned. For a prefix it returns its length in words, and the callback takes
  the low bits for a tag: 1 is an empty bitmap, 2 the first mark procedure and 3
  a descriptor in the object. Whatever the client has named is lost. (From nine
  words on, `gc_get_bit` also reads the wrong bits; objects have at most three
  words here.)
- A descriptor with a mark procedure that is not registered scans nothing
  (`Registered`), and one whose procedure pushes other words scans those.
- A descriptor kept in the object or in a type descriptor (`PerObject`) is read
  and dropped. The callback then returns without scanning or starts again.

With the exception left out, TLC finds an object reclaimed that the client reaches
through a word it named.

How the code behaves here:

- The loops of the trace callback do not end for a bitmap with a clear bit below a
  set one, which is then not shifted, nor for a descriptor that is kept in the
  object (`Hangs`); for one kept in a type descriptor they end only if that is
  null or has 0 (`MayHang`). The collection is then in the phase `looping`, and
  `CollectionEnds` has the premise `Harmless`.
- A signal may stop a thread in `allocate` between the bump of the cursor and
  `set_vo_bit` (`mm.rs:142-151`). The object has no VO bit, is not found on the
  stack, and its memory is taken back and zeroed, header included
  (`immix_zero_on_release`); then the call returns it, of kind `Zeroed`. That
  object is the stated exception of `NothingReachableLost`, and TLC finds the
  property violated without it. What MMTk makes of the memory when it hands it out
  again is not modelled: the name stays with its object (`free \ fresh`).
- Objects of `GC_malloc_uncollectable` and `GC_generic_malloc_uncollectable` are in
  the immortal space: they are never reclaimed, but they are not roots either,
  and what only they refer to is.
- `GC_realloc` drops the descriptor of a typed object and the immortality of an
  uncollectable one. It copies as many bytes as the new object holds, also when
  the old one is smaller (`bdwgc_shim.rs:1003`); objects have one size here, so
  that this read beyond an object is not modelled.
- A collection that stops a thread inside a call which holds the lock of the
  roots, the links or a finalizer queue waits for that lock forever
  (`StopInCall`, phase `waiting`). These locks are taken without a handshake, and
  the shim runs in signal mode. No property is about such a collection.
- A disappearing link is dropped with its object, not with the object that holds
  the word: when that one is reclaimed, the link stays, and later clears a word of
  whatever has come there. `NoStaleLinks` is about the link's object.
- A finalizer's object survives the collection that makes the finalizer pending
  (`RevivedSurvive`). Pending finalizers are not roots: a later collection
  reclaims the object if it comes before `run_finalizers`, which then hands out
  a stale address (`finalization.rs:98`). `RunFinalizer` allows for that.
- `vmkit/docs/bdwgc.md:82` says that finalization is not yet implemented; it is,
  and it is modelled. Line 79 says that `GC_pthread_create` waits for the new
  thread; its barrier counts one thread, so each side passes at once.
- `GC_disable` and `GC_enable` change a count that only `GC_is_disabled` reads.

## 4. Runs

| Run | Question | Bounds |
|---|---|---|
| `stw_safety` | safety and refinement of StopTheWorld | three mutators: one always there with sections without yieldpoints down to depth 2 and an enable too many, one that starts late and may end, one that starts late; 2.8 million states |
| `stw_live` | liveness under fairness | two mutators: one always there, one that starts late, may end, has sections down to depth 2 and an enable too many; 73 thousand states |
| `stw_late_start` | "Stop all mutator threads" (`threading.rs:1486`) | two mutators; violated |
| `monitor` | safety, refinement and liveness of Monitor | two threads, recursion depth 2; 166 thousand states |
| `monitor_wait` | "ReentrantMutex combined with Condvar" (`sync/monitor.rs:30`) | two threads, depth 2; violated |
| `handshake` | indices, handshakes and pairing | three threads; two perform a handshake each, and one of these and the third may block each other, once each way; 517 thousand states |
| `pair_deadlock` | "threads are paired, no deadlock can occur" (`threading.rs:944`) | two threads that may block each other, no handshakes; violated |
| `signal` | safety, refinement and liveness of signal suspension | two threads, one there from the start that may be on an alternative stack, one that starts late and may end; 30 thousand states |
| `alloc` | memory, VO bits, narrow fields, and refinement of ObjectHeap | two threads, a block of three words and one of a word behind it, four words to a byte of VO bits, objects with no field and with one, alignments of one and two words, four heaps; 856 thousand states |
| `hash_move` | contents, alignment, extent and hash code across moves | twelve words, an object of one word and one of two words aligned to two; 116 thousand states |
| `hash_twice` | "object hash is stored in the object itself" (`object_model/object.rs:25-27`) | the same; violated |
| `shim` | reachability, links, finalizers; collections end | two objects of one word, one typed kind and one mark procedure, a link between the objects and one within an object; 2.1 million states |

The bounds are enough for the cases that matter. The stop-the-world handshake is
pairwise, between the collector and one mutator, so two mutators give the passes
a thread that is blocked, one that is still running, one that starts or ends in
between; the third makes a pass with two threads left. Nesting depth 2 tells the
enable that reaches the count 1 from one that does not, in both runs, and the
count 2 is one that yieldpoints do not come back from by themselves. Two threads
and depth 2 give the monitor contention, recursion and a notified waiter that
races a locker. Three threads and two callers let two handshakes overlap and visit
a thread that blocks one of them or is blocked by it, so that each of the three
stated outcomes occurs; with a second blocker of
the third thread (`Pairs = {<<a, c>>, <<b, c>>, <<c, a>>}`) the run passes as well,
in 1.5 million states, and is left out for its time. Signals go to one thread at a
time, so the second thread matters for lateness, for the table's lock and for one
thread stopped while another is not; width 4 lets a count wrap and still be told
from 0, 1 and 2. The first block of `alloc` holds up to three objects, whose bits
are in one byte, and by its one word the second lets an empty object of the first
have its bit where the other thread allocates; threads change blocks after one has
left or a collection has freed them. The four heaps lie below the span of narrow
references, between it and the scaled span, above both, and out of reach by a
page. Twelve words let both hashed objects be in the largest layout, next to each
other in either order, with room to move either.

In the shim one object refers to the other, a link's object or home dies first,
and a finalizer revives what the other needs. With one word per object
`GC_make_descriptor` gives what loses that word, and `Descriptors` has one with a
mark procedure, registered or not, and one kept in a type descriptor; bitmaps of
two words and more, with clear bits among them, are within the theorems only.
`MAXOBJKINDS` and `GC_MAX_MARK_PROCS` are 1, so that both tables fill up; registered
spans point to one of the objects (`Spans`), and the finalizer of the other is due
at most once (`MaxDue`).

`alloc` uses the symmetry of its two threads, which no action names and which
is sound as the run checks safety only; no other run uses symmetry, and none
a state constraint. The proofs drop the bounds.

Properties of StopTheWorld: `StoppedAreParked`, `NobodyForgotten`,
`RequestReachesThread`, `SleepersHaveReason`, `BlockedHasCollection`,
`OnlyResumeReleases`, `KeepsPromise`; liveness `CollectionHappens`,
`StartedGetsRegistered`, `BlockedRunAgain`. Of Monitor: `IsReentrantLock`,
`WaitersAreParked`, `DetainedStayOut`, and `LockIsGranted`. Of SoftHandshake:
`NoneRunsUnacknowledged`, `FoundByIndex`, `BlockedStayOut`; liveness
`HandshakeEnds`, `PairEnds`. Of SignalSuspend: `WorldIsStopped`,
`SignalsUnderstood`, `KeepsPromise`; liveness `SuspendedRunAgain`,
`BlockedIsReleased`. Of Allocation and CompressedHeap: `NothingHandedOutTwice`,
`VoBitsMatchObjects`, `ServesRequests`, `NarrowFieldsLeadBack`. Of HashMove:
`BodyIntact`, `HashSurvivesMove`, `ExtentIsCell`, `RefAligned`,
`CopyIsWherePromised`. Of BdwgcShim: `NothingReachableLost`, `OnlyDeadObjects`,
`NoStaleLinks`, `FinalizersConserved`, `RevivedSurvive`; liveness
`CollectionEnds`. Each is explained above its definition. The type invariants
are not part of a run: they are proved, and so are `MonitorIsRecursiveMutex`,
`MutualExclusion`, `ReferencesAligned` and `NarrowFieldsTellApart`. The
operators named `Mut...` are variants of a definition with a plausible bug, one
for each property; substituting one makes TLC find the property violated.

### What the violations show

- `PairedNeverDeadlock`. Two threads that block each other at the same time each
  take the other's communication lock and wait for their own. `PairEnds` says
  that the cycle is the only way in which pairing itself hangs.
- `WorldStopped`. A thread that has been started and is not yet in the table
  when the fixpoint ends is registered by `add_thread` while the world is
  stopped and runs managed code. `StoppedAreParked` and `NobodyForgotten` say
  what does hold: every thread that the last scan saw is stopped or gone.
- `WaitKeepsOwnership`. `wait_with_handshake` consumes the guard it is called on
  and drops it after `relock_with_handshake` has restored the count. The drop
  decrements the count again, and releases the mutex when the lock was not
  nested. `IsReentrantLock`, `MonitorIsRecursiveMutex` and `LockIsGranted` are
  therefore stated until the first return from `wait_with_handshake`, which the variable
  `rewaited` records.
- `HashNeverChanges`. `move_object` stores `Hashed` in every object that was not
  `Hashed`, also in one that was `HashedAndMoved`. The second move after the
  hash code was taken thus hides the stored hash word, and the hash code becomes
  the new address. `HashSurvivesMove` and the last conjunct of `ExtentIsCell`
  hold until then; `rehashed` records it. Contents, alignment and the bounds of
  the cell are not affected.

### Fairness

*StopTheWorld and Monitor.* Weak fairness for the collector and for a thread
that has been notified or has a step under its own monitor to finish (`Busy`):
they are scheduled. Strong fairness for taking a lock that is free again and again
(`TakesInner`): parking_lot's mutex hands over fairly. Strong fairness for
`Yieldpoint`, and at every depth for the enable that ends a section: the runtime
is cooperative, it polls `take_yieldpoint` again and again and leaves its sections
(`threading.rs:1346-1349`). Nothing obliges native code to return, a thread to
start another, a body to end, or a thread to take back an enable too many.
`BlockedRunAgain` assumes that collections stop
coming: a thread woken between two of them may be asked again before it runs.
`LockIsGranted` assumes that collections stop holding threads, and that guards
are dropped.

*SoftHandshake.* Weak fairness for the steps of a handshake and of a pairing
that has begun, and for the poll of a yieldpoint and the wakeup of a sleeper.
Nothing obliges a thread to unblock whom it has blocked, to leave native code or
to end.

*SignalSuspend.* Weak fairness for the collector, for the handler and for a
thread that has begun to start, to block itself or to end. Strong fairness for
the table's lock, and for `HandlerPosts`: a thread does not stay on its
alternative stack each time it is asked.

*BdwgcShim.* Weak fairness for the steps of a collection that has stopped the
world. Nothing obliges a client to let go of a lock while it is stopped.

## 5. Proofs

`StopTheWorld_proofs` proves, from `ConstantsOK` alone, that `IInv` is inductive
and that it implies the type invariant, every safety property the runs check,
the action property and the refinement. The properties are not inductive by
themselves: `StoppedAreParked` needs to know that a blocked thread cannot leave
native code by the fast path (`BlockedIsParked`), that what the passes have
taken off their lists is blocked or dying (`PassCovers`), and that a request is
current, and deferred only while the count is not 1 or by a careless thread
(`RequestIsCurrent`); `BlockedHasCollection` needs that a thread on its
way to `block_for_gc` has the collection still before it (`CollectionAhead`).
There is one lemma per conjunct, split by groups of actions. The refinement is
proved by mapping each group of actions to a step of `WorldControl` or a
stutter.

`Monitor_proofs` proves `IInv` of Monitor inductive from `MonitorConstants`,
and from it types, the recursive mutex, mutual exclusion, that waiters are
parked, and that held threads stay out. The strengthening says who keeps a
count (`CountIsSaved`), that the holder owns the mutex (`HolderOwns`), that a
thread about to leave native code owns it (`GotIsOwned`), that a free monitor
counts 0 (`FreeIsZero`), that a kept count is the number of guards given up
(`SavedIsGuards`), and that only waiting threads are in the queue of the
condition variable (`SleepersWait`). `Refinement` maps each operation to a step
of `ReentrantLock`: `OwnerExcludes` shows that no other thread is inside when
the mutex is free or the thread's own, which `HolderOwns` gives for the
recursive path that takes no mutex, `GotIsOwned` for the way out of native code,
and the guard of the action for the rest.

`SoftHandshake_proofs` proves from `HandshakeConstants` that a thread is found
by its index, that a blocked thread stays out of managed code, and that nothing
is ever removed from the table. `TableIsSound` says that the threads which wait
to be removed are distinct dead threads of the table. By the pigeonhole
principle there are at most as many as the table has entries, so the lookup
`threads[i]` never leaves the table; and no status is the one it looks for.
`StatusIsSound` says which states a thread in managed code can have, and that
one which leaves native code by the fast path is not blocked.

The theorems on handshakes rest on a second invariant, `HInv`. That a caller
takes no more off the shared list than there is on it, whoever has put it there,
is a statement about the sum of all callers' counts. `ListIsOwed` states it
without a sum: `Owed` has one pair for each thread a caller has counted and not
drained, and as many elements as the list has entries. `SignalIsSound` says that
a thread which was signalled and has not acknowledged is in a state that it can
leave only through its monitor, and runs managed code only while its caller
waits; `OnlyStarted`, that the table and the lists made of it hold no unborn
thread, whose status nobody could change.

`SignalSuspend_proofs` proves from `SignalConstants`, for every number of
threads and every width above 3, the types, `SignalsUnderstood` and
`WorldIsStopped`. The strengthening follows the one signal that is under way:
`CollectorInStep` says what the collector knows of its current thread,
`PostIsAnswer` that a post of the semaphore answers it, `SignalIsCurrent` that a
signal is pending, or handled, for that thread only, `CountIsSuspension` that a
count of 1 means a thread stopped in its handler, and `DealtWith` that the
passes leave nobody out but the exceptions of `WorldIsStopped`. From these
follows the refinement of `WorldControl`, with `PassReturns`: who the pass has
stopped and left behind is returned to MMTk.

`Allocation_proofs` proves from `AllocationSizes` and `BlocksApart` the types,
`NothingHandedOutTwice` and `ReferencesAligned`. `TlabIsCopy` says that a TLAB
is what MMTk's pair was, or a rest of it, and `FlushedOutOfLine` that there is
none between flush and refill; the two together make `Reserve` the one buffer of
a thread. `OwnApart` restates the property from the side of one thread, so that
a step has to be looked at for the thread that takes it and for one other.

`VoBitsMatchObjects` needs to know why two calls between the load and the store
of `set_vo_bit` have different bytes, or one that is in `crossed`. `LInv` says that
what a thread works with lies in a block (`Located`), and that no two threads have
unfinished memory in one block (`OneThreadABlock`, with MMTk's pair in place of
the TLAB, because the pair is what `NotShared` looks at). A reference is in its
object's block, or is the end of it; in the second case the object's cell ends
with the block and its byte is in `crossed` before the store (`CrossingsKnown`).
`VInv` adds that outside these bytes the byte which was loaded is still what
memory holds (`LoadedByteIsCurrent`), and that a reference is in its cell or the
end of it (`ReferencesInside`); as no cell is empty, two objects have two
references. There is no hypothesis on sizes.

`Refinement` of the same module shows that allocation implements `ObjectHeap`:
a call's first step asks, the last step of its path gives, and all others
stutter. What is given is apart from all objects by `OwnApart`, aligned at the
offset of its path by `CallsAreSound`, and marked by `VInv` before and after the
step, or in a byte of `crossed`.

`Compression_proofs` proves from `CompressionAssumption` that decoding undoes
encoding exactly for the addresses within reach (`InReach`), among those of a heap
at a multiple of the scale (`Reachable`), that in a heap that fits (`Fits`) all of
these are, and that none of them becomes null. The rest is about the composition:
by `BlocksInHeaps` and `HeapsAligned`, with `Located` and `ReferencesInside` of
`Allocation`, the reference of each allocated object is such an address or the end
of the heap, which gives `NarrowFieldsLeadBack`; and since two objects have two
references, `NarrowFieldsTellApart`.

`HashMove_proofs` proves, from `HashConstants`, every property of the run
`hash_move`. The strengthening says that cells do not overlap (`CellsDisjoint`),
hold the object with at most one word in front (`CellHolds`), have the hash word
that the state promises (`HashWordThere`), and where the first hash code can be
found (`HashKept`). The invariant is restated object by object, as a predicate
of the memory; `Frame` shows that it depends on the object's cell only,
`CopyEffect` what a copy leaves in memory, and each action follows from these.

`BdwgcShim_proofs` proves from `ShimConstants` every property of the run `shim`
but `CollectionEnds`. `Closure` is defined as the intersection of all closed
sets, so that what is reached is closed and least without an induction.
`MarkedHoldsRoots` says that from the root scan to the sweep the marked objects
are closed and hold the roots and the revived objects, `LinksAreLive` that after
`process_weak_refs` every link's object is marked. What connects the client's side
with the callback's is the lemma `PromisedIsScanned`: for a faithful kind, the
words that the client named are among those that the callback scans. It goes
through every descriptor a client can make, `GC_make_descriptor`'s included, for
every number of words.

Every invariant, action property and refinement that a passing run checks is
proved. Only model-checked is liveness (`CollectionHappens`,
`StartedGetsRegistered`, `BlockedRunAgain`, `LockIsGranted`, `HandshakeEnds`,
`PairEnds`, `SuspendedRunAgain`, `BlockedIsReleased`, `CollectionEnds`), because
TLAPS proves neither leads-to under fairness nor `ENABLED` here. The four runs
that expect a violation have, of course, no theorem.

## 6. Not modelled

Of the modelled components:

- `copy_to`, whose size comes from whatever the destination held before; the
  write barrier, which tests one bit of MMTk's side metadata and forwards to
  MMTk, whose remembered set gives that bit its meaning; `set_metadata`.
- `register_mutator_manual`: its threads keep the status `New`, for which no
  cooperative block waits; the shim, which alone uses it, runs in signal mode,
  where `Initial` stands for such threads.
- A scope over native code inside another (`parked_scope` nests only in
  `InNative`).
- `flush_tlab` in the signal handler (above), `join_all` (above), collections
  during a soft handshake, more than one block adapter.
- Relaxed atomics: all accesses are sequentially consistent here. The exception
  is the byte of VO bits, whose load and store are two steps.
- In `Allocation`: threads that entered the table too late for a collection, whose
  TLABs it does not flush.
- In the shim: the count of `GC_disable`, statistics and settings that return
  constants, and thread creation, which StopTheWorld and SignalSuspend have; the
  read beyond a smaller object in `GC_realloc`; memory that is handed out again
  while an interrupted allocation still has it.

For good: the derive and bytecode macros of `vmkit-proc` (code generation),
`platform/`, `mm/stack_bounds.rs`, `mm/aslr.rs`, `build.rs` (operating system
queries and build configuration), the dispatch tables of
`object_model/metadata.rs` and `mm/spec.rs`, the start-up of a VM instance,
which sets its fields once, and the examples.
