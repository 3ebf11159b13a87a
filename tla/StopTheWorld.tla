---------------------------- MODULE StopTheWorld ----------------------------
(***************************************************************************)
(* How vmkit stops and resumes its mutator threads for a collection when   *)
(* the runtime is cooperative (ThreadSuspension::Yieldpoint), from         *)
(* vmkit/src/threading.rs and vmkit/src/mm/collection.rs.                  *)
(*                                                                         *)
(* Every mutator owns a monitor.  A critical section of that monitor that  *)
(* does not wait is one action here; a wait on its condition variable ends *)
(* the action, and another action starts when the waiter has been          *)
(* notified.  A compare-and-swap of exec_status and a store that the code  *)
(* performs without the monitor is an action of its own.  The collector is *)
(* one more thread, Gc, that runs stop_all_mutators and resume_mutators.   *)
(*                                                                         *)
(* Threads that ignore handshakes, and threads registered by               *)
(* register_mutator_manual, are not mutators of this module.  The table is *)
(* a set here; the code lists the main thread twice (add_main_thread and   *)
(* startoff both add it), and visits it twice in a pass.                   *)
(*                                                                         *)
(* A definition named Mut... is its neighbour with a plausible bug; no     *)
(* action uses it.  Substituting it shows that a property can fail.        *)
(***************************************************************************)
EXTENDS Integers, FiniteSets

CONSTANTS
    Mutators,   \* mutator threads, started or not
    Initial,    \* those that run and are in the table when the model starts
    Terminable, \* those whose body may return
    Critical,   \* those that have sections without yieldpoints
    MaxNest,    \* bound: how deep such sections may nest
    Careless,   \* those that may enable yieldpoints once too often
    Gc          \* the collector, which is no mutator

ASSUME ConstantsOK ==
    /\ Initial \subseteq Mutators
    /\ Terminable \subseteq Mutators
    /\ Critical \subseteq Mutators
    /\ MaxNest \in Nat
    /\ Careless \subseteq Mutators
    /\ Gc \notin Mutators

VARIABLES
    pc,                          \* where each mutator is in its code
    exec_status,                 \* Thread::exec_status
    take_yieldpoint,             \* Thread::take_yieldpoint # 0
    yieldpoint_request_pending,
    yieldpoints_enabled_count,
    should_block_for_gc,         \* GCBlockAdapter's request
    is_blocked_for_gc,           \* GCBlockAdapter's acknowledgement
    is_about_to_terminate,
    waiters,                     \* who sleeps on each mutator's monitor
    threads,                     \* ThreadManagerInner::threads
    gc_requested,                \* the trigger MMTk keeps
    gc_pc,                       \* where the collector is
    todo,                        \* threads left in the collector's pass
    handshake_threads,           \* threads it kept for the next pass
    roster,                      \* threads its last scan of the table saw
    stopped                      \* what block_all_mutators_for_gc returned

mutatorFlags == <<take_yieldpoint, yieldpoint_request_pending,
                  yieldpoints_enabled_count>>
blockFlags == <<should_block_for_gc, is_blocked_for_gc, waiters>>
collector == <<gc_pc, todo, handshake_threads, roster, stopped>>
vars == <<pc, exec_status, mutatorFlags, blockFlags, is_about_to_terminate,
          threads, gc_requested, collector>>

-----------------------------------------------------------------------------
(* States.  exec_status never takes the value Terminated: no code stores it. *)

ThreadState == {"New", "InManaged", "InNative", "InManagedToBlock",
                "BlockedInNative"}

\* The thread runs, or is about to run, code that may touch the heap.
Managed == {"run", "defer", "yieldpoint", "gcreq", "terminating"}

\* The thread is in native code, or sleeps in check_block.
Parked == {"native", "leaving", "blocked"}

Locations == Managed \cup Parked
             \cup {"unborn", "starting", "registering", "ending", "dead"}

GcLocations == {"idle", "scan", "filter", "block", "wait", "reap",
                "stopped", "unblock"}

InNativeCode == {"InNative", "BlockedInNative"}

TypeOK ==
    /\ pc \in [Mutators -> Locations]
    /\ exec_status \in [Mutators -> ThreadState]
    /\ take_yieldpoint \in [Mutators -> BOOLEAN]
    /\ yieldpoint_request_pending \in [Mutators -> BOOLEAN]
    /\ yieldpoints_enabled_count \in [Mutators -> {0} \cup (1 - MaxNest)..2]
    /\ should_block_for_gc \in [Mutators -> BOOLEAN]
    /\ is_blocked_for_gc \in [Mutators -> BOOLEAN]
    /\ is_about_to_terminate \in [Mutators -> BOOLEAN]
    /\ waiters \in [Mutators -> SUBSET (Mutators \cup {Gc})]
    /\ threads \in SUBSET Mutators
    /\ gc_requested \in BOOLEAN
    /\ gc_pc \in GcLocations
    /\ todo \in SUBSET Mutators
    /\ handshake_threads \in SUBSET Mutators
    /\ roster \in SUBSET Mutators
    /\ stopped \in SUBSET Mutators

Init ==
    /\ pc = [t \in Mutators |-> IF t \in Initial THEN "run" ELSE "unborn"]
    /\ exec_status =
         [t \in Mutators |-> IF t \in Initial THEN "InManaged" ELSE "New"]
    /\ take_yieldpoint = [t \in Mutators |-> FALSE]
    /\ yieldpoint_request_pending = [t \in Mutators |-> FALSE]
    /\ yieldpoints_enabled_count =
         [t \in Mutators |-> IF t \in Initial THEN 1 ELSE 0]
    /\ should_block_for_gc = [t \in Mutators |-> FALSE]
    /\ is_blocked_for_gc = [t \in Mutators |-> FALSE]
    /\ is_about_to_terminate = [t \in Mutators |-> FALSE]
    /\ waiters = [t \in Mutators |-> {}]
    /\ threads = Initial
    /\ gc_requested = FALSE
    /\ gc_pc = "idle"
    /\ todo = {}
    /\ handshake_threads = {}
    /\ roster = {}
    /\ stopped = {}

-----------------------------------------------------------------------------
(* The lock of the thread table.  block_all_mutators_for_gc shadows its    *)
(* guard and drops only the RefCell borrow, so the collector keeps the     *)
(* lock for the whole of a pass, the waits included; so does               *)
(* unblock_all_mutators_for_gc.                                            *)

\* Mutant: the collector returns from unblock_all_mutators_for_gc with the lock.
MutInnerLeaked == gc_pc \notin {"filter", "block", "wait", "unblock"}
                  /\ ~(gc_pc = "idle" /\ roster # {})

InnerFree == gc_pc \notin {"filter", "block", "wait", "unblock"}

(* check_block, entered with the monitor held: acknowledge the request     *)
(* `requested`, notify if there was one, and sleep while blocked.          *)
CheckBlock(t, requested) ==
    LET blocks == requested \/ is_blocked_for_gc[t]
        asleep == IF requested THEN {} ELSE waiters[t]
    IN  /\ should_block_for_gc' = [should_block_for_gc EXCEPT ![t] = FALSE]
        /\ is_blocked_for_gc' = [is_blocked_for_gc EXCEPT ![t] = blocks]
        /\ waiters' = [waiters EXCEPT
                         ![t] = asleep \cup (IF blocks THEN {t} ELSE {})]
        /\ exec_status' = [exec_status EXCEPT
                             ![t] = IF blocks THEN @ ELSE "InManaged"]
        /\ pc' = [pc EXCEPT ![t] = IF blocks THEN "blocked" ELSE "run"]

Goto(t, from, to) == pc[t] = from /\ pc' = [pc EXCEPT ![t] = to]

-----------------------------------------------------------------------------
(* Birth and death of a thread                                             *)

\* Thread::start, called by a running thread p.
Start(p, t) ==
    /\ pc[p] = "run"
    /\ Goto(t, "unborn", "starting")
    /\ exec_status' = [exec_status EXCEPT ![t] = "InManaged"]
    /\ UNCHANGED <<mutatorFlags, blockFlags, is_about_to_terminate, threads,
                   gc_requested, collector>>

\* startoff up to the parked scope of add_thread.  process_about_to_terminate
\* takes the lock of the table, finds nothing to reap, and releases it.
EnterAddThread(t) ==
    /\ Goto(t, "starting", "registering")
    /\ InnerFree
    /\ yieldpoints_enabled_count' = [yieldpoints_enabled_count EXCEPT ![t] = 1]
    /\ exec_status' = [exec_status EXCEPT ![t] = "InNative"]
    /\ UNCHANGED <<take_yieldpoint, yieldpoint_request_pending, blockFlags,
                   is_about_to_terminate, threads, gc_requested, collector>>

\* The parked scope of add_thread.
AddThread(t) ==
    /\ Goto(t, "registering", "leaving")
    /\ InnerFree
    /\ threads' = threads \cup {t}
    /\ UNCHANGED <<exec_status, mutatorFlags, blockFlags,
                   is_about_to_terminate, gc_requested, collector>>

\* terminate: sets is_joinable and notifies without taking the monitor.
Terminate(t) ==
    /\ t \in Terminable
    /\ Goto(t, "run", "terminating")
    /\ waiters' = [waiters EXCEPT ![t] = {}]
    /\ UNCHANGED <<exec_status, mutatorFlags, should_block_for_gc,
                   is_blocked_for_gc, is_about_to_terminate, threads,
                   gc_requested, collector>>

\* Mutant: the dying thread does not notify who waits for it to block.
MutDieSilently(t) ==
    /\ Goto(t, "terminating", "ending")
    /\ is_about_to_terminate' = [is_about_to_terminate EXCEPT ![t] = TRUE]
    /\ UNCHANGED <<exec_status, mutatorFlags, blockFlags, threads,
                   gc_requested, collector>>

AddAboutToTerminate(t) ==
    /\ Goto(t, "terminating", "ending")
    /\ is_about_to_terminate' = [is_about_to_terminate EXCEPT ![t] = TRUE]
    /\ waiters' = [waiters EXCEPT ![t] = {}]
    /\ UNCHANGED <<exec_status, mutatorFlags, should_block_for_gc,
                   is_blocked_for_gc, threads, gc_requested, collector>>

\* add_about_to_terminate_current: the thread stays in the table.
AddAboutToTerminateCurrent(t) ==
    /\ Goto(t, "ending", "dead")
    /\ InnerFree
    /\ UNCHANGED <<exec_status, mutatorFlags, blockFlags,
                   is_about_to_terminate, threads, gc_requested, collector>>

-----------------------------------------------------------------------------
(* Native code                                                             *)

EnterNative(t) ==
    /\ Goto(t, "run", "native")
    /\ exec_status[t] = "InManaged"
    /\ exec_status' = [exec_status EXCEPT ![t] = "InNative"]
    /\ UNCHANGED <<mutatorFlags, blockFlags, is_about_to_terminate, threads,
                   gc_requested, collector>>

\* Mutant: the slow path forgets acknowledge_block_requests.
MutEnterNativeSilently(t) ==
    /\ Goto(t, "run", "native")
    /\ exec_status[t] # "InManaged"
    /\ exec_status' = [exec_status EXCEPT ![t] = "BlockedInNative"]
    /\ UNCHANGED <<mutatorFlags, blockFlags, is_about_to_terminate, threads,
                   gc_requested, collector>>

\* The compare-and-swap failed: take the monitor and acknowledge.
EnterNativeBlocked(t) ==
    /\ Goto(t, "run", "native")
    /\ exec_status[t] # "InManaged"
    /\ exec_status' = [exec_status EXCEPT ![t] = "BlockedInNative"]
    /\ IF should_block_for_gc[t]
         THEN /\ should_block_for_gc' = [should_block_for_gc EXCEPT ![t] = FALSE]
              /\ is_blocked_for_gc' = [is_blocked_for_gc EXCEPT ![t] = TRUE]
              /\ waiters' = [waiters EXCEPT ![t] = {}]
         ELSE UNCHANGED blockFlags
    /\ UNCHANGED <<mutatorFlags, is_about_to_terminate, threads, gc_requested,
                   collector>>

\* The native code is done and calls leave_native.
FinishNative(t) ==
    /\ Goto(t, "native", "leaving")
    /\ UNCHANGED <<exec_status, mutatorFlags, blockFlags,
                   is_about_to_terminate, threads, gc_requested, collector>>

\* Mutant: leave_native does not look at the state it leaves.
MutLeaveNativeAlways(t) ==
    /\ Goto(t, "leaving", "run")
    /\ exec_status' = [exec_status EXCEPT ![t] = "InManaged"]
    /\ UNCHANGED <<mutatorFlags, blockFlags, is_about_to_terminate, threads,
                   gc_requested, collector>>

AttemptLeaveNativeNoBlock(t) ==
    /\ Goto(t, "leaving", "run")
    /\ exec_status[t] = "InNative"
    /\ exec_status' = [exec_status EXCEPT ![t] = "InManaged"]
    /\ UNCHANGED <<mutatorFlags, blockFlags, is_about_to_terminate, threads,
                   gc_requested, collector>>

LeaveNativeBlocked(t) ==
    /\ pc[t] = "leaving"
    /\ exec_status[t] # "InNative"
    /\ CheckBlock(t, should_block_for_gc[t])
    /\ UNCHANGED <<mutatorFlags, is_about_to_terminate, threads, gc_requested,
                   collector>>

LeaveNative(t) == AttemptLeaveNativeNoBlock(t) \/ LeaveNativeBlocked(t)

-----------------------------------------------------------------------------
(* Yieldpoints                                                             *)

DisableYieldpoints(t) ==
    /\ pc[t] = "run"
    /\ \/ t \in Critical /\ yieldpoints_enabled_count[t] > 1 - MaxNest
       \/ yieldpoints_enabled_count[t] > 1
    /\ yieldpoints_enabled_count' =
         [yieldpoints_enabled_count EXCEPT ![t] = @ - 1]
    /\ UNCHANGED <<pc, exec_status, take_yieldpoint,
                   yieldpoint_request_pending, blockFlags,
                   is_about_to_terminate, threads, gc_requested, collector>>

\* The caller's discipline: an enable ends a section that it began.  The code
\* does not enforce it; a careless thread enables once more, to 2, which
\* debug_assert!(val <= 1) lets pass and which counts as disabled.
MayEnable(t) ==
    \/ yieldpoints_enabled_count[t] < 1
    \/ t \in Careless /\ yieldpoints_enabled_count[t] = 1

\* Mutant: enable_yieldpoints drops the deferred request.
MutEnableForgets(t) ==
    /\ pc[t] = "run"
    /\ MayEnable(t)
    /\ yieldpoints_enabled_count' =
         [yieldpoints_enabled_count EXCEPT ![t] = @ + 1]
    /\ yieldpoint_request_pending' =
         [yieldpoint_request_pending EXCEPT ![t] = FALSE]
    /\ UNCHANGED <<pc, exec_status, take_yieldpoint, blockFlags,
                   is_about_to_terminate, threads, gc_requested, collector>>

\* A deferred request is raised again by the enable that brings the count to 1.
EnableYieldpoints(t) ==
    /\ pc[t] = "run"
    /\ MayEnable(t)
    /\ yieldpoints_enabled_count' =
         [yieldpoints_enabled_count EXCEPT ![t] = @ + 1]
    /\ IF yieldpoints_enabled_count[t] = 0 /\ yieldpoint_request_pending[t]
         THEN /\ take_yieldpoint' = [take_yieldpoint EXCEPT ![t] = TRUE]
              /\ yieldpoint_request_pending' =
                   [yieldpoint_request_pending EXCEPT ![t] = FALSE]
         ELSE UNCHANGED <<take_yieldpoint, yieldpoint_request_pending>>
    /\ UNCHANGED <<pc, exec_status, blockFlags, is_about_to_terminate,
                   threads, gc_requested, collector>>

\* The runtime polled take_yieldpoint and calls yieldpoint, enabled.
Yieldpoint(t) ==
    /\ Goto(t, "run", "yieldpoint")
    /\ take_yieldpoint[t]
    /\ yieldpoints_enabled_count[t] = 1
    /\ UNCHANGED <<exec_status, mutatorFlags, blockFlags,
                   is_about_to_terminate, threads, gc_requested, collector>>

\* yieldpoint while disabled: two stores without a lock, the first one here.
DeferYieldpoint(t) ==
    /\ Goto(t, "run", "defer")
    /\ take_yieldpoint[t]
    /\ yieldpoints_enabled_count[t] # 1
    /\ yieldpoint_request_pending' =
         [yieldpoint_request_pending EXCEPT ![t] = TRUE]
    /\ UNCHANGED <<exec_status, take_yieldpoint, yieldpoints_enabled_count,
                   blockFlags, is_about_to_terminate, threads, gc_requested,
                   collector>>

ClearTakeYieldpoint(t) ==
    /\ Goto(t, "defer", "run")
    /\ take_yieldpoint' = [take_yieldpoint EXCEPT ![t] = FALSE]
    /\ UNCHANGED <<exec_status, yieldpoint_request_pending,
                   yieldpoints_enabled_count, blockFlags,
                   is_about_to_terminate, threads, gc_requested, collector>>

\* The section of yieldpoint under the monitor.
TakeYieldpoint(t) ==
    /\ pc[t] = "yieldpoint"
    /\ IF take_yieldpoint[t]
         THEN /\ take_yieldpoint' = [take_yieldpoint EXCEPT ![t] = FALSE]
              /\ CheckBlock(t, should_block_for_gc[t])
         ELSE /\ pc' = [pc EXCEPT ![t] = "run"]
              /\ UNCHANGED <<take_yieldpoint, exec_status, blockFlags>>
    /\ UNCHANGED <<yieldpoint_request_pending, yieldpoints_enabled_count,
                   is_about_to_terminate, threads, gc_requested, collector>>

\* Mutant: the loop of check_block is an `if`.
MutWakeWithoutRecheck(t) ==
    /\ Goto(t, "blocked", "run")
    /\ t \notin waiters[t]
    /\ exec_status' = [exec_status EXCEPT ![t] = "InManaged"]
    /\ UNCHANGED <<mutatorFlags, blockFlags, is_about_to_terminate, threads,
                   gc_requested, collector>>

\* A sleeper of check_block has been notified: once more round its loop.
Wake(t) ==
    /\ pc[t] = "blocked"
    /\ t \notin waiters[t]
    /\ CheckBlock(t, should_block_for_gc[t])
    /\ UNCHANGED <<mutatorFlags, is_about_to_terminate, threads, gc_requested,
                   collector>>

\* An allocation fails: MMTk asks for a collection, then blocks the thread.
RequestGc(t) ==
    /\ Goto(t, "run", "gcreq")
    /\ gc_requested' = TRUE
    /\ UNCHANGED <<exec_status, mutatorFlags, blockFlags,
                   is_about_to_terminate, threads, collector>>

\* Collection::block_for_gc, which is block_unchecked of the caller itself.
BlockForGc(t) ==
    /\ pc[t] = "gcreq"
    /\ CheckBlock(t, TRUE)
    /\ UNCHANGED <<mutatorFlags, is_about_to_terminate, threads, gc_requested,
                   collector>>

LifeStep(t) ==
    \/ \E p \in Mutators : Start(p, t)
    \/ EnterAddThread(t) \/ AddThread(t)
    \/ Terminate(t) \/ AddAboutToTerminate(t) \/ AddAboutToTerminateCurrent(t)

NativeStep(t) ==
    EnterNative(t) \/ EnterNativeBlocked(t) \/ FinishNative(t) \/ LeaveNative(t)

YieldpointStep(t) ==
    \/ DisableYieldpoints(t) \/ EnableYieldpoints(t)
    \/ Yieldpoint(t) \/ DeferYieldpoint(t) \/ ClearTakeYieldpoint(t)

BlockStep(t) ==
    TakeYieldpoint(t) \/ Wake(t) \/ RequestGc(t) \/ BlockForGc(t)

MutatorNext(t) ==
    LifeStep(t) \/ NativeStep(t) \/ YieldpointStep(t) \/ BlockStep(t)

-----------------------------------------------------------------------------
(* The collector: block_all_mutators_for_gc                                *)

\* A worker takes the request and calls stop_all_mutators.
GcStart ==
    /\ gc_pc = "idle"
    /\ gc_requested
    /\ gc_requested' = FALSE
    /\ gc_pc' = "scan"
    /\ UNCHANGED <<pc, exec_status, mutatorFlags, blockFlags,
                   is_about_to_terminate, threads, todo, handshake_threads,
                   roster, stopped>>

\* (1) find all threads that need to be blocked.
GcScan ==
    /\ gc_pc = "scan"
    /\ gc_pc' = "filter"
    /\ todo' = threads
    /\ roster' = threads
    /\ UNCHANGED <<pc, exec_status, mutatorFlags, blockFlags,
                   is_about_to_terminate, threads, gc_requested,
                   handshake_threads, stopped>>

\* block_unchecked of a thread that is about to terminate: the request stays.
RequestTerminating(t) ==
    /\ is_about_to_terminate[t]
    /\ should_block_for_gc' = [should_block_for_gc EXCEPT ![t] = TRUE]
    /\ UNCHANGED <<exec_status, take_yieldpoint, is_blocked_for_gc, waiters>>

\* set_blocked_exec_status
BlockedExecStatus(s) == CASE s = "InManaged" -> "InManagedToBlock"
                          [] s = "InNative" -> "BlockedInNative"
                          [] OTHER -> s

\* block_unchecked of another thread up to its wait: a thread in native code
\* is blocked on the spot, one in managed code is told to take a yieldpoint.
RequestBlock(t, sleeper) ==
    LET native == exec_status[t] \in InNativeCode
    IN  /\ ~is_about_to_terminate[t]
        /\ take_yieldpoint' = [take_yieldpoint EXCEPT ![t] = TRUE]
        /\ exec_status' = [exec_status EXCEPT ![t] = BlockedExecStatus(@)]
        /\ should_block_for_gc' = [should_block_for_gc EXCEPT ![t] = ~native]
        /\ is_blocked_for_gc' =
             [is_blocked_for_gc EXCEPT ![t] = @ \/ native]
        /\ waiters' = [waiters EXCEPT ![t] = sleeper]

\* (2) remove the threads that are blocked or not running.
GcFilterBlocked(t) ==
    /\ gc_pc = "filter" /\ t \in todo
    /\ is_blocked_for_gc[t]
    /\ todo' = todo \ {t}
    /\ UNCHANGED <<pc, exec_status, mutatorFlags, blockFlags,
                   is_about_to_terminate, threads, gc_requested, gc_pc,
                   handshake_threads, roster, stopped>>

GcFilterTerminating(t) ==
    /\ gc_pc = "filter" /\ t \in todo
    /\ ~is_blocked_for_gc[t]
    /\ RequestTerminating(t)
    /\ todo' = todo \ {t}
    /\ UNCHANGED <<pc, yieldpoint_request_pending, yieldpoints_enabled_count,
                   is_about_to_terminate, threads, gc_requested, gc_pc,
                   handshake_threads, roster, stopped>>

\* Mutant: the thread is dropped from the list once it has been asked.
MutFilterForgets(t) ==
    /\ gc_pc = "filter" /\ t \in todo
    /\ ~is_blocked_for_gc[t]
    /\ RequestBlock(t, {})
    /\ todo' = todo \ {t}
    /\ UNCHANGED <<pc, yieldpoint_request_pending, yieldpoints_enabled_count,
                   is_about_to_terminate, threads, gc_requested, gc_pc,
                   handshake_threads, roster, stopped>>

GcFilterRunning(t) ==
    /\ gc_pc = "filter" /\ t \in todo
    /\ ~is_blocked_for_gc[t]
    /\ RequestBlock(t, {})
    /\ todo' = todo \ {t}
    /\ handshake_threads' = handshake_threads \cup {t}
    /\ UNCHANGED <<pc, yieldpoint_request_pending, yieldpoints_enabled_count,
                   is_about_to_terminate, threads, gc_requested, gc_pc,
                   roster, stopped>>

\* Mutant: one pass and no fixpoint.
MutFilteredOnce ==
    /\ gc_pc = "filter" /\ todo = {}
    /\ gc_pc' = "reap"
    /\ UNCHANGED <<pc, exec_status, mutatorFlags, blockFlags,
                   is_about_to_terminate, threads, gc_requested, todo,
                   handshake_threads, roster, stopped>>

\* (3) the fixpoint: every thread the scan saw is blocked or not running.
GcFiltered ==
    /\ gc_pc = "filter" /\ todo = {}
    /\ gc_pc' = IF handshake_threads = {} THEN "reap" ELSE "block"
    /\ UNCHANGED <<pc, exec_status, mutatorFlags, blockFlags,
                   is_about_to_terminate, threads, gc_requested, todo,
                   handshake_threads, roster, stopped>>

\* The condition under which block_unchecked keeps waiting for t.
MustWaitFor(t) ==
    should_block_for_gc[t] /\ ~is_blocked_for_gc[t] /\ ~is_about_to_terminate[t]

\* (4) ask each remaining thread and wait until it blocks.  The thread that
\* the collector waits for is the only element of todo.
GcBlockTerminating(t) ==
    /\ gc_pc = "block" /\ t \in handshake_threads
    /\ RequestTerminating(t)
    /\ handshake_threads' = handshake_threads \ {t}
    /\ UNCHANGED <<pc, yieldpoint_request_pending, yieldpoints_enabled_count,
                   is_about_to_terminate, threads, gc_requested, gc_pc, todo,
                   roster, stopped>>

GcBlock(t) ==
    LET waits == exec_status[t] \notin InNativeCode /\ ~is_blocked_for_gc[t]
    IN  /\ gc_pc = "block" /\ t \in handshake_threads
        /\ RequestBlock(t, IF waits THEN {Gc} ELSE {})
        /\ handshake_threads' = handshake_threads \ {t}
        /\ gc_pc' = IF waits THEN "wait" ELSE "block"
        /\ todo' = IF waits THEN {t} ELSE {}
        /\ UNCHANGED <<pc, yieldpoint_request_pending,
                       yieldpoints_enabled_count, is_about_to_terminate,
                       threads, gc_requested, roster, stopped>>

GcWake(t) ==
    /\ gc_pc = "wait" /\ t \in todo
    /\ Gc \notin waiters[t]
    /\ IF MustWaitFor(t)
         THEN /\ waiters' = [waiters EXCEPT ![t] = @ \cup {Gc}]
              /\ UNCHANGED <<gc_pc, todo>>
         ELSE /\ gc_pc' = "block"
              /\ todo' = {}
              /\ UNCHANGED waiters
    /\ UNCHANGED <<pc, exec_status, mutatorFlags, should_block_for_gc,
                   is_blocked_for_gc, is_about_to_terminate, threads,
                   gc_requested, handshake_threads, roster, stopped>>

GcRescan ==
    /\ gc_pc = "block" /\ handshake_threads = {}
    /\ gc_pc' = "scan"
    /\ UNCHANGED <<pc, exec_status, mutatorFlags, blockFlags,
                   is_about_to_terminate, threads, gc_requested, todo,
                   handshake_threads, roster, stopped>>

\* process_about_to_terminate, which finds nothing to reap, and the list of
\* blocked threads that the collector visits.
GcSnapshot ==
    /\ gc_pc = "reap"
    /\ gc_pc' = "stopped"
    /\ stopped' = {t \in threads : is_blocked_for_gc[t]}
    /\ UNCHANGED <<pc, exec_status, mutatorFlags, blockFlags,
                   is_about_to_terminate, threads, gc_requested, todo,
                   handshake_threads, roster>>

-----------------------------------------------------------------------------
(* The collector: unblock_all_mutators_for_gc                              *)

GcResume ==
    /\ gc_pc = "stopped"
    /\ gc_pc' = "unblock"
    /\ stopped' = {}
    /\ todo' = threads
    /\ UNCHANGED <<pc, exec_status, mutatorFlags, blockFlags,
                   is_about_to_terminate, threads, gc_requested,
                   handshake_threads, roster>>

\* Mutant: unblock leaves a request that nobody acknowledged.
MutUnblockKeepsRequest(t) ==
    /\ gc_pc = "unblock" /\ t \in todo
    /\ todo' = todo \ {t}
    /\ is_blocked_for_gc' = [is_blocked_for_gc EXCEPT ![t] = FALSE]
    /\ waiters' = [waiters EXCEPT ![t] = {}]
    /\ UNCHANGED <<pc, exec_status, mutatorFlags, should_block_for_gc,
                   is_about_to_terminate, threads, gc_requested, gc_pc,
                   handshake_threads, roster, stopped>>

\* Mutant: unblock does not notify.
MutUnblockSilently(t) ==
    /\ gc_pc = "unblock" /\ t \in todo
    /\ todo' = todo \ {t}
    /\ should_block_for_gc' = [should_block_for_gc EXCEPT ![t] = FALSE]
    /\ is_blocked_for_gc' = [is_blocked_for_gc EXCEPT ![t] = FALSE]
    /\ UNCHANGED <<pc, exec_status, mutatorFlags, waiters,
                   is_about_to_terminate, threads, gc_requested, gc_pc,
                   handshake_threads, roster, stopped>>

Unblock(t) ==
    /\ gc_pc = "unblock" /\ t \in todo
    /\ todo' = todo \ {t}
    /\ should_block_for_gc' = [should_block_for_gc EXCEPT ![t] = FALSE]
    /\ is_blocked_for_gc' = [is_blocked_for_gc EXCEPT ![t] = FALSE]
    /\ waiters' = [waiters EXCEPT ![t] = {}]
    /\ UNCHANGED <<pc, exec_status, mutatorFlags, is_about_to_terminate,
                   threads, gc_requested, gc_pc, handshake_threads, roster,
                   stopped>>

GcResumed ==
    /\ gc_pc = "unblock" /\ todo = {}
    /\ gc_pc' = "idle"
    /\ UNCHANGED <<pc, exec_status, mutatorFlags, blockFlags,
                   is_about_to_terminate, threads, gc_requested, todo,
                   handshake_threads, roster, stopped>>

PassStep == GcStart \/ GcScan \/ GcFiltered \/ GcRescan \/ GcSnapshot

FilterStep(t) == GcFilterBlocked(t) \/ GcFilterTerminating(t) \/ GcFilterRunning(t)

HandshakeStep(t) == GcBlockTerminating(t) \/ GcBlock(t) \/ GcWake(t)

ResumeStep == GcResume \/ GcResumed

CollectorNext ==
    \/ PassStep
    \/ \E t \in Mutators : FilterStep(t) \/ HandshakeStep(t) \/ Unblock(t)
    \/ ResumeStep

Next == CollectorNext \/ \E t \in Mutators : MutatorNext(t)

Spec == Init /\ [][Next]_vars

(* Fairness.  The collector and a thread that is busy, with a step of its  *)
(* own to take and no lock of another thread's in the way, are scheduled.  *)
(* The runtime polls take_yieldpoint again and again, also between the     *)
(* sections where yieldpoints are disabled, and it leaves those sections.  *)
(* parking_lot's mutex is eventually fair, so a thread that asks for the   *)
(* table's lock gets it.  Nothing makes native code return, a body end, a  *)
(* thread start another one, or a client take back an enable too many.     *)
Busy(t) ==
    \/ LeaveNative(t) \/ ClearTakeYieldpoint(t) \/ TakeYieldpoint(t)
    \/ Wake(t) \/ BlockForGc(t) \/ AddAboutToTerminate(t)

TakesInner(t) ==
    EnterAddThread(t) \/ AddThread(t) \/ AddAboutToTerminateCurrent(t)

FairSpec ==
    /\ Spec
    /\ WF_vars(CollectorNext)
    /\ \A t \in Mutators : WF_vars(Busy(t)) /\ SF_vars(Yieldpoint(t))
    /\ \A t \in (Mutators \ Initial) \cup Terminable : SF_vars(TakesInner(t))
    /\ \A t \in Critical, n \in (1 - MaxNest)..0 :
          SF_vars(yieldpoints_enabled_count[t] = n /\ EnableYieldpoints(t))

-----------------------------------------------------------------------------
(* Safety                                                                  *)

\* While the world is stopped, every mutator that the collector was handed
\* is outside managed code: block_all_mutators_for_gc returns only threads
\* that cannot touch the heap before unblock_all_mutators_for_gc.
StoppedAreParked ==
    gc_pc = "stopped" => \A t \in stopped : pc[t] \in Parked

\* The fixpoint of block_all_mutators_for_gc forgets nobody: a thread its last
\* scan of the table saw is handed to the collector, which scans its stack
\* and flushes its TLAB, or has destroyed its mutator; never both, because
\* the collector would then visit a mutator that was dropped.
NobodyForgotten ==
    gc_pc = "stopped" =>
        /\ \A t \in roster : t \in stopped \/ is_about_to_terminate[t]
        /\ \A t \in stopped : ~is_about_to_terminate[t]

\* A request made of a thread in managed code reaches it: the thread takes a
\* yieldpoint, or has deferred one, or cannot slip into native code by the
\* fast path of enter_native.  (yieldpoint's two unlocked stores, raced by
\* block_unchecked, are where it could get lost.)  A thread that has enabled
\* once too often defers a request that no enable raises again.
RequestReachesThread ==
    \A t \in Mutators :
        should_block_for_gc[t] /\ pc[t] \in Managed =>
            /\ exec_status[t] = "InManagedToBlock"
            /\ \/ take_yieldpoint[t]
               \/ /\ yieldpoint_request_pending[t]
                  /\ yieldpoints_enabled_count[t] # 1 \/ t \in Careless
               \/ pc[t] \in {"gcreq", "terminating"}

\* No lost wakeup.  Whoever sleeps on a thread's monitor sleeps for a reason:
\* the collector in block_unchecked while its condition holds, the thread in
\* check_block while it is blocked.  A change of the condition without a
\* notify_all would leave a sleeper behind.
SleepersHaveReason ==
    \A t \in Mutators :
        /\ Gc \in waiters[t] => MustWaitFor(t)
        /\ t \in waiters[t] => is_blocked_for_gc[t] /\ pc[t] = "blocked"

\* Between two collections nobody sleeps for a collection that will not come:
\* a blocked thread has asked for one that is still to start, however its
\* request interleaved with the collection before.
BlockedHasCollection ==
    gc_pc = "idle" =>
        \A t \in Mutators : is_blocked_for_gc[t] => gc_requested

\* No mutator at all is in managed code while the world is stopped: what
\* "Stop all mutator threads" (threading.rs:1486) says.  It holds when every
\* thread was in the table before the collection; a thread that add_thread
\* registers after the fixpoint runs.
WorldStopped ==
    gc_pc = "stopped" => \A t \in Mutators : pc[t] \notin Managed

-----------------------------------------------------------------------------
(* The inductive invariant behind these properties                         *)

\* exec_status agrees with what the thread does, and a thread that has not
\* been added to the table is still invisible to the collector.
StatusAgrees ==
    \A t \in Mutators :
        /\ exec_status[t] = "New" <=> pc[t] = "unborn"
        /\ exec_status[t] \in InNativeCode =>
              pc[t] \in Parked \cup {"registering"}
        /\ pc[t] \in {"registering", "native", "leaving"} =>
              exec_status[t] \in InNativeCode
        /\ t \in threads <=> pc[t] \notin {"unborn", "starting", "registering"}
        /\ is_about_to_terminate[t] <=> pc[t] \in {"ending", "dead"}

\* A blocked thread is outside managed code and cannot leave native code by
\* the fast path.
BlockedIsParked ==
    \A t \in Mutators : is_blocked_for_gc[t] =>
        pc[t] \in Parked /\ exec_status[t] # "InNative"

\* The collector's passes: what they have dealt with is blocked or dying.
PassCovers ==
    /\ todo \cup handshake_threads \cup roster \cup stopped \subseteq threads
    /\ gc_pc = "filter" =>
          \A t \in roster \ (todo \cup handshake_threads) :
              is_blocked_for_gc[t] \/ is_about_to_terminate[t]
    /\ gc_pc = "reap" =>
          \A t \in roster : is_blocked_for_gc[t] \/ is_about_to_terminate[t]
    /\ gc_pc = "stopped" =>
          /\ \A t \in roster : t \in stopped \/ is_about_to_terminate[t]
          /\ \A t \in stopped : is_blocked_for_gc[t]

\* A request is made of a thread whose state says so, during a collection, and
\* is withdrawn at its end.
RequestIsCurrent ==
    \A t \in Mutators :
        /\ pc[t] = "yieldpoint" => take_yieldpoint[t]
        /\ pc[t] = "defer" => yieldpoint_request_pending[t]
        /\ pc[t] = "defer" => yieldpoints_enabled_count[t] # 1
        /\ yieldpoints_enabled_count[t] > 1 => t \in Careless
        /\ should_block_for_gc[t] /\ ~is_about_to_terminate[t] =>
              /\ t \in threads
              /\ exec_status[t] \in {"InManagedToBlock", "BlockedInNative"}
              /\ gc_pc # "idle"
              /\ gc_pc = "unblock" => t \in todo

\* Who asked for a collection, or sleeps for one, has it before him.
CollectionAhead ==
    ~gc_requested => \A t \in Mutators :
        /\ pc[t] = "gcreq" =>
              /\ gc_pc \in {"scan", "filter", "block", "wait"}
              /\ gc_pc # "scan" => t \in roster
        /\ is_blocked_for_gc[t] =>
              /\ gc_pc # "idle"
              /\ gc_pc = "unblock" => t \in todo

IInv ==
    /\ TypeOK
    /\ StatusAgrees
    /\ BlockedIsParked
    /\ PassCovers
    /\ RequestIsCurrent
    /\ RequestReachesThread
    /\ SleepersHaveReason
    /\ CollectionAhead

-----------------------------------------------------------------------------
(* Action properties                                                       *)

\* No step takes a thread that the collector holds back into managed code,
\* and none but unblock_all_mutators_for_gc clears is_blocked_for_gc.
OnlyResumeReleases ==
    [][\A t \in Mutators : is_blocked_for_gc[t] =>
          /\ pc'[t] \notin Managed \/ pc[t] \in Managed
          /\ is_blocked_for_gc'[t] \/ gc_pc = "unblock"]_vars

-----------------------------------------------------------------------------
(* Liveness                                                                *)

\* The collector waits for a thread that has enabled yieldpoints once too often:
\* its count is 2, or was and it deferred the request.
WaitsForCareless ==
    \E t \in Careless :
        /\ MustWaitFor(t)
        /\ \/ yieldpoints_enabled_count[t] > 1
           \/ yieldpoints_enabled_count[t] = 1 /\ yieldpoint_request_pending[t]

\* A requested collection stops the world: no request is lost, no thread
\* escapes the fixpoint for ever, no wait of the collector lasts for ever,
\* unless it waits for a thread that enabled once too often.
CollectionHappens == gc_requested ~> gc_pc = "stopped" \/ WaitsForCareless

\* A thread that is started enters the table, although the collector keeps
\* the table's lock while it waits for other threads.
StartedGetsRegistered ==
    \A t \in Mutators \ Initial :
        pc[t] = "starting" ~> t \in threads \/ WaitsForCareless

\* When collections stop coming, every thread that slept for one runs again.
BlockedRunAgain ==
    (<>[](gc_pc = "idle")) =>
        \A t \in Mutators : pc[t] = "blocked" ~> pc[t] = "run"

-----------------------------------------------------------------------------
(* The promise to the collector                                            *)

WorldPhase == CASE gc_pc = "idle" -> "running"
                [] gc_pc = "stopped" -> "stopped"
                [] gc_pc = "unblock" -> "resuming"
                [] OTHER -> "stopping"

World == INSTANCE WorldControl WITH
           Threads <- Mutators,
           phase   <- WorldPhase,
           running <- {t \in Mutators : pc[t] \in Managed},
           held    <- {t \in Mutators : is_blocked_for_gc[t]},
           gone    <- {t \in Mutators : is_about_to_terminate[t]},
           visited <- stopped

\* The handshake keeps the promise of WorldControl: threads that are held stay
\* out of managed code until the collector resumes the world, and it never
\* declares the world stopped before each thread it knows is held or gone.
KeepsPromise == World!WSpec
=============================================================================
