--------------------------- MODULE SignalSuspend ---------------------------
(***************************************************************************)
(* Stopping the world with signals, which the feature uncooperative turns  *)
(* on: Thread::suspend and resume, their signal handler, and the branches  *)
(* of block_all_mutators_for_gc and unblock_all_mutators_for_gc that use   *)
(* them, from vmkit/src/threading.rs and sync/semaphore.rs.                *)
(*                                                                         *)
(* The collector suspends one thread after the other: it names the thread  *)
(* in TARGET_THREAD, sends it SIGUSR1 and waits on a global semaphore that *)
(* the handler posts.  The same signal resumes a thread; the handler tells *)
(* the two apart by suspend_count, which the collector changes after its   *)
(* wait.  A signal stops a thread wherever it is: while it blocks itself   *)
(* for a collection, or while it holds the lock of the thread table.       *)
(*                                                                         *)
(* The table is a set here.  The code has the main thread in it twice, so  *)
(* that its suspend_count goes up and down by two; it is signalled once.   *)
(***************************************************************************)
EXTENDS Integers, FiniteSets

CONSTANTS
    Threads,
    NoThread,
    Initial,    \* threads that are in the table from the start
    Terminable, \* threads that may end
    AltStack,   \* threads that may be on an alternative signal stack
    Width       \* suspend_count counts modulo Width: 2^64 in the code

ASSUME SignalConstants ==
    /\ NoThread \notin Threads
    /\ Initial \subseteq Threads
    /\ Terminable \subseteq Threads
    /\ AltStack \subseteq Threads
    /\ Width \in Nat /\ Width > 3

VARIABLES
    table,          \* ThreadManagerInner.threads
    pc,             \* what each thread does when no handler interrupts it
    inner,          \* the thread that holds the table's lock
    should_block,   \* should_block_for_gc
    is_blocked,     \* is_blocked_for_gc
    stack_pointer,  \* whether the saved stack pointer is not 0
    suspend_count,
    gc_requested,   \* the trigger MMTk keeps
    pending,        \* the signal is pending
    handler,        \* how far the thread's signal handler is
    interrupted,    \* the thread that the handler loaded from TARGET_THREAD
    target,         \* TARGET_THREAD
    semaphore,      \* GLOBAL_SEMAPHORE_FOR_SUSPEND_RESUME
    gpc, cur, todo, \* the collector: its step, its thread and those left
    handed,         \* the threads block_all_mutators_for_gc returns
    late            \* history: entered the table after the pass that suspends

threadVars == <<table, pc, inner, should_block, is_blocked, late, gc_requested>>
handlerVars == <<stack_pointer, pending, handler, interrupted, semaphore>>
gcVars == <<suspend_count, target, gpc, cur, todo, handed>>
vars == <<threadVars, handlerVars, gcVars>>

Steps == {"new", "starting", "established", "run", "wants_gc", "requested",
          "checked", "asleep", "terminating", "holds_table", "exited"}
GcSteps == {"idle", "block", "signal", "wait", "working", "resume", "wait_resumed",
            "unblock"}
HandlerSteps == {"none", "entered", "posted", "suspended", "woken", "nested"}

TypeOK ==
    /\ table \subseteq Threads
    /\ pc \in [Threads -> Steps]
    /\ inner \in Threads \cup {NoThread}
    /\ should_block \in [Threads -> BOOLEAN]
    /\ is_blocked \in [Threads -> BOOLEAN]
    /\ stack_pointer \in [Threads -> BOOLEAN]
    /\ suspend_count \in [Threads -> 0..(Width - 1)]
    /\ gc_requested \in BOOLEAN
    /\ pending \in [Threads -> BOOLEAN]
    /\ handler \in [Threads -> HandlerSteps]
    /\ interrupted \in [Threads -> Threads \cup {NoThread}]
    /\ target \in Threads \cup {NoThread}
    /\ semaphore \in 0..1
    /\ gpc \in GcSteps
    /\ cur \in Threads \cup {NoThread}
    /\ todo \subseteq Threads
    /\ handed \subseteq Threads
    /\ late \subseteq Threads

Init ==
    /\ table = Initial
    /\ pc = [t \in Threads |-> IF t \in Initial THEN "run" ELSE "new"]
    /\ inner = NoThread
    /\ should_block = [t \in Threads |-> FALSE]
    /\ is_blocked = [t \in Threads |-> FALSE]
    /\ stack_pointer = [t \in Threads |-> FALSE]
    /\ suspend_count = [t \in Threads |-> 0]
    /\ gc_requested = FALSE
    /\ pending = [t \in Threads |-> FALSE]
    /\ handler = [t \in Threads |-> "none"]
    /\ interrupted = [t \in Threads |-> NoThread]
    /\ target = NoThread
    /\ semaphore = 0
    /\ gpc = "idle"
    /\ cur = NoThread
    /\ todo = {}
    /\ handed = {}
    /\ late = {}

TableFree == inner = NoThread

\* The thread executes its own code; a signal that was sent may take a while.
Runs(t) == handler[t] = "none"

AboutToTerminate(t) == pc[t] \in {"terminating", "holds_table", "exited"}

\* The thread holds its own monitor, in check_block.
HoldsMonitor(t) == pc[t] \in {"requested", "checked"}

-----------------------------------------------------------------------------
(* Threads                                                                 *)

Step(t, from, to) ==
    /\ Runs(t)
    /\ pc[t] = from
    /\ pc' = [pc EXCEPT ![t] = to]
    /\ UNCHANGED <<handlerVars, gcVars>>

\* Thread::start, by a thread that runs.
Start(t, u) ==
    /\ Runs(u) /\ pc[u] = "run"
    /\ Step(t, "new", "starting")
    /\ UNCHANGED <<table, inner, should_block, is_blocked, late, gc_requested>>

\* The collector has taken its list of threads to suspend and not yet its
\* list of threads to resume.
BlockPass == gpc \in {"block", "signal", "wait", "working"}

\* add_thread: the thread enters the table.
AddThread(t) ==
    /\ TableFree
    /\ Step(t, "starting", "established")
    /\ table' = table \cup {t}
    /\ late' = IF BlockPass THEN late \cup {t} ELSE late
    /\ UNCHANGED <<inner, should_block, is_blocked, gc_requested>>

\* startoff stores platform_handle after add_thread; until then nobody can
\* send the thread a signal.
StoreHandle(t) ==
    /\ Step(t, "established", "run")
    /\ UNCHANGED <<table, inner, should_block, is_blocked, late, gc_requested>>

\* An allocation fails: MMTk asks for a collection, and will call block_for_gc.
\* A signal may stop the thread in between, and its collection end before it
\* blocks.
WantGc(t) ==
    /\ Step(t, "run", "wants_gc")
    /\ gc_requested' = TRUE
    /\ UNCHANGED <<table, inner, should_block, is_blocked, late>>

\* block_unchecked on the thread itself: locks its monitor and asks.
RequestBlock(t) ==
    /\ Step(t, "wants_gc", "requested")
    /\ should_block' = [should_block EXCEPT ![t] = TRUE]
    /\ UNCHANGED <<table, inner, is_blocked, late, gc_requested>>

\* check_block: acknowledge_block_requests.
AcknowledgeBlock(t) ==
    /\ Step(t, "requested", "checked")
    /\ is_blocked' = [is_blocked EXCEPT ![t] = @ \/ should_block[t]]
    /\ should_block' = [should_block EXCEPT ![t] = FALSE]
    /\ UNCHANGED <<table, inner, late, gc_requested>>

\* check_block: waits on the monitor while the thread is blocked.
CheckBlocked(t) ==
    /\ Step(t, "checked", IF is_blocked[t] THEN "asleep" ELSE "run")
    /\ UNCHANGED <<table, inner, should_block, is_blocked, late, gc_requested>>

\* add_about_to_terminate; the mutator is destroyed.
Terminate(t) ==
    /\ t \in Terminable
    /\ Step(t, "run", "terminating")
    /\ UNCHANGED <<table, inner, should_block, is_blocked, late, gc_requested>>

\* add_about_to_terminate_current locks the table ...
LockTable(t) ==
    /\ TableFree
    /\ Step(t, "terminating", "holds_table")
    /\ inner' = t
    /\ UNCHANGED <<table, should_block, is_blocked, late, gc_requested>>

\* ... and unlocks it; the thread ends.  It stays in the table.
Exit(t) ==
    /\ Step(t, "holds_table", "exited")
    /\ inner' = NoThread
    /\ UNCHANGED <<table, should_block, is_blocked, late, gc_requested>>

-----------------------------------------------------------------------------
(* The signal handler                                                      *)

Deliver(t) ==
    /\ pending[t] /\ handler[t] = "none" /\ pc[t] # "exited"
    /\ pending' = [pending EXCEPT ![t] = FALSE]
    /\ handler' = [handler EXCEPT ![t] = "entered"]
    /\ interrupted' = [interrupted EXCEPT ![t] = target]
    /\ UNCHANGED <<stack_pointer, semaphore, threadVars, gcVars>>

Post == semaphore' = semaphore + 1

\* suspend_count says that the signal means to resume.
MeansResume(t) == suspend_count[interrupted[t]] # 0

\* The thread is on an alternative signal stack, which stack_bounds does not
\* contain: it is not suspended now.
HandlerBacksOff(t) ==
    /\ handler[t] = "entered" /\ t \in AltStack
    /\ ~MeansResume(t)
    /\ handler' = [handler EXCEPT ![t] = "none"]
    /\ stack_pointer' = [stack_pointer EXCEPT ![interrupted[t]] = FALSE]
    /\ Post
    /\ UNCHANGED <<pending, interrupted, threadVars, gcVars>>

\* Returns when there is nothing to do, or saves the stack pointer and the
\* registers and lets the collector go on.
HandlerPosts(t) ==
    /\ handler[t] = "entered"
    /\ IF MeansResume(t)
         THEN /\ handler' = [handler EXCEPT ![t] = "none"]
              /\ UNCHANGED <<stack_pointer, semaphore>>
         ELSE /\ handler' = [handler EXCEPT ![t] = "posted"]
              /\ stack_pointer' = [stack_pointer EXCEPT ![interrupted[t]] = TRUE]
              /\ Post
    /\ UNCHANGED <<pending, interrupted, threadVars, gcVars>>

\* Acknowledges block requests, and waits in sigsuspend.
HandlerSuspends(t) ==
    LET u == interrupted[t]
    IN  /\ handler[t] = "posted"
        /\ handler' = [handler EXCEPT ![t] = "suspended"]
        /\ is_blocked' = [is_blocked EXCEPT ![u] = @ \/ should_block[u]]
        /\ should_block' = [should_block EXCEPT ![u] = FALSE]
        /\ UNCHANGED <<table, pc, inner, late, gc_requested, stack_pointer, pending,
                       interrupted, semaphore, gcVars>>

\* The next signal runs the handler inside sigsuspend, which returns after it.
HandlerNested(t) ==
    /\ handler[t] = "suspended" /\ pending[t]
    /\ pending' = [pending EXCEPT ![t] = FALSE]
    /\ handler' = [handler EXCEPT ![t] =
                     IF suspend_count[target] # 0 THEN "woken" ELSE "nested"]
    /\ UNCHANGED <<stack_pointer, interrupted, semaphore, threadVars, gcVars>>

\* The thread is looked up again, and the collector may go on.
HandlerResumes(t) ==
    /\ handler[t] = "woken"
    /\ handler' = [handler EXCEPT ![t] = "none"]
    /\ stack_pointer' = [stack_pointer EXCEPT ![target] = FALSE]
    /\ Post
    /\ UNCHANGED <<pending, interrupted, threadVars, gcVars>>

-----------------------------------------------------------------------------
(* The collector: block_all_mutators_for_gc                                *)

Plus(n, d) == (n + d + Width) % Width

ThreadsToSuspend == table

\* A worker takes MMTk's request and calls stop_all_mutators: threads(), after
\* process_about_to_terminate; both take the table's lock.
GcStart ==
    /\ gpc = "idle"
    /\ gc_requested
    /\ TableFree
    /\ gc_requested' = FALSE
    /\ gpc' = "block"
    /\ todo' = ThreadsToSuspend
    /\ handed' = {}
    /\ UNCHANGED <<suspend_count, target, cur, table, pc, inner, should_block,
                   is_blocked, late, handlerVars>>

SkipTerminating(t) ==
    /\ gpc = "block" /\ t \in todo /\ AboutToTerminate(t)
    /\ todo' = todo \ {t}
    /\ UNCHANGED <<suspend_count, target, gpc, cur, handed, threadVars, handlerVars>>

\* suspend: counts, and the thread joins handshake_threads, whatever suspend
\* returned.
Suspended(t, count) ==
    /\ suspend_count' = [suspend_count EXCEPT ![t] = Plus(@, count)]
    /\ todo' = todo \ {t}
    /\ handed' = handed \cup {t}
    /\ gpc' = "block"

\* suspend: a thread whose count is not 0 gets no signal.
SuspendNext(t) ==
    /\ gpc = "block" /\ t \in todo /\ ~AboutToTerminate(t)
    /\ cur' = t
    /\ IF suspend_count[t] = 0
         THEN gpc' = "signal" /\ UNCHANGED <<suspend_count, todo, handed>>
         ELSE Suspended(t, 1)
    /\ UNCHANGED <<target, threadVars, handlerVars>>

\* Mutant: counts before the handler has run, which takes the signal for the
\* one that resumes.
MutCountWhenSent(t) == Plus(suspend_count[t], 1)

\* The count while suspend sends its signal.
CountWhenSent(t) == suspend_count[t]

Kill(t) == pending' = [pending EXCEPT ![t] = TRUE]

\* suspend: spins until there is a handle, then sends the signal.
SendSuspend ==
    /\ gpc = "signal"
    /\ pc[cur] \notin {"established", "exited"}
    /\ target' = cur
    /\ Kill(cur)
    /\ gpc' = "wait"
    /\ suspend_count' = [suspend_count EXCEPT ![cur] = CountWhenSent(cur)]
    /\ UNCHANGED <<cur, todo, handed, threadVars, stack_pointer, handler,
                   interrupted, semaphore>>

\* pthread_kill of a thread that has ended: an error, or (since glibc 2.34)
\* success without a signal.
SendToExited ==
    /\ gpc = "signal" /\ pc[cur] = "exited"
    /\ target' = cur
    /\ \/ Suspended(cur, 0)
       \/ gpc' = "wait" /\ UNCHANGED <<suspend_count, todo, handed>>
    /\ UNCHANGED <<cur, threadVars, handlerVars>>

TakePost == semaphore > 0 /\ semaphore' = semaphore - 1

\* Mutant: does not look at the stack pointer.
MutBackedOff(t) == FALSE

BackedOff(t) == ~stack_pointer[t]

\* suspend: tries again when the thread was on an alternative stack.
Answered ==
    /\ gpc = "wait" /\ TakePost
    /\ IF BackedOff(cur)
         THEN gpc' = "signal" /\ UNCHANGED <<suspend_count, todo, handed>>
         ELSE Suspended(cur, 1)
    /\ UNCHANGED <<target, cur, threadVars, stack_pointer, pending, handler, interrupted>>

\* The second process_about_to_terminate takes the table's lock again.
AllSuspended ==
    /\ gpc = "block" /\ todo = {}
    /\ TableFree
    /\ gpc' = "working"
    /\ UNCHANGED <<suspend_count, target, cur, todo, handed, threadVars, handlerVars>>

-----------------------------------------------------------------------------
(* The collector: unblock_all_mutators_for_gc                              *)

ResumeAll ==
    /\ gpc = "working"
    /\ TableFree
    /\ gpc' = "resume"
    /\ todo' = table
    /\ handed' = {}
    /\ UNCHANGED <<suspend_count, target, cur, threadVars, handlerVars>>

\* Mutant: off by one.
MutIsSuspended(t) == suspend_count[t] > 1

\* resume: only the thread's last suspension ends with a signal.
IsSuspended(t) == suspend_count[t] = 1

\* Mutant: the count stays, and the next suspend sends no signal.
MutCountDown(n) == n

\* resume counts down whether or not it has sent a signal.  Bound: the code
\* would take Width - 2 collections to count a dead thread down to 1, and here
\* the count stops at 2.
CountDown(n) == IF n = 2 THEN 2 ELSE Plus(n, -1)

ResumeNext(t) ==
    /\ gpc = "resume" /\ t \in todo
    /\ cur' = t
    /\ todo' = todo \ {t}
    /\ IF IsSuspended(t)
         THEN /\ target' = t
              /\ Kill(t)
              /\ gpc' = "wait_resumed"
              /\ UNCHANGED suspend_count
         ELSE /\ suspend_count' = [suspend_count EXCEPT ![t] = CountDown(@)]
              /\ gpc' = "unblock"
              /\ UNCHANGED <<target, pending>>
    /\ UNCHANGED <<handed, threadVars, stack_pointer, handler, interrupted, semaphore>>

Resumed ==
    /\ gpc = "wait_resumed" /\ TakePost
    /\ suspend_count' = [suspend_count EXCEPT ![cur] = CountDown(@)]
    /\ gpc' = "unblock"
    /\ UNCHANGED <<target, cur, todo, handed, threadVars, stack_pointer, pending,
                   handler, interrupted>>

\* Mutant: wakes the thread and leaves the flag.
MutStillBlocked(t) == is_blocked[t]

StillBlocked(t) == FALSE

\* Thread::unblock, under the thread's monitor, if it is blocked: a sleeper
\* goes around check_block's loop.
Unblock ==
    /\ gpc = "unblock"
    /\ IF is_blocked[cur]
         THEN /\ ~HoldsMonitor(cur)
              /\ is_blocked' = [is_blocked EXCEPT ![cur] = StillBlocked(cur)]
              /\ should_block' = [should_block EXCEPT ![cur] = FALSE]
              /\ pc' = [pc EXCEPT ![cur] = IF @ = "asleep" THEN "requested" ELSE @]
         ELSE UNCHANGED <<is_blocked, should_block, pc>>
    /\ gpc' = "resume"
    /\ UNCHANGED <<table, inner, late, gc_requested, suspend_count, target, cur,
                   todo, handed, handlerVars>>

AllResumed ==
    /\ gpc = "resume" /\ todo = {}
    /\ gpc' = "idle"
    /\ UNCHANGED <<suspend_count, target, cur, todo, handed, threadVars, handlerVars>>

-----------------------------------------------------------------------------

\* Steps a thread takes once it has begun something.
Finish(t) ==
    \/ AddThread(t) \/ StoreHandle(t)
    \/ RequestBlock(t) \/ AcknowledgeBlock(t) \/ CheckBlocked(t)
    \/ LockTable(t) \/ Exit(t)

Handler(t) ==
    \/ Deliver(t) \/ HandlerPosts(t) \/ HandlerSuspends(t)
    \/ HandlerNested(t) \/ HandlerResumes(t)

Collector ==
    \/ GcStart \/ AllSuspended \/ ResumeAll \/ AllResumed
    \/ \E t \in Threads : SkipTerminating(t) \/ SuspendNext(t) \/ ResumeNext(t)
    \/ SendSuspend \/ SendToExited \/ Answered \/ Resumed \/ Unblock

Next ==
    \/ Collector
    \/ \E t \in Threads :
          \/ WantGc(t) \/ Terminate(t) \/ \E u \in Threads : Start(t, u)
          \/ Finish(t) \/ Handler(t) \/ HandlerBacksOff(t)

Spec == Init /\ [][Next]_vars

\* The collector and every thread go on with what they have begun, and a
\* thread does not stay on its alternative stack for ever.
FairSpec ==
    /\ Spec
    /\ WF_vars(Collector)
    /\ \A t \in Threads :
          /\ WF_vars(Finish(t))
          /\ WF_vars(Handler(t))
          /\ SF_vars(LockTable(t))
          /\ SF_vars(AddThread(t))
          /\ SF_vars(HandlerPosts(t))

-----------------------------------------------------------------------------
(* Safety                                                                  *)

Stopped(t) == handler[t] \in {"posted", "suspended"}

\* While the collector works, every thread of the table and every thread that
\* block_all_mutators_for_gc returned is stopped in its handler.  The exceptions
\* are threads that end, which are not returned unless they have ended since,
\* and late ones: a thread that entered the table during an earlier collection
\* was counted down from 0 by resume, and is never again sent a signal.
WorldIsStopped ==
    gpc = "working" =>
        \A t \in table \cup handed :
            \/ Stopped(t)
            \/ t \in late
            \/ IF t \in handed THEN pc[t] = "exited" ELSE AboutToTerminate(t)

\* The two uses of the signal are never confused: a handler that finds a count
\* of 0 is meant to suspend and one that finds another count to resume, it
\* acts on its own thread, and it answers the collector once.
SignalsUnderstood ==
    \A t \in Threads :
        /\ handler[t] # "nested"
        /\ handler[t] = "entered" => gpc = "wait" /\ suspend_count[t] = 0
        /\ handler[t] = "woken" => gpc = "wait_resumed"
        /\ handler[t] # "none" => interrupted[t] = t
        /\ handler[t] \in {"entered", "woken"} => target = t /\ cur = t

-----------------------------------------------------------------------------
(* Liveness                                                                *)

\* The collector needs the table's lock, and the thread that holds it has been
\* suspended: nobody will ever run again.
TableLockSuspended ==
    inner # NoThread /\ Stopped(inner) /\ gpc = "block" /\ todo = {}

\* The collector waits for an answer from a thread that has ended.
WaitsForExited == gpc = "wait" /\ pc[cur] = "exited" /\ semaphore = 0

\* A suspended thread runs again, unless the collector has got stuck in one of
\* two ways: on the lock of the table, or on a thread that had ended.
SuspendedRunAgain ==
    \A t \in Threads :
        Stopped(t) ~> \/ handler[t] = "none"
                      \/ TableLockSuspended
                      \/ WaitsForExited

\* A collection stops the world, or is still to.
CollectionToCome == BlockPass \/ gc_requested

\* A thread that blocks itself is released by the collection that is to come,
\* wherever the signal has met it, unless the collector gets stuck.  Nothing
\* releases one that blocks when its collection has already ended: it had
\* asked MMTk, and the signal stopped it before block_for_gc.
BlockedIsReleased ==
    \A t \in Threads :
        CollectionToCome /\ is_blocked[t] ~>
            ~is_blocked[t] \/ TableLockSuspended \/ WaitsForExited

-----------------------------------------------------------------------------
(* The inductive invariant                                                 *)

\* What the collector is doing with its current thread.
CollectorInStep ==
    /\ gpc \in {"signal", "wait"} => cur \in todo /\ suspend_count[cur] = 0
    /\ gpc \in {"wait", "wait_resumed", "unblock"} => cur \in Threads
    /\ gpc \in {"wait", "wait_resumed"} => target = cur
    /\ gpc = "wait_resumed" => suspend_count[cur] = 1 /\ cur \notin todo
    /\ todo \cup handed \subseteq table

\* Who has posted the semaphore, and that the collector still waits for it.
PostIsAnswer ==
    semaphore = 1 =>
        \/ /\ gpc = "wait"
           /\ IF stack_pointer[cur] THEN Stopped(cur) ELSE handler[cur] = "none"
        \/ gpc = "wait_resumed" /\ handler[cur] = "none"

\* A signal is pending, or its handler runs, only for the collector's thread.
SignalIsCurrent(t) ==
    /\ handler[t] # "nested"
    /\ handler[t] # "none" => interrupted[t] = t
    /\ pending[t] => /\ cur = t /\ semaphore = 0
                     /\ \/ gpc = "wait" /\ handler[t] = "none"
                        \/ gpc = "wait_resumed" /\ Stopped(t)
    /\ handler[t] = "entered" => gpc = "wait" /\ cur = t /\ semaphore = 0
    /\ handler[t] = "woken" => gpc = "wait_resumed" /\ cur = t /\ semaphore = 0

\* A count of 1 means that the thread is stopped, and is set and reset within
\* one collection.
CountIsSuspension(t) ==
    /\ Stopped(t) => \/ suspend_count[t] = 1
                     \/ gpc = "wait" /\ cur = t /\ semaphore = 1
    /\ suspend_count[t] = 1 =>
          /\ t \in table
          /\ gpc # "idle"
          /\ Stopped(t) \/ (gpc = "wait_resumed" /\ cur = t)
          /\ gpc \in {"block", "signal", "wait"} => t \notin todo
          /\ gpc \in {"resume", "unblock"} => t \in todo
          /\ gpc = "wait_resumed" => t \in todo \/ cur = t

\* The reason why a thread of the table may run while the world is stopped.
Excused(t) == IF t \in handed THEN pc[t] = "exited" ELSE AboutToTerminate(t)

\* The thread has been dealt with, or will be.
DealtWith(t) ==
    /\ BlockPass /\ t \in table => t \in todo \/ Stopped(t) \/ t \in late \/ Excused(t)
    /\ BlockPass => t \notin todo \cap handed
    /\ gpc = "working" => t \notin todo
    /\ suspend_count[t] \notin {0, 1} => t \in late \/ AboutToTerminate(t)
    /\ gpc \in {"resume", "wait_resumed", "unblock"} /\ t \in todo =>
          suspend_count[t] = 1 \/ t \in late \/ AboutToTerminate(t)

IInv ==
    /\ TypeOK
    /\ CollectorInStep
    /\ PostIsAnswer
    /\ \A t \in Threads : SignalIsCurrent(t) /\ CountIsSuspension(t) /\ DealtWith(t)

-----------------------------------------------------------------------------
(* The promise to the collector                                            *)

WorldPhase == CASE gpc = "idle" -> "running"
                [] gpc \in {"block", "signal", "wait"} -> "stopping"
                [] gpc = "working" -> "stopped"
                [] OTHER -> "resuming"

Running == {t \in Threads : pc[t] = "run" /\ handler[t] \in {"none", "entered"}}
Gone == {t \in Threads : AboutToTerminate(t)}

\* A thread that ends is gone, even if a signal still stops it.
Held == {t \in Threads : Stopped(t)} \ Gone

\* The late ones are in the table, and the collector does not deal with them.
Roster == table \ late

Visited == IF gpc = "working" THEN handed \cap Held ELSE {}

World == INSTANCE WorldControl WITH
           phase   <- WorldPhase,
           running <- Running,
           held    <- Held,
           gone    <- Gone,
           roster  <- Roster,
           visited <- Visited

\* Signals keep the promise of WorldControl as the yieldpoints of StopTheWorld
\* do: a thread that its handler holds stays out of managed code until the
\* collector resumes the world, and the world is declared stopped only when
\* every thread of the table is held or gone, but for the late ones.
KeepsPromise == World!WSpec

\* What KeepsPromise needs besides IInv: a thread is not in the table before
\* add_thread, and one that the pass has stopped and left behind is returned.
PassReturns ==
    \A t \in Threads :
        /\ pc[t] \in {"new", "starting"} => t \notin table
        /\ BlockPass /\ Stopped(t) /\ t \notin todo => t \in handed
=============================================================================
