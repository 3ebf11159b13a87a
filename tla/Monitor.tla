------------------------------- MODULE Monitor -------------------------------
(***************************************************************************)
(* Monitor<T> of vmkit/src/sync/monitor.rs: a recursive lock with a        *)
(* condition variable over a parking_lot mutex, whose _with_handshake      *)
(* operations leave managed code while they wait.                          *)
(*                                                                         *)
(* One monitor, several threads.  The thread system is reduced to what the *)
(* monitor needs of it: exec_status, and whether a collection holds the    *)
(* thread (StopTheWorld models how it comes to that).  The steps of an     *)
(* operation that only the owner of the mutex can take are one action.     *)
(***************************************************************************)
EXTENDS Integers, FiniteSets

CONSTANTS
    Threads,
    Nobody,    \* the holder 0, and the owner of a free mutex
    MaxDepth   \* bound: live guards of one thread

ASSUME MonitorConstants == Nobody \notin Threads /\ MaxDepth \in Nat \ {0}

VARIABLES
    mutex,        \* which thread the parking_lot mutex was locked by
    holder,       \* Monitor::holder
    rec_count,    \* Monitor::rec_count
    guards,       \* live MonitorGuards of each thread
    pc,
    saved,        \* the recursion count a waiting operation keeps
    sleepers,     \* threads in the queue of the condition variable
    exec_status,  \* Thread::exec_status
    detained,     \* threads a collection keeps out of managed code
    rewaited      \* has any wait_with_handshake returned?

lockVars == <<mutex, holder, rec_count, guards, saved>>
systemVars == <<exec_status, detained>>
vars == <<lockVars, pc, sleepers, systemVars, rewaited>>

Locations == {"run", "lock", "wait", "timedwait", "unlocked",
              "henter", "hlock", "hgot", "hblocked", "hwait", "hleave"}

\* The operations that told the thread system that they wait.
Handshaking == {"hlock", "hgot", "hblocked", "hwait", "hleave"}

InNativeCode == {"InNative", "BlockedInNative"}

\* rec_count is a usize: one step below 0 is its largest value.
MaxCount == MaxDepth + 1
Counts == 0..MaxCount
NoCount == -1   \* saved[t] while no operation of t keeps a count
Decrement(n) == IF n = 0 THEN MaxCount ELSE n - 1
Increment(n) == IF n = MaxCount THEN 0 ELSE n + 1

TypeOK ==
    /\ mutex \in Threads \cup {Nobody}
    /\ holder \in Threads \cup {Nobody}
    /\ rec_count \in Counts
    /\ guards \in [Threads -> 0..MaxDepth]
    /\ pc \in [Threads -> Locations]
    /\ saved \in [Threads -> Counts \cup {NoCount}]
    /\ sleepers \in SUBSET Threads
    /\ exec_status \in [Threads -> {"InManaged", "InManagedToBlock"} \cup InNativeCode]
    /\ detained \in SUBSET Threads
    /\ rewaited \in BOOLEAN

Init ==
    /\ mutex = Nobody
    /\ holder = Nobody
    /\ rec_count = 0
    /\ guards = [t \in Threads |-> 0]
    /\ pc = [t \in Threads |-> "run"]
    /\ saved = [t \in Threads |-> NoCount]
    /\ sleepers = {}
    /\ exec_status = [t \in Threads |-> "InManaged"]
    /\ detained = {}
    /\ rewaited = FALSE

Goto(t, from, to) == pc[t] = from /\ pc' = [pc EXCEPT ![t] = to]

-----------------------------------------------------------------------------
(* Locking and unlocking                                                   *)

\* The first lock of a thread goes to the mutex.
LockNoHandshake(t) ==
    /\ holder # t
    /\ guards[t] < MaxDepth
    /\ Goto(t, "run", "lock")
    /\ UNCHANGED <<lockVars, sleepers, systemVars, rewaited>>

\* Both lock operations of the holder: a guard without the mutex.
LockAgain(t) ==
    /\ pc[t] = "run"
    /\ holder = t
    /\ guards[t] < MaxDepth
    /\ rec_count' = Increment(rec_count)
    /\ guards' = [guards EXCEPT ![t] = @ + 1]
    /\ UNCHANGED <<mutex, holder, saved, pc, sleepers, systemVars, rewaited>>

\* The mutex is taken: the thread becomes the holder and gets a new guard.
BecomeHolder(t) ==
    /\ holder' = t
    /\ rec_count' = Increment(rec_count)
    /\ guards' = [guards EXCEPT ![t] = @ + 1]

Acquire(t) ==
    /\ mutex = Nobody
    /\ Goto(t, "lock", "run")
    /\ mutex' = t
    /\ BecomeHolder(t)
    /\ UNCHANGED <<saved, sleepers, systemVars, rewaited>>

\* Mutant: the last guard forgets to reset the holder.
MutDropGuard(t) ==
    /\ pc[t] = "run"
    /\ guards[t] > 0
    /\ guards' = [guards EXCEPT ![t] = @ - 1]
    /\ rec_count' = Decrement(rec_count)
    /\ mutex' = IF rec_count = 1 THEN Nobody ELSE mutex
    /\ UNCHANGED <<holder, saved, pc, sleepers, systemVars, rewaited>>

DropGuard(t) ==
    /\ pc[t] = "run"
    /\ guards[t] > 0
    /\ guards' = [guards EXCEPT ![t] = @ - 1]
    /\ rec_count' = Decrement(rec_count)
    /\ IF rec_count = 1 THEN holder' = Nobody /\ mutex' = Nobody
                        ELSE UNCHANGED <<holder, mutex>>
    /\ UNCHANGED <<saved, pc, sleepers, systemVars, rewaited>>

-----------------------------------------------------------------------------
(* Waiting without a handshake                                             *)

\* All recursion levels are given up at once and kept for later.
ReleaseCompletely(t) ==
    /\ guards[t] > 0
    /\ saved' = [saved EXCEPT ![t] = rec_count]
    /\ rec_count' = 0
    /\ holder' = Nobody
    /\ mutex' = Nobody
    /\ UNCHANGED guards

\* wait_no_handshake, and wait_for_no_handshake, which may time out.
WaitNoHandshake(t) ==
    /\ Goto(t, "run", "wait")
    /\ ReleaseCompletely(t)
    /\ sleepers' = sleepers \cup {t}
    /\ UNCHANGED <<systemVars, rewaited>>

WaitForNoHandshake(t) ==
    /\ Goto(t, "run", "timedwait")
    /\ ReleaseCompletely(t)
    /\ sleepers' = sleepers \cup {t}
    /\ UNCHANGED <<systemVars, rewaited>>

TimeOut(t) ==
    /\ pc[t] = "timedwait"
    /\ t \in sleepers
    /\ sleepers' = sleepers \ {t}
    /\ UNCHANGED <<lockVars, pc, systemVars, rewaited>>

\* unlocked_no_handshake: unlock_completely, then the action runs.
Unlock(t) ==
    /\ Goto(t, "run", "unlocked")
    /\ ReleaseCompletely(t)
    /\ UNCHANGED <<sleepers, systemVars, rewaited>>

\* The mutex is back: restore the count and the holder.
Reacquire(t) ==
    /\ pc[t] \in {"wait", "timedwait", "unlocked"}
    /\ t \notin sleepers
    /\ mutex = Nobody
    /\ pc' = [pc EXCEPT ![t] = "run"]
    /\ mutex' = t
    /\ holder' = t
    /\ rec_count' = saved[t]
    /\ saved' = [saved EXCEPT ![t] = NoCount]
    /\ UNCHANGED <<guards, sleepers, systemVars, rewaited>>

\* notify and notify_all need no lock.
Notify(t, u) ==
    /\ pc[t] = "run"
    /\ u \in sleepers
    /\ sleepers' = sleepers \ {u}
    /\ UNCHANGED <<lockVars, pc, systemVars, rewaited>>

NotifyAll(t) ==
    /\ pc[t] = "run"
    /\ sleepers # {}
    /\ sleepers' = {}
    /\ UNCHANGED <<lockVars, pc, systemVars, rewaited>>

-----------------------------------------------------------------------------
(* Waiting with a handshake                                                *)

EnterNative(t) ==
    exec_status' = [exec_status EXCEPT
        ![t] = IF @ = "InManaged" THEN "InNative" ELSE "BlockedInNative"]

\* lock_with_handshake by a thread that is not the holder.
LockWithHandshake(t) ==
    /\ holder # t
    /\ guards[t] < MaxDepth
    /\ Goto(t, "run", "henter")
    /\ UNCHANGED <<lockVars, sleepers, systemVars, rewaited>>

\* Mutant: the thread waits for the mutex in managed code.
MutHandshake(t) ==
    /\ Goto(t, "henter", "hlock")
    /\ UNCHANGED <<lockVars, sleepers, systemVars, rewaited>>

\* The head of the loops of lock_with_handshake_no_rec and
\* relock_with_handshake.
Handshake(t) ==
    /\ Goto(t, "henter", "hlock")
    /\ EnterNative(t)
    /\ UNCHANGED <<lockVars, sleepers, detained, rewaited>>

HandshakeAcquire(t) ==
    /\ mutex = Nobody
    /\ Goto(t, "hlock", "hgot")
    /\ mutex' = t
    /\ UNCHANGED <<holder, rec_count, guards, saved, sleepers, systemVars,
                   rewaited>>

\* Mutant: the thread leaves native code although a collection holds it.
MutLeaveWithMutex(t) ==
    /\ Goto(t, "hgot", "run")
    /\ saved[t] = NoCount
    /\ exec_status' = [exec_status EXCEPT ![t] = "InManaged"]
    /\ BecomeHolder(t)
    /\ UNCHANGED <<mutex, saved, sleepers, detained, rewaited>>

\* attempt_leave_native_no_block succeeds: lock_with_handshake is done.
LeaveWithMutex(t) ==
    /\ Goto(t, "hgot", "run")
    /\ saved[t] = NoCount
    /\ exec_status[t] = "InNative"
    /\ exec_status' = [exec_status EXCEPT ![t] = "InManaged"]
    /\ BecomeHolder(t)
    /\ UNCHANGED <<mutex, saved, sleepers, detained, rewaited>>

\* Mutant: the thread blocks with the mutex.
MutGiveMutexBack(t) ==
    /\ Goto(t, "hgot", "hblocked")
    /\ exec_status[t] # "InNative"
    /\ UNCHANGED <<lockVars, sleepers, systemVars, rewaited>>

\* It fails: give the mutex back before blocking.
GiveMutexBack(t) ==
    /\ Goto(t, "hgot", "hblocked")
    /\ exec_status[t] # "InNative"
    /\ mutex' = Nobody
    /\ UNCHANGED <<holder, rec_count, guards, saved, sleepers, systemVars,
                   rewaited>>

\* leave_native, which blocks while a collection holds the thread.
LeaveNative(t) ==
    /\ pc[t] \in {"hblocked", "hleave"}
    /\ t \notin detained
    /\ pc' = [pc EXCEPT ![t] = "henter"]
    /\ exec_status' = [exec_status EXCEPT ![t] = "InManaged"]
    /\ UNCHANGED <<lockVars, sleepers, detained, rewaited>>

\* wait_with_handshake: the parked scope enters native code and waits.
WaitWithHandshake(t) ==
    /\ Goto(t, "run", "hwait")
    /\ ReleaseCompletely(t)
    /\ sleepers' = sleepers \cup {t}
    /\ EnterNative(t)
    /\ UNCHANGED <<detained, rewaited>>

\* Notified: wait_no_handshake takes the mutex again and unlock_completely
\* releases it, so that only pc changes.
WokenInNative(t) ==
    /\ Goto(t, "hwait", "hleave")
    /\ t \notin sleepers
    /\ mutex = Nobody
    /\ UNCHANGED <<lockVars, sleepers, systemVars, rewaited>>

\* relock_with_handshake made a new guard with the old count; the guard that
\* wait_with_handshake was called on is `self` by value and is dropped when
\* the method returns.
ReturnFromWait(t) ==
    /\ Goto(t, "hgot", "run")
    /\ saved[t] # NoCount
    /\ exec_status[t] = "InNative"
    /\ exec_status' = [exec_status EXCEPT ![t] = "InManaged"]
    /\ rec_count' = Decrement(saved[t])
    /\ IF saved[t] = 1 THEN holder' = Nobody /\ mutex' = Nobody
                       ELSE holder' = t /\ UNCHANGED mutex
    /\ saved' = [saved EXCEPT ![t] = NoCount]
    /\ rewaited' = TRUE
    /\ UNCHANGED <<guards, sleepers, detained>>

-----------------------------------------------------------------------------
(* The thread system, as StopTheWorld models it                            *)

\* block_unchecked
Detain(t) ==
    /\ t \notin detained
    /\ detained' = detained \cup {t}
    /\ exec_status' = [exec_status EXCEPT
         ![t] = CASE @ = "InManaged" -> "InManagedToBlock"
                  [] @ = "InNative" -> "BlockedInNative"
                  [] OTHER -> @]
    /\ UNCHANGED <<lockVars, pc, sleepers, rewaited>>

\* unblock
ReleaseThread(t) ==
    /\ t \in detained
    /\ detained' = detained \ {t}
    /\ UNCHANGED <<lockVars, pc, sleepers, exec_status, rewaited>>

\* The thread has slept in a yieldpoint until it was released.
Yieldpoint(t) ==
    /\ pc[t] = "run"
    /\ exec_status[t] = "InManagedToBlock"
    /\ t \notin detained
    /\ exec_status' = [exec_status EXCEPT ![t] = "InManaged"]
    /\ UNCHANGED <<lockVars, pc, sleepers, detained, rewaited>>

LockStep(t) ==
    LockNoHandshake(t) \/ LockAgain(t) \/ Acquire(t) \/ DropGuard(t)

WaitStep(t) ==
    \/ WaitNoHandshake(t) \/ WaitForNoHandshake(t) \/ TimeOut(t) \/ Unlock(t)
    \/ Reacquire(t) \/ NotifyAll(t) \/ \E u \in Threads : Notify(t, u)

HandshakeStep(t) ==
    \/ LockWithHandshake(t) \/ Handshake(t) \/ HandshakeAcquire(t)
    \/ LeaveWithMutex(t) \/ GiveMutexBack(t) \/ LeaveNative(t)
    \/ WaitWithHandshake(t) \/ WokenInNative(t) \/ ReturnFromWait(t)

SystemStep(t) == Detain(t) \/ ReleaseThread(t) \/ Yieldpoint(t)

Next == \E t \in Threads :
            LockStep(t) \/ WaitStep(t) \/ HandshakeStep(t) \/ SystemStep(t)

Spec == Init /\ [][Next]_vars

\* Fairness.  Guards go out of scope and the section without the lock ends;
\* parking_lot's mutex is eventually fair; a collection ends.
Fairness(t) ==
    /\ SF_vars(Acquire(t)) /\ SF_vars(Reacquire(t))
    /\ SF_vars(HandshakeAcquire(t)) /\ SF_vars(WokenInNative(t))
    /\ WF_vars(DropGuard(t)) /\ SF_vars(rec_count = 1 /\ DropGuard(t))
    /\ WF_vars(Handshake(t) \/ LeaveNative(t))
    /\ WF_vars(LeaveWithMutex(t) \/ GiveMutexBack(t) \/ ReturnFromWait(t))
    /\ WF_vars(ReleaseThread(t))

FairSpec == Spec /\ \A t \in Threads : Fairness(t)

-----------------------------------------------------------------------------
(* Properties                                                              *)

Waiting == {"wait", "timedwait", "unlocked", "hwait", "hleave"}

\* A live guard of a thread that is not waiting means that the thread owns the
\* mutex and that the recursion count is the number of its guards; while it
\* waits, the count it will restore is (MonitorGuard, Monitor::rec_count).
GuardsMeanOwnership ==
    \A t \in Threads :
        /\ pc[t] = "run" /\ guards[t] > 0 =>
              mutex = t /\ holder = t /\ rec_count = guards[t]
        /\ pc[t] \in Waiting => saved[t] = guards[t]

\* Nobody keeps the mutex who has no guard, except on the way to one.
OwnerHasGuard ==
    \A t \in Threads : mutex = t =>
        pc[t] = "hgot" \/ (pc[t] = "run" /\ guards[t] > 0)

\* The monitor does what a recursive mutex does as long as no
\* wait_with_handshake has returned (see WaitKeepsOwnership), and nobody
\* keeps the mutex who has no guard: it is not leaked by a thread that a
\* collection sends to sleep on its way out of native code.
MonitorIsRecursiveMutex == ~rewaited => GuardsMeanOwnership /\ OwnerHasGuard

\* "It is meant to provide roughly the same functionality as ReentrantMutex
\* combined with Condvar" (monitor.rs:30), wait_with_handshake included.
WaitKeepsOwnership == GuardsMeanOwnership

\* While a thread waits in a _with_handshake operation the thread system counts
\* it as out of managed code, so that no collection waits for it.
WaitersAreParked ==
    \A t \in Threads : pc[t] \in Handshaking => exec_status[t] \in InNativeCode

\* A thread that a collection found in native code stays there until released,
\* even when the mutex it was waiting for becomes free.
DetainedStayOut ==
    [][\A t \in detained : exec_status[t] \in InNativeCode =>
          exec_status'[t] \in InNativeCode]_vars

\* Who asks for the lock gets it, when collections stop coming and nobody uses
\* wait_with_handshake.
LockIsGranted ==
    [](~rewaited) /\ <>[](detained = {}) =>
        \A t \in Threads : pc[t] \in {"lock", "hlock"} ~> pc[t] = "run"

-----------------------------------------------------------------------------
(* What the monitor promises                                               *)

\* Threads that keep a count to come back to.
GaveUp == {t \in Threads : saved[t] # NoCount}

Abstract == INSTANCE ReentrantLock WITH
              held <- guards, away <- GaveUp, asleep <- sleepers

\* Up to and including the first return from wait_with_handshake, Monitor does
\* what ReentrantLock says, whichever of its operations, with or without a
\* handshake, its threads use: locks are exclusive and recursive, and a wait
\* gives back what it took (monitor.rs:30).
IsReentrantLock ==
    Abstract!RInit /\ [][rewaited \/ Abstract!RNext]_(Abstract!rvars)

-----------------------------------------------------------------------------
(* The inductive invariant                                                 *)

\* A thread that waits keeps a count to come back to, one that runs has none,
\* and one that is locking may have one guard more.
CountIsSaved ==
    \A t \in Threads :
        /\ pc[t] \in Waiting => saved[t] # NoCount
        /\ pc[t] \in {"run", "lock"} => saved[t] = NoCount
        /\ pc[t] # "run" /\ saved[t] = NoCount => guards[t] < MaxDepth

\* A thread a collection holds is in one of the two diverted states.
DetainedIsMarked ==
    \A t \in detained : exec_status[t] \in {"InManagedToBlock", "BlockedInNative"}

\* A thread in the queue of the condition variable is in an operation that waits.
SleepersWait == \A t \in sleepers : pc[t] \in {"wait", "timedwait", "hwait"}

\* Until a wait_with_handshake has returned: the holder is the owner of the
\* mutex, in its section, and has a guard;
HolderOwns ==
    \A t \in Threads : holder = t => mutex = t /\ pc[t] = "run" /\ guards[t] > 0

\* a thread that is about to leave native code with the mutex owns it;
GotIsOwned == \A t \in Threads : pc[t] = "hgot" => mutex = t

\* a monitor without a holder has no recursion;
FreeIsZero == holder = Nobody => rec_count = 0

\* the count kept is the number of guards given up, and there are none
\* otherwise.
SavedIsGuards ==
    \A t \in Threads :
        /\ saved[t] # NoCount => saved[t] = guards[t] /\ guards[t] > 0
        /\ pc[t] # "run" /\ saved[t] = NoCount => guards[t] = 0

RecursiveLock ==
    /\ GuardsMeanOwnership
    /\ OwnerHasGuard
    /\ HolderOwns
    /\ GotIsOwned
    /\ FreeIsZero
    /\ SavedIsGuards

IInv ==
    /\ TypeOK
    /\ WaitersAreParked
    /\ CountIsSaved
    /\ DetainedIsMarked
    /\ SleepersWait
    /\ ~rewaited => RecursiveLock
=============================================================================
