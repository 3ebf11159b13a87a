--------------------------- MODULE Monitor_proofs ---------------------------
(***************************************************************************)
(* Proofs about Monitor, for any number of threads and any depth of        *)
(* recursion.                                                              *)
(***************************************************************************)
EXTENDS Monitor, TLAPS

\* A count that stays under MaxCount goes up and down by one: no wrap.
LEMMA CountArithmetic ==
  \A n \in 0..MaxDepth : /\ Increment(n) = n + 1
                         /\ Decrement(n + 1) = n
                         /\ n + 1 \in Counts
BY MonitorConstants DEF Increment, Decrement, MaxCount, Counts

\* Both operations of the counter stay in the range of a usize.
LEMMA CountsClosed ==
  \A n \in Counts : Increment(n) \in Counts /\ Decrement(n) \in Counts
BY MonitorConstants DEF Increment, Decrement, MaxCount, Counts

\* A free, unheld monitor satisfies the invariant.
LEMMA InitIInv == Init => IInv
<1> SUFFICES ASSUME Init PROVE IInv
  OBVIOUS
<1> USE MonitorConstants DEF Init
<1>1. TypeOK
  <2>1. 0 \in Counts /\ 0 \in 0..MaxDepth
    BY DEF Counts, MaxCount
  <2> QED
    BY <2>1 DEF TypeOK, Locations
<1>2. WaitersAreParked /\ CountIsSaved /\ DetainedIsMarked /\ SleepersWait
  BY DEF WaitersAreParked, Handshaking, CountIsSaved, Waiting, DetainedIsMarked,
         SleepersWait
<1>3. RecursiveLock
  BY DEF RecursiveLock, GuardsMeanOwnership, OwnerHasGuard, Waiting, HolderOwns,
         GotIsOwned, FreeIsZero, SavedIsGuards
<1> QED
  BY <1>1, <1>2, <1>3 DEF IInv

\* Every step keeps the types.
LEMMA TypeOKStep == TypeOK /\ CountIsSaved /\ [Next]_vars => TypeOK'
<1> SUFFICES ASSUME TypeOK, CountIsSaved, [Next]_vars PROVE TypeOK'
  OBVIOUS
<1> USE MonitorConstants, CountsClosed DEF TypeOK, Locations, InNativeCode
<1>1. ASSUME NEW t \in Threads, LockStep(t) PROVE TypeOK'
  <2>1. CASE LockNoHandshake(t)
    BY <2>1 DEF LockNoHandshake, Goto, lockVars, systemVars
  <2>2. CASE LockAgain(t)
    BY <2>2 DEF LockAgain, systemVars
  <2>3. CASE Acquire(t)
    BY <2>3 DEF Acquire, BecomeHolder, Goto, systemVars, CountIsSaved
  <2>4. CASE DropGuard(t)
    <3>1. guards' \in [Threads -> 0..MaxDepth]
      BY <2>4 DEF DropGuard
    <3>2. rec_count' \in Counts
      BY <2>4 DEF DropGuard
    <3>3. holder' \in Threads \cup {Nobody} /\ mutex' \in Threads \cup {Nobody}
      BY <2>4 DEF DropGuard
    <3> QED
      BY <2>4, <3>1, <3>2, <3>3 DEF DropGuard, systemVars
  <2> QED
    BY <1>1, <2>1, <2>2, <2>3, <2>4 DEF LockStep
<1>2. ASSUME NEW t \in Threads, WaitStep(t) PROVE TypeOK'
  <2>0. 0 \in Counts
    BY DEF Counts, MaxCount
  <2>1. CASE WaitNoHandshake(t)
    BY <2>0, <2>1 DEF WaitNoHandshake, ReleaseCompletely, Goto, systemVars
  <2>2. CASE WaitForNoHandshake(t)
    BY <2>0, <2>2 DEF WaitForNoHandshake, ReleaseCompletely, Goto, systemVars
  <2>3. CASE TimeOut(t)
    BY <2>3 DEF TimeOut, lockVars, systemVars
  <2>4. CASE Unlock(t)
    BY <2>0, <2>4 DEF Unlock, ReleaseCompletely, Goto, systemVars
  <2>5. CASE Reacquire(t)
    <3>1. saved[t] \in Counts
      BY <2>5 DEF Reacquire, CountIsSaved, Waiting
    <3> QED
      BY <2>5, <3>1 DEF Reacquire, systemVars
  <2>6. CASE NotifyAll(t)
    BY <2>6 DEF NotifyAll, lockVars, systemVars
  <2>7. ASSUME NEW u \in Threads, Notify(t, u) PROVE TypeOK'
    BY <2>7 DEF Notify, lockVars, systemVars
  <2> QED
    BY <1>2, <2>1, <2>2, <2>3, <2>4, <2>5, <2>6, <2>7 DEF WaitStep
<1>3. ASSUME NEW t \in Threads, HandshakeStep(t) PROVE TypeOK'
  <2>0. 0 \in Counts
    BY DEF Counts, MaxCount
  <2>1. CASE LockWithHandshake(t)
    BY <2>1 DEF LockWithHandshake, Goto, lockVars, systemVars
  <2>2. CASE Handshake(t)
    BY <2>2 DEF Handshake, EnterNative, Goto, lockVars
  <2>3. CASE HandshakeAcquire(t)
    BY <2>3 DEF HandshakeAcquire, Goto, systemVars
  <2>4. CASE LeaveWithMutex(t)
    BY <2>4 DEF LeaveWithMutex, BecomeHolder, Goto, CountIsSaved
  <2>5. CASE GiveMutexBack(t)
    BY <2>5 DEF GiveMutexBack, Goto, systemVars
  <2>6. CASE LeaveNative(t)
    BY <2>6 DEF LeaveNative, lockVars
  <2>7. CASE WaitWithHandshake(t)
    BY <2>0, <2>7 DEF WaitWithHandshake, ReleaseCompletely, EnterNative, Goto
  <2>8. CASE WokenInNative(t)
    BY <2>8 DEF WokenInNative, Goto, lockVars, systemVars
  <2>9. CASE ReturnFromWait(t)
    <3>1. saved[t] \in Counts
      BY <2>9 DEF ReturnFromWait
    <3>2. holder' \in Threads \cup {Nobody} /\ mutex' \in Threads \cup {Nobody}
      BY <2>9 DEF ReturnFromWait
    <3> QED
      BY <2>9, <3>1, <3>2 DEF ReturnFromWait, Goto
  <2> QED
    BY <1>3, <2>1, <2>2, <2>3, <2>4, <2>5, <2>6, <2>7, <2>8, <2>9 DEF HandshakeStep
<1>4. ASSUME NEW t \in Threads, SystemStep(t) PROVE TypeOK'
  BY <1>4 DEF SystemStep, Detain, ReleaseThread, Yieldpoint, lockVars
<1>5. ASSUME UNCHANGED vars PROVE TypeOK'
  BY <1>5 DEF vars, lockVars, systemVars
<1> QED
  BY <1>1, <1>2, <1>3, <1>4, <1>5 DEF Next

\* A thread in a _with_handshake wait stays in native code: it leaves by its
\* own step, and a collection only moves it from InNative to BlockedInNative.
LEMMA WaitersAreParkedStep ==
  TypeOK /\ WaitersAreParked /\ [Next]_vars => WaitersAreParked'
<1> SUFFICES ASSUME TypeOK, WaitersAreParked, [Next]_vars,
                    NEW w \in Threads, pc'[w] \in Handshaking
             PROVE  exec_status'[w] \in InNativeCode
  BY DEF WaitersAreParked
<1> USE DEF TypeOK, WaitersAreParked, Handshaking, InNativeCode
<1>1. ASSUME NEW t \in Threads, LockStep(t)
      PROVE  exec_status'[w] \in InNativeCode
  BY <1>1 DEF LockStep, LockNoHandshake, LockAgain, Acquire, DropGuard, Goto,
     lockVars, systemVars
<1>2. ASSUME NEW t \in Threads, WaitStep(t)
      PROVE  exec_status'[w] \in InNativeCode
  BY <1>2 DEF WaitStep, WaitNoHandshake, WaitForNoHandshake, TimeOut, Unlock,
     Reacquire, Notify, NotifyAll, Goto, lockVars, systemVars
<1>3. ASSUME NEW t \in Threads, HandshakeStep(t)
      PROVE  exec_status'[w] \in InNativeCode
  BY <1>3 DEF HandshakeStep, LockWithHandshake, Handshake, HandshakeAcquire,
     LeaveWithMutex, GiveMutexBack, LeaveNative, WaitWithHandshake,
     WokenInNative, ReturnFromWait, EnterNative, Goto, lockVars, systemVars
<1>4. ASSUME NEW t \in Threads, SystemStep(t)
      PROVE  exec_status'[w] \in InNativeCode
  BY <1>4 DEF SystemStep, Detain, ReleaseThread, Yieldpoint, lockVars
<1>5. ASSUME UNCHANGED vars PROVE exec_status'[w] \in InNativeCode
  BY <1>5 DEF vars, lockVars, systemVars
<1> QED
  BY <1>1, <1>2, <1>3, <1>4, <1>5 DEF Next

\* Each operation either keeps a count or does not, and keeps it to its end.
LEMMA CountIsSavedStep ==
  TypeOK /\ CountIsSaved /\ [Next]_vars => CountIsSaved'
<1> SUFFICES ASSUME TypeOK, CountIsSaved, [Next]_vars PROVE CountIsSaved'
  OBVIOUS
<1>0. rec_count # NoCount
  BY MonitorConstants DEF TypeOK, Counts, MaxCount, NoCount
<1> USE MonitorConstants DEF TypeOK, CountIsSaved, Waiting
<1>1. ASSUME NEW t \in Threads, LockStep(t) PROVE CountIsSaved'
  BY <1>1 DEF LockStep, LockNoHandshake, LockAgain, Acquire, DropGuard,
     BecomeHolder, Goto, lockVars, systemVars
<1>2. ASSUME NEW t \in Threads, WaitStep(t) PROVE CountIsSaved'
  BY <1>0, <1>2 DEF WaitStep, WaitNoHandshake, WaitForNoHandshake, TimeOut,
     Unlock, Reacquire, Notify, NotifyAll, ReleaseCompletely, Goto, lockVars,
     systemVars
<1>3. ASSUME NEW t \in Threads, HandshakeStep(t) PROVE CountIsSaved'
  <2>1. CASE WaitWithHandshake(t)
    BY <1>0, <2>1 DEF WaitWithHandshake, ReleaseCompletely, Goto
  <2>2. CASE LeaveWithMutex(t)
    BY <2>2 DEF LeaveWithMutex, BecomeHolder, Goto
  <2>3. CASE ReturnFromWait(t)
    BY <2>3 DEF ReturnFromWait, Goto
  <2>4. CASE LockWithHandshake(t) \/ Handshake(t) \/ HandshakeAcquire(t)
               \/ GiveMutexBack(t) \/ LeaveNative(t) \/ WokenInNative(t)
    BY <2>4 DEF LockWithHandshake, Handshake, HandshakeAcquire, GiveMutexBack,
       LeaveNative, WokenInNative, Goto, lockVars, systemVars
  <2> QED
    BY <1>3, <2>1, <2>2, <2>3, <2>4 DEF HandshakeStep
<1>4. ASSUME NEW t \in Threads, SystemStep(t) PROVE CountIsSaved'
  BY <1>4 DEF SystemStep, Detain, ReleaseThread, Yieldpoint, lockVars
<1>5. ASSUME UNCHANGED vars PROVE CountIsSaved'
  BY <1>5 DEF vars, lockVars, systemVars
<1> QED
  BY <1>1, <1>2, <1>3, <1>4, <1>5 DEF Next

\* A held thread is in a diverted state until it is released.
LEMMA DetainedIsMarkedStep ==
  TypeOK /\ DetainedIsMarked /\ [Next]_vars => DetainedIsMarked'
<1> SUFFICES ASSUME TypeOK, DetainedIsMarked, [Next]_vars PROVE DetainedIsMarked'
  OBVIOUS
<1> USE DEF TypeOK, DetainedIsMarked, InNativeCode
<1>1. ASSUME NEW t \in Threads, LockStep(t) PROVE DetainedIsMarked'
  BY <1>1 DEF LockStep, LockNoHandshake, LockAgain, Acquire, DropGuard, systemVars
<1>2. ASSUME NEW t \in Threads, WaitStep(t) PROVE DetainedIsMarked'
  BY <1>2 DEF WaitStep, WaitNoHandshake, WaitForNoHandshake, TimeOut, Unlock,
     Reacquire, Notify, NotifyAll, systemVars
<1>3. ASSUME NEW t \in Threads, HandshakeStep(t) PROVE DetainedIsMarked'
  <2>1. CASE Handshake(t) \/ WaitWithHandshake(t)
    BY <2>1 DEF Handshake, WaitWithHandshake, EnterNative
  <2>2. CASE LeaveWithMutex(t) \/ LeaveNative(t) \/ ReturnFromWait(t)
    BY <2>2 DEF LeaveWithMutex, LeaveNative, ReturnFromWait
  <2>3. CASE LockWithHandshake(t) \/ HandshakeAcquire(t) \/ GiveMutexBack(t)
               \/ WokenInNative(t)
    BY <2>3 DEF LockWithHandshake, HandshakeAcquire, GiveMutexBack,
       WokenInNative, systemVars
  <2> QED
    BY <1>3, <2>1, <2>2, <2>3 DEF HandshakeStep
<1>4. ASSUME NEW t \in Threads, SystemStep(t) PROVE DetainedIsMarked'
  BY <1>4 DEF SystemStep, Detain, ReleaseThread, Yieldpoint
<1>5. ASSUME UNCHANGED vars PROVE DetainedIsMarked'
  BY <1>5 DEF vars, systemVars
<1> QED
  BY <1>1, <1>2, <1>3, <1>4, <1>5 DEF Next

\* A thread leaves the place where it sleeps only after it has left the queue.
LEMMA SleepersWaitStep ==
  TypeOK /\ SleepersWait /\ [Next]_vars => SleepersWait'
<1> SUFFICES ASSUME TypeOK, SleepersWait, [Next]_vars, NEW w \in sleepers'
             PROVE  pc'[w] \in {"wait", "timedwait", "hwait"}
  BY DEF SleepersWait
<1> DEFINE Sleeps == pc'[w] \in {"wait", "timedwait", "hwait"}
<1> USE DEF TypeOK, SleepersWait, lockVars
<1>1. ASSUME NEW t \in Threads, LockStep(t) PROVE Sleeps
  BY <1>1 DEF LockStep, LockNoHandshake, LockAgain, Acquire, DropGuard, Goto
<1>2. ASSUME NEW t \in Threads, WaitStep(t) PROVE Sleeps
  <2>1. CASE WaitNoHandshake(t) \/ WaitForNoHandshake(t) \/ Unlock(t)
    BY <2>1 DEF WaitNoHandshake, WaitForNoHandshake, Unlock, Goto
  <2>2. CASE Reacquire(t)
    BY <2>2 DEF Reacquire
  <2>3. CASE TimeOut(t) \/ NotifyAll(t) \/ \E u \in Threads : Notify(t, u)
    BY <2>3 DEF TimeOut, NotifyAll, Notify
  <2> QED
    BY <1>2, <2>1, <2>2, <2>3 DEF WaitStep
<1>3. ASSUME NEW t \in Threads, HandshakeStep(t) PROVE Sleeps
  <2>1. CASE WaitWithHandshake(t)
    BY <2>1 DEF WaitWithHandshake, Goto
  <2>2. CASE LeaveNative(t) \/ WokenInNative(t)
    BY <2>2 DEF LeaveNative, WokenInNative, Goto
  <2>3. CASE \/ LockWithHandshake(t) \/ Handshake(t) \/ HandshakeAcquire(t)
             \/ LeaveWithMutex(t) \/ GiveMutexBack(t) \/ ReturnFromWait(t)
    BY <2>3 DEF LockWithHandshake, Handshake, HandshakeAcquire, LeaveWithMutex,
       GiveMutexBack, ReturnFromWait, Goto
  <2> QED
    BY <1>3, <2>1, <2>2, <2>3 DEF HandshakeStep
<1>4. ASSUME NEW t \in Threads, SystemStep(t) PROVE Sleeps
  BY <1>4 DEF SystemStep, Detain, ReleaseThread, Yieldpoint
<1>5. ASSUME UNCHANGED vars PROVE Sleeps
  BY <1>5 DEF vars
<1> QED
  BY <1>1, <1>2, <1>3, <1>4, <1>5 DEF Next

\* Before the first wait_with_handshake returns, guards, holder, rec_count and
\* the mutex go on agreeing.
LEMMA RecursiveLockStep ==
  IInv /\ [Next]_vars /\ ~rewaited' => RecursiveLock'
<1> SUFFICES ASSUME IInv, [Next]_vars, ~rewaited' PROVE RecursiveLock'
  OBVIOUS
<1>0. ~rewaited
  BY DEF IInv, TypeOK, Next, LockStep, WaitStep, HandshakeStep, SystemStep,
     LockNoHandshake, LockAgain, Acquire, DropGuard, WaitNoHandshake,
     WaitForNoHandshake, TimeOut, Unlock, Reacquire, Notify, NotifyAll,
     LockWithHandshake, Handshake, HandshakeAcquire, LeaveWithMutex,
     GiveMutexBack, LeaveNative, WaitWithHandshake, WokenInNative,
     ReturnFromWait, Detain, ReleaseThread, Yieldpoint, vars
<1>a. RecursiveLock /\ TypeOK /\ CountIsSaved
  BY <1>0 DEF IInv
<1>b. /\ NoCount \notin Counts
      /\ Counts \subseteq Nat
      /\ \A n \in 0..MaxDepth : n \in Counts /\ n # NoCount
  BY MonitorConstants DEF Counts, MaxCount, NoCount
<1>1. ASSUME NEW t \in Threads, LockStep(t) PROVE RecursiveLock'
  <2> USE MonitorConstants, <1>a DEF TypeOK, RecursiveLock, GuardsMeanOwnership,
          OwnerHasGuard, HolderOwns, GotIsOwned, FreeIsZero, SavedIsGuards,
          Waiting, Locations
  <2>1. CASE LockNoHandshake(t)
    BY <2>1 DEF LockNoHandshake, Goto, lockVars, CountIsSaved
  <2>2. CASE LockAgain(t)
    <3>1. rec_count = guards[t] /\ rec_count' = guards[t] + 1
      BY <2>2, CountArithmetic DEF LockAgain
    <3> QED
      BY <2>2, <3>1 DEF LockAgain, CountIsSaved
  <2>3. CASE Acquire(t)
    <3>1. holder = Nobody
      BY <2>3 DEF Acquire
    <3>2. guards[t] = 0 /\ rec_count' = 1
      BY <2>3, <3>1, CountArithmetic DEF Acquire, BecomeHolder, Goto, CountIsSaved
    <3> QED
      BY <2>3, <3>1, <3>2 DEF Acquire, BecomeHolder, Goto, CountIsSaved
  <2>4. CASE DropGuard(t)
    <3>1. mutex = t /\ holder = t /\ rec_count = guards[t]
      BY <2>4 DEF DropGuard
    <3>2. rec_count' = guards'[t] /\ guards'[t] = guards[t] - 1
      BY <2>4, <3>1, CountArithmetic DEF DropGuard
    <3> QED
      BY <2>4, <3>1, <3>2 DEF DropGuard, CountIsSaved
  <2> QED
    BY <1>1, <2>1, <2>2, <2>3, <2>4 DEF LockStep
<1>2. ASSUME NEW t \in Threads, WaitStep(t) PROVE RecursiveLock'
  <2> USE MonitorConstants, <1>a DEF TypeOK, RecursiveLock, GuardsMeanOwnership,
          OwnerHasGuard, HolderOwns, GotIsOwned, FreeIsZero, SavedIsGuards,
          Waiting, Locations
  <2>1. CASE WaitNoHandshake(t)
    BY <2>1, <1>b DEF WaitNoHandshake, ReleaseCompletely, Goto
  <2>2. CASE WaitForNoHandshake(t)
    BY <2>2, <1>b DEF WaitForNoHandshake, ReleaseCompletely, Goto
  <2>3. CASE Unlock(t)
    BY <2>3, <1>b DEF Unlock, ReleaseCompletely, Goto
  <2>4. CASE Reacquire(t)
    BY <2>4, <1>b DEF Reacquire, CountIsSaved
  <2>5. CASE TimeOut(t) \/ NotifyAll(t) \/ \E u \in Threads : Notify(t, u)
    BY <2>5 DEF TimeOut, NotifyAll, Notify, lockVars
  <2> QED
    BY <1>2, <2>1, <2>2, <2>3, <2>4, <2>5 DEF WaitStep
<1>3. ASSUME NEW t \in Threads, HandshakeStep(t) PROVE RecursiveLock'
  <2> USE MonitorConstants, <1>a DEF TypeOK, RecursiveLock, GuardsMeanOwnership,
          OwnerHasGuard, HolderOwns, GotIsOwned, FreeIsZero, SavedIsGuards,
          Waiting, Locations
  <2>1. CASE LockWithHandshake(t)
    BY <2>1 DEF LockWithHandshake, Goto, lockVars, CountIsSaved
  <2>2. CASE Handshake(t) \/ WokenInNative(t)
    BY <2>2, <1>b DEF Handshake, WokenInNative, Goto, lockVars
  <2>3. CASE HandshakeAcquire(t)
    BY <2>3, <1>b DEF HandshakeAcquire, Goto
  <2>4. CASE LeaveWithMutex(t)
    <3>1. holder = Nobody
      BY <2>4 DEF LeaveWithMutex, Goto
    <3>2. guards[t] = 0 /\ rec_count' = 1
      BY <2>4, <3>1, CountArithmetic DEF LeaveWithMutex, BecomeHolder, Goto,
         CountIsSaved
    <3> QED
      BY <2>4, <3>1, <3>2 DEF LeaveWithMutex, BecomeHolder, Goto, CountIsSaved
  <2>5. CASE GiveMutexBack(t)
    BY <2>5, <1>b DEF GiveMutexBack, Goto
  <2>6. CASE LeaveNative(t)
    BY <2>6, <1>b DEF LeaveNative, lockVars
  <2>7. CASE WaitWithHandshake(t)
    BY <2>7, <1>b DEF WaitWithHandshake, ReleaseCompletely, Goto
  <2>8. CASE ReturnFromWait(t)
    BY <2>8 DEF ReturnFromWait
  <2> QED
    BY <1>3, <2>1, <2>2, <2>3, <2>4, <2>5, <2>6, <2>7, <2>8 DEF HandshakeStep
<1>4. ASSUME NEW t \in Threads, SystemStep(t) PROVE RecursiveLock'
  BY <1>4, <1>a DEF SystemStep, Detain, ReleaseThread, Yieldpoint, lockVars,
     RecursiveLock, GuardsMeanOwnership, OwnerHasGuard, HolderOwns, GotIsOwned,
     FreeIsZero, SavedIsGuards
<1>5. ASSUME UNCHANGED vars PROVE RecursiveLock'
  BY <1>5, <1>a DEF vars, lockVars, RecursiveLock, GuardsMeanOwnership,
     OwnerHasGuard, HolderOwns, GotIsOwned, FreeIsZero, SavedIsGuards
<1> QED
  BY <1>1, <1>2, <1>3, <1>4, <1>5 DEF Next

\* The invariant of the monitor.
THEOREM Invariance == Spec => []IInv
<1>1. IInv /\ [Next]_vars => IInv'
  <2> SUFFICES ASSUME IInv, [Next]_vars PROVE IInv'
    OBVIOUS
  <2>1. /\ TypeOK' /\ WaitersAreParked' /\ CountIsSaved' /\ DetainedIsMarked'
        /\ SleepersWait'
    BY TypeOKStep, WaitersAreParkedStep, CountIsSavedStep, DetainedIsMarkedStep,
       SleepersWaitStep DEF IInv
  <2>2. ~rewaited' => RecursiveLock'
    BY RecursiveLockStep
  <2> QED
    BY <2>1, <2>2 DEF IInv
<1> QED
  BY InitIInv, <1>1, PTL DEF Spec

\* Monitor's fields keep their types, for any number of threads.
THEOREM TypeCorrect == Spec => []TypeOK
<1>1. IInv => TypeOK
  BY DEF IInv
<1> QED
  BY Invariance, <1>1, PTL

\* A monitor nobody has returned to from wait_with_handshake is a recursive
\* mutex: live guards, holder, rec_count and the mutex agree.
THEOREM MonitorIsRecursiveMutexThm == Spec => []MonitorIsRecursiveMutex
<1>1. IInv => MonitorIsRecursiveMutex
  BY DEF IInv, RecursiveLock, MonitorIsRecursiveMutex
<1> QED
  BY Invariance, <1>1, PTL

\* At most one thread is between locking and unlocking.
THEOREM MutualExclusion ==
  Spec => [](~rewaited => \A t, u \in Threads :
                pc[t] = "run" /\ guards[t] > 0 /\ pc[u] = "run" /\ guards[u] > 0
                    => t = u)
<1>1. IInv => (~rewaited => \A t, u \in Threads :
                pc[t] = "run" /\ guards[t] > 0 /\ pc[u] = "run" /\ guards[u] > 0
                    => t = u)
  BY DEF IInv, RecursiveLock, GuardsMeanOwnership
<1> QED
  BY Invariance, <1>1, PTL

\* No collection ever waits for a thread that waits with a handshake.
THEOREM WaitersAreParkedThm == Spec => []WaitersAreParked
<1>1. IInv => WaitersAreParked
  BY DEF IInv
<1> QED
  BY Invariance, <1>1, PTL

\* A thread found in native code stays there until released, whatever it waits
\* for.
THEOREM DetainedStayOutThm == Spec => DetainedStayOut
<1> DEFINE StaysOut == \A t \in detained : exec_status[t] \in InNativeCode =>
                          exec_status'[t] \in InNativeCode
<1>1. IInv /\ [Next]_vars => [StaysOut]_vars
  <2> SUFFICES ASSUME IInv, Next, NEW w \in detained,
                      exec_status[w] \in InNativeCode
               PROVE  exec_status'[w] \in InNativeCode
    BY DEF vars
  <2>0. w \in Threads /\ exec_status[w] = "BlockedInNative"
    BY DEF IInv, TypeOK, DetainedIsMarked, InNativeCode
  <2> USE <2>0 DEF IInv, TypeOK, InNativeCode
  <2>1. ASSUME NEW t \in Threads, LockStep(t) PROVE exec_status'[w] \in InNativeCode
    BY <2>1 DEF LockStep, LockNoHandshake, LockAgain, Acquire, DropGuard, systemVars
  <2>2. ASSUME NEW t \in Threads, WaitStep(t) PROVE exec_status'[w] \in InNativeCode
    BY <2>2 DEF WaitStep, WaitNoHandshake, WaitForNoHandshake, TimeOut, Unlock,
       Reacquire, Notify, NotifyAll, systemVars
  <2>3. ASSUME NEW t \in Threads, HandshakeStep(t)
        PROVE  exec_status'[w] \in InNativeCode
    BY <2>3 DEF HandshakeStep, LockWithHandshake, Handshake, HandshakeAcquire,
       LeaveWithMutex, GiveMutexBack, LeaveNative, WaitWithHandshake,
       WokenInNative, ReturnFromWait, EnterNative, systemVars
  <2>4. ASSUME NEW t \in Threads, SystemStep(t)
        PROVE  exec_status'[w] \in InNativeCode
    BY <2>4 DEF SystemStep, Detain, ReleaseThread, Yieldpoint
  <2> QED
    BY <2>1, <2>2, <2>3, <2>4 DEF Next
<1> QED
  BY Invariance, <1>1, PTL DEF Spec, DetainedStayOut

-----------------------------------------------------------------------------
(* The abstract lock                                                       *)

\* A thread that runs and holds the monitor, or that the mutex is free for,
\* meets no other that is between locking and unlocking.
LEMMA OwnerExcludes ==
    ASSUME IInv, ~rewaited, NEW t \in Threads, mutex \in {t, Nobody}
    PROVE  Abstract!FreeFor(t)
<1>1. ASSUME NEW u \in Threads \ {t}, guards[u] # 0, u \notin GaveUp PROVE FALSE
  <2>1. saved[u] = NoCount /\ guards[u] > 0
    BY <1>1 DEF GaveUp, IInv, TypeOK
  <2>2. pc[u] = "run"
    BY <2>1 DEF IInv, RecursiveLock, SavedIsGuards
  <2>3. mutex = u
    BY <2>1, <2>2 DEF IInv, RecursiveLock, GuardsMeanOwnership
  <2> QED BY <2>3, MonitorConstants
<1> QED BY <1>1 DEF Abstract!FreeFor

\* A thread that has a guard and runs is inside.
LEMMA RunnerIsInside ==
    ASSUME IInv, NEW t \in Threads, pc[t] = "run", guards[t] > 0
    PROVE  Abstract!Inside(t)
<1>1. saved[t] = NoCount
  BY DEF IInv, CountIsSaved
<1> QED BY <1>1 DEF Abstract!Inside, GaveUp

\* Locking, by whatever operation: one guard more.
LEMMA LockIsAbstract ==
    ASSUME IInv, ~rewaited, NEW t \in Threads, mutex \in {t, Nobody},
           saved[t] = NoCount, guards' = [guards EXCEPT ![t] = @ + 1],
           UNCHANGED <<saved, sleepers>>
    PROVE  Abstract!Lock(t)
<1>1. t \notin GaveUp /\ GaveUp' = GaveUp
  BY DEF GaveUp
<1> QED BY <1>1, OwnerExcludes DEF Abstract!Lock

\* Giving the monitor up with all its recursion.
LEMMA GiveUpIsAbstract ==
    ASSUME IInv, NEW t \in Threads, pc[t] = "run", ReleaseCompletely(t),
           sleepers' \in {sleepers, sleepers \cup {t}}
    PROVE  Abstract!GiveUp(t)
<1>1. saved \in [Threads -> Counts \cup {NoCount}] /\ rec_count # NoCount
  BY CountArithmetic DEF IInv, TypeOK, Counts, NoCount
<1>2. GaveUp' = GaveUp \cup {t}
  BY <1>1 DEF ReleaseCompletely, GaveUp
<1>3. guards[t] > 0 /\ guards' = guards
  BY DEF ReleaseCompletely
<1> QED BY <1>2, <1>3, RunnerIsInside DEF Abstract!GiveUp

\* Coming back with the recursion kept.
LEMMA ComeBackIsAbstract ==
    ASSUME IInv, ~rewaited, NEW t \in Threads, mutex \in {t, Nobody},
           saved[t] # NoCount, t \notin sleepers,
           saved' = [saved EXCEPT ![t] = NoCount], UNCHANGED <<guards, sleepers>>
    PROVE  Abstract!ComeBack(t)
<1>1. saved \in [Threads -> Counts \cup {NoCount}]
  BY DEF IInv, TypeOK
<1>2. t \in GaveUp /\ GaveUp' = GaveUp \ {t}
  BY <1>1 DEF GaveUp
<1> QED BY <1>2, OwnerExcludes DEF Abstract!ComeBack

\* Everything else is invisible to a user of the lock.
LEMMA Invisible ==
    ASSUME UNCHANGED <<guards, saved, sleepers>>
    PROVE  UNCHANGED Abstract!rvars
BY DEF Abstract!rvars, GaveUp

LEMMA LockStepIsAbstract ==
    ASSUME IInv, ~rewaited, NEW t \in Threads, LockStep(t)
    PROVE  Abstract!RNext \/ UNCHANGED Abstract!rvars
<1>1. CASE LockNoHandshake(t)
  BY <1>1, Invisible DEF LockNoHandshake, lockVars
<1>2. CASE LockAgain(t)
  <2>1. mutex = t
    BY <1>2 DEF LockAgain, IInv, RecursiveLock, HolderOwns
  <2>2. saved[t] = NoCount
    BY <1>2 DEF LockAgain, IInv, CountIsSaved
  <2>3. Abstract!Lock(t)
    BY <1>2, <2>1, <2>2, LockIsAbstract DEF LockAgain
  <2> QED BY <2>3 DEF Abstract!RNext
<1>3. CASE Acquire(t)
  <2>1. pc[t] = "lock" /\ mutex = Nobody
    BY <1>3 DEF Acquire, Goto
  <2>2. saved[t] = NoCount
    BY <2>1 DEF IInv, CountIsSaved
  <2>3. Abstract!Lock(t)
    BY <1>3, <2>1, <2>2, LockIsAbstract DEF Acquire, BecomeHolder
  <2> QED BY <2>3 DEF Abstract!RNext
<1>4. CASE DropGuard(t)
  <2>1. /\ pc[t] = "run" /\ guards[t] > 0 /\ guards' = [guards EXCEPT ![t] = @ - 1]
        /\ UNCHANGED <<saved, sleepers>>
    BY <1>4 DEF DropGuard
  <2>2. GaveUp' = GaveUp
    BY <2>1 DEF GaveUp
  <2>3. Abstract!Unlock(t)
    BY <2>1, <2>2, RunnerIsInside DEF Abstract!Unlock
  <2> QED BY <2>3 DEF Abstract!RNext
<1> QED BY <1>1, <1>2, <1>3, <1>4 DEF LockStep

LEMMA WaitStepIsAbstract ==
    ASSUME IInv, ~rewaited, NEW t \in Threads, WaitStep(t)
    PROVE  Abstract!RNext \/ UNCHANGED Abstract!rvars
<1>1. CASE WaitNoHandshake(t) \/ WaitForNoHandshake(t) \/ Unlock(t)
  <2>1. /\ pc[t] = "run" /\ ReleaseCompletely(t)
        /\ sleepers' \in {sleepers, sleepers \cup {t}}
    BY <1>1 DEF WaitNoHandshake, WaitForNoHandshake, Unlock, Goto
  <2>2. Abstract!GiveUp(t)
    BY <2>1, GiveUpIsAbstract
  <2> QED BY <2>2 DEF Abstract!RNext
<1>2. CASE Reacquire(t)
  <2>1. saved[t] # NoCount
    BY <1>2 DEF Reacquire, IInv, CountIsSaved, Waiting
  <2>2. Abstract!ComeBack(t)
    BY <1>2, <2>1, ComeBackIsAbstract DEF Reacquire
  <2> QED BY <2>2 DEF Abstract!RNext
<1>3. CASE TimeOut(t) \/ NotifyAll(t) \/ \E u \in Threads : Notify(t, u)
  <2>1. PICK S \in SUBSET Threads :
          sleepers' = sleepers \ S /\ UNCHANGED <<guards, saved>>
    <3>1. sleepers \subseteq Threads
      BY DEF IInv, TypeOK
    <3>2. CASE TimeOut(t)
      BY <3>2 DEF TimeOut, lockVars
    <3>3. CASE NotifyAll(t)
      BY <3>1, <3>3 DEF NotifyAll, lockVars
    <3>4. ASSUME NEW u \in Threads, Notify(t, u)
          PROVE  sleepers' = sleepers \ {u} /\ UNCHANGED <<guards, saved>>
      BY <3>4 DEF Notify, lockVars
    <3> QED BY <1>3, <3>2, <3>3, <3>4
  <2>2. GaveUp' = GaveUp
    BY <2>1 DEF GaveUp
  <2>3. Abstract!Wake(S)
    BY <2>1, <2>2 DEF Abstract!Wake
  <2> QED BY <2>3 DEF Abstract!RNext
<1> QED BY <1>1, <1>2, <1>3 DEF WaitStep

LEMMA HandshakeStepIsAbstract ==
    ASSUME IInv, ~rewaited, NEW t \in Threads, HandshakeStep(t)
    PROVE  Abstract!RNext \/ UNCHANGED Abstract!rvars
<1>1. CASE \/ LockWithHandshake(t) \/ Handshake(t) \/ HandshakeAcquire(t)
           \/ GiveMutexBack(t) \/ LeaveNative(t) \/ WokenInNative(t)
  <2>1. UNCHANGED <<guards, saved, sleepers>>
    BY <1>1 DEF LockWithHandshake, Handshake, HandshakeAcquire, GiveMutexBack,
       LeaveNative, WokenInNative, lockVars
  <2> QED BY <2>1, Invisible
<1>2. CASE LeaveWithMutex(t)
  <2>1. pc[t] = "hgot" /\ saved[t] = NoCount
    BY <1>2 DEF LeaveWithMutex, Goto
  <2>2. mutex = t
    BY <2>1 DEF IInv, RecursiveLock, GotIsOwned
  <2>3. Abstract!Lock(t)
    BY <1>2, <2>1, <2>2, LockIsAbstract DEF LeaveWithMutex, BecomeHolder
  <2> QED BY <2>3 DEF Abstract!RNext
<1>3. CASE WaitWithHandshake(t)
  <2>1. pc[t] = "run" /\ ReleaseCompletely(t) /\ sleepers' = sleepers \cup {t}
    BY <1>3 DEF WaitWithHandshake, Goto
  <2>2. Abstract!GiveUp(t)
    BY <2>1, GiveUpIsAbstract
  <2> QED BY <2>2 DEF Abstract!RNext
<1>4. CASE ReturnFromWait(t)
  <2>1. pc[t] = "hgot" /\ saved[t] # NoCount
    BY <1>4 DEF ReturnFromWait, Goto
  <2>2. mutex = t
    BY <2>1 DEF IInv, RecursiveLock, GotIsOwned
  <2>3. t \notin sleepers
    BY <2>1 DEF IInv, SleepersWait
  <2>4. Abstract!ComeBack(t)
    BY <1>4, <2>1, <2>2, <2>3, ComeBackIsAbstract DEF ReturnFromWait
  <2> QED BY <2>4 DEF Abstract!RNext
<1> QED BY <1>1, <1>2, <1>3, <1>4 DEF HandshakeStep

\* Until the first wait_with_handshake has returned, a user of Monitor sees a
\* reentrant mutex with a condition variable: every operation, with or without
\* a handshake and whatever collections do meanwhile, is one step of
\* ReentrantLock or none.
THEOREM Refinement == Spec => IsReentrantLock
<1>1. Init => Abstract!RInit
  BY DEF Init, Abstract!RInit, GaveUp
<1>2. IInv /\ [Next]_vars => [rewaited \/ Abstract!RNext]_(Abstract!rvars)
  <2> SUFFICES ASSUME IInv, [Next]_vars, ~rewaited
               PROVE  Abstract!RNext \/ UNCHANGED Abstract!rvars
    OBVIOUS
  <2>1. ASSUME NEW t \in Threads, LockStep(t) \/ WaitStep(t) \/ HandshakeStep(t)
        PROVE  Abstract!RNext \/ UNCHANGED Abstract!rvars
    BY <2>1, LockStepIsAbstract, WaitStepIsAbstract, HandshakeStepIsAbstract
  <2>2. ASSUME NEW t \in Threads, SystemStep(t) PROVE UNCHANGED Abstract!rvars
    BY <2>2, Invisible DEF SystemStep, Detain, ReleaseThread, Yieldpoint, lockVars
  <2>3. ASSUME UNCHANGED vars PROVE UNCHANGED Abstract!rvars
    BY <2>3, Invisible DEF vars, lockVars
  <2> QED
    BY <2>1, <2>2, <2>3 DEF Next
<1> QED
  BY Invariance, <1>1, <1>2, PTL DEF Spec, IsReentrantLock
=============================================================================
