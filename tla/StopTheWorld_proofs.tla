------------------------ MODULE StopTheWorld_proofs ------------------------
(***************************************************************************)
(* Proofs about StopTheWorld, for every set of mutators and every depth of *)
(* nesting.  The inductive invariant IInv is proved one conjunct at a      *)
(* time, and for each conjunct one group of actions at a time; the safety  *)
(* properties, the action property and the refinement of WorldControl      *)
(* follow from it.                                                         *)
(***************************************************************************)
EXTENDS StopTheWorld, TLAPS

\* Before anything has happened every conjunct of IInv holds: the initial
\* threads run, are in the table, and nothing has been asked of them.
LEMMA InitIInv == Init => IInv
<1> SUFFICES ASSUME Init PROVE IInv
  OBVIOUS
<1> USE ConstantsOK DEF Init, Managed, Parked, Locations, GcLocations,
        InNativeCode, ThreadState
<1>1. TypeOK
  <2>1. 1 \in (1 - MaxNest)..2
    OBVIOUS
  <2>2. yieldpoints_enabled_count \in [Mutators -> {0} \cup (1 - MaxNest)..2]
    BY <2>1
  <2>3. /\ pc \in [Mutators -> Locations]
        /\ exec_status \in [Mutators -> ThreadState]
    OBVIOUS
  <2> QED
    BY <2>2, <2>3 DEF TypeOK
<1>2. StatusAgrees
  BY DEF StatusAgrees
<1>3. /\ BlockedIsParked
      /\ PassCovers
      /\ RequestIsCurrent
      /\ RequestReachesThread
      /\ SleepersHaveReason
      /\ CollectionAhead
  BY DEF BlockedIsParked, PassCovers, RequestIsCurrent, RequestReachesThread,
         SleepersHaveReason, CollectionAhead
<1> QED
  BY <1>1, <1>2, <1>3 DEF IInv

\* Every step keeps the types: no handler stores a value outside its field's domain.
LEMMA TypeOKStep == IInv /\ [Next]_vars => TypeOK'
<1> SUFFICES ASSUME IInv, [Next]_vars PROVE TypeOK'
  OBVIOUS
<1> USE ConstantsOK DEF IInv, TypeOK, Managed, Parked, Locations, GcLocations,
        InNativeCode, ThreadState, mutatorFlags, blockFlags, collector
<1>1. ASSUME NEW t \in Mutators, LifeStep(t) PROVE TypeOK'
  <2>1. ASSUME NEW p \in Mutators, Start(p, t) PROVE TypeOK'
    BY <2>1 DEF Start, Goto
  <2>2. CASE EnterAddThread(t)
    BY <2>2 DEF EnterAddThread, Goto
  <2>3. CASE AddThread(t)
    BY <2>3 DEF AddThread, Goto
  <2>4. CASE Terminate(t)
    BY <2>4 DEF Terminate, Goto
  <2>5. CASE AddAboutToTerminate(t)
    BY <2>5 DEF AddAboutToTerminate, Goto
  <2>6. CASE AddAboutToTerminateCurrent(t)
    BY <2>6 DEF AddAboutToTerminateCurrent, Goto
  <2> QED
    BY <1>1, <2>1, <2>2, <2>3, <2>4, <2>5, <2>6 DEF LifeStep
<1>2. ASSUME NEW t \in Mutators, NativeStep(t) PROVE TypeOK'
  <2>1. CASE EnterNative(t)
    BY <2>1 DEF EnterNative, Goto
  <2>2. CASE EnterNativeBlocked(t)
    BY <2>2 DEF EnterNativeBlocked, Goto
  <2>3. CASE FinishNative(t)
    BY <2>3 DEF FinishNative, Goto
  <2>4. CASE AttemptLeaveNativeNoBlock(t)
    BY <2>4 DEF AttemptLeaveNativeNoBlock, Goto
  <2>5. CASE LeaveNativeBlocked(t)
    BY <2>5 DEF LeaveNativeBlocked, CheckBlock
  <2> QED
    BY <1>2, <2>1, <2>2, <2>3, <2>4, <2>5 DEF NativeStep, LeaveNative
<1>3. ASSUME NEW t \in Mutators, YieldpointStep(t) PROVE TypeOK'
  <2>1. CASE DisableYieldpoints(t)
    BY <2>1 DEF DisableYieldpoints, Goto
  <2>2. CASE EnableYieldpoints(t)
    <3>1. yieldpoints_enabled_count' \in [Mutators -> {0} \cup (1 - MaxNest)..2]
      BY <2>2 DEF EnableYieldpoints, MayEnable
    <3>2. /\ take_yieldpoint' \in [Mutators -> BOOLEAN]
          /\ yieldpoint_request_pending' \in [Mutators -> BOOLEAN]
      BY <2>2, Zenon DEF EnableYieldpoints, MayEnable
    <3> QED
      BY <2>2, <3>1, <3>2 DEF EnableYieldpoints, MayEnable
  <2>3. CASE Yieldpoint(t)
    BY <2>3 DEF Yieldpoint, Goto
  <2>4. CASE DeferYieldpoint(t)
    BY <2>4 DEF DeferYieldpoint, Goto
  <2>5. CASE ClearTakeYieldpoint(t)
    BY <2>5 DEF ClearTakeYieldpoint, Goto
  <2> QED
    BY <1>3, <2>1, <2>2, <2>3, <2>4, <2>5 DEF YieldpointStep
<1>4. ASSUME NEW t \in Mutators, BlockStep(t) PROVE TypeOK'
  <2>1. CASE TakeYieldpoint(t)
    <3>1. CASE take_yieldpoint[t]
      <4>1. take_yieldpoint' \in [Mutators -> BOOLEAN]
        BY <2>1, <3>1, Zenon DEF TakeYieldpoint
      <4>2. CheckBlock(t, should_block_for_gc[t])
        BY <2>1, <3>1, Zenon DEF TakeYieldpoint
      <4> QED
        BY <2>1, <4>1, <4>2 DEF TakeYieldpoint, CheckBlock
    <3>2. CASE ~take_yieldpoint[t]
      BY <2>1, <3>2 DEF TakeYieldpoint
    <3> QED
      BY <3>1, <3>2
  <2>2. CASE Wake(t)
    BY <2>2 DEF Wake, CheckBlock
  <2>3. CASE RequestGc(t)
    BY <2>3 DEF RequestGc, Goto
  <2>4. CASE BlockForGc(t)
    BY <2>4 DEF BlockForGc, CheckBlock
  <2> QED
    BY <1>4, <2>1, <2>2, <2>3, <2>4 DEF BlockStep
<1>5. ASSUME PassStep PROVE TypeOK'
  <2>1. CASE GcStart
    BY <2>1 DEF GcStart
  <2>2. CASE GcScan
    BY <2>2 DEF GcScan
  <2>3. CASE GcFiltered \/ GcRescan
    BY <2>3 DEF GcFiltered, GcRescan
  <2>4. CASE GcSnapshot
    BY <2>4 DEF GcSnapshot
  <2> QED
    BY <1>5, <2>1, <2>2, <2>3, <2>4 DEF PassStep
<1>6. ASSUME NEW t \in Mutators, FilterStep(t) PROVE TypeOK'
  <2>1. CASE GcFilterBlocked(t)
    BY <2>1 DEF GcFilterBlocked
  <2>2. CASE GcFilterTerminating(t)
    BY <2>2 DEF GcFilterTerminating, RequestTerminating
  <2>3. CASE GcFilterRunning(t)
    BY <2>3 DEF GcFilterRunning, RequestBlock, BlockedExecStatus
  <2> QED
    BY <1>6, <2>1, <2>2, <2>3 DEF FilterStep
<1>7. ASSUME NEW t \in Mutators, HandshakeStep(t) PROVE TypeOK'
  <2>1. CASE GcBlockTerminating(t)
    BY <2>1 DEF GcBlockTerminating, RequestTerminating
  <2>2. CASE GcBlock(t)
    BY <2>2 DEF GcBlock, RequestBlock, BlockedExecStatus
  <2>3. CASE GcWake(t)
    BY <2>3 DEF GcWake
  <2> QED
    BY <1>7, <2>1, <2>2, <2>3 DEF HandshakeStep
<1>8. ASSUME NEW t \in Mutators, Unblock(t) PROVE TypeOK'
  BY <1>8 DEF Unblock
<1>9. ASSUME ResumeStep PROVE TypeOK'
  BY <1>9 DEF ResumeStep, GcResume, GcResumed
<1>10. ASSUME UNCHANGED vars PROVE TypeOK'
  BY <1>10 DEF vars
<1> QED
  BY <1>1, <1>2, <1>3, <1>4, <1>5, <1>6, <1>7, <1>8, <1>9, <1>10 DEF Next, MutatorNext, CollectorNext

\* exec_status, the table and is_about_to_terminate go on agreeing with what
\* the thread does, because only the owner leaves the states it is put in.
LEMMA StatusAgreesStep == IInv /\ [Next]_vars => StatusAgrees'
<1> SUFFICES ASSUME IInv, [Next]_vars PROVE StatusAgrees'
  OBVIOUS
<1> USE ConstantsOK DEF IInv, TypeOK, StatusAgrees, Managed, Parked, Locations, GcLocations,
        InNativeCode, ThreadState, mutatorFlags, blockFlags, collector
<1>1. ASSUME NEW t \in Mutators, LifeStep(t) PROVE StatusAgrees'
  BY <1>1 DEF LifeStep, Start, EnterAddThread, AddThread, Terminate, AddAboutToTerminate,
         AddAboutToTerminateCurrent, Goto
<1>2. ASSUME NEW t \in Mutators, NativeStep(t) PROVE StatusAgrees'
  BY <1>2 DEF NativeStep, EnterNative, EnterNativeBlocked, FinishNative, LeaveNative,
         AttemptLeaveNativeNoBlock, LeaveNativeBlocked, CheckBlock, Goto
<1>3. ASSUME NEW t \in Mutators, YieldpointStep(t) PROVE StatusAgrees'
  BY <1>3 DEF YieldpointStep, DisableYieldpoints, EnableYieldpoints, MayEnable, Yieldpoint,
         DeferYieldpoint, ClearTakeYieldpoint, Goto
<1>4. ASSUME NEW t \in Mutators, BlockStep(t) PROVE StatusAgrees'
  BY <1>4 DEF BlockStep, TakeYieldpoint, Wake, RequestGc, BlockForGc, CheckBlock, Goto
<1>5. ASSUME PassStep PROVE StatusAgrees'
  BY <1>5 DEF PassStep, GcStart, GcScan, GcFiltered, GcRescan, GcSnapshot
<1>6. ASSUME NEW t \in Mutators, FilterStep(t) PROVE StatusAgrees'
  BY <1>6 DEF FilterStep, GcFilterBlocked, GcFilterTerminating, GcFilterRunning,
         RequestTerminating, RequestBlock, BlockedExecStatus
<1>7. ASSUME NEW t \in Mutators, HandshakeStep(t) PROVE StatusAgrees'
  BY <1>7 DEF HandshakeStep, GcBlockTerminating, GcBlock, GcWake, MustWaitFor,
         RequestTerminating, RequestBlock, BlockedExecStatus
<1>8. ASSUME NEW t \in Mutators, Unblock(t) PROVE StatusAgrees'
  BY <1>8 DEF Unblock
<1>9. ASSUME ResumeStep PROVE StatusAgrees'
  BY <1>9 DEF ResumeStep, GcResume, GcResumed
<1>10. ASSUME UNCHANGED vars PROVE StatusAgrees'
  BY <1>10 DEF vars
<1> QED
  BY <1>1, <1>2, <1>3, <1>4, <1>5, <1>6, <1>7, <1>8, <1>9, <1>10 DEF Next, MutatorNext, CollectorNext

\* A thread marked blocked stays outside managed code: the fast path of
\* leave_native fails for it and check_block keeps it asleep.
LEMMA BlockedIsParkedStep == IInv /\ [Next]_vars => BlockedIsParked'
<1> SUFFICES ASSUME IInv, [Next]_vars PROVE BlockedIsParked'
  OBVIOUS
<1> USE ConstantsOK DEF IInv, TypeOK, BlockedIsParked, StatusAgrees, RequestIsCurrent, PassCovers, Managed, Parked, Locations, GcLocations,
        InNativeCode, ThreadState, mutatorFlags, blockFlags, collector
<1>1. ASSUME NEW t \in Mutators, LifeStep(t) PROVE BlockedIsParked'
  BY <1>1 DEF LifeStep, Start, EnterAddThread, AddThread, Terminate, AddAboutToTerminate,
         AddAboutToTerminateCurrent, Goto
<1>2. ASSUME NEW t \in Mutators, NativeStep(t) PROVE BlockedIsParked'
  BY <1>2 DEF NativeStep, EnterNative, EnterNativeBlocked, FinishNative, LeaveNative,
         AttemptLeaveNativeNoBlock, LeaveNativeBlocked, CheckBlock, Goto
<1>3. ASSUME NEW t \in Mutators, YieldpointStep(t) PROVE BlockedIsParked'
  BY <1>3 DEF YieldpointStep, DisableYieldpoints, EnableYieldpoints, MayEnable, Yieldpoint,
         DeferYieldpoint, ClearTakeYieldpoint, Goto
<1>4. ASSUME NEW t \in Mutators, BlockStep(t) PROVE BlockedIsParked'
  BY <1>4 DEF BlockStep, TakeYieldpoint, Wake, RequestGc, BlockForGc, CheckBlock, Goto
<1>5. ASSUME PassStep PROVE BlockedIsParked'
  BY <1>5 DEF PassStep, GcStart, GcScan, GcFiltered, GcRescan, GcSnapshot
<1>6. ASSUME NEW t \in Mutators, FilterStep(t) PROVE BlockedIsParked'
  BY <1>6 DEF FilterStep, GcFilterBlocked, GcFilterTerminating, GcFilterRunning,
         RequestTerminating, RequestBlock, BlockedExecStatus
<1>7. ASSUME NEW t \in Mutators, HandshakeStep(t) PROVE BlockedIsParked'
  BY <1>7 DEF HandshakeStep, GcBlockTerminating, GcBlock, GcWake, MustWaitFor,
         RequestTerminating, RequestBlock, BlockedExecStatus
<1>8. ASSUME NEW t \in Mutators, Unblock(t) PROVE BlockedIsParked'
  BY <1>8 DEF Unblock
<1>9. ASSUME ResumeStep PROVE BlockedIsParked'
  BY <1>9 DEF ResumeStep, GcResume, GcResumed
<1>10. ASSUME UNCHANGED vars PROVE BlockedIsParked'
  BY <1>10 DEF vars
<1> QED
  BY <1>1, <1>2, <1>3, <1>4, <1>5, <1>6, <1>7, <1>8, <1>9, <1>10 DEF Next, MutatorNext, CollectorNext

\* block_all_mutators_for_gc drops a thread from its list only when the thread
\* is blocked or about to terminate, and neither is undone before the resume.
LEMMA PassCoversStep == IInv /\ [Next]_vars => PassCovers'
<1> SUFFICES ASSUME IInv, [Next]_vars PROVE PassCovers'
  OBVIOUS
<1> USE ConstantsOK DEF IInv, TypeOK, PassCovers, StatusAgrees, Managed, Parked, Locations, GcLocations,
        InNativeCode, ThreadState, mutatorFlags, blockFlags, collector
<1>1. ASSUME NEW t \in Mutators, LifeStep(t) PROVE PassCovers'
  BY <1>1 DEF LifeStep, Start, EnterAddThread, AddThread, Terminate, AddAboutToTerminate,
         AddAboutToTerminateCurrent, Goto
<1>2. ASSUME NEW t \in Mutators, NativeStep(t) PROVE PassCovers'
  BY <1>2 DEF NativeStep, EnterNative, EnterNativeBlocked, FinishNative, LeaveNative,
         AttemptLeaveNativeNoBlock, LeaveNativeBlocked, CheckBlock, Goto
<1>3. ASSUME NEW t \in Mutators, YieldpointStep(t) PROVE PassCovers'
  BY <1>3 DEF YieldpointStep, DisableYieldpoints, EnableYieldpoints, MayEnable, Yieldpoint,
         DeferYieldpoint, ClearTakeYieldpoint, Goto
<1>4. ASSUME NEW t \in Mutators, BlockStep(t) PROVE PassCovers'
  BY <1>4 DEF BlockStep, TakeYieldpoint, Wake, RequestGc, BlockForGc, CheckBlock, Goto
<1>5. ASSUME PassStep PROVE PassCovers'
  BY <1>5 DEF PassStep, GcStart, GcScan, GcFiltered, GcRescan, GcSnapshot
<1>6. ASSUME NEW t \in Mutators, FilterStep(t) PROVE PassCovers'
  BY <1>6 DEF FilterStep, GcFilterBlocked, GcFilterTerminating, GcFilterRunning,
         RequestTerminating, RequestBlock, BlockedExecStatus
<1>7. ASSUME NEW t \in Mutators, HandshakeStep(t) PROVE PassCovers'
  BY <1>7 DEF HandshakeStep, GcBlockTerminating, GcBlock, GcWake, MustWaitFor,
         RequestTerminating, RequestBlock, BlockedExecStatus
<1>8. ASSUME NEW t \in Mutators, Unblock(t) PROVE PassCovers'
  BY <1>8 DEF Unblock
<1>9. ASSUME ResumeStep PROVE PassCovers'
  BY <1>9 DEF ResumeStep, GcResume, GcResumed
<1>10. ASSUME UNCHANGED vars PROVE PassCovers'
  BY <1>10 DEF vars
<1> QED
  BY <1>1, <1>2, <1>3, <1>4, <1>5, <1>6, <1>7, <1>8, <1>9, <1>10 DEF Next, MutatorNext, CollectorNext

\* block_unchecked leaves its target in a state that shows the request, and
\* unblock_all_mutators_for_gc withdraws what nobody acknowledged.
LEMMA RequestIsCurrentStep == IInv /\ [Next]_vars => RequestIsCurrent'
<1> SUFFICES ASSUME IInv, [Next]_vars PROVE RequestIsCurrent'
  OBVIOUS
<1> USE ConstantsOK DEF IInv, TypeOK, RequestIsCurrent, StatusAgrees, PassCovers, Managed, Parked, Locations, GcLocations,
        InNativeCode, ThreadState, mutatorFlags, blockFlags, collector
<1>1. ASSUME NEW t \in Mutators, LifeStep(t) PROVE RequestIsCurrent'
  BY <1>1 DEF LifeStep, Start, EnterAddThread, AddThread, Terminate, AddAboutToTerminate,
         AddAboutToTerminateCurrent, Goto
<1>2. ASSUME NEW t \in Mutators, NativeStep(t) PROVE RequestIsCurrent'
  BY <1>2 DEF NativeStep, EnterNative, EnterNativeBlocked, FinishNative, LeaveNative,
         AttemptLeaveNativeNoBlock, LeaveNativeBlocked, CheckBlock, Goto
<1>3. ASSUME NEW t \in Mutators, YieldpointStep(t) PROVE RequestIsCurrent'
  BY <1>3 DEF YieldpointStep, DisableYieldpoints, EnableYieldpoints, MayEnable, Yieldpoint,
         DeferYieldpoint, ClearTakeYieldpoint, Goto
<1>4. ASSUME NEW t \in Mutators, BlockStep(t) PROVE RequestIsCurrent'
  BY <1>4 DEF BlockStep, TakeYieldpoint, Wake, RequestGc, BlockForGc, CheckBlock, Goto
<1>5. ASSUME PassStep PROVE RequestIsCurrent'
  BY <1>5 DEF PassStep, GcStart, GcScan, GcFiltered, GcRescan, GcSnapshot
<1>6. ASSUME NEW t \in Mutators, FilterStep(t) PROVE RequestIsCurrent'
  BY <1>6 DEF FilterStep, GcFilterBlocked, GcFilterTerminating, GcFilterRunning,
         RequestTerminating, RequestBlock, BlockedExecStatus
<1>7. ASSUME NEW t \in Mutators, HandshakeStep(t) PROVE RequestIsCurrent'
  BY <1>7 DEF HandshakeStep, GcBlockTerminating, GcBlock, GcWake, MustWaitFor,
         RequestTerminating, RequestBlock, BlockedExecStatus
<1>8. ASSUME NEW t \in Mutators, Unblock(t) PROVE RequestIsCurrent'
  BY <1>8 DEF Unblock
<1>9. ASSUME ResumeStep PROVE RequestIsCurrent'
  BY <1>9 DEF ResumeStep, GcResume, GcResumed
<1>10. ASSUME UNCHANGED vars PROVE RequestIsCurrent'
  BY <1>10 DEF vars
<1> QED
  BY <1>1, <1>2, <1>3, <1>4, <1>5, <1>6, <1>7, <1>8, <1>9, <1>10 DEF Next, MutatorNext, CollectorNext

\* The unlocked stores of yieldpoint and enable_yieldpoints never lose the
\* request that block_unchecked made of a thread in managed code.
LEMMA RequestReachesThreadStep == IInv /\ [Next]_vars => RequestReachesThread'
<1> SUFFICES ASSUME IInv, [Next]_vars PROVE RequestReachesThread'
  OBVIOUS
<1> USE ConstantsOK DEF IInv, TypeOK, RequestReachesThread, RequestIsCurrent, StatusAgrees, PassCovers, Managed, Parked, Locations, GcLocations,
        InNativeCode, ThreadState, mutatorFlags, blockFlags, collector
<1>1. ASSUME NEW t \in Mutators, LifeStep(t) PROVE RequestReachesThread'
  BY <1>1 DEF LifeStep, Start, EnterAddThread, AddThread, Terminate, AddAboutToTerminate,
         AddAboutToTerminateCurrent, Goto
<1>2. ASSUME NEW t \in Mutators, NativeStep(t) PROVE RequestReachesThread'
  BY <1>2 DEF NativeStep, EnterNative, EnterNativeBlocked, FinishNative, LeaveNative,
         AttemptLeaveNativeNoBlock, LeaveNativeBlocked, CheckBlock, Goto
<1>3. ASSUME NEW t \in Mutators, YieldpointStep(t) PROVE RequestReachesThread'
  BY <1>3 DEF YieldpointStep, DisableYieldpoints, EnableYieldpoints, MayEnable, Yieldpoint,
         DeferYieldpoint, ClearTakeYieldpoint, Goto
<1>4. ASSUME NEW t \in Mutators, BlockStep(t) PROVE RequestReachesThread'
  BY <1>4 DEF BlockStep, TakeYieldpoint, Wake, RequestGc, BlockForGc, CheckBlock, Goto
<1>5. ASSUME PassStep PROVE RequestReachesThread'
  BY <1>5 DEF PassStep, GcStart, GcScan, GcFiltered, GcRescan, GcSnapshot
<1>6. ASSUME NEW t \in Mutators, FilterStep(t) PROVE RequestReachesThread'
  BY <1>6 DEF FilterStep, GcFilterBlocked, GcFilterTerminating, GcFilterRunning,
         RequestTerminating, RequestBlock, BlockedExecStatus
<1>7. ASSUME NEW t \in Mutators, HandshakeStep(t) PROVE RequestReachesThread'
  BY <1>7 DEF HandshakeStep, GcBlockTerminating, GcBlock, GcWake, MustWaitFor,
         RequestTerminating, RequestBlock, BlockedExecStatus
<1>8. ASSUME NEW t \in Mutators, Unblock(t) PROVE RequestReachesThread'
  BY <1>8 DEF Unblock
<1>9. ASSUME ResumeStep PROVE RequestReachesThread'
  BY <1>9 DEF ResumeStep, GcResume, GcResumed
<1>10. ASSUME UNCHANGED vars PROVE RequestReachesThread'
  BY <1>10 DEF vars
<1> QED
  BY <1>1, <1>2, <1>3, <1>4, <1>5, <1>6, <1>7, <1>8, <1>9, <1>10 DEF Next, MutatorNext, CollectorNext

\* Whoever changes what a sleeper of a thread's monitor waits for notifies it.
LEMMA SleepersHaveReasonStep == IInv /\ [Next]_vars => SleepersHaveReason'
<1> SUFFICES ASSUME IInv, [Next]_vars PROVE SleepersHaveReason'
  OBVIOUS
<1> USE ConstantsOK DEF IInv, TypeOK, SleepersHaveReason, MustWaitFor, Managed, Parked, Locations, GcLocations,
        InNativeCode, ThreadState, mutatorFlags, blockFlags, collector
<1>1. ASSUME NEW t \in Mutators, LifeStep(t) PROVE SleepersHaveReason'
  BY <1>1 DEF LifeStep, Start, EnterAddThread, AddThread, Terminate, AddAboutToTerminate,
         AddAboutToTerminateCurrent, Goto
<1>2. ASSUME NEW t \in Mutators, NativeStep(t) PROVE SleepersHaveReason'
  BY <1>2 DEF NativeStep, EnterNative, EnterNativeBlocked, FinishNative, LeaveNative,
         AttemptLeaveNativeNoBlock, LeaveNativeBlocked, CheckBlock, Goto
<1>3. ASSUME NEW t \in Mutators, YieldpointStep(t) PROVE SleepersHaveReason'
  BY <1>3 DEF YieldpointStep, DisableYieldpoints, EnableYieldpoints, MayEnable, Yieldpoint,
         DeferYieldpoint, ClearTakeYieldpoint, Goto
<1>4. ASSUME NEW t \in Mutators, BlockStep(t) PROVE SleepersHaveReason'
  <2>1. CASE TakeYieldpoint(t)
    BY <2>1 DEF TakeYieldpoint, CheckBlock
  <2>2. CASE Wake(t)
    BY <2>2 DEF Wake, CheckBlock
  <2>3. CASE RequestGc(t)
    BY <2>3 DEF RequestGc, Goto
  <2>4. CASE BlockForGc(t)
    BY <2>4 DEF BlockForGc, CheckBlock
  <2> QED
    BY <1>4, <2>1, <2>2, <2>3, <2>4 DEF BlockStep
<1>5. ASSUME PassStep PROVE SleepersHaveReason'
  BY <1>5 DEF PassStep, GcStart, GcScan, GcFiltered, GcRescan, GcSnapshot
<1>6. ASSUME NEW t \in Mutators, FilterStep(t) PROVE SleepersHaveReason'
  BY <1>6 DEF FilterStep, GcFilterBlocked, GcFilterTerminating, GcFilterRunning,
         RequestTerminating, RequestBlock, BlockedExecStatus
<1>7. ASSUME NEW t \in Mutators, HandshakeStep(t) PROVE SleepersHaveReason'
  <2>1. CASE GcBlockTerminating(t)
    BY <2>1 DEF GcBlockTerminating, RequestTerminating
  <2>2. CASE GcBlock(t)
    BY <2>2 DEF GcBlock, RequestBlock, BlockedExecStatus
  <2>3. CASE GcWake(t)
    BY <2>3 DEF GcWake
  <2> QED
    BY <1>7, <2>1, <2>2, <2>3 DEF HandshakeStep
<1>8. ASSUME NEW t \in Mutators, Unblock(t) PROVE SleepersHaveReason'
  BY <1>8 DEF Unblock
<1>9. ASSUME ResumeStep PROVE SleepersHaveReason'
  BY <1>9 DEF ResumeStep, GcResume, GcResumed
<1>10. ASSUME UNCHANGED vars PROVE SleepersHaveReason'
  BY <1>10 DEF vars
<1> QED
  BY <1>1, <1>2, <1>3, <1>4, <1>5, <1>6, <1>7, <1>8, <1>9, <1>10 DEF Next, MutatorNext, CollectorNext

\* Who asked for a collection is covered by the one that took the request, or
\* the request is still there.
LEMMA CollectionAheadStep == IInv /\ [Next]_vars => CollectionAhead'
<1> SUFFICES ASSUME IInv, [Next]_vars PROVE CollectionAhead'
  OBVIOUS
<1> USE ConstantsOK DEF IInv, TypeOK, CollectionAhead, StatusAgrees, PassCovers, RequestIsCurrent, BlockedIsParked, Managed, Parked, Locations, GcLocations,
        InNativeCode, ThreadState, mutatorFlags, blockFlags, collector
<1>1. ASSUME NEW t \in Mutators, LifeStep(t) PROVE CollectionAhead'
  BY <1>1 DEF LifeStep, Start, EnterAddThread, AddThread, Terminate, AddAboutToTerminate,
         AddAboutToTerminateCurrent, Goto
<1>2. ASSUME NEW t \in Mutators, NativeStep(t) PROVE CollectionAhead'
  BY <1>2 DEF NativeStep, EnterNative, EnterNativeBlocked, FinishNative, LeaveNative,
         AttemptLeaveNativeNoBlock, LeaveNativeBlocked, CheckBlock, Goto
<1>3. ASSUME NEW t \in Mutators, YieldpointStep(t) PROVE CollectionAhead'
  BY <1>3 DEF YieldpointStep, DisableYieldpoints, EnableYieldpoints, MayEnable, Yieldpoint,
         DeferYieldpoint, ClearTakeYieldpoint, Goto
<1>4. ASSUME NEW t \in Mutators, BlockStep(t) PROVE CollectionAhead'
  BY <1>4 DEF BlockStep, TakeYieldpoint, Wake, RequestGc, BlockForGc, CheckBlock, Goto
<1>5. ASSUME PassStep PROVE CollectionAhead'
  BY <1>5 DEF PassStep, GcStart, GcScan, GcFiltered, GcRescan, GcSnapshot
<1>6. ASSUME NEW t \in Mutators, FilterStep(t) PROVE CollectionAhead'
  BY <1>6 DEF FilterStep, GcFilterBlocked, GcFilterTerminating, GcFilterRunning,
         RequestTerminating, RequestBlock, BlockedExecStatus
<1>7. ASSUME NEW t \in Mutators, HandshakeStep(t) PROVE CollectionAhead'
  BY <1>7 DEF HandshakeStep, GcBlockTerminating, GcBlock, GcWake, MustWaitFor,
         RequestTerminating, RequestBlock, BlockedExecStatus
<1>8. ASSUME NEW t \in Mutators, Unblock(t) PROVE CollectionAhead'
  BY <1>8 DEF Unblock
<1>9. ASSUME ResumeStep PROVE CollectionAhead'
  BY <1>9 DEF ResumeStep, GcResume, GcResumed
<1>10. ASSUME UNCHANGED vars PROVE CollectionAhead'
  BY <1>10 DEF vars
<1> QED
  BY <1>1, <1>2, <1>3, <1>4, <1>5, <1>6, <1>7, <1>8, <1>9, <1>10 DEF Next, MutatorNext, CollectorNext

-----------------------------------------------------------------------------
(* The theorems                                                            *)

\* IInv holds in every reachable state.
THEOREM Invariance == Spec => []IInv
<1>1. IInv /\ [Next]_vars => IInv'
  BY TypeOKStep, StatusAgreesStep, BlockedIsParkedStep, PassCoversStep,
     RequestIsCurrentStep, RequestReachesThreadStep, SleepersHaveReasonStep,
     CollectionAheadStep DEF IInv
<1> QED
  BY InitIInv, <1>1, PTL DEF Spec

\* The variables keep their types.
THEOREM TypeCorrect == Spec => []TypeOK
<1>1. IInv => TypeOK
  BY DEF IInv
<1> QED
  BY Invariance, <1>1, PTL

\* A mutator that block_all_mutators_for_gc handed to the collector does not run
\* managed code while the world is stopped.
THEOREM StoppedAreParkedThm == Spec => []StoppedAreParked
<1>1. IInv => StoppedAreParked
  BY DEF IInv, PassCovers, BlockedIsParked, StoppedAreParked, TypeOK
<1> QED
  BY Invariance, <1>1, PTL

\* Every thread the fixpoint of block_all_mutators_for_gc saw is handed to the
\* collector, or has destroyed its mutator, and not both.
THEOREM NobodyForgottenThm == Spec => []NobodyForgotten
<1>1. IInv => NobodyForgotten
  BY DEF IInv, PassCovers, BlockedIsParked, StatusAgrees, NobodyForgotten,
         Parked, TypeOK
<1> QED
  BY Invariance, <1>1, PTL

\* No block request made of a thread in managed code gets lost between
\* take_yieldpoint and yieldpoint_request_pending.
THEOREM RequestReachesThreadThm == Spec => []RequestReachesThread
<1>1. IInv => RequestReachesThread
  BY DEF IInv
<1> QED
  BY Invariance, <1>1, PTL

\* Nobody sleeps on a thread's monitor after the reason is gone.
THEOREM SleepersHaveReasonThm == Spec => []SleepersHaveReason
<1>1. IInv => SleepersHaveReason
  BY DEF IInv
<1> QED
  BY Invariance, <1>1, PTL

\* Nobody sleeps for a collection that was not asked for.
THEOREM BlockedHasCollectionThm == Spec => []BlockedHasCollection
<1>1. IInv => BlockedHasCollection
  BY DEF IInv, CollectionAhead, BlockedHasCollection, TypeOK
<1> QED
  BY Invariance, <1>1, PTL

\* Only unblock_all_mutators_for_gc gives a blocked thread back to managed code.
THEOREM OnlyResumeReleasesThm == Spec => OnlyResumeReleases
<1> DEFINE Holds == \A t \in Mutators : is_blocked_for_gc[t] =>
                      /\ pc'[t] \notin Managed \/ pc[t] \in Managed
                      /\ is_blocked_for_gc'[t] \/ gc_pc = "unblock"
<1>1. IInv /\ [Next]_vars => Holds
  <2> SUFFICES ASSUME IInv, [Next]_vars PROVE Holds
    OBVIOUS
  <2> USE DEF IInv, TypeOK, StatusAgrees, BlockedIsParked, Managed, Parked,
              Locations, InNativeCode, blockFlags, collector
  <2>1. ASSUME NEW t \in Mutators, LifeStep(t) PROVE Holds
    BY <2>1 DEF LifeStep, Start, EnterAddThread, AddThread, Terminate, AddAboutToTerminate,
           AddAboutToTerminateCurrent, Goto
  <2>2. ASSUME NEW t \in Mutators, NativeStep(t) PROVE Holds
    BY <2>2 DEF NativeStep, EnterNative, EnterNativeBlocked, FinishNative, LeaveNative,
           AttemptLeaveNativeNoBlock, LeaveNativeBlocked, CheckBlock, Goto
  <2>3. ASSUME NEW t \in Mutators, YieldpointStep(t) PROVE Holds
    BY <2>3 DEF YieldpointStep, DisableYieldpoints, EnableYieldpoints, MayEnable, Yieldpoint,
           DeferYieldpoint, ClearTakeYieldpoint, Goto
  <2>4. ASSUME NEW t \in Mutators, BlockStep(t) PROVE Holds
    BY <2>4 DEF BlockStep, TakeYieldpoint, Wake, RequestGc, BlockForGc, CheckBlock, Goto
  <2>5. ASSUME PassStep PROVE Holds
    BY <2>5 DEF PassStep, GcStart, GcScan, GcFiltered, GcRescan, GcSnapshot
  <2>6. ASSUME NEW t \in Mutators, FilterStep(t) PROVE Holds
    BY <2>6 DEF FilterStep, GcFilterBlocked, GcFilterTerminating, GcFilterRunning,
           RequestTerminating, RequestBlock, BlockedExecStatus
  <2>7. ASSUME NEW t \in Mutators, HandshakeStep(t) PROVE Holds
    BY <2>7 DEF HandshakeStep, GcBlockTerminating, GcBlock, GcWake, MustWaitFor,
           RequestTerminating, RequestBlock, BlockedExecStatus
  <2>8. ASSUME NEW t \in Mutators, Unblock(t) PROVE Holds
    BY <2>8 DEF Unblock
  <2>9. ASSUME ResumeStep PROVE Holds
    BY <2>9 DEF ResumeStep, GcResume, GcResumed
  <2>10. ASSUME UNCHANGED vars PROVE Holds
    BY <2>10 DEF vars
  <2> QED
    BY <2>1, <2>2, <2>3, <2>4, <2>5, <2>6, <2>7, <2>8, <2>9, <2>10 DEF Next, MutatorNext, CollectorNext
<1>2. IInv /\ [Next]_vars => [Holds]_vars
  BY <1>1
<1> QED
  BY Invariance, <1>2, PTL DEF Spec, OnlyResumeReleases

-----------------------------------------------------------------------------
(* StopTheWorld implements WorldControl                                    *)

Running == {t \in Mutators : pc[t] \in Managed}
Held == {t \in Mutators : is_blocked_for_gc[t]}
Gone == {t \in Mutators : is_about_to_terminate[t]}

\* check_block is what the collector relies on: the thread is held, or it was
\* neither blocked nor asked to block, and enters managed code.
LEMMA CheckBlockHoldsOrEnters ==
    ASSUME TypeOK, NEW t \in Mutators, NEW r \in BOOLEAN, CheckBlock(t, r),
           ~is_about_to_terminate[t],
           UNCHANGED <<is_about_to_terminate, gc_pc, roster, stopped>>
    PROVE  World!Hold(t) \/ World!Enter(t)
<1> USE DEF TypeOK, CheckBlock
<1>1. WorldPhase' = WorldPhase /\ Gone' = Gone
  BY DEF WorldPhase, Gone
<1>2. CASE r \/ is_blocked_for_gc[t]
  <2>1. Held' = Held \cup {t}
    BY <1>2 DEF Held
  <2>2. Running' = Running \ {t}
    BY <1>2 DEF Running, Managed
  <2> QED
    BY <1>1, <2>1, <2>2 DEF World!Hold, Held, Running, Gone
<1>3. CASE ~(r \/ is_blocked_for_gc[t])
  <2>1. Held' = Held
    BY <1>3 DEF Held
  <2>2. Running' = Running \cup {t}
    BY <1>3 DEF Running, Managed
  <2> QED
    BY <1>1, <1>3, <2>1, <2>2 DEF World!Enter, Held, Running, Gone
<1> QED
  BY <1>2, <1>3

\* block_unchecked of another thread holds a thread in native code on the spot
\* and changes nothing the collector relies on for one in managed code.
LEMMA RequestBlockHolds ==
    ASSUME IInv, NEW t \in threads, NEW S, RequestBlock(t, S),
           UNCHANGED <<pc, is_about_to_terminate, roster, stopped>>,
           WorldPhase' = WorldPhase
    PROVE  World!Hold(t) \/ UNCHANGED World!wvars
<1> USE DEF IInv, TypeOK, RequestBlock
<1>1. Gone' = Gone /\ Running' = Running
  BY DEF Gone, Running
<1>2. CASE exec_status[t] \in InNativeCode
  <2>1. Held' = Held \cup {t}
    BY <1>2 DEF Held
  <2>2. Running = Running \ {t}
    BY <1>2 DEF StatusAgrees, Running, Managed, Parked
  <2> QED
    BY <1>1, <2>1, <2>2 DEF World!Hold, Held, Running, Gone
<1>3. CASE exec_status[t] \notin InNativeCode
  <2>1. Held' = Held
    BY <1>3 DEF Held
  <2> QED
    BY <1>1, <2>1 DEF World!wvars, Held, Running, Gone
<1> QED
  BY <1>2, <1>3

\* A step of a mutator is a step of WorldControl: the thread enters or leaves
\* managed code, is held, or dies.
LEMMA MutatorRefines ==
    ASSUME IInv, NEW t \in Mutators, MutatorNext(t)
    PROVE  \/ World!Enter(t) \/ World!Leave(t) \/ World!Hold(t) \/ World!Die(t)
           \/ UNCHANGED World!wvars
<1> USE DEF IInv, TypeOK, collector, blockFlags, mutatorFlags
<1>1. WorldPhase' = WorldPhase /\ UNCHANGED <<gc_pc, roster, stopped>>
  BY DEF WorldPhase, MutatorNext, LifeStep, Start, EnterAddThread, AddThread,
         Terminate, AddAboutToTerminate, AddAboutToTerminateCurrent,
         NativeStep, EnterNative, EnterNativeBlocked, FinishNative,
         LeaveNative, AttemptLeaveNativeNoBlock, LeaveNativeBlocked,
         YieldpointStep, DisableYieldpoints, EnableYieldpoints, MayEnable, Yieldpoint,
         DeferYieldpoint, ClearTakeYieldpoint, BlockStep, TakeYieldpoint, Wake,
         RequestGc, BlockForGc
<1>2. CASE AddAboutToTerminate(t)
  <2>1. Running' = Running \ {t} /\ t \in Running
    BY <1>2 DEF AddAboutToTerminate, Goto, Running, Managed
  <2>2. Gone' = Gone \cup {t} /\ Held' = Held
    BY <1>2 DEF AddAboutToTerminate, Goto, Gone, Held
  <2> QED
    BY <1>1, <2>1, <2>2 DEF World!Die, Running, Gone, Held
<1>3. CASE LifeStep(t) /\ ~AddAboutToTerminate(t)
  <2>1. Running' = Running
    BY <1>3 DEF LifeStep, Start, EnterAddThread, AddThread, Terminate,
         AddAboutToTerminateCurrent, Goto, Running, Managed
  <2>2. Gone' = Gone /\ Held' = Held
    BY <1>3 DEF LifeStep, Start, EnterAddThread, AddThread, Terminate,
         AddAboutToTerminateCurrent, Gone, Held
  <2> QED
    BY <1>1, <2>1, <2>2 DEF World!wvars, Running, Gone, Held
<1>4. CASE EnterNative(t)
  <2>1. Running' = Running \ {t}
    BY <1>4 DEF EnterNative, Goto, Running, Managed
  <2>2. Gone' = Gone /\ Held' = Held
    BY <1>4 DEF EnterNative, Gone, Held
  <2> QED
    BY <1>1, <2>1, <2>2 DEF World!Leave, Running, Gone, Held
<1>5. CASE EnterNativeBlocked(t)
  <2>1. Running' = Running \ {t} /\ Gone' = Gone /\ t \notin Gone
    BY <1>5 DEF EnterNativeBlocked, Goto, Running, Managed, Gone, StatusAgrees
  <2>2. CASE should_block_for_gc[t]
    <3>1. Held' = Held \cup {t}
      BY <1>5, <2>2 DEF EnterNativeBlocked, Held
    <3> QED
      BY <1>1, <2>1, <3>1 DEF World!Hold, Running, Gone, Held
  <2>3. CASE ~should_block_for_gc[t]
    <3>1. Held' = Held
      BY <1>5, <2>3 DEF EnterNativeBlocked, Held
    <3> QED
      BY <1>1, <2>1, <3>1 DEF World!Leave, Running, Gone, Held
  <2> QED
    BY <2>2, <2>3
<1>6. CASE AttemptLeaveNativeNoBlock(t)
  <2>1. Running' = Running \cup {t} /\ Gone' = Gone /\ Held' = Held
    BY <1>6 DEF AttemptLeaveNativeNoBlock, Goto, Running, Managed, Gone, Held
  <2>2. t \notin Held \cup Gone
    BY <1>6 DEF AttemptLeaveNativeNoBlock, Goto, Held, Gone, BlockedIsParked,
                StatusAgrees
  <2> QED
    BY <1>1, <2>1, <2>2 DEF World!Enter, Running, Gone, Held
<1>7. CASE FinishNative(t) \/ YieldpointStep(t) \/ RequestGc(t)
  <2>1. Running' = Running
    BY <1>7 DEF FinishNative, YieldpointStep, RequestGc, DisableYieldpoints,
         EnableYieldpoints, Yieldpoint, DeferYieldpoint, ClearTakeYieldpoint,
         Goto, Running, Managed
  <2>2. Gone' = Gone /\ Held' = Held
    BY <1>7 DEF FinishNative, YieldpointStep, RequestGc, DisableYieldpoints,
         EnableYieldpoints, Yieldpoint, DeferYieldpoint, ClearTakeYieldpoint,
         Gone, Held
  <2> QED
    BY <1>1, <2>1, <2>2 DEF World!wvars, Running, Gone, Held
<1>8. CASE LeaveNativeBlocked(t) \/ Wake(t) \/ BlockForGc(t)
  <2>1. \E r \in BOOLEAN : CheckBlock(t, r)
    BY <1>8 DEF LeaveNativeBlocked, Wake, BlockForGc
  <2>2. ~is_about_to_terminate[t] /\ UNCHANGED is_about_to_terminate
    BY <1>8 DEF LeaveNativeBlocked, Wake, BlockForGc, StatusAgrees
  <2> QED
    BY <1>1, <2>1, <2>2, CheckBlockHoldsOrEnters
<1>9. CASE TakeYieldpoint(t)
  <2>1. take_yieldpoint[t]
    BY <1>9 DEF TakeYieldpoint, RequestIsCurrent
  <2>2. CheckBlock(t, should_block_for_gc[t])
    BY <1>9, <2>1, Zenon DEF TakeYieldpoint
  <2>3. ~is_about_to_terminate[t] /\ UNCHANGED is_about_to_terminate
    BY <1>9 DEF TakeYieldpoint, StatusAgrees
  <2> QED
    BY <1>1, <2>2, <2>3, CheckBlockHoldsOrEnters
<1> QED
  BY <1>2, <1>3, <1>4, <1>5, <1>6, <1>7, <1>8, <1>9
     DEF MutatorNext, LifeStep, NativeStep, LeaveNative, BlockStep

\* A step of the collector is a step of WorldControl; the only one that releases
\* a thread is that of unblock_all_mutators_for_gc.
LEMMA CollectorRefines ==
    ASSUME IInv, CollectorNext
    PROVE  World!WNext \/ UNCHANGED World!wvars
<1> USE DEF IInv, TypeOK, collector, blockFlags, mutatorFlags
<1>1. CASE GcStart
  BY <1>1 DEF GcStart, World!WNext, World!Stop, WorldPhase
<1>2. CASE GcScan
  <2>1. World!Survey(threads)
    BY <1>2 DEF GcScan, World!Survey, WorldPhase, PassCovers
  <2> QED
    BY <2>1 DEF World!WNext
<1>3. CASE GcFiltered \/ GcRescan
  BY <1>3 DEF GcFiltered, GcRescan, World!wvars, WorldPhase
<1>4. CASE GcSnapshot
  <2>1. World!Announce(stopped')
    BY <1>4 DEF GcSnapshot, World!Announce, WorldPhase, PassCovers
  <2>2. stopped' \in SUBSET Mutators
    BY <1>4 DEF GcSnapshot
  <2> QED
    BY <2>1, <2>2 DEF World!WNext
<1>5. ASSUME NEW t \in Mutators, FilterStep(t) \/ HandshakeStep(t)
      PROVE  World!WNext \/ UNCHANGED World!wvars
  <2>1. WorldPhase' = WorldPhase /\ t \in threads
    BY <1>5 DEF FilterStep, GcFilterBlocked, GcFilterTerminating,
         GcFilterRunning, HandshakeStep, GcBlockTerminating, GcBlock, GcWake,
         WorldPhase, PassCovers
  <2>2. CASE GcFilterRunning(t) \/ GcBlock(t)
    <3>1. \E S : RequestBlock(t, S)
      BY <2>2 DEF GcFilterRunning, GcBlock
    <3>2. UNCHANGED <<pc, is_about_to_terminate, roster, stopped>>
      BY <2>2 DEF GcFilterRunning, GcBlock
    <3> QED
      BY <2>1, <3>1, <3>2, RequestBlockHolds DEF World!WNext
  <2>3. CASE GcFilterBlocked(t) \/ GcFilterTerminating(t)
             \/ GcBlockTerminating(t) \/ GcWake(t)
    BY <2>1, <2>3 DEF GcFilterBlocked, GcFilterTerminating, RequestTerminating,
         GcBlockTerminating, GcWake, World!wvars
  <2> QED
    BY <1>5, <2>2, <2>3 DEF FilterStep, HandshakeStep
<1>6. ASSUME NEW t \in Mutators, Unblock(t)
      PROVE  World!WNext
  <2>1. Held' = Held \ {t} /\ Running' = Running /\ Gone' = Gone
    BY <1>6 DEF Unblock, Held, Running, Gone
  <2>2. WorldPhase = "resuming" /\ WorldPhase' = WorldPhase
    BY <1>6 DEF Unblock, WorldPhase
  <2>3. World!Release(t)
    BY <1>6, <2>1, <2>2 DEF Unblock, World!Release, Held, Running, Gone
  <2> QED
    BY <2>3 DEF World!WNext
<1>7. CASE GcResume
  BY <1>7 DEF GcResume, World!WNext, World!Resume, WorldPhase
<1>8. CASE GcResumed
  BY <1>8 DEF GcResumed, World!WNext, World!Resumed, WorldPhase
<1> QED
  BY <1>1, <1>2, <1>3, <1>4, <1>5, <1>6, <1>7, <1>8
     DEF CollectorNext, PassStep, ResumeStep

\* The handshake of threading.rs implements WorldControl: held threads stay out
\* of managed code until the resume, and the world is declared stopped only when
\* each thread the collector knows is held or gone.
THEOREM Refinement == Spec => KeepsPromise
<1>1. Init => World!WInit
  BY DEF Init, World!WInit, WorldPhase, Managed
<1>2. IInv /\ [Next]_vars => [World!WNext]_World!wvars
  <2> SUFFICES ASSUME IInv, [Next]_vars PROVE [World!WNext]_World!wvars
    OBVIOUS
  <2>1. CASE CollectorNext
    BY <2>1, CollectorRefines
  <2>2. CASE \E t \in Mutators : MutatorNext(t)
    BY <2>2, MutatorRefines DEF World!WNext
  <2>3. CASE UNCHANGED vars
    BY <2>3 DEF vars, collector, blockFlags, World!wvars, WorldPhase
  <2> QED
    BY <2>1, <2>2, <2>3 DEF Next
<1> QED
  BY Invariance, <1>1, <1>2, PTL DEF Spec, KeepsPromise, World!WSpec
=============================================================================
