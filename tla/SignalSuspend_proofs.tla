------------------------ MODULE SignalSuspend_proofs ------------------------
(***************************************************************************)
(* Proofs about SignalSuspend, for every number of threads and every width *)
(* of suspend_count.                                                       *)
(***************************************************************************)
EXTENDS SignalSuspend, TLAPS

-----------------------------------------------------------------------------
(* Counting                                                                *)

\* The counter stays in its range, and comes to 1 only from 0.
LEMMA Counting ==
    ASSUME NEW n \in 0..(Width - 1)
    PROVE  /\ Plus(n, 1) \in 0..(Width - 1) /\ Plus(n, 0) = n
           /\ n = 0 => Plus(n, 1) = 1
           /\ n # 0 => Plus(n, 1) # 1
           /\ CountDown(n) \in 0..(Width - 1)
           /\ n = 1 => CountDown(n) = 0
           /\ n # 1 => CountDown(n) # 1
<1>1. Width \in Nat /\ Width > 3 /\ n \in Nat /\ n < Width
  BY SignalConstants
<1>2. ASSUME NEW m \in 0..(Width - 1) PROVE (m + Width) % Width = m
  BY <1>1
<1>3. Plus(n, 0) = n
  BY <1>1, <1>2 DEF Plus
<1>4. Plus(n, 1) = IF n = Width - 1 THEN 0 ELSE n + 1
  <2>1. CASE n = Width - 1
    <3>1. (n + 1 + Width) % Width = 0
      BY <1>1, <2>1
    <3> QED BY <2>1, <3>1 DEF Plus
  <2>2. CASE n # Width - 1
    <3>1. (n + 1) \in 0..(Width - 1)
      BY <1>1, <2>2
    <3> QED BY <1>1, <1>2, <2>2, <3>1 DEF Plus
  <2> QED BY <2>1, <2>2
<1>5. Plus(n, -1) = IF n = 0 THEN Width - 1 ELSE n - 1
  <2>1. CASE n = 0
    <3>1. (n + (-1) + Width) = Width - 1
      BY <1>1, <2>1
    <3>2. (Width - 1) % Width = Width - 1
      BY <1>1
    <3> QED BY <2>1, <3>1, <3>2 DEF Plus
  <2>2. CASE n # 0
    <3>1. (n - 1) \in 0..(Width - 1)
      BY <1>1, <2>2
    <3>2. ((n - 1) + Width) % Width = n - 1
      BY <1>2, <3>1
    <3>3. n + (-1) + Width = (n - 1) + Width
      BY <1>1
    <3> QED BY <2>2, <3>2, <3>3 DEF Plus
  <2> QED BY <2>1, <2>2
<1> QED BY <1>1, <1>3, <1>4, <1>5 DEF CountDown

-----------------------------------------------------------------------------
(* Steps of the threads                                                    *)

\* A step of a thread leaves the collector and the handlers alone, may add a
\* thread to the table and never takes back that a thread ends.
LEMMA ThreadStep ==
    ASSUME IInv, TypeOK', UNCHANGED <<handlerVars, gcVars>>,
           table \subseteq table', late \subseteq late',
           \A t \in Threads :
              /\ BlockPass /\ t \in table' => t \in table \/ t \in late'
              /\ AboutToTerminate(t) => AboutToTerminate(t)'
              /\ pc[t] = "exited" => pc'[t] = "exited"
    PROVE  IInv'
<1> USE DEF handlerVars, gcVars
<1>1. CollectorInStep' /\ PostIsAnswer'
  BY DEF IInv, CollectorInStep, PostIsAnswer, Stopped
<1>2. ASSUME NEW t \in Threads
      PROVE  SignalIsCurrent(t)' /\ CountIsSuspension(t)'
  BY DEF IInv, SignalIsCurrent, CountIsSuspension, Stopped
<1>3. ASSUME NEW t \in Threads PROVE DealtWith(t)'
  <2>1. DealtWith(t)
    BY DEF IInv
  <2>2. Stopped(t)' <=> Stopped(t)
    BY DEF Stopped
  <2>3. Excused(t) => Excused(t)'
    BY DEF Excused
  <2>4. BlockPass' <=> BlockPass
    BY DEF BlockPass
  <2> QED BY <2>1, <2>2, <2>3, <2>4 DEF DealtWith
<1> QED BY <1>1, <1>2, <1>3 DEF IInv

\* What a thread does by itself.
LEMMA ThreadKeepsIInv ==
    ASSUME IInv, NEW t \in Threads,
           \/ WantGc(t) \/ Terminate(t) \/ (\E u \in Threads : Start(t, u))
           \/ Finish(t)
    PROVE  IInv'
<1>1. PICK from \in Steps, to \in Steps :
         /\ Step(t, from, to)
         /\ from # "exited"
         /\ from \in {"terminating", "holds_table"} => to \in {"holds_table", "exited"}
  BY DEF WantGc, Terminate, Start, Finish, AddThread, StoreHandle, RequestBlock,
     AcknowledgeBlock, CheckBlocked, LockTable, Exit, Steps
<1>2. /\ pc[t] = from /\ pc' = [pc EXCEPT ![t] = to]
      /\ UNCHANGED <<handlerVars, gcVars>>
  BY <1>1 DEF Step
<1>3. /\ table' = table \/ table' = table \cup {t}
      /\ late' = late \/ late' = late \cup {t}
      /\ inner' \in Threads \cup {NoThread}
      /\ should_block' \in [Threads -> BOOLEAN] /\ is_blocked' \in [Threads -> BOOLEAN]
      /\ BlockPass => table' = table \/ late' = late \cup {t}
  BY DEF IInv, TypeOK, WantGc, Terminate, Start, Finish, AddThread, StoreHandle,
     RequestBlock, AcknowledgeBlock, CheckBlocked, LockTable, Exit
<1>4. gc_requested' \in BOOLEAN
  <2>1. gc_requested' = TRUE \/ gc_requested' = gc_requested
    BY DEF WantGc, Terminate, Start, Finish, AddThread, StoreHandle, RequestBlock,
       AcknowledgeBlock, CheckBlocked, LockTable, Exit
  <2> QED BY <2>1, Zenon DEF IInv, TypeOK
<1>5. TypeOK'
  BY <1>2, <1>3, <1>4 DEF IInv, TypeOK, handlerVars, gcVars
<1>6. ASSUME NEW u \in Threads
      PROVE  /\ BlockPass /\ u \in table' => u \in table \/ u \in late'
             /\ AboutToTerminate(u) => AboutToTerminate(u)'
             /\ pc[u] = "exited" => pc'[u] = "exited"
  BY <1>1, <1>2, <1>3 DEF AboutToTerminate, IInv, TypeOK
<1> QED BY <1>2, <1>3, <1>5, <1>6, ThreadStep

-----------------------------------------------------------------------------
(* The signal handler                                                      *)

\* A handler that runs or is about to is that of the collector's thread, which
\* it has loaded from TARGET_THREAD.
LEMMA HandlerIsCurrent ==
    ASSUME IInv, NEW t \in Threads
    PROVE  /\ pending[t] => cur = t /\ target = t /\ semaphore = 0
           /\ handler[t] \in {"entered", "woken"} =>
                 cur = t /\ target = t /\ interrupted[t] = t /\ semaphore = 0
           /\ handler[t] # "none" => interrupted[t] = t
  BY DEF IInv, SignalIsCurrent, CollectorInStep

LEMMA DeliverStep ==
    ASSUME IInv, NEW t \in Threads, Deliver(t)
    PROVE  IInv'
<1> USE DEF Deliver, threadVars, gcVars
<1>1. TypeOK'
  BY HandlerIsCurrent DEF IInv, TypeOK, HandlerSteps
<1>2. CollectorInStep' /\ PostIsAnswer'
  BY HandlerIsCurrent DEF IInv, TypeOK, CollectorInStep, PostIsAnswer,
     SignalIsCurrent, CountIsSuspension, Stopped
<1>3. ASSUME NEW u \in Threads PROVE SignalIsCurrent(u)'
  BY HandlerIsCurrent DEF IInv, TypeOK, CollectorInStep, PostIsAnswer,
     SignalIsCurrent, Stopped
<1>4. ASSUME NEW u \in Threads PROVE CountIsSuspension(u)'
  BY HandlerIsCurrent DEF IInv, TypeOK, CollectorInStep, CountIsSuspension,
     SignalIsCurrent, Stopped
<1>5. ASSUME NEW u \in Threads PROVE DealtWith(u)'
  BY HandlerIsCurrent DEF IInv, TypeOK, DealtWith, SignalIsCurrent, Stopped,
     BlockPass, Excused, AboutToTerminate
<1> QED BY <1>1, <1>2, <1>3, <1>4, <1>5 DEF IInv

\* A handler that has just been entered is meant to suspend its thread.
LEMMA SignalMeansSuspend ==
    ASSUME IInv, NEW t \in Threads, handler[t] = "entered"
    PROVE  ~MeansResume(t)
  BY HandlerIsCurrent DEF IInv, SignalIsCurrent, CollectorInStep, MeansResume

LEMMA HandlerAnswersStep ==
    ASSUME IInv, NEW t \in Threads, HandlerBacksOff(t) \/ HandlerPosts(t)
    PROVE  IInv'
<1>0. ~MeansResume(t)
  BY SignalMeansSuspend DEF HandlerBacksOff, HandlerPosts
<1> USE <1>0 DEF HandlerBacksOff, HandlerPosts, Post, threadVars, gcVars
<1>1. TypeOK'
  <2>1. semaphore' = 1 /\ semaphore' \in 0..1
    BY HandlerIsCurrent
  <2>2. /\ handler \in [Threads -> HandlerSteps]
        /\ stack_pointer \in [Threads -> BOOLEAN]
    BY DEF IInv, TypeOK
  <2>3. handler' \in [Threads -> HandlerSteps]
    BY <2>2 DEF HandlerSteps
  <2>4. stack_pointer' \in [Threads -> BOOLEAN]
    BY <2>2, Zenon
  <2>5. /\ UNCHANGED <<pending, interrupted>> /\ UNCHANGED threadVars
        /\ UNCHANGED gcVars
    OBVIOUS
  <2> HIDE DEF HandlerBacksOff, HandlerPosts
  <2> QED BY <2>1, <2>3, <2>4, <2>5 DEF IInv, TypeOK
<1>2. CollectorInStep' /\ PostIsAnswer'
  BY HandlerIsCurrent DEF IInv, TypeOK, CollectorInStep, PostIsAnswer,
     SignalIsCurrent, CountIsSuspension, Stopped
<1>3. ASSUME NEW u \in Threads PROVE SignalIsCurrent(u)'
  BY HandlerIsCurrent DEF IInv, TypeOK, CollectorInStep, PostIsAnswer,
     SignalIsCurrent, Stopped
<1>4. ASSUME NEW u \in Threads PROVE CountIsSuspension(u)'
  BY HandlerIsCurrent DEF IInv, TypeOK, CollectorInStep, CountIsSuspension,
     SignalIsCurrent, Stopped
<1>5. ASSUME NEW u \in Threads PROVE DealtWith(u)'
  BY HandlerIsCurrent DEF IInv, TypeOK, DealtWith, SignalIsCurrent, Stopped,
     BlockPass, Excused, AboutToTerminate
<1> QED BY <1>1, <1>2, <1>3, <1>4, <1>5 DEF IInv

LEMMA HandlerSuspendsStep ==
    ASSUME IInv, NEW t \in Threads, HandlerSuspends(t)
    PROVE  IInv'
<1> USE DEF HandlerSuspends, threadVars, gcVars
<1>1. TypeOK'
  BY HandlerIsCurrent DEF IInv, TypeOK, HandlerSteps
<1>2. CollectorInStep' /\ PostIsAnswer'
  BY HandlerIsCurrent DEF IInv, TypeOK, CollectorInStep, PostIsAnswer,
     SignalIsCurrent, CountIsSuspension, Stopped
<1>3. ASSUME NEW u \in Threads PROVE SignalIsCurrent(u)'
  BY HandlerIsCurrent DEF IInv, TypeOK, CollectorInStep, PostIsAnswer,
     SignalIsCurrent, Stopped
<1>4. ASSUME NEW u \in Threads PROVE CountIsSuspension(u)'
  BY HandlerIsCurrent DEF IInv, TypeOK, CollectorInStep, CountIsSuspension,
     SignalIsCurrent, Stopped
<1>5. ASSUME NEW u \in Threads PROVE DealtWith(u)'
  BY HandlerIsCurrent DEF IInv, TypeOK, DealtWith, SignalIsCurrent, Stopped,
     BlockPass, Excused, AboutToTerminate
<1> QED BY <1>1, <1>2, <1>3, <1>4, <1>5 DEF IInv

LEMMA HandlerNestedStep ==
    ASSUME IInv, NEW t \in Threads, HandlerNested(t)
    PROVE  IInv'
<1> USE DEF HandlerNested, threadVars, gcVars
<1>1. TypeOK'
  BY HandlerIsCurrent DEF IInv, TypeOK, HandlerSteps
<1>2. CollectorInStep' /\ PostIsAnswer'
  BY HandlerIsCurrent DEF IInv, TypeOK, CollectorInStep, PostIsAnswer,
     SignalIsCurrent, CountIsSuspension, Stopped
<1>3. ASSUME NEW u \in Threads PROVE SignalIsCurrent(u)'
  BY HandlerIsCurrent DEF IInv, TypeOK, CollectorInStep, PostIsAnswer,
     SignalIsCurrent, Stopped
<1>4. ASSUME NEW u \in Threads PROVE CountIsSuspension(u)'
  BY HandlerIsCurrent DEF IInv, TypeOK, CollectorInStep, CountIsSuspension,
     SignalIsCurrent, Stopped
<1>5. ASSUME NEW u \in Threads PROVE DealtWith(u)'
  BY HandlerIsCurrent DEF IInv, TypeOK, DealtWith, SignalIsCurrent, Stopped,
     BlockPass, Excused, AboutToTerminate
<1> QED BY <1>1, <1>2, <1>3, <1>4, <1>5 DEF IInv

LEMMA HandlerResumesStep ==
    ASSUME IInv, NEW t \in Threads, HandlerResumes(t)
    PROVE  IInv'
<1> USE DEF HandlerResumes, Post, threadVars, gcVars
<1>1. TypeOK'
  BY HandlerIsCurrent DEF IInv, TypeOK, HandlerSteps
<1>2. CollectorInStep' /\ PostIsAnswer'
  BY HandlerIsCurrent DEF IInv, TypeOK, CollectorInStep, PostIsAnswer,
     SignalIsCurrent, CountIsSuspension, Stopped
<1>3. ASSUME NEW u \in Threads PROVE SignalIsCurrent(u)'
  BY HandlerIsCurrent DEF IInv, TypeOK, CollectorInStep, PostIsAnswer,
     SignalIsCurrent, Stopped
<1>4. ASSUME NEW u \in Threads PROVE CountIsSuspension(u)'
  BY HandlerIsCurrent DEF IInv, TypeOK, CollectorInStep, CountIsSuspension,
     SignalIsCurrent, Stopped
<1>5. ASSUME NEW u \in Threads PROVE DealtWith(u)'
  BY HandlerIsCurrent DEF IInv, TypeOK, DealtWith, SignalIsCurrent, Stopped,
     BlockPass, Excused, AboutToTerminate
<1> QED BY <1>1, <1>2, <1>3, <1>4, <1>5 DEF IInv

-----------------------------------------------------------------------------
(* The collector                                                           *)

LEMMA GcStartStep ==
    ASSUME IInv, GcStart
    PROVE  IInv'
<1> USE DEF GcStart, ThreadsToSuspend, TableFree, threadVars, handlerVars
<1>1. TypeOK'
  BY Counting DEF IInv, TypeOK, GcSteps, CollectorInStep
<1>2. CollectorInStep' /\ PostIsAnswer'
  BY Counting DEF IInv, TypeOK, CollectorInStep, PostIsAnswer, SignalIsCurrent,
     CountIsSuspension, Stopped
<1>3. ASSUME NEW u \in Threads PROVE SignalIsCurrent(u)'
  BY DEF IInv, TypeOK, CollectorInStep, SignalIsCurrent, CountIsSuspension, Stopped
<1>4. ASSUME NEW u \in Threads PROVE CountIsSuspension(u)'
  BY Counting DEF IInv, TypeOK, CollectorInStep, PostIsAnswer, SignalIsCurrent,
     CountIsSuspension, Stopped
<1>5. ASSUME NEW u \in Threads PROVE DealtWith(u)'
  BY Counting DEF IInv, TypeOK, CollectorInStep, PostIsAnswer, CountIsSuspension,
     DealtWith, Stopped, BlockPass, Excused, AboutToTerminate
<1> QED BY <1>1, <1>2, <1>3, <1>4, <1>5 DEF IInv

LEMMA SkipTerminatingStep ==
    ASSUME IInv, NEW t \in Threads, SkipTerminating(t)
    PROVE  IInv'
<1> USE DEF SkipTerminating, threadVars, handlerVars
<1>1. TypeOK'
  BY Counting DEF IInv, TypeOK, GcSteps, CollectorInStep
<1>2. CollectorInStep' /\ PostIsAnswer'
  BY Counting DEF IInv, TypeOK, CollectorInStep, PostIsAnswer, SignalIsCurrent,
     CountIsSuspension, Stopped
<1>3. ASSUME NEW u \in Threads PROVE SignalIsCurrent(u)'
  BY DEF IInv, TypeOK, CollectorInStep, SignalIsCurrent, CountIsSuspension, Stopped
<1>4. ASSUME NEW u \in Threads PROVE CountIsSuspension(u)'
  BY Counting DEF IInv, TypeOK, CollectorInStep, PostIsAnswer, SignalIsCurrent,
     CountIsSuspension, Stopped
<1>5. ASSUME NEW u \in Threads PROVE DealtWith(u)'
  BY Counting DEF IInv, TypeOK, CollectorInStep, PostIsAnswer, CountIsSuspension,
     DealtWith, Stopped, BlockPass, Excused, AboutToTerminate
<1> QED BY <1>1, <1>2, <1>3, <1>4, <1>5 DEF IInv

LEMMA SuspendNextStep ==
    ASSUME IInv, NEW t \in Threads, SuspendNext(t)
    PROVE  IInv'
<1> USE DEF SuspendNext, Suspended, threadVars, handlerVars
<1>1. TypeOK'
  BY Counting DEF IInv, TypeOK, GcSteps, CollectorInStep
<1>2. CollectorInStep' /\ PostIsAnswer'
  BY Counting DEF IInv, TypeOK, CollectorInStep, PostIsAnswer, SignalIsCurrent,
     CountIsSuspension, Stopped
<1>3. ASSUME NEW u \in Threads PROVE SignalIsCurrent(u)'
  BY DEF IInv, TypeOK, CollectorInStep, SignalIsCurrent, CountIsSuspension, Stopped
<1>4. ASSUME NEW u \in Threads PROVE CountIsSuspension(u)'
  BY Counting DEF IInv, TypeOK, CollectorInStep, PostIsAnswer, SignalIsCurrent,
     CountIsSuspension, Stopped
<1>5. ASSUME NEW u \in Threads PROVE DealtWith(u)'
  BY Counting DEF IInv, TypeOK, CollectorInStep, PostIsAnswer, CountIsSuspension,
     DealtWith, Stopped, BlockPass, Excused, AboutToTerminate
<1> QED BY <1>1, <1>2, <1>3, <1>4, <1>5 DEF IInv

LEMMA SendSuspendStep ==
    ASSUME IInv, SendSuspend
    PROVE  IInv'
<1> USE DEF SendSuspend, Kill, CountWhenSent, threadVars, handlerVars
<1>1. TypeOK'
  BY Counting DEF IInv, TypeOK, GcSteps, CollectorInStep
<1>2. CollectorInStep' /\ PostIsAnswer'
  BY Counting DEF IInv, TypeOK, CollectorInStep, PostIsAnswer, SignalIsCurrent,
     CountIsSuspension, Stopped
<1>3. ASSUME NEW u \in Threads PROVE SignalIsCurrent(u)'
  BY DEF IInv, TypeOK, CollectorInStep, PostIsAnswer, SignalIsCurrent,
     CountIsSuspension, Stopped, HandlerSteps
<1>4. ASSUME NEW u \in Threads PROVE CountIsSuspension(u)'
  BY Counting DEF IInv, TypeOK, CollectorInStep, PostIsAnswer, SignalIsCurrent,
     CountIsSuspension, Stopped
<1>5. ASSUME NEW u \in Threads PROVE DealtWith(u)'
  BY Counting DEF IInv, TypeOK, CollectorInStep, PostIsAnswer, CountIsSuspension,
     DealtWith, Stopped, BlockPass, Excused, AboutToTerminate
<1> QED BY <1>1, <1>2, <1>3, <1>4, <1>5 DEF IInv

LEMMA SendToExitedStep ==
    ASSUME IInv, SendToExited
    PROVE  IInv'
<1> USE DEF SendToExited, Suspended, threadVars, handlerVars
<1>1. TypeOK'
  BY Counting DEF IInv, TypeOK, GcSteps, CollectorInStep
<1>2. CollectorInStep' /\ PostIsAnswer'
  BY Counting DEF IInv, TypeOK, CollectorInStep, PostIsAnswer, SignalIsCurrent,
     CountIsSuspension, Stopped
<1>3. ASSUME NEW u \in Threads PROVE SignalIsCurrent(u)'
  BY DEF IInv, TypeOK, CollectorInStep, SignalIsCurrent, CountIsSuspension, Stopped
<1>4. ASSUME NEW u \in Threads PROVE CountIsSuspension(u)'
  BY Counting DEF IInv, TypeOK, CollectorInStep, PostIsAnswer, SignalIsCurrent,
     CountIsSuspension, Stopped
<1>5. ASSUME NEW u \in Threads PROVE DealtWith(u)'
  BY Counting DEF IInv, TypeOK, CollectorInStep, PostIsAnswer, CountIsSuspension,
     DealtWith, Stopped, BlockPass, Excused, AboutToTerminate
<1> QED BY <1>1, <1>2, <1>3, <1>4, <1>5 DEF IInv

LEMMA AnsweredStep ==
    ASSUME IInv, Answered
    PROVE  IInv'
<1> USE DEF Answered, Suspended, TakePost, BackedOff, threadVars, handlerVars
<1>1. TypeOK'
  BY Counting DEF IInv, TypeOK, GcSteps, CollectorInStep
<1>2. CollectorInStep' /\ PostIsAnswer'
  BY Counting DEF IInv, TypeOK, CollectorInStep, PostIsAnswer, SignalIsCurrent,
     CountIsSuspension, Stopped
<1>3. ASSUME NEW u \in Threads PROVE SignalIsCurrent(u)'
  BY DEF IInv, TypeOK, CollectorInStep, SignalIsCurrent, CountIsSuspension, Stopped
<1>4. ASSUME NEW u \in Threads PROVE CountIsSuspension(u)'
  BY Counting DEF IInv, TypeOK, CollectorInStep, PostIsAnswer, SignalIsCurrent,
     CountIsSuspension, Stopped
<1>5. ASSUME NEW u \in Threads PROVE DealtWith(u)'
  BY Counting DEF IInv, TypeOK, CollectorInStep, PostIsAnswer, CountIsSuspension,
     DealtWith, Stopped, BlockPass, Excused, AboutToTerminate
<1> QED BY <1>1, <1>2, <1>3, <1>4, <1>5 DEF IInv

LEMMA AllSuspendedStep ==
    ASSUME IInv, AllSuspended
    PROVE  IInv'
<1> USE DEF AllSuspended, TableFree, threadVars, handlerVars
<1>1. TypeOK'
  BY Counting DEF IInv, TypeOK, GcSteps, CollectorInStep
<1>2. CollectorInStep' /\ PostIsAnswer'
  BY Counting DEF IInv, TypeOK, CollectorInStep, PostIsAnswer, SignalIsCurrent,
     CountIsSuspension, Stopped
<1>3. ASSUME NEW u \in Threads PROVE SignalIsCurrent(u)'
  BY DEF IInv, TypeOK, CollectorInStep, SignalIsCurrent, CountIsSuspension, Stopped
<1>4. ASSUME NEW u \in Threads PROVE CountIsSuspension(u)'
  BY Counting DEF IInv, TypeOK, CollectorInStep, PostIsAnswer, SignalIsCurrent,
     CountIsSuspension, Stopped
<1>5. ASSUME NEW u \in Threads PROVE DealtWith(u)'
  BY Counting DEF IInv, TypeOK, CollectorInStep, PostIsAnswer, CountIsSuspension,
     DealtWith, Stopped, BlockPass, Excused, AboutToTerminate
<1> QED BY <1>1, <1>2, <1>3, <1>4, <1>5 DEF IInv

LEMMA ResumeAllStep ==
    ASSUME IInv, ResumeAll
    PROVE  IInv'
<1> USE DEF ResumeAll, TableFree, threadVars, handlerVars
<1>1. TypeOK'
  BY Counting DEF IInv, TypeOK, GcSteps, CollectorInStep
<1>2. CollectorInStep' /\ PostIsAnswer'
  BY Counting DEF IInv, TypeOK, CollectorInStep, PostIsAnswer, SignalIsCurrent,
     CountIsSuspension, Stopped
<1>3. ASSUME NEW u \in Threads PROVE SignalIsCurrent(u)'
  BY DEF IInv, TypeOK, CollectorInStep, SignalIsCurrent, CountIsSuspension, Stopped
<1>4. ASSUME NEW u \in Threads PROVE CountIsSuspension(u)'
  BY Counting DEF IInv, TypeOK, CollectorInStep, PostIsAnswer, SignalIsCurrent,
     CountIsSuspension, Stopped
<1>5. ASSUME NEW u \in Threads PROVE DealtWith(u)'
  BY Counting DEF IInv, TypeOK, CollectorInStep, PostIsAnswer, CountIsSuspension,
     DealtWith, Stopped, BlockPass, Excused, AboutToTerminate
<1> QED BY <1>1, <1>2, <1>3, <1>4, <1>5 DEF IInv

LEMMA ResumeNextStep ==
    ASSUME IInv, NEW t \in Threads, ResumeNext(t)
    PROVE  IInv'
<1> USE DEF ResumeNext, IsSuspended, Kill, threadVars, handlerVars
<1>1. TypeOK'
  <2>1. CountDown(suspend_count[t]) \in 0..(Width - 1)
    BY Counting DEF IInv, TypeOK
  <2>2. suspend_count' \in [Threads -> 0..(Width - 1)]
    BY <2>1 DEF IInv, TypeOK
  <2> QED BY <2>2 DEF IInv, TypeOK, GcSteps
<1>2. CollectorInStep' /\ PostIsAnswer'
  BY Counting DEF IInv, TypeOK, CollectorInStep, PostIsAnswer, SignalIsCurrent,
     CountIsSuspension, Stopped
<1>3. ASSUME NEW u \in Threads PROVE SignalIsCurrent(u)'
  BY DEF IInv, TypeOK, CollectorInStep, PostIsAnswer, SignalIsCurrent,
     CountIsSuspension, Stopped, HandlerSteps
<1>4. ASSUME NEW u \in Threads PROVE CountIsSuspension(u)'
  BY Counting DEF IInv, TypeOK, CollectorInStep, PostIsAnswer, SignalIsCurrent,
     CountIsSuspension, Stopped
<1>5. ASSUME NEW u \in Threads PROVE DealtWith(u)'
  BY Counting DEF IInv, TypeOK, CollectorInStep, PostIsAnswer, CountIsSuspension,
     DealtWith, Stopped, BlockPass, Excused, AboutToTerminate
<1> QED BY <1>1, <1>2, <1>3, <1>4, <1>5 DEF IInv

LEMMA ResumedStep ==
    ASSUME IInv, Resumed
    PROVE  IInv'
<1> USE DEF Resumed, TakePost, threadVars, handlerVars
<1>1. TypeOK'
  BY Counting DEF IInv, TypeOK, GcSteps, CollectorInStep
<1>2. CollectorInStep' /\ PostIsAnswer'
  BY Counting DEF IInv, TypeOK, CollectorInStep, PostIsAnswer, SignalIsCurrent,
     CountIsSuspension, Stopped
<1>3. ASSUME NEW u \in Threads PROVE SignalIsCurrent(u)'
  BY DEF IInv, TypeOK, CollectorInStep, SignalIsCurrent, CountIsSuspension, Stopped
<1>4. ASSUME NEW u \in Threads PROVE CountIsSuspension(u)'
  BY Counting DEF IInv, TypeOK, CollectorInStep, PostIsAnswer, SignalIsCurrent,
     CountIsSuspension, Stopped
<1>5. ASSUME NEW u \in Threads PROVE DealtWith(u)'
  BY Counting DEF IInv, TypeOK, CollectorInStep, PostIsAnswer, CountIsSuspension,
     DealtWith, Stopped, BlockPass, Excused, AboutToTerminate
<1> QED BY <1>1, <1>2, <1>3, <1>4, <1>5 DEF IInv

LEMMA UnblockStep ==
    ASSUME IInv, Unblock
    PROVE  IInv'
<1> USE DEF Unblock, StillBlocked, threadVars, handlerVars
<1>1. TypeOK'
  <2>1. TypeOK
    BY DEF IInv
  <2>2. UNCHANGED <<table, inner, late, gc_requested, suspend_count, target,
                    cur, todo, handed>>
    BY DEF Unblock
  <2>3. UNCHANGED <<stack_pointer, pending, handler, interrupted, semaphore>>
    BY DEF Unblock, handlerVars
  <2>4. is_blocked' \in [Threads -> BOOLEAN] /\ should_block' \in [Threads -> BOOLEAN]
    <3> USE DEF TypeOK
    <3>1. CASE is_blocked[cur]
      BY <2>1, <3>1, Zenon
    <3>2. CASE ~is_blocked[cur]
      BY <2>1, <3>2, Zenon
    <3> QED BY <3>1, <3>2
  <2>5. pc' \in [Threads -> Steps]
    <3>1. pc \in [Threads -> Steps]
      BY <2>1 DEF TypeOK
    <3>2. \/ pc' = pc
          \/ pc' = [pc EXCEPT ![cur] = "requested"]
          \/ pc' = [pc EXCEPT ![cur] = pc[cur]]
      BY Zenon
    <3>3. "requested" \in Steps
      BY DEF Steps
    <3> HIDE DEF Unblock
    <3> QED BY <3>1, <3>2, <3>3
  <2>6. gpc' \in GcSteps
    BY DEF GcSteps
  <2> HIDE DEF Unblock, threadVars, handlerVars
  <2> QED BY <2>1, <2>2, <2>3, <2>4, <2>5, <2>6 DEF TypeOK
<1>2. CollectorInStep' /\ PostIsAnswer'
  BY Counting DEF IInv, TypeOK, CollectorInStep, PostIsAnswer, SignalIsCurrent,
     CountIsSuspension, Stopped
<1>3. ASSUME NEW u \in Threads PROVE SignalIsCurrent(u)'
  BY DEF IInv, TypeOK, CollectorInStep, SignalIsCurrent, CountIsSuspension, Stopped
<1>4. ASSUME NEW u \in Threads PROVE CountIsSuspension(u)'
  BY Counting DEF IInv, TypeOK, CollectorInStep, PostIsAnswer, SignalIsCurrent,
     CountIsSuspension, Stopped
<1>5. ASSUME NEW u \in Threads PROVE DealtWith(u)'
  BY Counting DEF IInv, TypeOK, CollectorInStep, PostIsAnswer, CountIsSuspension,
     DealtWith, Stopped, BlockPass, Excused, AboutToTerminate
<1> QED BY <1>1, <1>2, <1>3, <1>4, <1>5 DEF IInv

LEMMA AllResumedStep ==
    ASSUME IInv, AllResumed
    PROVE  IInv'
<1> USE DEF AllResumed, threadVars, handlerVars
<1>1. TypeOK'
  BY Counting DEF IInv, TypeOK, GcSteps, CollectorInStep
<1>2. CollectorInStep' /\ PostIsAnswer'
  BY Counting DEF IInv, TypeOK, CollectorInStep, PostIsAnswer, SignalIsCurrent,
     CountIsSuspension, Stopped
<1>3. ASSUME NEW u \in Threads PROVE SignalIsCurrent(u)'
  BY DEF IInv, TypeOK, CollectorInStep, SignalIsCurrent, CountIsSuspension, Stopped
<1>4. ASSUME NEW u \in Threads PROVE CountIsSuspension(u)'
  BY Counting DEF IInv, TypeOK, CollectorInStep, PostIsAnswer, SignalIsCurrent,
     CountIsSuspension, Stopped
<1>5. ASSUME NEW u \in Threads PROVE DealtWith(u)'
  BY Counting DEF IInv, TypeOK, CollectorInStep, PostIsAnswer, CountIsSuspension,
     DealtWith, Stopped, BlockPass, Excused, AboutToTerminate
<1> QED BY <1>1, <1>2, <1>3, <1>4, <1>5 DEF IInv

-----------------------------------------------------------------------------
(* Theorems                                                                *)

LEMMA InitIInv == Init => IInv
<1> SUFFICES ASSUME Init PROVE IInv
  OBVIOUS
<1>1. TypeOK
  <2>1. gc_requested \in BOOLEAN
    BY Zenon DEF Init
  <2>2. suspend_count \in [Threads -> 0..(Width - 1)]
    BY SignalConstants DEF Init
  <2> QED BY <2>1, <2>2, SignalConstants DEF Init, TypeOK, Steps, GcSteps, HandlerSteps
<1>2. CollectorInStep /\ PostIsAnswer
  BY DEF Init, CollectorInStep, PostIsAnswer
<1>3. ASSUME NEW t \in Threads
      PROVE  SignalIsCurrent(t) /\ CountIsSuspension(t) /\ DealtWith(t)
  BY DEF Init, SignalIsCurrent, CountIsSuspension, DealtWith, Stopped, BlockPass
<1> QED BY <1>1, <1>2, <1>3 DEF IInv

LEMMA CollectorKeepsIInv ==
    ASSUME IInv, Collector
    PROVE  IInv'
  BY GcStartStep, SkipTerminatingStep, SuspendNextStep, SendSuspendStep,
     SendToExitedStep, AnsweredStep, AllSuspendedStep, ResumeAllStep,
     ResumeNextStep, ResumedStep, UnblockStep, AllResumedStep DEF Collector

LEMMA HandlerKeepsIInv ==
    ASSUME IInv, NEW t \in Threads, Handler(t) \/ HandlerBacksOff(t)
    PROVE  IInv'
  BY DeliverStep, HandlerAnswersStep, HandlerSuspendsStep,
     HandlerNestedStep, HandlerResumesStep DEF Handler

LEMMA NextIInv == IInv /\ [Next]_vars => IInv'
<1> SUFFICES ASSUME IInv, [Next]_vars PROVE IInv'
  OBVIOUS
<1>1. CASE Next
  BY <1>1, CollectorKeepsIInv, HandlerKeepsIInv, ThreadKeepsIInv DEF Next
<1>2. CASE UNCHANGED vars
  <2>1. TypeOK'
    BY <1>2 DEF vars, threadVars, handlerVars, gcVars, IInv, TypeOK
  <2> QED BY <1>2, <2>1, ThreadStep
      DEF vars, threadVars, AboutToTerminate
<1> QED BY <1>1, <1>2

\* The invariant holds in every state: a signal is pending, or its handler
\* runs, only for the thread the collector waits for, and a thread is stopped
\* exactly while its count is 1.
THEOREM Invariance == Spec => []IInv
  BY InitIInv, NextIInv, PTL DEF Spec

\* The variables have their types; in particular the semaphore never counts
\* more than one post.
THEOREM TypeCorrect == Spec => []TypeOK
<1>1. IInv => TypeOK
  BY DEF IInv
<1> QED BY <1>1, Invariance, PTL

\* The two uses of the signal are never confused.
THEOREM SignalsUnderstoodThm == Spec => []SignalsUnderstood
<1>1. IInv => SignalsUnderstood
  <2> SUFFICES ASSUME IInv, NEW t \in Threads
               PROVE  /\ handler[t] # "nested"
                      /\ handler[t] = "entered" => gpc = "wait" /\ suspend_count[t] = 0
                      /\ handler[t] = "woken" => gpc = "wait_resumed"
                      /\ handler[t] # "none" => interrupted[t] = t
                      /\ handler[t] \in {"entered", "woken"} => target = t /\ cur = t
    BY DEF SignalsUnderstood
  <2> QED BY DEF IInv, SignalIsCurrent, CollectorInStep
<1> QED BY <1>1, Invariance, PTL

\* While the collector works, every thread is stopped, ends, or came late.
THEOREM WorldIsStoppedThm == Spec => []WorldIsStopped
<1>1. IInv => WorldIsStopped
  <2> SUFFICES ASSUME IInv, gpc = "working", NEW t \in table \cup handed
               PROVE  Stopped(t) \/ t \in late \/ Excused(t)
    BY DEF WorldIsStopped, Excused
  <2>1. t \in Threads /\ t \in table
    BY DEF IInv, TypeOK, CollectorInStep
  <2> QED BY <2>1 DEF IInv, DealtWith, BlockPass
<1> QED BY <1>1, Invariance, PTL

-----------------------------------------------------------------------------
(* SignalSuspend implements WorldControl                                   *)

\* A thread that does something by itself, and what that means for the table.
LEMMA OwnSteps ==
    ASSUME IInv, NEW t \in Threads,
           \/ WantGc(t) \/ Terminate(t) \/ (\E u \in Threads : Start(t, u))
           \/ Finish(t)
    PROVE  /\ handler[t] = "none" /\ UNCHANGED <<handlerVars, gcVars>>
           /\ \A u \in Threads \ {t} : pc'[u] = pc[u]
           /\ \/ /\ AddThread(t)
                 /\ pc[t] = "starting" /\ pc'[t] = "established"
                 /\ table' = table \cup {t}
                 /\ late' = IF BlockPass THEN late \cup {t} ELSE late
              \/ /\ UNCHANGED <<table, late>>
                 /\ \/ pc[t] = "new" /\ pc'[t] = "starting"
                    \/ pc[t] = "run" /\ pc'[t] \in {"wants_gc", "terminating"}
                    \/ pc[t] \in {"established", "checked"} /\ pc'[t] = "run"
                    \/ /\ pc[t] \in {"wants_gc", "requested", "checked"}
                       /\ pc'[t] \in {"requested", "checked", "asleep"}
                    \/ /\ pc[t] \in {"terminating", "holds_table"}
                       /\ pc'[t] \in {"holds_table", "exited"}
<1> USE DEF Step, Runs
<1>1. pc \in [Threads -> Steps]
  BY DEF IInv, TypeOK
<1>2. CASE AddThread(t)
  BY <1>1, <1>2 DEF AddThread
<1>3. CASE WantGc(t) \/ Terminate(t) \/ (\E u \in Threads : Start(t, u))
  BY <1>1, <1>3 DEF WantGc, Terminate, Start
<1>4. CASE StoreHandle(t) \/ RequestBlock(t) \/ AcknowledgeBlock(t)
  BY <1>1, <1>4 DEF StoreHandle, RequestBlock, AcknowledgeBlock
<1>5. CASE CheckBlocked(t) \/ LockTable(t) \/ Exit(t)
  BY <1>1, <1>5 DEF CheckBlocked, LockTable, Exit
<1> QED BY <1>2, <1>3, <1>4, <1>5 DEF Finish

\* PassReturns depends on the threads that are stopped, and on the lists.
LEMMA ThreadKeepsPassReturns ==
    ASSUME IInv, PassReturns, NEW t \in Threads,
           \/ WantGc(t) \/ Terminate(t) \/ (\E u \in Threads : Start(t, u))
           \/ Finish(t)
    PROVE  PassReturns'
<1>1. UNCHANGED <<handler, gpc, todo, handed>>
  BY OwnSteps DEF handlerVars, gcVars
<1>2. ASSUME NEW u \in Threads
      PROVE  pc'[u] \in {"new", "starting"} => u \notin table'
  BY OwnSteps DEF PassReturns
<1> QED BY <1>1, <1>2 DEF PassReturns, BlockPass, Stopped

LEMMA HandlerKeepsPassReturns ==
    ASSUME IInv, PassReturns, NEW t \in Threads, Handler(t) \/ HandlerBacksOff(t)
    PROVE  PassReturns'
<1> USE DEF threadVars, gcVars
<1>1. UNCHANGED <<pc, table, gpc, todo, handed>> /\ \A u \in Threads \ {t} : handler'[u] = handler[u]
  BY DEF Handler, HandlerBacksOff, Deliver, HandlerPosts, HandlerSuspends,
     HandlerNested, HandlerResumes, IInv, TypeOK
<1>2. Stopped(t)' => Stopped(t) \/ (gpc = "wait" /\ t \in todo)
  BY HandlerIsCurrent DEF Handler, HandlerBacksOff, Deliver, HandlerPosts, HandlerSuspends,
     HandlerNested, HandlerResumes, IInv, TypeOK, Stopped, SignalIsCurrent, CollectorInStep
<1> QED BY <1>1, <1>2 DEF PassReturns, BlockPass, Stopped

LEMMA CollectorKeepsPassReturns ==
    ASSUME IInv, PassReturns, Collector
    PROVE  PassReturns'
<1> USE DEF threadVars, handlerVars
<1>1. UNCHANGED <<table, handler>>
  BY DEF Collector, GcStart, AllSuspended, ResumeAll, AllResumed, SkipTerminating,
     SuspendNext, ResumeNext, SendSuspend, SendToExited, Answered, Resumed, Unblock
<1>2. \A u \in Threads : pc'[u] = pc[u] \/ (pc[u] = "asleep" /\ pc'[u] = "requested")
  BY DEF IInv, TypeOK, Collector, GcStart, AllSuspended, ResumeAll, AllResumed,
     SkipTerminating, SuspendNext, ResumeNext, SendSuspend, SendToExited, Answered,
     Resumed, Unblock
<1>3. ASSUME NEW u \in Threads, BlockPass', Stopped(u), u \notin todo'
      PROVE  u \in handed'
  <2>1. Stopped(u) => suspend_count[u] = 1 \/ (gpc = "wait" /\ u \in todo)
    BY DEF IInv, CountIsSuspension, CollectorInStep
  <2>2. suspend_count[u] = 1 =>
           gpc # "idle" /\ (gpc \in {"block", "signal", "wait"} => u \notin todo)
    BY DEF IInv, CountIsSuspension
  <2>3. BlockPass /\ u \notin todo => u \in handed
    BY <1>3 DEF PassReturns
  <2>4. CASE GcStart
    BY <1>3, <2>1, <2>2, <2>4 DEF GcStart
  <2>5. ASSUME NEW t \in Threads, SkipTerminating(t) PROVE u \in handed'
    BY <1>3, <2>1, <2>2, <2>3, <2>5 DEF SkipTerminating, BlockPass
  <2>6. ASSUME NEW t \in Threads, SuspendNext(t) PROVE u \in handed'
    BY <1>3, <2>3, <2>6 DEF SuspendNext, Suspended, BlockPass
  <2>7. CASE SendSuspend \/ AllSuspended
    BY <1>3, <2>3, <2>7 DEF SendSuspend, AllSuspended, BlockPass
  <2>8. CASE SendToExited \/ Answered
    BY <1>3, <2>3, <2>8 DEF SendToExited, Answered, Suspended, BlockPass
  <2>9. ~ResumeAll /\ ~AllResumed /\ ~Resumed /\ ~Unblock /\ \A t \in Threads : ~ResumeNext(t)
    BY <1>3 DEF ResumeAll, AllResumed, Resumed, Unblock, ResumeNext, BlockPass
  <2> QED BY <2>4, <2>5, <2>6, <2>7, <2>8, <2>9 DEF Collector
<1> QED BY <1>1, <1>2, <1>3 DEF PassReturns, Stopped

LEMMA NextPassReturns == IInv /\ PassReturns /\ [Next]_vars => PassReturns'
<1> SUFFICES ASSUME IInv, PassReturns, [Next]_vars PROVE PassReturns'
  OBVIOUS
<1>1. CASE Next
  BY <1>1, ThreadKeepsPassReturns, HandlerKeepsPassReturns, CollectorKeepsPassReturns DEF Next
<1>2. CASE UNCHANGED vars
  BY <1>2 DEF vars, threadVars, handlerVars, gcVars, PassReturns, BlockPass, Stopped
<1> QED BY <1>1, <1>2

LEMMA InitPassReturns == Init => PassReturns
  BY DEF Init, PassReturns, BlockPass

\* A thread that does something by itself enters or leaves managed code, or dies;
\* or the collector learns that there is another.
LEMMA ThreadRefines ==
    ASSUME IInv, PassReturns, NEW t \in Threads,
           \/ WantGc(t) \/ Terminate(t) \/ (\E u \in Threads : Start(t, u))
           \/ Finish(t)
    PROVE  World!WNext \/ UNCHANGED World!wvars
<1>1. /\ handler[t] = "none" /\ \A u \in Threads \ {t} : pc'[u] = pc[u]
      /\ UNCHANGED <<handler, gpc, todo, handed>>
  BY OwnSteps DEF handlerVars, gcVars
<1>2. \A u \in Threads : Stopped(u)' <=> Stopped(u)
  BY <1>1 DEF Stopped
<1>3. \A u \in Threads : Stopped(u) => u # t
  BY <1>1 DEF Stopped
<1>4. Held' = Held
  BY <1>1, <1>2, <1>3 DEF Held, Gone, AboutToTerminate
<1>5. Visited' = Visited /\ WorldPhase' = WorldPhase
  BY <1>1, <1>4 DEF Visited, WorldPhase
<1>6. t \notin Held
  BY <1>3 DEF Held
<1>7. CASE AddThread(t)
  <2>1. /\ pc[t] = "starting" /\ pc'[t] = "established"
        /\ table' = table \cup {t}
        /\ late' = IF BlockPass THEN late \cup {t} ELSE late
    BY <1>7, OwnSteps DEF AddThread, Step
  <2>2. Running' = Running /\ Gone' = Gone
    BY <1>1, <2>1 DEF Running, Gone, AboutToTerminate
  <2>3. CASE BlockPass
    <3>1. t \notin table
      BY <2>1 DEF PassReturns
    <3>2. Roster' = Roster
      BY <2>1, <2>3, <3>1 DEF Roster
    <3> QED BY <1>4, <1>5, <2>2, <3>2 DEF World!wvars
  <2>4. CASE ~BlockPass
    <3>1. Roster \subseteq Roster' /\ Roster' \in SUBSET Threads
      BY <2>1, <2>4 DEF Roster, IInv, TypeOK
    <3>2. WorldPhase # "stopped"
      BY <2>4 DEF WorldPhase, BlockPass
    <3>3. World!Survey(Roster')
      BY <1>4, <1>5, <2>2, <3>1, <3>2 DEF World!Survey
    <3> QED BY <3>1, <3>3 DEF World!WNext
  <2> QED BY <2>3, <2>4
<1>8. CASE ~AddThread(t)
  <2>1. Roster' = Roster
    BY <1>8, OwnSteps DEF Roster
  <2>2. CASE pc[t] = "run" /\ pc'[t] = "terminating"
    <3>1. /\ t \in Running /\ Running' = Running \ {t} /\ Gone' = Gone \cup {t}
      BY <1>1, <2>2 DEF Running, Gone, AboutToTerminate
    <3>2. World!Die(t)
      BY <1>4, <1>5, <2>1, <3>1 DEF World!Die
    <3> QED BY <3>2 DEF World!WNext
  <2>3. CASE pc[t] = "run" /\ pc'[t] = "wants_gc"
    <3>1. Running' = Running \ {t} /\ Gone' = Gone
      BY <1>1, <2>3 DEF Running, Gone, AboutToTerminate
    <3>2. World!Leave(t)
      BY <1>4, <1>5, <2>1, <3>1 DEF World!Leave
    <3> QED BY <3>2 DEF World!WNext
  <2>4. CASE pc[t] \in {"established", "checked"} /\ pc'[t] = "run"
    <3>1. Running' = Running \cup {t} /\ Gone' = Gone /\ t \notin Gone
      BY <1>1, <2>4 DEF Running, Gone, AboutToTerminate
    <3>2. World!Enter(t)
      BY <1>4, <1>5, <1>6, <2>1, <3>1 DEF World!Enter
    <3> QED BY <3>2 DEF World!WNext
  <2>5. CASE \/ pc[t] = "new" /\ pc'[t] = "starting"
             \/ /\ pc[t] \in {"wants_gc", "requested", "checked"}
                /\ pc'[t] \in {"requested", "checked", "asleep"}
             \/ /\ pc[t] \in {"terminating", "holds_table"}
                /\ pc'[t] \in {"holds_table", "exited"}
    <3>1. Running' = Running /\ Gone' = Gone
      BY <1>1, <2>5 DEF Running, Gone, AboutToTerminate
    <3> QED BY <1>4, <1>5, <2>1, <3>1 DEF World!wvars
  <2> QED BY <1>8, <2>2, <2>3, <2>4, <2>5, OwnSteps
<1> QED BY <1>7, <1>8

\* A handler holds its thread when it posts, and lets it go when a second signal
\* has reached it.
LEMMA HandlerRefines ==
    ASSUME IInv, NEW t \in Threads, Handler(t) \/ HandlerBacksOff(t)
    PROVE  World!WNext \/ UNCHANGED World!wvars
<1> USE DEF threadVars, gcVars
<1>1. /\ UNCHANGED <<pc, table, late, gpc, todo, handed>>
      /\ \A u \in Threads \ {t} : handler'[u] = handler[u]
  BY DEF Handler, HandlerBacksOff, Deliver, HandlerPosts, HandlerSuspends,
     HandlerNested, HandlerResumes, IInv, TypeOK
<1>2. Gone' = Gone /\ Roster' = Roster /\ WorldPhase' = WorldPhase
  BY <1>1 DEF Gone, AboutToTerminate, Roster, WorldPhase
<1>3. ASSUME gpc # "working" PROVE Visited' = Visited
  BY <1>1, <1>3 DEF Visited
<1>4. CASE \/ Deliver(t) \/ HandlerBacksOff(t) \/ HandlerSuspends(t)
           \/ HandlerPosts(t) /\ MeansResume(t)
  <2>1. /\ handler[t] \in {"none", "entered"} <=> handler'[t] \in {"none", "entered"}
        /\ Stopped(t)' <=> Stopped(t)
    BY <1>4 DEF Deliver, HandlerBacksOff, HandlerSuspends, HandlerPosts, Stopped, IInv, TypeOK
  <2>2. \A u \in Threads : Stopped(u)' <=> Stopped(u)
    BY <1>1, <2>1 DEF Stopped
  <2>3. Held' = Held
    BY <1>2, <2>2 DEF Held
  <2>4. Running' = Running
    BY <1>1, <2>1 DEF Running
  <2>5. Visited' = Visited
    BY <1>1, <2>3 DEF Visited
  <2> QED BY <1>2, <2>3, <2>4, <2>5 DEF World!wvars
<1>5. CASE HandlerPosts(t) /\ ~MeansResume(t)
  <2>1. /\ handler[t] = "entered" /\ handler'[t] = "posted"
    BY <1>5 DEF HandlerPosts, IInv, TypeOK
  <2>2. gpc = "wait"
    BY <2>1 DEF IInv, SignalIsCurrent
  <2>3. Running' = Running \ {t}
    BY <1>1, <2>1 DEF Running
  <2>4. {u \in Threads : Stopped(u)'} = {u \in Threads : Stopped(u)} \cup {t}
    BY <1>1, <2>1 DEF Stopped
  <2>5. CASE t \in Gone
    <3>1. Held' = Held
      BY <1>2, <2>4, <2>5 DEF Held, Stopped
    <3>2. t \notin Running
      BY <2>5 DEF Gone, AboutToTerminate, Running
    <3> QED BY <1>2, <1>3, <2>2, <2>3, <3>1, <3>2 DEF World!wvars
  <2>6. CASE t \notin Gone
    <3>1. Held' = Held \cup {t}
      BY <1>2, <2>4, <2>6 DEF Held, Stopped
    <3>2. World!Hold(t)
      BY <1>2, <1>3, <2>2, <2>3, <2>6, <3>1 DEF World!Hold
    <3> QED BY <3>2 DEF World!WNext
  <2> QED BY <2>5, <2>6
<1>6. CASE HandlerNested(t)
  <2>1. /\ handler[t] = "suspended" /\ handler'[t] \in {"woken", "nested"} /\ pending[t]
    BY <1>6 DEF HandlerNested, IInv, TypeOK
  <2>2. gpc = "wait_resumed"
    BY <2>1 DEF IInv, SignalIsCurrent
  <2>3. Running' = Running
    BY <1>1, <2>1 DEF Running
  <2>4. {u \in Threads : Stopped(u)'} = {u \in Threads : Stopped(u)} \ {t}
    BY <1>1, <2>1 DEF Stopped
  <2>5. Held' = Held \ {t}
    BY <1>2, <2>4 DEF Held, Stopped
  <2>6. WorldPhase = "resuming"
    BY <2>2 DEF WorldPhase
  <2>7. World!Release(t)
    BY <1>2, <1>3, <2>2, <2>3, <2>5, <2>6 DEF World!Release
  <2> QED BY <2>7 DEF World!WNext
<1>7. CASE HandlerResumes(t)
  <2>1. handler[t] = "woken" /\ handler'[t] = "none"
    BY <1>7 DEF HandlerResumes, IInv, TypeOK
  <2>2. gpc = "wait_resumed"
    BY <2>1 DEF IInv, SignalIsCurrent
  <2>3. {u \in Threads : Stopped(u)'} = {u \in Threads : Stopped(u)}
    BY <1>1, <2>1 DEF Stopped
  <2>4. Held' = Held /\ t \notin Held
    BY <1>2, <2>1, <2>3 DEF Held, Stopped
  <2>5. Visited' = Visited
    BY <1>3, <2>2
  <2>6. CASE pc[t] = "run"
    <3>1. Running' = Running \cup {t} /\ t \notin Gone
      BY <1>1, <2>1, <2>6 DEF Running, Gone, AboutToTerminate
    <3>2. World!Enter(t)
      BY <1>2, <2>4, <2>5, <3>1 DEF World!Enter
    <3> QED BY <3>2 DEF World!WNext
  <2>7. CASE pc[t] # "run"
    <3>1. Running' = Running
      BY <1>1, <2>1, <2>7 DEF Running
    <3> QED BY <1>2, <2>4, <2>5, <3>1 DEF World!wvars
  <2> QED BY <2>6, <2>7
<1> QED BY <1>4, <1>5, <1>6, <1>7 DEF Handler

\* When the last thread of the list has been dealt with, every thread of the
\* roster is held or gone.
LEMMA WorldIsHeld ==
    ASSUME IInv, PassReturns, gpc = "block", todo = {}
    PROVE  Roster \subseteq Held \cup Gone /\ Roster \ Gone \subseteq handed \cap Held
<1>1. BlockPass
  BY DEF BlockPass
<1>2. ASSUME NEW t \in Roster PROVE t \in Gone \/ (t \in Held /\ t \in handed)
  <2>1. t \in Threads /\ t \in table /\ t \notin late
    BY <1>2 DEF Roster, IInv, TypeOK
  <2>2. Stopped(t) \/ Excused(t)
    BY <1>1, <2>1 DEF IInv, DealtWith
  <2>3. Excused(t) => t \in Gone
    BY <2>1 DEF Excused, Gone, AboutToTerminate
  <2>4. Stopped(t) => t \in handed
    BY <1>1, <2>1 DEF PassReturns
  <2> QED BY <2>1, <2>2, <2>3, <2>4 DEF Held
<1> QED BY <1>2

\* The collector announces, resumes or ends; its other steps concern the threads
\* only through their signals.
LEMMA CollectorRefines ==
    ASSUME IInv, PassReturns, Collector
    PROVE  World!WNext \/ UNCHANGED World!wvars
<1> USE DEF threadVars, handlerVars
<1>1. UNCHANGED <<table, late, handler>>
  BY DEF Collector, GcStart, AllSuspended, ResumeAll, AllResumed, SkipTerminating,
     SuspendNext, ResumeNext, SendSuspend, SendToExited, Answered, Resumed, Unblock
<1>2. \A u \in Threads : pc'[u] = pc[u] \/ (pc[u] = "asleep" /\ pc'[u] = "requested")
  BY DEF IInv, TypeOK, Collector, GcStart, AllSuspended, ResumeAll, AllResumed,
     SkipTerminating, SuspendNext, ResumeNext, SendSuspend, SendToExited, Answered,
     Resumed, Unblock
<1>3. Roster' = Roster /\ Running' = Running /\ Gone' = Gone
  BY <1>1, <1>2 DEF Roster, Running, Gone, AboutToTerminate
<1>4. Held' = Held
  BY <1>1, <1>3 DEF Held, Stopped
<1>5. CASE GcStart
  <2>1. gpc = "idle" /\ gpc' = "block"
    BY <1>5 DEF GcStart
  <2>2. World!Stop
    BY <1>3, <1>4, <2>1 DEF World!Stop, WorldPhase, Visited
  <2> QED BY <2>2 DEF World!WNext
<1>6. CASE AllSuspended
  <2>1. gpc = "block" /\ gpc' = "working" /\ todo = {} /\ handed' = handed
    BY <1>6 DEF AllSuspended
  <2>2. Visited' = handed \cap Held
    BY <1>4, <2>1 DEF Visited
  <2>3. World!Announce(handed \cap Held)
    BY <1>3, <1>4, <2>1, <2>2, WorldIsHeld DEF World!Announce, WorldPhase
  <2>4. handed \cap Held \in SUBSET Threads
    BY DEF Held
  <2> QED BY <2>3, <2>4 DEF World!WNext
<1>7. CASE ResumeAll
  <2>1. gpc = "working" /\ gpc' = "resume"
    BY <1>7 DEF ResumeAll
  <2>2. World!Resume
    BY <1>3, <1>4, <2>1 DEF World!Resume, WorldPhase, Visited
  <2> QED BY <2>2 DEF World!WNext
<1>8. CASE AllResumed
  <2>1. gpc = "resume" /\ gpc' = "idle"
    BY <1>8 DEF AllResumed
  <2>2. World!Resumed
    BY <1>3, <1>4, <2>1 DEF World!Resumed, WorldPhase, Visited
  <2> QED BY <2>2 DEF World!WNext
<1>9. CASE \/ \E t \in Threads : SkipTerminating(t) \/ SuspendNext(t) \/ ResumeNext(t)
           \/ SendSuspend \/ SendToExited \/ Answered \/ Resumed \/ Unblock
  <2>1. \/ gpc \in {"block", "signal", "wait"} /\ gpc' \in {"block", "signal", "wait"}
        \/ /\ gpc \in {"resume", "wait_resumed", "unblock"}
           /\ gpc' \in {"resume", "wait_resumed", "unblock"}
    BY <1>9 DEF SkipTerminating, SuspendNext, ResumeNext, SendSuspend, SendToExited,
       Answered, Suspended, Resumed, Unblock
  <2>2. WorldPhase' = WorldPhase /\ Visited' = Visited
    BY <2>1 DEF WorldPhase, Visited
  <2> QED BY <1>3, <1>4, <2>2 DEF World!wvars
<1> QED BY <1>5, <1>6, <1>7, <1>8, <1>9 DEF Collector

\* Suspending with signals implements WorldControl: it keeps the same promise to
\* the collector as the handshake of StopTheWorld.
THEOREM Refinement == Spec => KeepsPromise
<1>1. Init => World!WInit
  <2> SUFFICES ASSUME Init PROVE World!WInit
    OBVIOUS
  <2>1. Held = {} /\ Gone = {}
    BY DEF Init, Held, Gone, Stopped, AboutToTerminate
  <2>2. Running \in SUBSET Threads /\ Roster \in SUBSET Threads
    BY SignalConstants DEF Init, Running, Roster
  <2>3. WorldPhase = "running" /\ Visited = {}
    BY DEF Init, WorldPhase, Visited
  <2> QED BY <2>1, <2>2, <2>3 DEF World!WInit
<1>2. (IInv /\ PassReturns) /\ [Next]_vars => [World!WNext]_World!wvars
  <2> SUFFICES ASSUME IInv, PassReturns, [Next]_vars PROVE World!WNext \/ UNCHANGED World!wvars
    OBVIOUS
  <2>1. CASE Collector
    BY <2>1, CollectorRefines
  <2>2. CASE \E t \in Threads :
                \/ WantGc(t) \/ Terminate(t) \/ (\E u \in Threads : Start(t, u))
                \/ Finish(t)
    BY <2>2, ThreadRefines
  <2>3. CASE \E t \in Threads : Handler(t) \/ HandlerBacksOff(t)
    BY <2>3, HandlerRefines
  <2>4. CASE UNCHANGED vars
    BY <2>4 DEF vars, threadVars, handlerVars, gcVars, World!wvars, WorldPhase, Running,
       Held, Gone, Roster, Visited, Stopped, AboutToTerminate
  <2> QED BY <2>1, <2>2, <2>3, <2>4 DEF Next
<1>3. Init => IInv /\ PassReturns
  BY InitIInv, InitPassReturns
<1>4. (IInv /\ PassReturns) /\ [Next]_vars => (IInv /\ PassReturns)'
  BY NextIInv, NextPassReturns
<1> QED BY <1>1, <1>2, <1>3, <1>4, PTL DEF Spec, KeepsPromise, World!WSpec
=============================================================================
