--------------------------- MODULE SoftHandshake ---------------------------
(***************************************************************************)
(* The table of threads, the soft handshake over it and the pairing of     *)
(* threads by which one blocks another, in a cooperative runtime, from     *)
(* vmkit/src/threading.rs: ThreadManager::add_thread,                      *)
(* add_about_to_terminate_current, process_about_to_terminate,             *)
(* Thread::soft_handshake and Thread::block, with the transitions between  *)
(* managed and native code that they rely on.                              *)
(*                                                                         *)
(* The locks are the table's (inner), handshake_lock, the communication    *)
(* lock of each thread, and the monitor of each thread, which only a       *)
(* handshake keeps for longer than a step.  soft_handshake_data_lock is    *)
(* only taken under handshake_lock.  Threads are blocked here for one      *)
(* block adapter; collections are left to StopTheWorld.                    *)
(***************************************************************************)
EXTENDS Integers, Sequences, FiniteSets

CONSTANTS
    Threads,
    Main,       \* the thread of Thread::main
    Callers,    \* threads that perform soft handshakes
    MaxCalls,   \* bound: how many each
    Pairs,      \* <<c, t>> when c may block t, once
    None        \* an empty slot of the table, the holder of a free lock

ASSUME HandshakeConstants ==
    /\ Main \in Threads
    /\ Callers \subseteq Threads
    /\ MaxCalls \in Nat
    /\ Pairs \subseteq {p \in Threads \X Threads : p[1] # p[2]}
    /\ None \notin Threads

VARIABLES
    pc,
    exec_status,
    take_yieldpoint,
    is_about_to_terminate,
    index_in_manager,     \* counts from 1 here; 0 is unset
    threads,              \* ThreadManagerInner's fields
    free_thread_indices,
    about_to_terminate,
    inner,                \* who keeps the table's lock between steps
    handshake_lock,       \* its holder
    handshake_threads,    \* and what it protects
    monitor,              \* who keeps each thread's monitor between steps
    soft_handshake_left,
    num_to_handshake,     \* locals of soft_handshake, for each caller
    todo,                 \* what is left of the drained list
    calls,
    communication_lock,   \* holder of each thread's
    target,               \* whom a thread is about to block
    paired,               \* pairs of Pairs that were begun
    block_request,        \* the block adapter's request
    blocked,              \* and its acknowledgement
    unacked               \* history: threads a caller has signalled that have not
                          \* taken their monitor to change state since

tableVars == <<threads, free_thread_indices, about_to_terminate, index_in_manager>>
statusVars == <<exec_status, take_yieldpoint, unacked>>
blockVars == <<block_request, blocked>>
pairVars == <<communication_lock, target, paired>>
handshakeVars == <<handshake_lock, handshake_threads, monitor, soft_handshake_left,
                   num_to_handshake, todo, calls>>
vars == <<pc, statusVars, blockVars, pairVars, is_about_to_terminate, tableVars, inner,
          handshakeVars>>

\* Locations of a caller inside soft_handshake, then all that are managed code.
InHandshake == {"snapshot", "snapshotting", "draining", "visiting", "waiting", "reaping"}
InPair == {"pairing", "paired", "requesting", "blocking"}
Managed == InHandshake \cup InPair \cup {"starting", "parking", "run"}
Native == {"adding", "leaving", "native", "asleep"}

TypeOK ==
    /\ pc \in [Threads -> Managed \cup Native
                            \cup {"unborn", "blocked", "terminating", "dead"}]
    /\ exec_status \in [Threads -> {"New", "InManaged", "InNative", "InManagedToBlock",
                                    "BlockedInNative", "Terminated"}]
    /\ take_yieldpoint \in [Threads -> BOOLEAN]
    /\ is_about_to_terminate \in [Threads -> BOOLEAN]
    /\ threads \in Seq(Threads \cup {None})
    /\ index_in_manager \in [Threads -> 0..Len(threads)]
    /\ free_thread_indices \in Seq(DOMAIN threads)
    /\ about_to_terminate \in Seq(Threads)
    /\ inner \in Callers \cup {None}
    /\ handshake_lock \in Callers \cup {None}
    /\ handshake_threads \in Seq(Threads)
    /\ monitor \in [Threads -> Callers \cup {None}]
    /\ soft_handshake_left \in Nat
    /\ num_to_handshake \in [Callers -> Nat]
    /\ todo \in [Callers -> Seq(Threads)]
    /\ calls \in [Callers -> 0..MaxCalls]
    /\ communication_lock \in [Threads -> Threads \cup {None}]
    /\ target \in [Threads -> Threads \cup {None}]
    /\ paired \subseteq Pairs
    /\ block_request \in [Threads -> BOOLEAN]
    /\ blocked \in [Threads -> BOOLEAN]
    /\ unacked \in [Callers -> SUBSET Threads]

\* add_main_thread has put the main thread into the table; startoff will again.
Init ==
    /\ pc = [t \in Threads |-> IF t = Main THEN "starting" ELSE "unborn"]
    /\ exec_status = [t \in Threads |-> IF t = Main THEN "InManaged" ELSE "New"]
    /\ take_yieldpoint = [t \in Threads |-> FALSE]
    /\ is_about_to_terminate = [t \in Threads |-> FALSE]
    /\ index_in_manager = [t \in Threads |-> IF t = Main THEN 1 ELSE 0]
    /\ threads = <<Main>>
    /\ free_thread_indices = <<>>
    /\ about_to_terminate = <<>>
    /\ inner = None
    /\ handshake_lock = None
    /\ handshake_threads = <<>>
    /\ monitor = [t \in Threads |-> None]
    /\ soft_handshake_left = 0
    /\ num_to_handshake = [c \in Callers |-> 0]
    /\ todo = [c \in Callers |-> <<>>]
    /\ calls = [c \in Callers |-> 0]
    /\ communication_lock = [t \in Threads |-> None]
    /\ target = [t \in Threads |-> None]
    /\ paired = {}
    /\ block_request = [t \in Threads |-> FALSE]
    /\ blocked = [t \in Threads |-> FALSE]
    /\ unacked = [c \in Callers |-> {}]

\* Threads that are in the table and have not left it.
Registered(t) == pc[t] \in {"leaving", "native", "run", "blocked", "terminating", "asleep"}
                           \cup InHandshake \cup InPair

Goto(t, l) == pc' = [pc EXCEPT ![t] = l]

-----------------------------------------------------------------------------
(* Managed and native code                                                 *)

\* t holds its monitor and changes state: it acknowledges a request to block, and
\* sees what it was signalled for.
AtMonitor(t, status) ==
    /\ monitor[t] \in {None, t}
    /\ exec_status' = [exec_status EXCEPT ![t] = status]
    /\ block_request' = [block_request EXCEPT ![t] = FALSE]
    /\ blocked' = [blocked EXCEPT ![t] = @ \/ block_request[t]]
    /\ unacked' = [c \in Callers |-> unacked[c] \ {t}]

\* Mutant: only a request of this moment blocks.
MutIsBlocked(t) == block_request[t]

\* is_blocked, after acknowledge_block_requests.
IsBlocked(t) == blocked[t] \/ block_request[t]

\* check_block: goes on at `to`, or sleeps until it is unblocked.
CheckBlock(t, to) ==
    IF IsBlocked(t)
      THEN AtMonitor(t, exec_status[t]) /\ Goto(t, "blocked")
      ELSE AtMonitor(t, "InManaged") /\ Goto(t, to)

\* The CAS on exec_status.
FastTransition(t, status) ==
    /\ exec_status' = [exec_status EXCEPT ![t] = status]
    /\ UNCHANGED <<unacked, blockVars>>

\* enter_native, also from parked_scope and wait_with_handshake.
EnterNative(t, from, to) ==
    /\ pc[t] = from
    /\ Goto(t, to)
    /\ IF exec_status[t] = "InManaged" THEN FastTransition(t, "InNative")
                                       ELSE AtMonitor(t, "BlockedInNative")
    /\ UNCHANGED <<take_yieldpoint, pairVars, is_about_to_terminate, tableVars, inner,
                   handshakeVars>>

LeaveNative(t) ==
    /\ pc[t] \in {"native", "leaving"}
    /\ IF exec_status[t] = "InNative"
         THEN FastTransition(t, "InManaged") /\ Goto(t, "run")
         ELSE CheckBlock(t, "run")
    /\ UNCHANGED <<take_yieldpoint, pairVars, is_about_to_terminate, tableVars, inner,
                   handshakeVars>>

Yieldpoint(t) ==
    /\ pc[t] = "run" /\ take_yieldpoint[t]
    /\ take_yieldpoint' = [take_yieldpoint EXCEPT ![t] = FALSE]
    /\ CheckBlock(t, "run")
    /\ UNCHANGED <<pairVars, is_about_to_terminate, tableVars, inner, handshakeVars>>

\* A sleeper in check_block is notified, by a new request or by unblock.
Wake(t) ==
    /\ pc[t] = "blocked" /\ (block_request[t] \/ ~blocked[t])
    /\ CheckBlock(t, "run")
    /\ UNCHANGED <<take_yieldpoint, pairVars, is_about_to_terminate, tableVars, inner,
                   handshakeVars>>

-----------------------------------------------------------------------------
(* The table                                                               *)

\* Start: a running thread spawns another, which is not in the table yet.
Start(t) ==
    /\ pc[t] = "unborn"
    /\ \E p \in Threads : pc[p] = "run"
    /\ Goto(t, "starting")
    /\ exec_status' = [exec_status EXCEPT ![t] = "InManaged"]
    /\ UNCHANGED <<take_yieldpoint, unacked, blockVars, pairVars, is_about_to_terminate, tableVars, inner,
                   handshakeVars>>

\* Mutant: a thread counts as terminated when it has said that it will be.
MutTerminated(t) == is_about_to_terminate[t]

\* No code stores this state.
Terminated(t) == exec_status[t] = "Terminated"

\* Positions of about_to_terminate to remove; the code looks up the table there.
Removable == {i \in DOMAIN about_to_terminate : Terminated(threads[i])}

\* swap_remove.
SwapRemove(s, i) ==
    [j \in 1..(Len(s) - 1) |-> IF j = i THEN s[Len(s)] ELSE s[j]]

\* process_about_to_terminate, one round of its loop for each thread removed.
ProcessAboutToTerminate(t, next) ==
    /\ inner = None
    /\ IF Removable = {}
         THEN Goto(t, next) /\ UNCHANGED tableVars
         ELSE LET i == CHOOSE i \in Removable : \A j \in Removable : i <= j
                  index == index_in_manager[threads[i]]
              IN  /\ about_to_terminate' = SwapRemove(about_to_terminate, i)
                  /\ free_thread_indices' = Append(free_thread_indices, index)
                  /\ threads' = [threads EXCEPT ![index] = None]
                  /\ UNCHANGED <<pc, index_in_manager>>

\* add_thread removes terminated threads, and enters the thread parked.
BeginAdd(t) ==
    /\ pc[t] = "starting"
    /\ ProcessAboutToTerminate(t, "parking")
    /\ UNCHANGED <<statusVars, blockVars, pairVars, is_about_to_terminate, inner, handshakeVars>>

NewIndex == IF free_thread_indices = <<>> THEN Len(threads) + 1
            ELSE free_thread_indices[Len(free_thread_indices)]

AddThread(t) ==
    /\ pc[t] = "adding" /\ inner = None
    /\ Goto(t, "leaving")
    /\ index_in_manager' = [index_in_manager EXCEPT ![t] = NewIndex]
    /\ IF NewIndex > Len(threads)
         THEN threads' = Append(threads, t) /\ UNCHANGED free_thread_indices
         ELSE /\ threads' = [threads EXCEPT ![NewIndex] = t]
              /\ free_thread_indices' =
                   SubSeq(free_thread_indices, 1, Len(free_thread_indices) - 1)
    /\ UNCHANGED <<about_to_terminate, statusVars, blockVars, pairVars, is_about_to_terminate, inner,
                   handshakeVars>>

\* add_about_to_terminate, and add_about_to_terminate_current.
Terminate(t) ==
    /\ pc[t] = "run" /\ monitor[t] = None
    /\ Goto(t, "terminating")
    /\ is_about_to_terminate' = [is_about_to_terminate EXCEPT ![t] = TRUE]
    /\ UNCHANGED <<statusVars, blockVars, pairVars, tableVars, inner, handshakeVars>>

AddAboutToTerminateCurrent(t) ==
    /\ pc[t] = "terminating" /\ inner = None
    /\ Goto(t, "dead")
    /\ about_to_terminate' = Append(about_to_terminate, threads[index_in_manager[t]])
    /\ UNCHANGED <<threads, free_thread_indices, index_in_manager, statusVars, blockVars, pairVars,
                   is_about_to_terminate, inner, handshakeVars>>

-----------------------------------------------------------------------------
(* soft_handshake                                                          *)

Call(c) ==
    /\ pc[c] = "run" /\ calls[c] < MaxCalls
    /\ Goto(c, "snapshot")
    /\ calls' = [calls EXCEPT ![c] = @ + 1]
    /\ UNCHANGED <<statusVars, blockVars, pairVars, is_about_to_terminate, tableVars, inner, handshake_lock,
                   handshake_threads, monitor, soft_handshake_left, num_to_handshake, todo>>

\* snapshot_handshake_threads takes the table's lock, then the list's.
LockTable(c) ==
    /\ pc[c] = "snapshot" /\ inner = None
    /\ Goto(c, "snapshotting")
    /\ inner' = c
    /\ UNCHANGED <<statusVars, blockVars, pairVars, is_about_to_terminate, tableVars, handshakeVars>>

\* The threads at the filled positions of the table, in order.
Filled == {i \in DOMAIN threads : threads[i] # None}
Present == [k \in 1..Cardinality(Filled) |->
               threads[CHOOSE i \in Filled : Cardinality({j \in Filled : j <= i}) = k]]

Snapshot(c) ==
    /\ pc[c] = "snapshotting" /\ handshake_lock = None
    /\ Goto(c, "draining")
    /\ handshake_threads' = handshake_threads \o Present
    /\ num_to_handshake' = [num_to_handshake EXCEPT ![c] = Len(Present)]
    /\ inner' = None
    /\ UNCHANGED <<statusVars, blockVars, pairVars, is_about_to_terminate, tableVars, handshake_lock, monitor,
                   soft_handshake_left, todo, calls>>

\* drain(..n) leaves the rest of the list.
Remaining(n) == SubSeq(handshake_threads, n + 1, Len(handshake_threads))

\* The first threads of the list, whoever has put them there.
Drain(c) ==
    LET n == num_to_handshake[c]
    IN  /\ pc[c] = "draining" /\ handshake_lock = None
        /\ Goto(c, "visiting")
        /\ handshake_lock' = c
        /\ todo' = [todo EXCEPT ![c] = SubSeq(handshake_threads, 1, n)]
        /\ handshake_threads' = Remaining(n)
        /\ UNCHANGED <<statusVars, blockVars, pairVars, is_about_to_terminate, tableVars, inner, monitor,
                       soft_handshake_left, num_to_handshake, calls>>

\* Mutant: the state is left as it is when the thread is in native code.
MutBlockedStatus(s) == IF s = "InManaged" THEN "InManagedToBlock" ELSE s

\* set_blocked_exec_status.
BlockedStatus(s) ==
    CASE s = "InManaged" -> "InManagedToBlock"
      [] s = "InNative" -> "BlockedInNative"
      [] OTHER -> s

\* is_in_managed of a thread that is not about to terminate.
IsInManaged(t, s) == pc[t] # "blocked" /\ s \in {"InManaged", "InManagedToBlock"}

\* The caller signals the thread (check_and_signal returned TRUE), ...
Signal(c, t) ==
    LET status == BlockedStatus(exec_status[t])
    IN  /\ ~is_about_to_terminate[t]
        /\ exec_status' = [exec_status EXCEPT ![t] = status]
        /\ unacked' = [unacked EXCEPT ![c] = @ \cup {t}]
        /\ IF IsInManaged(t, status)
             THEN /\ take_yieldpoint' = [take_yieldpoint EXCEPT ![t] = TRUE]
                  /\ soft_handshake_left' = soft_handshake_left + 1
             ELSE UNCHANGED <<take_yieldpoint, soft_handshake_left>>
        /\ UNCHANGED monitor

\* ... or does not, and keeps its monitor to the end of the round.
PassOver(c, t) ==
    /\ monitor' = [monitor EXCEPT ![t] = c]
    /\ UNCHANGED <<statusVars, soft_handshake_left>>

Visit(c) ==
    /\ pc[c] = "visiting" /\ todo[c] # <<>>
    /\ monitor[Head(todo[c])] \in {None, c}
    /\ Goto(c, "waiting")
    /\ Signal(c, Head(todo[c])) \/ PassOver(c, Head(todo[c]))
    /\ todo' = [todo EXCEPT ![c] = Tail(@)]
    /\ UNCHANGED <<blockVars, pairVars, is_about_to_terminate, tableVars, inner,
                   handshake_lock, handshake_threads, num_to_handshake, calls>>

\* Nothing decrements the counter: once it is positive, wait_with_handshake
\* parks the caller for good.
MayGoOn == soft_handshake_left = 0

Sleep(c) == ~MayGoOn /\ EnterNative(c, "waiting", "asleep")

GoOn(c) ==
    /\ pc[c] = "waiting" /\ MayGoOn
    /\ Goto(c, "reaping")
    /\ UNCHANGED <<statusVars, blockVars, pairVars, is_about_to_terminate, tableVars, inner, handshakeVars>>

\* Mutant: the monitor of a thread that was passed over is never released.
MutReleased(c) == monitor

\* The round ends: the monitor that was kept is released.
Released(c) == [t \in Threads |-> IF monitor[t] = c THEN None ELSE monitor[t]]

Reap(c) ==
    /\ pc[c] = "reaping"
    /\ ProcessAboutToTerminate(c, "visiting")
    /\ monitor' = IF Removable = {} THEN Released(c) ELSE monitor
    /\ UNCHANGED <<statusVars, blockVars, pairVars, is_about_to_terminate, inner, handshake_lock,
                   handshake_threads, soft_handshake_left, num_to_handshake, todo, calls>>

Return(c) ==
    /\ pc[c] = "visiting" /\ todo[c] = <<>>
    /\ Goto(c, "run")
    /\ handshake_lock' = None
    /\ UNCHANGED <<statusVars, blockVars, pairVars, is_about_to_terminate, tableVars, inner, handshake_threads,
                   monitor, soft_handshake_left, num_to_handshake, todo, calls>>

-----------------------------------------------------------------------------
(* Pairing.  safe_block_impl takes the target's communication lock and     *)
(* then the caller's, and keeps both while it waits for the target.        *)

BeginPair(c, t) ==
    /\ pc[c] = "run" /\ <<c, t>> \in Pairs \ paired
    /\ Registered(t)
    /\ Goto(c, "pairing")
    /\ target' = [target EXCEPT ![c] = t]
    /\ paired' = paired \cup {<<c, t>>}
    /\ UNCHANGED <<communication_lock, statusVars, blockVars, is_about_to_terminate,
                   tableVars, inner, handshakeVars>>

LockCommunication(c, from, to, t) ==
    /\ pc[c] = from /\ communication_lock[t] \in {None, c}
    /\ Goto(c, to)
    /\ communication_lock' = [communication_lock EXCEPT ![t] = c]
    /\ UNCHANGED <<target, paired, statusVars, blockVars, is_about_to_terminate, tableVars,
                   inner, handshakeVars>>

\* Mutant: the target's communication lock is not released.
MutUnpaired(c) ==
    [t \in Threads |-> IF communication_lock[t] = c /\ t # target[c] THEN None
                       ELSE communication_lock[t]]

Unpaired(c) ==
    [t \in Threads |-> IF communication_lock[t] = c THEN None ELSE communication_lock[t]]

EndPair(c) ==
    /\ Goto(c, "run")
    /\ communication_lock' = Unpaired(c)
    /\ target' = [target EXCEPT ![c] = None]

\* block_unchecked; a thread in native code is blocked at once.
RequestBlock(c) ==
    LET t == target[c]
        status == BlockedStatus(exec_status[t])
    IN  /\ pc[c] = "requesting" /\ monitor[t] = None
        /\ IF is_about_to_terminate[t]
             THEN EndPair(c) /\ UNCHANGED <<exec_status, take_yieldpoint, blocked>>
             ELSE /\ take_yieldpoint' = [take_yieldpoint EXCEPT ![t] = TRUE]
                  /\ exec_status' = [exec_status EXCEPT ![t] = status]
                  /\ blocked' = [blocked EXCEPT ![t] = @ \/ status = "BlockedInNative"]
                  /\ IF status = "InManagedToBlock"
                       THEN Goto(c, "blocking") /\ UNCHANGED <<communication_lock, target>>
                       ELSE EndPair(c)
        /\ block_request' = [block_request EXCEPT ![t] = status # "BlockedInNative"]
        /\ UNCHANGED <<unacked, paired, is_about_to_terminate, tableVars, inner,
                       handshakeVars>>

\* block_unchecked returns when the target has stopped or will never run again.
FinishBlock(c) ==
    /\ pc[c] = "blocking" /\ monitor[target[c]] = None
    /\ \/ ~block_request[target[c]]
       \/ blocked[target[c]]
       \/ is_about_to_terminate[target[c]]
    /\ EndPair(c)
    /\ UNCHANGED <<paired, statusVars, blockVars, is_about_to_terminate, tableVars, inner,
                   handshakeVars>>

Unblock(c, t) ==
    /\ pc[c] = "run" /\ <<c, t>> \in paired
    /\ blocked[t] /\ monitor[t] = None
    /\ block_request' = [block_request EXCEPT ![t] = FALSE]
    /\ blocked' = [blocked EXCEPT ![t] = FALSE]
    /\ UNCHANGED <<pc, pairVars, statusVars, is_about_to_terminate, tableVars, inner,
                   handshakeVars>>

-----------------------------------------------------------------------------

Handshake(c) ==
    LockTable(c) \/ Snapshot(c) \/ Drain(c) \/ Visit(c) \/ Sleep(c) \/ GoOn(c)
    \/ Reap(c) \/ Return(c)

Pair(c) ==
    \/ LockCommunication(c, "pairing", "paired", target[c])
    \/ LockCommunication(c, "paired", "requesting", c)
    \/ RequestBlock(c)
    \/ FinishBlock(c)

ThreadNext(t) ==
    \/ EnterNative(t, "run", "native")
    \/ EnterNative(t, "parking", "adding")
    \/ LeaveNative(t)
    \/ Yieldpoint(t)
    \/ Wake(t)
    \/ Pair(t)
    \/ \E u \in Threads : BeginPair(t, u) \/ Unblock(t, u)
    \/ Start(t)
    \/ BeginAdd(t)
    \/ AddThread(t)
    \/ Terminate(t)
    \/ AddAboutToTerminateCurrent(t)

Next ==
    \/ \E t \in Threads : ThreadNext(t)
    \/ \E c \in Callers : Call(c) \/ Handshake(c)

Spec == Init /\ [][Next]_vars

\* Native threads of the operating system: one that can go on does; and managed
\* code polls take_yieldpoint.
FairSpec == Spec /\ \A c \in Callers : WF_vars(Handshake(c))
                 /\ \A t \in Threads : WF_vars(Pair(t)) /\ WF_vars(Yieldpoint(t) \/ Wake(t))

-----------------------------------------------------------------------------
(* Properties                                                              *)

\* "no thread will be running managed code without having acknowledged"
\* (soft_handshake): a thread that was signalled, and has not taken its monitor
\* since, is in managed code only while the handshake has not gone on.
NoneRunsUnacknowledged ==
    \A c \in Callers : \A t \in unacked[c] :
        pc[t] \in Managed => pc[c] \in {"waiting", "asleep"} /\ soft_handshake_left > 0

\* A thread that may still terminate is in the table where it says, so that
\* add_about_to_terminate_current and the collector find it.
FoundByIndex ==
    \A t \in Threads : Registered(t) => /\ index_in_manager[t] \in DOMAIN threads
                                        /\ threads[index_in_manager[t]] = t

\* Two handshakes that overlap may wait for each other for ever: one keeps
\* handshake_lock while process_about_to_terminate waits for the table's lock, the
\* other keeps the table's lock while it waits for handshake_lock
\* (snapshot_handshake_threads).
HandshakesDeadlock ==
    \E c, d \in Callers :
        /\ c # d /\ handshake_lock = c /\ inner = d
        /\ \/ pc[c] \in {"waiting", "reaping"}
           \/ pc[c] = "visiting" /\ todo[c] # <<>>

\* A handshake returns, unless it has to wait for a thread that was in managed
\* code, or two handshakes wait for each other.
HandshakeEnds ==
    \A c \in Callers :
        pc[c] = "snapshot" ~>
            pc[c] = "run" \/ soft_handshake_left > 0 \/ HandshakesDeadlock

\* A thread that is blocked is not in managed code, until it is unblocked: it
\* sleeps, or will when it leaves native code (block_unchecked, check_block).
BlockedStayOut == \A t \in Threads : blocked[t] => pc[t] \notin Managed

\* c cannot go on before d does: d holds a communication lock that c needs, or is
\* the thread whose acknowledgement c waits for.
WaitsFor(c, d) ==
    \/ pc[c] = "pairing" /\ d # c /\ communication_lock[target[c]] = d
    \/ pc[c] = "paired" /\ d # c /\ communication_lock[c] = d
    \/ pc[c] = "blocking" /\ target[c] = d /\ ~blocked[d] /\ ~is_about_to_terminate[d]

\* Threads of which each waits for another of them.
PairDeadlock ==
    \E S \in (SUBSET Threads) \ {{}} : \A c \in S : \E d \in S : WaitsFor(c, d)

\* block returns, unless its caller or a thread in its way is in one of the two
\* deadlocks, or in a handshake that never ends, which may keep a monitor.
PairEnds ==
    \A c \in Threads :
        pc[c] = "pairing" ~>
            pc[c] = "run" \/ soft_handshake_left > 0 \/ HandshakesDeadlock \/ PairDeadlock

\* "threads are paired, no deadlock can occur" (safe_block_impl).
PairedNeverDeadlock == ~PairDeadlock

-----------------------------------------------------------------------------
(* The inductive invariant of FoundByIndex and BlockedStayOut              *)

InTable(t) == pc[t] \notin {"unborn", "starting", "parking", "adding"}

\* Nothing is ever removed from the table: the threads that wait to be removed
\* are distinct, so that each position of their list is one of the table too,
\* and the thread there is not in the state that no code stores.
TableIsSound ==
    /\ threads \in Seq(Threads)
    /\ free_thread_indices = <<>>
    /\ index_in_manager \in [Threads -> Nat]
    /\ \A t \in Threads : InTable(t) => /\ index_in_manager[t] \in DOMAIN threads
                                        /\ threads[index_in_manager[t]] = t
    /\ about_to_terminate \in Seq(Threads)
    /\ \A i, j \in DOMAIN about_to_terminate :
          /\ pc[about_to_terminate[i]] = "dead"
          /\ i # j => about_to_terminate[i] # about_to_terminate[j]

StatusTypes ==
    /\ pc \in [Threads -> Managed \cup Native
                            \cup {"unborn", "blocked", "terminating", "dead"}]
    /\ exec_status \in [Threads -> {"New", "InManaged", "InNative", "InManagedToBlock",
                                    "BlockedInNative"}]
    /\ block_request \in [Threads -> BOOLEAN]
    /\ blocked \in [Threads -> BOOLEAN]

\* A thread in managed code is in a state that block_unchecked waits for, and a
\* thread that leaves native code without a look at its requests is not blocked.
StatusIsSound(t) ==
    /\ blocked[t] => pc[t] \notin Managed
    /\ pc[t] \in Managed => exec_status[t] \in {"InManaged", "InManagedToBlock"}
    /\ exec_status[t] = "InNative" => ~blocked[t] /\ pc[t] # "blocked"
    /\ pc[t] = "unborn" => exec_status[t] = "New" /\ ~blocked[t]

IInv == TableIsSound /\ StatusTypes /\ \A t \in Threads : StatusIsSound(t)

-----------------------------------------------------------------------------
(* What TypeOK and NoneRunsUnacknowledged need in addition                 *)

HandshakeTypes ==
    /\ index_in_manager \in [Threads -> 0..Len(threads)]
    /\ take_yieldpoint \in [Threads -> BOOLEAN]
    /\ is_about_to_terminate \in [Threads -> BOOLEAN]
    /\ inner \in Callers \cup {None}
    /\ handshake_lock \in Callers \cup {None}
    /\ monitor \in [Threads -> Callers \cup {None}]
    /\ soft_handshake_left \in Nat
    /\ num_to_handshake \in [Callers -> Nat]
    /\ todo \in [Callers -> Seq(Threads)]
    /\ calls \in [Callers -> 0..MaxCalls]
    /\ communication_lock \in [Threads -> Threads \cup {None}]
    /\ target \in [Threads -> Threads \cup {None}]
    /\ paired \subseteq Pairs
    /\ unacked \in [Callers -> SUBSET Threads]

\* What the callers that have counted their snapshot have still to drain.
Owed == UNION {{c} \X (1..num_to_handshake[c]) : c \in {d \in Callers : pc[d] = "draining"}}

\* A drain never runs past the list, whoever takes whose threads: the list is as
\* long as the callers together have counted.
ListIsOwed ==
    /\ handshake_threads \in Seq(Threads)
    /\ IsFiniteSet(Owed)
    /\ Cardinality(Owed) = Len(handshake_threads)

\* Only threads that have been started are in the table, and in the lists made of it.
Started(s) == \A i \in DOMAIN s : pc[s[i]] # "unborn"

OnlyStarted ==
    /\ Started(threads)
    /\ Started(handshake_threads)
    /\ \A c \in Callers : Started(todo[c])

\* A thread that was signalled and has not looked is in a state that no transition
\* leaves without the monitor; it runs managed code only while a caller that has
\* counted it waits.
SignalIsSound(t) ==
    /\ pc[t] # "unborn" => exec_status[t] # "New"
    /\ \A c \in Callers : t \in unacked[c] =>
          /\ exec_status[t] \in {"InManagedToBlock", "BlockedInNative"}
          /\ pc[t] \in Managed => pc[c] \in {"waiting", "asleep"} /\ soft_handshake_left > 0

HInv ==
    /\ HandshakeTypes
    /\ ListIsOwed
    /\ OnlyStarted
    /\ \A t \in Threads : SignalIsSound(t)
=============================================================================
