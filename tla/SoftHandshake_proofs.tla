------------------------ MODULE SoftHandshake_proofs ------------------------
(***************************************************************************)
(* Proofs about SoftHandshake, for any threads, callers and pairs: every   *)
(* thread is in the table where it says, a thread that is blocked stays    *)
(* out of managed code, the lists of overlapping handshakes are long       *)
(* enough for all of them, and none goes on past a thread that runs        *)
(* managed code unaware of it.                                             *)
(***************************************************************************)
EXTENDS SoftHandshake, FiniteSetTheorems, TLAPS

-----------------------------------------------------------------------------
(* Nothing is removed                                                      *)

\* The list of threads that wait to be removed is no longer than the table.
LEMMA ListFitsTable ==
    ASSUME TableIsSound
    PROVE  Len(about_to_terminate) <= Len(threads)
<1> DEFINE m == Len(about_to_terminate)
           n == Len(threads)
           f == [i \in 1..m |-> index_in_manager[about_to_terminate[i]]]
<1>1. m \in Nat /\ n \in Nat
  BY DEF TableIsSound
<1>2. ASSUME NEW i \in 1..m
      PROVE  /\ about_to_terminate[i] \in Threads
             /\ index_in_manager[about_to_terminate[i]] \in 1..n
             /\ threads[index_in_manager[about_to_terminate[i]]] = about_to_terminate[i]
  <2>1. /\ i \in DOMAIN about_to_terminate
        /\ about_to_terminate[i] \in Threads /\ pc[about_to_terminate[i]] = "dead"
    BY DEF TableIsSound
  <2>2. InTable(about_to_terminate[i])
    BY <2>1 DEF InTable
  <2>3. DOMAIN threads = 1..n
    BY DEF TableIsSound
  <2> QED BY <2>1, <2>2, <2>3 DEF TableIsSound
<1>3. f \in [1..m -> 1..n]
  BY <1>2
<1>4. ASSUME NEW i \in 1..m, NEW j \in 1..m, i # j PROVE f[i] # f[j]
  <2>1. /\ i \in DOMAIN about_to_terminate /\ j \in DOMAIN about_to_terminate
    BY DEF TableIsSound
  <2>2. about_to_terminate[i] # about_to_terminate[j]
    BY <1>4, <2>1 DEF TableIsSound
  <2> QED BY <1>2, <2>2
<1>5. /\ IsFiniteSet(1..m) /\ Cardinality(1..m) = m
      /\ IsFiniteSet(1..n) /\ Cardinality(1..n) = n
  <2> HIDE DEF m, n
  <2> QED BY <1>1, FS_Interval
<1>6. ~(n < m)
  <2> HIDE DEF f, m, n
  <2> SUFFICES ASSUME n < m PROVE FALSE
    OBVIOUS
  <2>1. Cardinality(1..n) < Cardinality(1..m)
    BY <1>5
  <2>2. \E x, y \in 1..m : x # y /\ f[x] = f[y]
    BY <1>3, <1>5, <2>1, FS_PigeonHole
  <2> QED BY <1>4, <2>2
<1> HIDE DEF m, n
<1>7. m <= n
  BY <1>1, <1>6
<1> QED BY <1>7 DEF m, n

\* So process_about_to_terminate removes nothing.
LEMMA NothingRemovable ==
    ASSUME TableIsSound, StatusTypes
    PROVE  Removable = {}
<1>1. ASSUME NEW i \in DOMAIN about_to_terminate PROVE threads[i] \in Threads
  <2>1. i \in DOMAIN threads
    BY ListFitsTable DEF TableIsSound
  <2> QED BY <2>1 DEF TableIsSound
<1>2. \A t \in Threads : exec_status[t] # "Terminated"
  BY DEF StatusTypes
<1> QED BY <1>1, <1>2 DEF Removable, Terminated

-----------------------------------------------------------------------------
(* Two parts of the invariant and the steps that leave them alone          *)

\* A step that leaves the table alone and brings no thread into it.
LEMMA TableKept ==
    ASSUME TableIsSound, UNCHANGED tableVars,
           \A t \in Threads : InTable(t)' => InTable(t),
           \A t \in Threads : pc[t] = "dead" => pc'[t] = "dead"
    PROVE  TableIsSound'
<1>1. /\ threads' = threads /\ free_thread_indices' = free_thread_indices
      /\ about_to_terminate' = about_to_terminate
      /\ index_in_manager' = index_in_manager
  BY DEF tableVars
<1>2. \A i \in DOMAIN about_to_terminate : about_to_terminate[i] \in Threads
  BY DEF TableIsSound
<1> QED BY <1>1, <1>2 DEF TableIsSound

\* A step that moves one thread without a change of state.
LEMMA StatusKept ==
    ASSUME StatusTypes, \A u \in Threads : StatusIsSound(u),
           exec_status' = exec_status, UNCHANGED blockVars,
           NEW t \in Threads, NEW to, pc' = [pc EXCEPT ![t] = to],
           to \in Managed \cup Native \cup {"terminating", "dead"},
           to \in Managed => pc[t] \in Managed
    PROVE  StatusTypes' /\ \A u \in Threads : StatusIsSound(u)'
<1>1. StatusTypes'
  BY DEF StatusTypes, blockVars
<1>2. ASSUME NEW u \in Threads PROVE StatusIsSound(u)'
  <2>1. StatusIsSound(u) /\ pc \in [Threads -> Managed \cup Native
                            \cup {"unborn", "blocked", "terminating", "dead"}]
    BY DEF StatusTypes
  <2>2. /\ exec_status'[u] = exec_status[u] /\ blocked'[u] = blocked[u]
    BY DEF blockVars
  <2>3. CASE u # t
    <3>1. pc'[u] = pc[u]
      BY <2>1, <2>3
    <3> QED BY <2>1, <2>2, <3>1 DEF StatusIsSound
  <2>4. CASE u = t
    <3>1. pc'[u] = to
      BY <2>1, <2>4
    <3>2. to # "blocked" /\ to # "unborn"
      BY DEF Managed, Native, InHandshake, InPair
    <3> QED BY <2>1, <2>2, <2>4, <3>1, <3>2 DEF StatusIsSound
  <2> QED BY <2>3, <2>4
<1> QED BY <1>1, <1>2

\* Both: a step from within the table to a place that is in it too.
LEMMA Moved ==
    ASSUME IInv, exec_status' = exec_status, UNCHANGED <<blockVars, tableVars>>,
           NEW t \in Threads, NEW to, pc' = [pc EXCEPT ![t] = to],
           to \in Managed \cup Native \cup {"terminating"},
           to \in Managed => pc[t] \in Managed,
           InTable(t) \/ to \in {"starting", "parking", "adding"}, pc[t] # "dead"
    PROVE  IInv'
<1>1. StatusTypes' /\ \A u \in Threads : StatusIsSound(u)'
  BY StatusKept DEF IInv
<1>2. ASSUME NEW u \in Threads
      PROVE  /\ InTable(u)' => InTable(u)
             /\ pc[u] = "dead" => pc'[u] = "dead"
  BY DEF IInv, StatusTypes, InTable
<1>3. TableIsSound'
  BY <1>2, TableKept DEF IInv
<1> QED BY <1>1, <1>3 DEF IInv

-----------------------------------------------------------------------------
(* Changes of state                                                        *)

\* A change of the state and of the block adapter of one thread, by itself.
LEMMA OwnChange ==
    ASSUME IInv, UNCHANGED tableVars, NEW t \in Threads, NEW to,
           NEW status \in {"New", "InManaged", "InNative", "InManagedToBlock", "BlockedInNative"},
           NEW request \in BOOLEAN, NEW block \in BOOLEAN,
           pc' = [pc EXCEPT ![t] = to],
           exec_status' = [exec_status EXCEPT ![t] = status],
           block_request' = [block_request EXCEPT ![t] = request],
           blocked' = [blocked EXCEPT ![t] = block],
           to \in Managed \cup Native \cup {"blocked"},
           to \in Managed => ~block /\ status \in {"InManaged", "InManagedToBlock"},
           status = "InNative" => ~block /\ to # "blocked",
           InTable(t) \/ to \in {"starting", "parking", "adding"}, pc[t] # "dead"
    PROVE  IInv'
<1>1. StatusTypes'
  BY DEF IInv, StatusTypes
<1>2. ASSUME NEW u \in Threads PROVE StatusIsSound(u)'
  <2>1. StatusIsSound(u) /\ StatusTypes
    BY DEF IInv
  <2>2. CASE u # t
    <3>1. /\ pc'[u] = pc[u] /\ exec_status'[u] = exec_status[u]
          /\ blocked'[u] = blocked[u]
      BY <2>1, <2>2 DEF StatusTypes
    <3> QED BY <2>1, <3>1 DEF StatusIsSound
  <2>3. CASE u = t
    <3>1. /\ pc'[u] = to /\ exec_status'[u] = status /\ blocked'[u] = block
      BY <2>1, <2>3 DEF StatusTypes
    <3>2. to # "unborn"
      BY DEF Managed, Native, InHandshake, InPair
    <3> QED BY <3>1, <3>2, Zenon DEF StatusIsSound
  <2> QED BY <2>2, <2>3
<1>3. ASSUME NEW u \in Threads
      PROVE  /\ InTable(u)' => InTable(u)
             /\ pc[u] = "dead" => pc'[u] = "dead"
  BY DEF IInv, StatusTypes, InTable
<1>4. TableIsSound'
  BY <1>3, TableKept DEF IInv
<1> QED BY <1>1, <1>2, <1>4 DEF IInv

\* A transition by CAS.
LEMMA FastStep ==
    ASSUME IInv, UNCHANGED tableVars, NEW t \in Threads, NEW to,
           pc' = [pc EXCEPT ![t] = to],
           \/ FastTransition(t, "InNative") /\ to \in Native /\ ~blocked[t]
           \/ FastTransition(t, "InManaged") /\ to = "run" /\ ~blocked[t],
           InTable(t) \/ to \in {"starting", "parking", "adding"}, pc[t] # "dead"
    PROVE  IInv'
<1>1. /\ block_request' = [block_request EXCEPT ![t] = block_request[t]]
      /\ blocked' = [blocked EXCEPT ![t] = FALSE]
      /\ block_request[t] \in BOOLEAN
  <2>1. UNCHANGED <<block_request, blocked>>
    BY DEF FastTransition, blockVars
  <2>2. blocked[t] = FALSE /\ block_request[t] \in BOOLEAN
    BY DEF IInv, StatusTypes
  <2> QED BY <2>1, <2>2 DEF IInv, StatusTypes
<1>2. PICK status \in {"InNative", "InManaged"} :
         /\ exec_status' = [exec_status EXCEPT ![t] = status]
         /\ status = "InNative" => to \in Native
         /\ status = "InManaged" => to = "run"
  BY DEF FastTransition
<1>3. /\ to \in Managed \cup Native \cup {"blocked"}
      /\ to # "blocked" /\ (to \in Managed => status = "InManaged")
  BY <1>2 DEF Managed, Native, InHandshake, InPair
<1> QED BY <1>1, <1>2, <1>3, OwnChange

\* A transition under the monitor.
LEMMA MonitorStep ==
    ASSUME IInv, UNCHANGED tableVars, NEW t \in Threads, NEW to, NEW status,
           AtMonitor(t, status), pc' = [pc EXCEPT ![t] = to],
           \/ status = "BlockedInNative" /\ to \in Native
           \/ status = "InManaged" /\ to = "run" /\ ~IsBlocked(t)
           \/ status = exec_status[t] /\ status # "InNative" /\ to = "blocked",
           InTable(t) \/ to \in {"starting", "parking", "adding"}, pc[t] # "dead"
    PROVE  IInv'
<1> DEFINE block == blocked[t] \/ block_request[t]
<1>1. /\ exec_status' = [exec_status EXCEPT ![t] = status]
      /\ block_request' = [block_request EXCEPT ![t] = FALSE]
      /\ blocked' = [blocked EXCEPT ![t] = block]
  BY DEF AtMonitor
<1>2. block \in BOOLEAN
  BY DEF IInv, StatusTypes
<1>3. exec_status[t] \in {"New", "InManaged", "InNative", "InManagedToBlock", "BlockedInNative"}
  BY DEF IInv, StatusTypes
<1>4. /\ to \in Managed \cup Native \cup {"blocked"}
      /\ to \in Managed => to = "run" \/ to \in Native
      /\ Managed \cap Native = {} /\ "blocked" \notin Managed
  BY DEF Managed, Native, InHandshake, InPair
<1>5. to \in Managed => ~block /\ status \in {"InManaged", "InManagedToBlock"}
  BY <1>4 DEF IsBlocked
<1> HIDE DEF block
<1> QED BY <1>1, <1>2, <1>3, <1>4, <1>5, OwnChange

LEMMA EnterNativeStep ==
    ASSUME IInv, NEW t \in Threads, NEW from \in Managed, NEW to \in Native,
           EnterNative(t, from, to),
           from \notin {"starting", "parking"} \/ to = "adding"
    PROVE  IInv'
<1>1. pc[t] = from /\ pc' = [pc EXCEPT ![t] = to] /\ UNCHANGED tableVars
  BY DEF EnterNative, Goto
<1>2. ~blocked[t] /\ pc[t] # "dead"
  BY <1>1 DEF IInv, StatusIsSound, Managed, InHandshake, InPair
<1>3. InTable(t) \/ to \in {"starting", "parking", "adding"}
  BY <1>1 DEF InTable, Managed, InHandshake, InPair
<1>4. CASE exec_status[t] = "InManaged"
  BY <1>1, <1>2, <1>3, <1>4, FastStep DEF EnterNative
<1>5. CASE exec_status[t] # "InManaged"
  <2>1. AtMonitor(t, "BlockedInNative")
    BY <1>5 DEF EnterNative
  <2> QED BY <1>1, <1>2, <1>3, <2>1, MonitorStep
<1> QED BY <1>4, <1>5

LEMMA CheckBlockStep ==
    ASSUME IInv, UNCHANGED tableVars, NEW t \in Threads, CheckBlock(t, "run"),
           exec_status[t] # "InNative", InTable(t), pc[t] # "dead"
    PROVE  IInv'
<1>1. CASE IsBlocked(t)
  <2>1. AtMonitor(t, exec_status[t]) /\ pc' = [pc EXCEPT ![t] = "blocked"]
    BY <1>1 DEF CheckBlock, Goto
  <2> QED BY <2>1, MonitorStep
<1>2. CASE ~IsBlocked(t)
  <2>1. AtMonitor(t, "InManaged") /\ pc' = [pc EXCEPT ![t] = "run"]
    BY <1>2 DEF CheckBlock, Goto
  <2> QED BY <1>2, <2>1, MonitorStep
<1> QED BY <1>1, <1>2

LEMMA LeaveNativeStep ==
    ASSUME IInv, NEW t \in Threads, LeaveNative(t)
    PROVE  IInv'
<1>1. /\ pc[t] \in {"native", "leaving"} /\ UNCHANGED tableVars
      /\ InTable(t) /\ pc[t] # "dead"
  BY DEF LeaveNative, InTable
<1>2. CASE exec_status[t] = "InNative"
  <2>1. FastTransition(t, "InManaged") /\ pc' = [pc EXCEPT ![t] = "run"]
    BY <1>2 DEF LeaveNative, Goto
  <2>2. ~blocked[t]
    BY <1>2 DEF IInv, StatusIsSound
  <2> QED BY <1>1, <2>1, <2>2, FastStep
<1>3. CASE exec_status[t] # "InNative"
  BY <1>1, <1>3, CheckBlockStep DEF LeaveNative
<1> QED BY <1>2, <1>3

LEMMA YieldpointStep ==
    ASSUME IInv, NEW t \in Threads, Yieldpoint(t) \/ Wake(t)
    PROVE  IInv'
<1>1. /\ pc[t] \in {"run", "blocked"} /\ UNCHANGED tableVars /\ CheckBlock(t, "run")
      /\ InTable(t) /\ pc[t] # "dead"
  BY DEF Yieldpoint, Wake, InTable
<1>2. exec_status[t] # "InNative"
  BY <1>1 DEF IInv, StatusIsSound, Managed
<1> QED BY <1>1, <1>2, CheckBlockStep

LEMMA StartStep ==
    ASSUME IInv, NEW t \in Threads, Start(t)
    PROVE  IInv'
<1>1. /\ pc[t] = "unborn" /\ pc' = [pc EXCEPT ![t] = "starting"]
      /\ exec_status' = [exec_status EXCEPT ![t] = "InManaged"]
      /\ UNCHANGED tableVars /\ UNCHANGED <<block_request, blocked>>
  BY DEF Start, Goto, blockVars
<1>2. /\ block_request' = [block_request EXCEPT ![t] = block_request[t]]
      /\ blocked' = [blocked EXCEPT ![t] = FALSE]
      /\ block_request[t] \in BOOLEAN
  <2>1. blocked[t] = FALSE /\ block_request[t] \in BOOLEAN
    BY <1>1 DEF IInv, StatusTypes, StatusIsSound
  <2> QED BY <1>1, <2>1 DEF IInv, StatusTypes
<1>3. "starting" \in Managed
  BY DEF Managed
<1> QED BY <1>1, <1>2, <1>3, OwnChange

-----------------------------------------------------------------------------
(* The table                                                               *)

\* process_about_to_terminate removes nothing and goes on.
LEMMA ProcessStep ==
    ASSUME IInv, NEW t \in Threads, NEW next \in Managed,
           ProcessAboutToTerminate(t, next), UNCHANGED <<exec_status, blockVars>>,
           pc[t] \in Managed, InTable(t) \/ next = "parking"
    PROVE  IInv'
<1>1. Removable = {}
  BY NothingRemovable DEF IInv
<1>2. pc' = [pc EXCEPT ![t] = next] /\ UNCHANGED tableVars
  BY <1>1 DEF ProcessAboutToTerminate, Goto
<1>3. pc[t] # "dead"
  BY DEF Managed, InHandshake, InPair
<1> QED BY <1>2, <1>3, Moved

\* The thread gets the next free position, since none is ever given back.
LEMMA AddThreadStep ==
    ASSUME IInv, NEW t \in Threads, AddThread(t)
    PROVE  IInv'
<1> DEFINE n == Len(threads)
<1>1. /\ pc[t] = "adding" /\ pc' = [pc EXCEPT ![t] = "leaving"]
      /\ index_in_manager' = [index_in_manager EXCEPT ![t] = NewIndex]
      /\ UNCHANGED <<about_to_terminate, exec_status, blockVars>>
  BY DEF AddThread, Goto, statusVars
<1>2. threads \in Seq(Threads) /\ n \in Nat
  BY DEF IInv, TableIsSound
<1>3. NewIndex = n + 1
  BY DEF IInv, TableIsSound, NewIndex
<1>4. threads' = Append(threads, t) /\ free_thread_indices' = <<>>
  BY <1>2, <1>3 DEF AddThread, IInv, TableIsSound
<1>5. /\ threads' \in Seq(Threads) /\ DOMAIN threads' = 1..(n + 1)
      /\ DOMAIN threads = 1..n
      /\ threads'[n + 1] = t /\ \A i \in 1..n : threads'[i] = threads[i]
  BY <1>2, <1>4
<1>6. index_in_manager' \in [Threads -> Nat]
  BY <1>1, <1>2, <1>3 DEF IInv, TableIsSound
<1>7. ASSUME NEW u \in Threads, InTable(u)'
      PROVE  /\ index_in_manager'[u] \in DOMAIN threads'
             /\ threads'[index_in_manager'[u]] = u
  <2>1. CASE u = t
    <3>1. index_in_manager'[u] = n + 1
      BY <1>1, <1>3, <2>1 DEF IInv, TableIsSound
    <3> QED BY <1>2, <1>5, <2>1, <3>1
  <2>2. CASE u # t
    <3>1. index_in_manager'[u] = index_in_manager[u] /\ pc'[u] = pc[u]
      BY <1>1, <2>2 DEF IInv, TableIsSound, StatusTypes
    <3>2. InTable(u)
      BY <1>7, <3>1 DEF InTable
    <3>3. index_in_manager[u] \in 1..n /\ threads[index_in_manager[u]] = u
      BY <1>5, <3>2 DEF IInv, TableIsSound
    <3> QED BY <1>2, <1>5, <3>1, <3>3
  <2> QED BY <2>1, <2>2
<1>8. ASSUME NEW i \in DOMAIN about_to_terminate, NEW j \in DOMAIN about_to_terminate
      PROVE  /\ pc'[about_to_terminate[i]] = "dead"
             /\ i # j => about_to_terminate[i] # about_to_terminate[j]
  <2>1. about_to_terminate[i] \in Threads /\ pc[about_to_terminate[i]] = "dead"
    BY DEF IInv, TableIsSound
  <2>2. about_to_terminate[i] # t
    BY <1>1, <2>1
  <2> QED BY <1>1, <2>1, <2>2 DEF IInv, TableIsSound, StatusTypes
<1>9. TableIsSound'
  BY <1>1, <1>4, <1>5, <1>6, <1>7, <1>8 DEF IInv, TableIsSound
<1>10. StatusTypes' /\ \A u \in Threads : StatusIsSound(u)'
  <2>1. "leaving" \in Native /\ "leaving" \notin Managed
    BY DEF Managed, Native, InHandshake, InPair
  <2> QED BY <1>1, <2>1, StatusKept DEF IInv
<1> QED BY <1>9, <1>10 DEF IInv

\* The thread puts itself into the list once, as it dies.
LEMMA AddAboutToTerminateCurrentStep ==
    ASSUME IInv, NEW t \in Threads, AddAboutToTerminateCurrent(t)
    PROVE  IInv'
<1> DEFINE n == Len(about_to_terminate)
<1>1. /\ pc[t] = "terminating" /\ pc' = [pc EXCEPT ![t] = "dead"]
      /\ about_to_terminate' = Append(about_to_terminate, threads[index_in_manager[t]])
      /\ UNCHANGED <<threads, free_thread_indices, index_in_manager, exec_status, blockVars>>
  BY DEF AddAboutToTerminateCurrent, Goto, statusVars
<1>2. threads[index_in_manager[t]] = t
  BY <1>1 DEF IInv, TableIsSound, InTable
<1>3. about_to_terminate \in Seq(Threads) /\ n \in Nat
  BY DEF IInv, TableIsSound
<1>4. /\ about_to_terminate' \in Seq(Threads)
      /\ DOMAIN about_to_terminate' = 1..(n + 1) /\ DOMAIN about_to_terminate = 1..n
      /\ about_to_terminate'[n + 1] = t
      /\ \A i \in 1..n : about_to_terminate'[i] = about_to_terminate[i]
  BY <1>1, <1>2, <1>3
<1>5. ASSUME NEW i \in 1..n
      PROVE  /\ about_to_terminate[i] \in Threads /\ pc[about_to_terminate[i]] = "dead"
             /\ \A j \in 1..n : i # j => about_to_terminate[i] # about_to_terminate[j]
  <2>1. i \in DOMAIN about_to_terminate
    BY <1>4
  <2>2. pc[about_to_terminate[i]] = "dead"
    BY <2>1 DEF IInv, TableIsSound
  <2>3. \A j \in DOMAIN about_to_terminate :
           i # j => about_to_terminate[i] # about_to_terminate[j]
    BY <2>1 DEF IInv, TableIsSound
  <2> HIDE DEF n
  <2> QED BY <1>3, <1>4, <2>2, <2>3
<1>6. \A u \in Threads : pc'[u] = IF u = t THEN "dead" ELSE pc[u]
  BY <1>1 DEF IInv, StatusTypes
<1>7. ASSUME NEW i \in 1..(n + 1), NEW j \in 1..(n + 1)
      PROVE  /\ pc'[about_to_terminate'[i]] = "dead"
             /\ i # j => about_to_terminate'[i] # about_to_terminate'[j]
  <2>1. \A k \in 1..n : about_to_terminate'[k] # t
    BY <1>1, <1>4, <1>5
  <2>2. i \in 1..n \/ i = n + 1
    BY <1>3
  <2>3. j \in 1..n \/ j = n + 1
    BY <1>3
  <2>4. pc'[about_to_terminate'[i]] = "dead"
    BY <1>4, <1>5, <1>6, <2>2
  <2>5. i # j => about_to_terminate'[i] # about_to_terminate'[j]
    BY <1>4, <1>5, <2>1, <2>2, <2>3
  <2> QED BY <2>4, <2>5
<1>8. \A u \in Threads : InTable(u)' => InTable(u)
  BY <1>1, <1>6 DEF InTable
<1>9. TableIsSound'
  <2> HIDE DEF n
  <2>1. ASSUME NEW i \in DOMAIN about_to_terminate', NEW j \in DOMAIN about_to_terminate'
        PROVE  /\ pc'[about_to_terminate'[i]] = "dead"
               /\ i # j => about_to_terminate'[i] # about_to_terminate'[j]
    BY <1>4, <1>7
  <2>2. \A u \in Threads : InTable(u)' => /\ index_in_manager'[u] \in DOMAIN threads'
                                          /\ threads'[index_in_manager'[u]] = u
    BY <1>1, <1>8 DEF IInv, TableIsSound
  <2>3. /\ threads' \in Seq(Threads) /\ free_thread_indices' = <<>>
        /\ index_in_manager' \in [Threads -> Nat]
    BY <1>1 DEF IInv, TableIsSound
  <2> QED BY <1>4, <2>1, <2>2, <2>3 DEF TableIsSound
<1>10. StatusTypes' /\ \A u \in Threads : StatusIsSound(u)'
  <2>1. "dead" \notin Managed
    BY DEF Managed, Native, InHandshake, InPair
  <2> QED BY <1>1, <2>1, StatusKept DEF IInv
<1> QED BY <1>9, <1>10 DEF IInv

-----------------------------------------------------------------------------
(* Requests of one thread to another                                       *)

\* What set_blocked_exec_status makes of a state.
LEMMA BlockedStatusFacts ==
    ASSUME NEW s \in {"New", "InManaged", "InNative", "InManagedToBlock", "BlockedInNative"}
    PROVE  /\ BlockedStatus(s) \in {"New", "InManagedToBlock", "BlockedInNative"}
           /\ s \in {"InManaged", "InManagedToBlock"} => BlockedStatus(s) = "InManagedToBlock"
           /\ s = "New" => BlockedStatus(s) = "New"
  BY DEF BlockedStatus

\* c, in managed code, changes the state of t to one that blocks, and blocks it
\* if that is native code.
LEMMA Requested ==
    ASSUME IInv, UNCHANGED tableVars, NEW c \in Threads, NEW t, NEW to \in Managed,
           pc[c] \in Managed, InTable(c), pc' = [pc EXCEPT ![c] = to],
           block_request' \in [Threads -> BOOLEAN],
           \/ UNCHANGED <<exec_status, blocked>>
           \/ /\ exec_status' = [exec_status EXCEPT ![t] = BlockedStatus(exec_status[t])]
              /\ \/ blocked' = blocked
                 \/ blocked' = [blocked EXCEPT ![t] =
                       @ \/ BlockedStatus(exec_status[t]) = "BlockedInNative"]
    PROVE  IInv'
<1>1. "dead" \notin Managed /\ "blocked" \notin Managed /\ "unborn" \notin Managed
  BY DEF Managed, InHandshake, InPair
<1>2. ASSUME NEW u \in Threads
      PROVE  /\ InTable(u)' => InTable(u)
             /\ pc[u] = "dead" => pc'[u] = "dead"
             /\ pc'[u] = IF u = c THEN to ELSE pc[u]
  BY <1>1 DEF IInv, StatusTypes, InTable
<1>3. TableIsSound'
  BY <1>2, TableKept DEF IInv
<1>4. ASSUME NEW u \in Threads
      PROVE  /\ exec_status[u] \in {"New", "InManaged", "InNative", "InManagedToBlock", "BlockedInNative"}
             /\ exec_status'[u] = exec_status[u] \/ exec_status'[u] = BlockedStatus(exec_status[u])
             /\ blocked'[u] => \/ blocked[u]
                               \/ exec_status'[u] = "BlockedInNative"
  <2>1. /\ exec_status \in [Threads -> {"New", "InManaged", "InNative",
                                        "InManagedToBlock", "BlockedInNative"}]
        /\ blocked \in [Threads -> BOOLEAN]
    BY DEF IInv, StatusTypes
  <2>2. CASE u = t
    BY <2>1, <2>2
  <2>3. CASE u # t
    BY <2>1, <2>3
  <2> QED BY <2>2, <2>3
<1>5. StatusTypes'
  <2>1. exec_status' \in [Threads -> {"New", "InManaged", "InNative",
                                        "InManagedToBlock", "BlockedInNative"}]
    <3>1. exec_status' = [u \in Threads |-> exec_status'[u]]
      BY DEF IInv, StatusTypes
    <3> QED BY <1>4, <3>1, BlockedStatusFacts
  <2>2. blocked' \in [Threads -> BOOLEAN]
    BY DEF IInv, StatusTypes
  <2>3. pc' \in [Threads -> Managed \cup Native
                            \cup {"unborn", "blocked", "terminating", "dead"}]
    BY DEF IInv, StatusTypes
  <2> QED BY <2>1, <2>2, <2>3 DEF StatusTypes
<1>6. ASSUME NEW u \in Threads PROVE StatusIsSound(u)'
  <2>1. StatusIsSound(u)
    BY DEF IInv
  <2>2. /\ pc'[u] \in Managed => pc[u] \in Managed
        /\ pc'[u] = "blocked" => pc[u] = "blocked"
        /\ pc'[u] = "unborn" => pc[u] = "unborn"
    BY <1>1, <1>2
  <2>3. /\ exec_status'[u] = "BlockedInNative" =>
              exec_status[u] \notin {"InManaged", "InManagedToBlock", "New"}
        /\ exec_status'[u] = "InNative" => exec_status[u] = "InNative"
        /\ exec_status[u] \in {"InManaged", "InManagedToBlock"} =>
              exec_status'[u] \in {"InManaged", "InManagedToBlock"}
        /\ exec_status[u] = "New" => exec_status'[u] = "New"
    BY <1>4, BlockedStatusFacts
  <2>4. blocked'[u] => blocked[u] \/ exec_status'[u] = "BlockedInNative"
    BY <1>4
  <2> QED BY <2>1, <2>2, <2>3, <2>4 DEF StatusIsSound
<1> QED BY <1>3, <1>5, <1>6 DEF IInv

LEMMA VisitStep ==
    ASSUME IInv, NEW c \in Threads, Visit(c)
    PROVE  IInv'
<1> DEFINE t == Head(todo[c])
<1>1. /\ pc[c] = "visiting" /\ pc' = [pc EXCEPT ![c] = "waiting"]
      /\ UNCHANGED <<block_request, blocked>> /\ UNCHANGED tableVars
      /\ Signal(c, t) \/ PassOver(c, t)
  BY DEF Visit, Goto, blockVars
<1>2. \/ exec_status' = exec_status
      \/ exec_status' = [exec_status EXCEPT ![t] = BlockedStatus(exec_status[t])]
  BY <1>1 DEF Signal, PassOver, statusVars
<1>3. "visiting" \in Managed /\ "waiting" \in Managed /\ InTable(c)
  BY <1>1 DEF Managed, InHandshake, InTable
<1>4. block_request' \in [Threads -> BOOLEAN]
  BY <1>1 DEF IInv, StatusTypes
<1> HIDE DEF t
<1> QED BY <1>1, <1>2, <1>3, <1>4, Requested

LEMMA RequestBlockStep ==
    ASSUME IInv, NEW c \in Threads, RequestBlock(c)
    PROVE  IInv'
<1> DEFINE t == target[c]
           status == BlockedStatus(exec_status[t])
<1>1. /\ pc[c] = "requesting" /\ UNCHANGED tableVars
      /\ block_request' = [block_request EXCEPT ![t] = status # "BlockedInNative"]
  BY DEF RequestBlock
<1>2. PICK to \in {"run", "blocking"} : pc' = [pc EXCEPT ![c] = to]
  BY DEF RequestBlock, EndPair, Goto
<1>3. \/ UNCHANGED <<exec_status, blocked>>
      \/ /\ exec_status' = [exec_status EXCEPT ![t] = status]
         /\ blocked' = [blocked EXCEPT ![t] = @ \/ status = "BlockedInNative"]
  BY DEF RequestBlock
<1>4. "requesting" \in Managed /\ to \in Managed /\ InTable(c)
  BY <1>1, <1>2 DEF Managed, InPair, InTable
<1>5. block_request' \in [Threads -> BOOLEAN]
  BY <1>1 DEF IInv, StatusTypes
<1>6. \/ UNCHANGED <<exec_status, blocked>>
      \/ /\ exec_status' = [exec_status EXCEPT ![t] = BlockedStatus(exec_status[t])]
         /\ blocked' = [blocked EXCEPT ![t] =
                           @ \/ BlockedStatus(exec_status[t]) = "BlockedInNative"]
  BY <1>3
<1>7. pc[c] \in Managed
  BY <1>1, <1>4
<1> HIDE DEF t, status
<1> QED BY <1>1, <1>2, <1>4, <1>5, <1>6, <1>7, Requested, ZenonT(40)

LEMMA UnblockStep ==
    ASSUME IInv, NEW c \in Threads, NEW t \in Threads, Unblock(c, t)
    PROVE  IInv'
<1>1. /\ block_request' = [block_request EXCEPT ![t] = FALSE]
      /\ blocked' = [blocked EXCEPT ![t] = FALSE]
      /\ UNCHANGED <<pc, exec_status, tableVars>>
  BY DEF Unblock, statusVars
<1>2. TableIsSound'
  BY <1>1, TableKept DEF IInv, InTable
<1>3. StatusTypes'
  BY <1>1 DEF IInv, StatusTypes
<1>4. ASSUME NEW u \in Threads PROVE StatusIsSound(u)'
  <2>1. blocked'[u] => blocked[u]
    BY <1>1 DEF IInv, StatusTypes
  <2> QED BY <1>1, <2>1 DEF IInv, StatusIsSound
<1> QED BY <1>2, <1>3, <1>4 DEF IInv

-----------------------------------------------------------------------------
(* The remaining steps, which only move their thread                       *)

LEMMA HandshakeKeepsIInv ==
    ASSUME IInv, NEW c \in Threads, Call(c) \/ Handshake(c)
    PROVE  IInv'
<1>1. CASE Call(c) \/ LockTable(c) \/ Snapshot(c) \/ Drain(c) \/ GoOn(c) \/ Return(c)
  <2>1. PICK to \in InHandshake \cup {"run"} : pc' = [pc EXCEPT ![c] = to]
    BY <1>1 DEF Call, LockTable, Snapshot, Drain, GoOn, Return, Goto, InHandshake
  <2>2. pc[c] \in InHandshake \cup {"run"}
    BY <1>1 DEF Call, LockTable, Snapshot, Drain, GoOn, Return, InHandshake
  <2>3. UNCHANGED <<exec_status, blockVars, tableVars>>
    BY <1>1 DEF Call, LockTable, Snapshot, Drain, GoOn, Return, statusVars
  <2>4. to \in Managed /\ pc[c] \in Managed /\ InTable(c) /\ pc[c] # "dead"
    BY <2>1, <2>2 DEF Managed, InHandshake, InTable
  <2> QED BY <2>1, <2>3, <2>4, Moved
<1>2. CASE Visit(c)
  BY <1>2, VisitStep
<1>3. CASE Sleep(c)
  <2>1. "waiting" \in Managed /\ "asleep" \in Native
    BY DEF Managed, InHandshake, Native
  <2> QED BY <1>3, <2>1, EnterNativeStep DEF Sleep
<1>4. CASE Reap(c)
  <2>1. pc[c] = "reaping" /\ UNCHANGED <<exec_status, blockVars>>
    BY <1>4 DEF Reap, statusVars
  <2>2. "reaping" \in Managed /\ "visiting" \in Managed /\ InTable(c)
    BY <2>1 DEF Managed, InHandshake, InTable
  <2> QED BY <1>4, <2>1, <2>2, ProcessStep DEF Reap
<1> QED BY <1>1, <1>2, <1>3, <1>4 DEF Handshake

LEMMA PairKeepsIInv ==
    ASSUME IInv, NEW c \in Threads, Pair(c) \/ \E t \in Threads : BeginPair(c, t)
    PROVE  IInv'
<1>1. CASE RequestBlock(c)
  BY <1>1, RequestBlockStep
<1>2. CASE \/ LockCommunication(c, "pairing", "paired", target[c])
           \/ LockCommunication(c, "paired", "requesting", c)
           \/ FinishBlock(c)
           \/ \E t \in Threads : BeginPair(c, t)
  <2>1. PICK to \in InPair \cup {"run"} : pc' = [pc EXCEPT ![c] = to]
    BY <1>2 DEF LockCommunication, FinishBlock, EndPair, BeginPair, Goto, InPair
  <2>2. pc[c] \in InPair \cup {"run"}
    BY <1>2 DEF LockCommunication, FinishBlock, BeginPair, InPair
  <2>3. UNCHANGED <<exec_status, blockVars, tableVars>>
    BY <1>2 DEF LockCommunication, FinishBlock, BeginPair, statusVars
  <2>4. to \in Managed /\ pc[c] \in Managed /\ InTable(c) /\ pc[c] # "dead"
    BY <2>1, <2>2 DEF Managed, InPair, InTable
  <2> QED BY <2>1, <2>3, <2>4, Moved
<1> QED BY <1>1, <1>2 DEF Pair

LEMMA ThreadKeepsIInv ==
    ASSUME IInv, NEW t \in Threads, ThreadNext(t)
    PROVE  IInv'
<1>1. /\ "run" \in Managed /\ "parking" \in Managed /\ "starting" \in Managed
      /\ "native" \in Native /\ "adding" \in Native
  BY DEF Managed, Native
<1>2. CASE EnterNative(t, "run", "native") \/ EnterNative(t, "parking", "adding")
  BY <1>1, <1>2, EnterNativeStep
<1>3. CASE BeginAdd(t)
  <2>1. pc[t] = "starting" /\ UNCHANGED <<exec_status, blockVars>>
    BY <1>3 DEF BeginAdd, statusVars
  <2> QED BY <1>1, <1>3, <2>1, ProcessStep DEF BeginAdd
<1>4. CASE Terminate(t)
  <2>1. /\ pc[t] = "run" /\ pc' = [pc EXCEPT ![t] = "terminating"]
        /\ UNCHANGED <<exec_status, blockVars, tableVars>>
    BY <1>4 DEF Terminate, Goto, statusVars
  <2>2. InTable(t) /\ pc[t] # "dead"
    BY <2>1 DEF InTable
  <2> QED BY <1>1, <2>1, <2>2, Moved
<1>5. CASE LeaveNative(t) \/ Yieldpoint(t) \/ Wake(t) \/ Start(t)
  BY <1>5, LeaveNativeStep, YieldpointStep, StartStep
<1>6. CASE Pair(t) \/ \E u \in Threads : BeginPair(t, u) \/ Unblock(t, u)
  BY <1>6, PairKeepsIInv, UnblockStep
<1>7. CASE AddThread(t) \/ AddAboutToTerminateCurrent(t)
  BY <1>7, AddThreadStep, AddAboutToTerminateCurrentStep
<1> QED BY <1>2, <1>3, <1>4, <1>5, <1>6, <1>7 DEF ThreadNext

-----------------------------------------------------------------------------
(* Theorems                                                                *)

LEMMA InitIInv == Init => IInv
<1> SUFFICES ASSUME Init PROVE IInv
  OBVIOUS
<1>1. Main \in Threads
  BY HandshakeConstants
<1>2. \A t \in Threads : ~InTable(t)
  BY DEF Init, InTable
<1>3. TableIsSound
  BY <1>1, <1>2 DEF Init, TableIsSound
<1>4. StatusTypes
  BY DEF Init, StatusTypes, Managed
<1>5. \A t \in Threads : StatusIsSound(t)
  BY DEF Init, StatusIsSound, Managed, InHandshake, InPair
<1> QED BY <1>3, <1>4, <1>5 DEF IInv

LEMMA NextIInv == IInv /\ [Next]_vars => IInv'
<1> SUFFICES ASSUME IInv, [Next]_vars PROVE IInv'
  OBVIOUS
<1>1. CASE Next
  BY <1>1, ThreadKeepsIInv, HandshakeKeepsIInv, HandshakeConstants DEF Next
<1>2. CASE UNCHANGED vars
  <2>1. UNCHANGED <<pc, exec_status, blockVars, tableVars>>
    BY <1>2 DEF vars, statusVars
  <2>2. TableIsSound'
    BY <2>1, TableKept DEF IInv, InTable
  <2> QED BY <2>1, <2>2 DEF IInv, StatusTypes, StatusIsSound, blockVars
<1> QED BY <1>1, <1>2

\* The invariant holds in every state: positions of the table are never given
\* back, and the states of the threads fit the places where they are.
THEOREM Invariance == Spec => []IInv
  BY InitIInv, NextIInv, PTL DEF Spec

\* Every thread that may still terminate is in the table where it says.
THEOREM FoundByIndexThm == Spec => []FoundByIndex
<1>1. IInv => FoundByIndex
  <2> SUFFICES ASSUME IInv, NEW t \in Threads, Registered(t)
               PROVE  /\ index_in_manager[t] \in DOMAIN threads
                      /\ threads[index_in_manager[t]] = t
    BY DEF FoundByIndex
  <2>1. InTable(t)
    BY DEF Registered, InTable, InHandshake, InPair
  <2> QED BY <2>1 DEF IInv, TableIsSound
<1> QED BY <1>1, Invariance, PTL

\* A blocked thread stays out of managed code until it is unblocked.
THEOREM BlockedStayOutThm == Spec => []BlockedStayOut
<1>1. IInv => BlockedStayOut
  BY DEF IInv, BlockedStayOut, StatusIsSound
<1> QED BY <1>1, Invariance, PTL

\* process_about_to_terminate never removes a thread: join_all, which waits
\* for an empty table, cannot return.
THEOREM NothingRemovedThm == Spec => [](Removable = {})
<1>1. IInv => Removable = {}
  BY NothingRemovable DEF IInv
<1> QED BY <1>1, Invariance, PTL

-----------------------------------------------------------------------------
(* The lists of a handshake                                                *)

\* As nothing is ever removed, a snapshot is the whole table.
LEMMA PresentIsTable ==
    ASSUME TableIsSound
    PROVE  Present = threads
<1> DEFINE n == Len(threads)
<1>1. n \in Nat /\ DOMAIN threads = 1..n /\ \A i \in 1..n : threads[i] \in Threads
  BY DEF TableIsSound
<1>2. threads = [i \in 1..n |-> threads[i]]
  BY DEF TableIsSound
<1> HIDE DEF n
<1>3. Filled = 1..n
  BY <1>1, HandshakeConstants DEF Filled
<1>4. Cardinality(Filled) = n
  BY <1>1, <1>3, FS_Interval
<1> DEFINE position(k) == CHOOSE i \in Filled : Cardinality({j \in Filled : j <= i}) = k
<1>5. ASSUME NEW k \in 1..n PROVE position(k) = k
  <2>1. ASSUME NEW i \in 1..n PROVE Cardinality({j \in Filled : j <= i}) = i
    <3>1. {j \in Filled : j <= i} = 1..i
      BY <1>1, <1>3
    <3>2. Cardinality(1..i) = i
      BY <1>1, FS_Interval
    <3> QED BY <3>1, <3>2
  <2> QED BY <1>3, <2>1
<1>6. Present = [k \in 1..n |-> threads[position(k)]]
  BY <1>4 DEF Present
<1> HIDE DEF position
<1> QED BY <1>2, <1>5, <1>6

\* What one caller has counted.
LEMMA RowSize ==
    ASSUME NEW c, NEW n \in Nat
    PROVE  IsFiniteSet({c} \X (1..n)) /\ Cardinality({c} \X (1..n)) = n
<1> DEFINE f == [i \in 1..n |-> <<c, i>>]
<1>1. IsFiniteSet(1..n) /\ Cardinality(1..n) = n
  BY FS_Interval
<1>2. f \in Bijection(1..n, {c} \X (1..n))
  <2>1. f \in [1..n -> {c} \X (1..n)]
    OBVIOUS
  <2>2. \A i, j \in 1..n : f[i] = f[j] => i = j
    OBVIOUS
  <2>3. \A p \in {c} \X (1..n) : p[2] \in 1..n /\ f[p[2]] = p
    OBVIOUS
  <2> HIDE DEF f
  <2>4. f \in Injection(1..n, {c} \X (1..n))
    BY <2>1, <2>2 DEF Injection, IsInjective
  <2>5. \A p \in {c} \X (1..n) : \E i \in 1..n : f[i] = p
    BY <2>3
  <2>6. f \in Surjection(1..n, {c} \X (1..n))
    BY <2>1, <2>5 DEF Surjection
  <2> QED BY <2>4, <2>6 DEF Bijection
<1>3. ExistsBijection(1..n, {c} \X (1..n))
  BY <1>2 DEF ExistsBijection
<1> QED BY <1>1, <1>3, FS_Bijection

LEMMA ListKept ==
    ASSUME ListIsOwed, UNCHANGED <<handshake_threads, num_to_handshake>>,
           \A c \in Callers : pc'[c] = "draining" <=> pc[c] = "draining"
    PROVE  ListIsOwed'
<1>1. Owed' = Owed
  BY DEF Owed
<1> QED BY <1>1 DEF ListIsOwed

LEMMA StartedKept ==
    ASSUME IInv, HInv, UNCHANGED <<threads, handshake_threads, todo>>,
           \A t \in Threads : pc[t] # "unborn" => pc'[t] # "unborn"
    PROVE  OnlyStarted'
<1>1. /\ \A i \in DOMAIN threads : threads[i] \in Threads
      /\ \A i \in DOMAIN handshake_threads : handshake_threads[i] \in Threads
      /\ \A c \in Callers : \A i \in DOMAIN todo[c] : todo[c][i] \in Threads
  BY DEF IInv, TableIsSound, HInv, HandshakeTypes, ListIsOwed
<1> QED BY <1>1 DEF HInv, OnlyStarted, Started

\* One thread moves and changes its own state, signalled only if it keeps it and
\* enters no managed code.
LEMMA SignalKept ==
    ASSUME IInv, HInv, NEW t \in Threads, NEW to, pc' = [pc EXCEPT ![t] = to],
           \A u \in Threads : u # t => exec_status'[u] = exec_status[u],
           exec_status'[t] # "New",
           \A c \in Callers : unacked'[c] \subseteq unacked[c],
           \A c \in Callers : t \in unacked'[c] =>
              exec_status'[t] = exec_status[t] /\ (to \in Managed => pc[t] \in Managed),
           soft_handshake_left' = soft_handshake_left,
           pc[t] \in {"waiting", "asleep"} => to \in {"waiting", "asleep"} \/ MayGoOn
    PROVE  \A u \in Threads : SignalIsSound(u)'
<1> SUFFICES ASSUME NEW u \in Threads PROVE SignalIsSound(u)'
  OBVIOUS
<1>1. SignalIsSound(u) /\ \A v \in Threads : pc'[v] = IF v = t THEN to ELSE pc[v]
  BY DEF HInv, IInv, StatusTypes
<1>2. Callers \subseteq Threads
  BY HandshakeConstants
<1>3. pc'[u] # "unborn" => exec_status'[u] # "New"
  BY <1>1 DEF SignalIsSound
<1>4. ASSUME NEW c \in Callers, u \in unacked'[c]
      PROVE  /\ exec_status'[u] \in {"InManagedToBlock", "BlockedInNative"}
             /\ pc'[u] \in Managed =>
                  pc'[c] \in {"waiting", "asleep"} /\ soft_handshake_left' > 0
  <2>1. u \in unacked[c] /\ c \in Threads
    BY <1>2, <1>4
  <2>2. exec_status'[u] = exec_status[u] /\ (pc'[u] \in Managed => pc[u] \in Managed)
    BY <1>1, <1>4
  <2>3. pc[u] \in Managed => pc[c] \in {"waiting", "asleep"} /\ soft_handshake_left > 0
    BY <1>1, <2>1 DEF SignalIsSound
  <2>4. soft_handshake_left > 0 => ~MayGoOn
    BY DEF MayGoOn
  <2>5. pc[c] \in {"waiting", "asleep"} /\ ~MayGoOn => pc'[c] \in {"waiting", "asleep"}
    BY <1>1, <2>1
  <2> QED BY <1>1, <2>1, <2>2, <2>3, <2>4, <2>5 DEF SignalIsSound
<1> QED BY <1>3, <1>4 DEF SignalIsSound

\* All of it, for a step of one thread that is no caller at its lists.
LEMMA OwnStep ==
    ASSUME IInv, HInv, HandshakeTypes', NEW t \in Threads, NEW to,
           pc' = [pc EXCEPT ![t] = to],
           to \notin {"unborn", "draining"}, pc[t] # "draining",
           UNCHANGED <<threads, handshake_threads, num_to_handshake, todo,
                       soft_handshake_left>>,
           \A u \in Threads : u # t => exec_status'[u] = exec_status[u],
           exec_status'[t] # "New",
           \A c \in Callers : unacked'[c] \subseteq unacked[c],
           \A c \in Callers : t \in unacked'[c] =>
              exec_status'[t] = exec_status[t] /\ (to \in Managed => pc[t] \in Managed),
           pc[t] \in {"waiting", "asleep"} => to \in {"waiting", "asleep"} \/ MayGoOn
    PROVE  HInv'
<1>1. \A u \in Threads : pc'[u] = IF u = t THEN to ELSE pc[u]
  BY DEF IInv, StatusTypes
<1>2. Callers \subseteq Threads
  BY HandshakeConstants
<1>3. ListIsOwed'
  BY <1>1, <1>2, ListKept DEF HInv
<1>4. OnlyStarted'
  BY <1>1, StartedKept
<1>5. \A u \in Threads : SignalIsSound(u)'
  BY SignalKept
<1> QED BY <1>3, <1>4, <1>5 DEF HInv

-----------------------------------------------------------------------------
(* The steps of HInv                                                       *)

\* What a look at the monitor does to the history of signals.
LEMMA AtMonitorFacts ==
    ASSUME IInv, HInv, NEW t \in Threads, NEW status, AtMonitor(t, status)
    PROVE  /\ unacked' \in [Callers -> SUBSET Threads]
           /\ \A c \in Callers : unacked'[c] \subseteq unacked[c] /\ t \notin unacked'[c]
           /\ \A u \in Threads : u # t => exec_status'[u] = exec_status[u]
           /\ exec_status'[t] = status
<1>1. /\ unacked' = [c \in Callers |-> unacked[c] \ {t}]
      /\ exec_status' = [exec_status EXCEPT ![t] = status]
  BY DEF AtMonitor
<1>2. /\ unacked \in [Callers -> SUBSET Threads]
      /\ t \in DOMAIN exec_status
  BY DEF HInv, HandshakeTypes, IInv, StatusTypes
<1> QED BY <1>1, <1>2

\* A transition by CAS is open to a thread that was not signalled.
LEMMA FastFacts ==
    ASSUME IInv, HInv, NEW t \in Threads, NEW status, FastTransition(t, status),
           exec_status[t] \in {"InManaged", "InNative"}
    PROVE  /\ unacked' = unacked
           /\ \A c \in Callers : t \notin unacked[c]
           /\ \A u \in Threads : u # t => exec_status'[u] = exec_status[u]
           /\ exec_status'[t] = status
<1>1. /\ unacked' = unacked /\ exec_status' = [exec_status EXCEPT ![t] = status]
  BY DEF FastTransition
<1>2. t \in DOMAIN exec_status
  BY DEF IInv, StatusTypes
<1>3. \A c \in Callers : t \notin unacked[c]
  BY DEF HInv, SignalIsSound
<1> QED BY <1>1, <1>2, <1>3

\* A transition of either kind.
LEMMA TransitionStep ==
    ASSUME IInv, HInv, NEW t \in Threads, NEW to, NEW status,
           pc' = [pc EXCEPT ![t] = to], to \notin {"unborn", "draining"},
           pc[t] # "draining", status # "New",
           \/ AtMonitor(t, status)
           \/ FastTransition(t, status) /\ exec_status[t] \in {"InManaged", "InNative"},
           take_yieldpoint' \in [Threads -> BOOLEAN],
           UNCHANGED <<pairVars, is_about_to_terminate, tableVars, inner, handshakeVars>>,
           pc[t] \in {"waiting", "asleep"} => to = "asleep"
    PROVE  HInv'
<1>1. /\ unacked' \in [Callers -> SUBSET Threads]
      /\ \A c \in Callers : unacked'[c] \subseteq unacked[c] /\ t \notin unacked'[c]
      /\ \A u \in Threads : u # t => exec_status'[u] = exec_status[u]
      /\ exec_status'[t] = status
  BY AtMonitorFacts, FastFacts DEF HInv, HandshakeTypes
<1>2. UNCHANGED <<threads, handshake_threads, num_to_handshake, todo, soft_handshake_left>>
  BY DEF tableVars, handshakeVars
<1>3. HandshakeTypes'
  BY <1>1 DEF HInv, HandshakeTypes, pairVars, tableVars, handshakeVars
<1> QED BY <1>1, <1>2, <1>3, OwnStep

LEMMA EnterNativeHStep ==
    ASSUME IInv, HInv, NEW t \in Threads, NEW from \in Managed, NEW to \in Native,
           EnterNative(t, from, to), from # "draining", from = "waiting" => to = "asleep"
    PROVE  HInv'
<1>1. /\ pc[t] = from /\ pc' = [pc EXCEPT ![t] = to]
      /\ UNCHANGED <<pairVars, is_about_to_terminate, tableVars, inner, handshakeVars>>
  BY DEF EnterNative, Goto
<1>2. to \notin {"unborn", "draining"} /\ from # "asleep"
  BY DEF Native, Managed, InHandshake, InPair
<1>3. take_yieldpoint' \in [Threads -> BOOLEAN]
  BY DEF EnterNative, HInv, HandshakeTypes
<1>4. \/ AtMonitor(t, "BlockedInNative")
      \/ FastTransition(t, "InNative") /\ exec_status[t] = "InManaged"
  BY DEF EnterNative
<1> QED BY <1>1, <1>2, <1>3, <1>4, TransitionStep

LEMMA CheckBlockHStep ==
    ASSUME IInv, HInv, NEW t \in Threads, CheckBlock(t, "run"),
           pc[t] \in {"native", "leaving", "run", "blocked"},
           take_yieldpoint' \in [Threads -> BOOLEAN],
           UNCHANGED <<pairVars, is_about_to_terminate, tableVars, inner, handshakeVars>>
    PROVE  HInv'
<1>1. exec_status[t] # "New"
  BY DEF HInv, SignalIsSound
<1>2. PICK to \in {"run", "blocked"}, status \in {exec_status[t], "InManaged"} :
         AtMonitor(t, status) /\ pc' = [pc EXCEPT ![t] = to]
  BY DEF CheckBlock, Goto
<1> QED BY <1>1, <1>2, TransitionStep

LEMMA LeaveNativeHStep ==
    ASSUME IInv, HInv, NEW t \in Threads, LeaveNative(t) \/ Yieldpoint(t) \/ Wake(t)
    PROVE  HInv'
<1>1. /\ pc[t] \in {"native", "leaving", "run", "blocked"}
      /\ UNCHANGED <<pairVars, is_about_to_terminate, tableVars, inner, handshakeVars>>
  BY DEF LeaveNative, Yieldpoint, Wake
<1>2. take_yieldpoint' \in [Threads -> BOOLEAN]
  BY DEF LeaveNative, Yieldpoint, Wake, HInv, HandshakeTypes
<1>3. \/ CheckBlock(t, "run")
      \/ /\ FastTransition(t, "InManaged") /\ exec_status[t] = "InNative"
         /\ pc' = [pc EXCEPT ![t] = "run"]
  BY DEF LeaveNative, Yieldpoint, Wake, Goto
<1>4. CASE CheckBlock(t, "run")
  BY <1>1, <1>2, <1>4, CheckBlockHStep
<1>5. CASE /\ FastTransition(t, "InManaged") /\ exec_status[t] = "InNative"
           /\ pc' = [pc EXCEPT ![t] = "run"]
  <2>1. /\ exec_status[t] \in {"InManaged", "InNative"} /\ pc[t] # "draining"
        /\ ~(pc[t] \in {"waiting", "asleep"})
    BY <1>1, <1>5
  <2>2. "run" \notin {"unborn", "draining"} /\ "InManaged" # "New"
    OBVIOUS
  <2> QED BY <1>1, <1>2, <1>5, <2>1, <2>2, TransitionStep
<1> QED BY <1>3, <1>4, <1>5

\* A thread that is born was not in the table, so nobody has signalled it.
LEMMA StartHStep ==
    ASSUME IInv, HInv, NEW t \in Threads, Start(t)
    PROVE  HInv'
<1>1. /\ pc[t] = "unborn" /\ pc' = [pc EXCEPT ![t] = "starting"]
      /\ exec_status' = [exec_status EXCEPT ![t] = "InManaged"]
      /\ UNCHANGED <<take_yieldpoint, unacked, pairVars, is_about_to_terminate, tableVars,
                     inner, handshakeVars>>
  BY DEF Start, Goto
<1>2. /\ \A u \in Threads : u # t => exec_status'[u] = exec_status[u]
      /\ exec_status'[t] = "InManaged" /\ exec_status[t] = "New"
  BY <1>1 DEF IInv, StatusTypes, StatusIsSound
<1>3. \A c \in Callers : t \notin unacked[c]
  BY <1>2 DEF HInv, SignalIsSound
<1>4. UNCHANGED <<threads, handshake_threads, num_to_handshake, todo, soft_handshake_left>>
  BY <1>1 DEF tableVars, handshakeVars
<1>5. HandshakeTypes'
  BY <1>1 DEF HInv, HandshakeTypes, pairVars, tableVars, handshakeVars
<1>6. /\ exec_status'[t] # "New" /\ pc[t] # "draining" /\ ~(pc[t] \in {"waiting", "asleep"})
      /\ "starting" \notin {"unborn", "draining"}
  BY <1>1, <1>2
<1>7. \A c \in Callers : unacked'[c] \subseteq unacked[c] /\ ~(t \in unacked'[c])
  BY <1>1, <1>3
<1> QED BY <1>1, <1>2, <1>4, <1>5, <1>6, <1>7, OwnStep

\* A thread moves and its state stays: it goes into managed code from there only.
LEMMA MoveHStep ==
    ASSUME IInv, HInv, HandshakeTypes', NEW t \in Threads, NEW to,
           pc' = [pc EXCEPT ![t] = to], to \notin {"unborn", "draining"},
           pc[t] \notin {"unborn", "draining", "asleep"},
           UNCHANGED <<threads, handshake_threads, num_to_handshake, todo,
                       soft_handshake_left, exec_status, unacked>>,
           to \in Managed => pc[t] \in Managed,
           pc[t] = "waiting" => MayGoOn
    PROVE  HInv'
<1>1. exec_status[t] # "New"
  BY DEF HInv, SignalIsSound
<1> QED BY <1>1, OwnStep

\* process_about_to_terminate, which removes nothing.
LEMMA ProcessFacts ==
    ASSUME IInv, NEW t \in Threads, NEW next, ProcessAboutToTerminate(t, next)
    PROVE  pc' = [pc EXCEPT ![t] = next] /\ UNCHANGED tableVars
<1>1. Removable = {}
  BY NothingRemovable DEF IInv
<1> QED BY <1>1 DEF ProcessAboutToTerminate, Goto

LEMMA BeginAddHStep ==
    ASSUME IInv, HInv, NEW t \in Threads, BeginAdd(t)
    PROVE  HInv'
<1>1. /\ pc[t] = "starting" /\ pc' = [pc EXCEPT ![t] = "parking"] /\ UNCHANGED tableVars
      /\ UNCHANGED <<statusVars, pairVars, is_about_to_terminate, inner, handshakeVars>>
  BY ProcessFacts DEF BeginAdd
<1>2. HandshakeTypes'
  BY <1>1 DEF HInv, HandshakeTypes, statusVars, pairVars, tableVars, handshakeVars
<1>3. "starting" \in Managed
  BY DEF Managed
<1> QED BY <1>1, <1>2, <1>3, MoveHStep DEF tableVars, statusVars, handshakeVars

LEMMA AddThreadHStep ==
    ASSUME IInv, HInv, NEW t \in Threads, AddThread(t)
    PROVE  HInv'
<1> DEFINE n == Len(threads)
<1>1. /\ pc[t] = "adding" /\ pc' = [pc EXCEPT ![t] = "leaving"]
      /\ index_in_manager' = [index_in_manager EXCEPT ![t] = NewIndex]
      /\ UNCHANGED <<statusVars, pairVars, is_about_to_terminate, inner, handshakeVars>>
  BY DEF AddThread, Goto
<1>2. threads \in Seq(Threads) /\ n \in Nat /\ NewIndex = n + 1
  BY DEF IInv, TableIsSound, NewIndex
<1>3. threads' = Append(threads, t)
  BY <1>2 DEF AddThread
<1>4. /\ Len(threads') = n + 1 /\ DOMAIN threads' = 1..(n + 1) /\ DOMAIN threads = 1..n
      /\ threads'[n + 1] = t /\ \A i \in 1..n : threads'[i] = threads[i]
  BY <1>2, <1>3
<1>5. index_in_manager' \in [Threads -> 0..Len(threads')]
  <2>1. index_in_manager \in [Threads -> 0..n]
    BY DEF HInv, HandshakeTypes
  <2> HIDE DEF n
  <2> QED BY <1>1, <1>2, <1>4, <2>1
<1>6. HandshakeTypes'
  BY <1>1, <1>5 DEF HInv, HandshakeTypes, statusVars, pairVars, handshakeVars
<1>7. \A u \in Threads : pc'[u] = IF u = t THEN "leaving" ELSE pc[u]
  BY <1>1 DEF IInv, StatusTypes
<1>8. ListIsOwed'
  <2>1. Callers \subseteq Threads
    BY HandshakeConstants
  <2> QED BY <1>1, <1>7, <2>1, ListKept DEF HInv, handshakeVars
<1>9. OnlyStarted'
  <2>1. /\ \A i \in 1..n : threads[i] \in Threads /\ pc[threads[i]] # "unborn"
        /\ \A i \in DOMAIN handshake_threads :
              handshake_threads[i] \in Threads /\ pc[handshake_threads[i]] # "unborn"
        /\ \A c \in Callers : \A i \in DOMAIN todo[c] :
              todo[c][i] \in Threads /\ pc[todo[c][i]] # "unborn"
    <3>1. /\ Started(handshake_threads) /\ Started(threads)
          /\ \A c \in Callers : Started(todo[c])
      BY DEF HInv, OnlyStarted
    <3>2. handshake_threads \in Seq(Threads) /\ todo \in [Callers -> Seq(Threads)]
      BY DEF HInv, HandshakeTypes, ListIsOwed
    <3> QED BY <1>2, <3>1, <3>2 DEF Started
  <2>2. UNCHANGED <<handshake_threads, todo>>
    BY <1>1 DEF handshakeVars
  <2>3. Started(threads)'
    <3> HIDE DEF n
    <3>1. \A i \in 1..(n + 1) : i \in 1..n \/ i = n + 1
      BY <1>2
    <3>2. \A i \in 1..(n + 1) : pc'[threads'[i]] # "unborn"
      BY <1>4, <1>7, <2>1, <3>1
    <3> QED BY <1>4, <3>2 DEF Started
  <2> QED BY <1>7, <2>1, <2>2, <2>3 DEF OnlyStarted, Started
<1>10. \A u \in Threads : SignalIsSound(u)'
  <2>1. /\ exec_status[t] # "New" /\ UNCHANGED <<exec_status, unacked, soft_handshake_left>>
    BY <1>1 DEF HInv, SignalIsSound, statusVars, handshakeVars
  <2>2. "leaving" \notin Managed
    BY DEF Managed, InHandshake, InPair
  <2> QED BY <1>1, <2>1, <2>2, SignalKept
<1> QED BY <1>6, <1>8, <1>9, <1>10 DEF HInv

LEMMA TerminateHStep ==
    ASSUME IInv, HInv, NEW t \in Threads, Terminate(t) \/ AddAboutToTerminateCurrent(t)
    PROVE  HInv'
<1>1. PICK to \in {"terminating", "dead"} :
         /\ pc[t] \in {"run", "terminating"} /\ pc' = [pc EXCEPT ![t] = to]
         /\ UNCHANGED <<threads, index_in_manager, statusVars, pairVars, inner, handshakeVars>>
  BY DEF Terminate, AddAboutToTerminateCurrent, Goto, tableVars
<1>2. is_about_to_terminate' \in [Threads -> BOOLEAN]
  BY DEF Terminate, AddAboutToTerminateCurrent, HInv, HandshakeTypes
<1>3. HandshakeTypes'
  BY <1>1, <1>2 DEF HInv, HandshakeTypes, statusVars, pairVars, handshakeVars
<1>4. to \notin Managed
  BY DEF Managed, InHandshake, InPair
<1> QED BY <1>1, <1>3, <1>4, MoveHStep DEF statusVars, handshakeVars

-----------------------------------------------------------------------------
(* Pairing                                                                 *)

LEMMA PairMoves ==
    ASSUME IInv, HInv, NEW c \in Threads,
           \/ LockCommunication(c, "pairing", "paired", target[c])
           \/ LockCommunication(c, "paired", "requesting", c)
           \/ FinishBlock(c)
           \/ \E t \in Threads : BeginPair(c, t)
    PROVE  HInv'
<1>1. PICK to \in InPair \cup {"run"} : pc' = [pc EXCEPT ![c] = to]
  BY DEF LockCommunication, FinishBlock, EndPair, BeginPair, Goto, InPair
<1>2. pc[c] \in InPair \cup {"run"}
  BY DEF LockCommunication, FinishBlock, BeginPair, InPair
<1>3. UNCHANGED <<statusVars, is_about_to_terminate, tableVars, inner, handshakeVars>>
  BY DEF LockCommunication, FinishBlock, BeginPair
<1>4. /\ communication_lock' \in [Threads -> Threads \cup {None}]
      /\ target' \in [Threads -> Threads \cup {None}]
      /\ paired' \subseteq Pairs
  <2>1. /\ communication_lock \in [Threads -> Threads \cup {None}]
        /\ target \in [Threads -> Threads \cup {None}]
        /\ paired \subseteq Pairs
    BY DEF HInv, HandshakeTypes
  <2>2. CASE \/ LockCommunication(c, "pairing", "paired", target[c])
             \/ LockCommunication(c, "paired", "requesting", c)
    BY <2>1, <2>2 DEF LockCommunication
  <2>3. CASE FinishBlock(c)
    BY <2>1, <2>3 DEF FinishBlock, EndPair, Unpaired
  <2>4. CASE \E t \in Threads : BeginPair(c, t)
    BY <2>1, <2>4 DEF BeginPair
  <2> QED BY <2>2, <2>3, <2>4
<1>5. HandshakeTypes'
  BY <1>3, <1>4 DEF HInv, HandshakeTypes, statusVars, tableVars, handshakeVars
<1>6. /\ to \notin {"unborn", "draining"} /\ pc[c] \notin {"unborn", "draining", "asleep"}
      /\ pc[c] # "waiting" /\ pc[c] \in Managed
  BY <1>1, <1>2 DEF InPair, Managed
<1> QED BY <1>1, <1>3, <1>5, <1>6, MoveHStep DEF tableVars, statusVars, handshakeVars

LEMMA RequestBlockHStep ==
    ASSUME IInv, HInv, NEW c \in Threads, RequestBlock(c)
    PROVE  HInv'
<1> DEFINE t == target[c]
           status == BlockedStatus(exec_status[t])
<1>1. /\ pc[c] = "requesting"
      /\ UNCHANGED <<unacked, paired, is_about_to_terminate, tableVars, inner, handshakeVars>>
  BY DEF RequestBlock
<1>2. PICK to \in {"run", "blocking"} : pc' = [pc EXCEPT ![c] = to]
  BY DEF RequestBlock, EndPair, Goto
<1>3. \A u \in Threads : pc'[u] = IF u = c THEN to ELSE pc[u]
  BY <1>2 DEF IInv, StatusTypes
<1>4. HandshakeTypes'
  <2>1. take_yieldpoint' \in [Threads -> BOOLEAN]
    BY DEF RequestBlock, HInv, HandshakeTypes
  <2>2. \/ UNCHANGED <<communication_lock, target>>
        \/ communication_lock' = Unpaired(c) /\ target' = [target EXCEPT ![c] = None]
    BY DEF RequestBlock, EndPair
  <2>3. /\ communication_lock' \in [Threads -> Threads \cup {None}]
        /\ target' \in [Threads -> Threads \cup {None}]
    BY <2>2 DEF Unpaired, HInv, HandshakeTypes
  <2> QED BY <1>1, <2>1, <2>3 DEF HInv, HandshakeTypes, tableVars, handshakeVars
<1>5. Callers \subseteq Threads
  BY HandshakeConstants
<1>6. ListIsOwed'
  BY <1>1, <1>3, <1>5, ListKept DEF HInv, handshakeVars
<1>7. OnlyStarted'
  BY <1>1, <1>3, StartedKept DEF tableVars, handshakeVars
<1>8. ASSUME NEW u \in Threads PROVE SignalIsSound(u)'
  <2>1. /\ exec_status[u] \in {"New", "InManaged", "InNative", "InManagedToBlock",
                               "BlockedInNative"}
        /\ exec_status'[u] = exec_status[u] \/ exec_status'[u] = BlockedStatus(exec_status[u])
    BY DEF RequestBlock, IInv, StatusTypes
  <2>2. /\ exec_status[u] # "New" => exec_status'[u] # "New"
        /\ exec_status[u] \in {"InManagedToBlock", "BlockedInNative"} =>
              exec_status'[u] \in {"InManagedToBlock", "BlockedInNative"}
    BY <2>1, BlockedStatusFacts DEF BlockedStatus
  <2>3. /\ pc'[u] \in Managed => pc[u] \in Managed
        /\ pc'[u] # "unborn" => pc[u] # "unborn"
        /\ \A d \in Callers : pc[d] \in {"waiting", "asleep"} => pc'[d] = pc[d]
    BY <1>1, <1>3, <1>5 DEF Managed, InPair
  <2>4. unacked' = unacked /\ soft_handshake_left' = soft_handshake_left
    BY <1>1 DEF handshakeVars
  <2> QED BY <2>2, <2>3, <2>4 DEF HInv, SignalIsSound
<1> QED BY <1>4, <1>6, <1>7, <1>8 DEF HInv

LEMMA UnblockHStep ==
    ASSUME IInv, HInv, NEW c \in Threads, NEW t \in Threads, Unblock(c, t)
    PROVE  HInv'
<1>1. UNCHANGED <<pc, pairVars, statusVars, is_about_to_terminate, tableVars, inner,
                  handshakeVars>>
  BY DEF Unblock
<1>2. HandshakeTypes' /\ \A u \in Threads : SignalIsSound(u)'
  BY <1>1 DEF HInv, HandshakeTypes, SignalIsSound, pairVars, statusVars, tableVars, handshakeVars
<1>3. ListIsOwed'
  BY <1>1, ListKept DEF HInv, handshakeVars
<1>4. OnlyStarted'
  BY <1>1, StartedKept DEF tableVars, handshakeVars
<1> QED BY <1>2, <1>3, <1>4 DEF HInv

-----------------------------------------------------------------------------
(* soft_handshake                                                          *)

LEMMA HandshakeMoves ==
    ASSUME IInv, HInv, NEW c \in Callers,
           Call(c) \/ LockTable(c) \/ GoOn(c) \/ Return(c) \/ Reap(c)
    PROVE  HInv'
<1>1. c \in Threads
  BY HandshakeConstants
<1>2. PICK to \in {"snapshot", "snapshotting", "reaping", "run", "visiting"} :
         pc' = [pc EXCEPT ![c] = to]
  BY <1>1, ProcessFacts DEF Call, LockTable, GoOn, Return, Reap, Goto
<1>3. /\ pc[c] \in {"run", "snapshot", "waiting", "visiting", "reaping"}
      /\ pc[c] = "waiting" => MayGoOn
  BY DEF Call, LockTable, GoOn, Return, Reap
<1>4. /\ UNCHANGED tableVars
      /\ UNCHANGED <<statusVars, pairVars, is_about_to_terminate, handshake_threads,
                     soft_handshake_left, num_to_handshake, todo>>
  BY <1>1, ProcessFacts DEF Call, LockTable, GoOn, Return, Reap, handshakeVars
<1>5. /\ inner' \in Callers \cup {None} /\ handshake_lock' \in Callers \cup {None}
      /\ calls' \in [Callers -> 0..MaxCalls]
      /\ monitor' \in [Threads -> Callers \cup {None}]
  <2>2. /\ inner' \in {inner, c} /\ handshake_lock' \in {handshake_lock, None}
        /\ monitor' \in {monitor, Released(c)}
        /\ \/ calls' = calls
           \/ calls[c] < MaxCalls /\ calls' = [calls EXCEPT ![c] = @ + 1]
    BY DEF Call, LockTable, GoOn, Return, Reap, handshakeVars
  <2>3. Released(c) \in [Threads -> Callers \cup {None}]
    BY DEF Released, HInv, HandshakeTypes
  <2>4. calls' \in [Callers -> 0..MaxCalls]
    <3>1. MaxCalls \in Nat /\ calls \in [Callers -> 0..MaxCalls]
      BY HandshakeConstants DEF HInv, HandshakeTypes
    <3>2. calls[c] < MaxCalls => calls[c] + 1 \in 0..MaxCalls
      BY <3>1
    <3> QED BY <2>2, <3>1, <3>2
  <2> QED BY <2>2, <2>3, <2>4 DEF HInv, HandshakeTypes
<1>6. HandshakeTypes'
  BY <1>4, <1>5 DEF HInv, HandshakeTypes, statusVars, pairVars, tableVars
<1>7. pc[c] \in Managed
  BY <1>3 DEF Managed, InHandshake
<1> QED BY <1>1, <1>2, <1>3, <1>4, <1>6, <1>7, MoveHStep DEF tableVars, statusVars

\* The list grows by what the caller has counted.
LEMMA SnapshotHStep ==
    ASSUME IInv, HInv, NEW c \in Callers, Snapshot(c)
    PROVE  HInv'
<1> DEFINE n == Len(threads)
           m == Len(handshake_threads)
           row == {c} \X (1..n)
<1>1. /\ pc[c] = "snapshotting" /\ pc' = [pc EXCEPT ![c] = "draining"]
      /\ handshake_threads' = handshake_threads \o Present
      /\ num_to_handshake' = [num_to_handshake EXCEPT ![c] = Len(Present)]
      /\ inner' = None
      /\ UNCHANGED <<statusVars, pairVars, is_about_to_terminate, tableVars, handshake_lock,
                     monitor, soft_handshake_left, todo, calls>>
  BY DEF Snapshot, Goto
<1>2. Present = threads
  BY PresentIsTable DEF IInv
<1>3. c \in Threads /\ Callers \subseteq Threads
  BY HandshakeConstants
<1>4. /\ threads \in Seq(Threads) /\ n \in Nat
      /\ handshake_threads \in Seq(Threads) /\ m \in Nat
  BY DEF IInv, TableIsSound, HInv, ListIsOwed
<1>5. /\ handshake_threads' \in Seq(Threads) /\ Len(handshake_threads') = m + n
      /\ \A i \in 1..(m + n) : handshake_threads'[i] =
            IF i \in 1..m THEN handshake_threads[i] ELSE threads[i - m]
      /\ DOMAIN threads = 1..n /\ DOMAIN handshake_threads = 1..m
      /\ DOMAIN handshake_threads' = 1..(m + n)
      /\ \A i \in 1..n : threads[i] \in Threads
      /\ \A i \in 1..m : handshake_threads[i] \in Threads
  BY <1>1, <1>2, <1>4
<1>6. num_to_handshake' = [num_to_handshake EXCEPT ![c] = n]
  BY <1>1, <1>2
<1> HIDE DEF n, m
<1>7. /\ num_to_handshake' \in [Callers -> Nat]
      /\ \A d \in Callers : num_to_handshake'[d] = IF d = c THEN n ELSE num_to_handshake[d]
  BY <1>4, <1>6 DEF HInv, HandshakeTypes
<1>8. \A u \in Threads : pc'[u] = IF u = c THEN "draining" ELSE pc[u]
  BY <1>1 DEF IInv, StatusTypes
<1>9. HandshakeTypes'
  BY <1>1, <1>7 DEF HInv, HandshakeTypes, statusVars, pairVars, tableVars
<1>10. ListIsOwed'
  <2>1. Owed' = Owed \cup row
    BY <1>1, <1>3, <1>7, <1>8 DEF Owed
  <2>2. Owed \cap row = {}
    BY <1>1 DEF Owed
  <2>3. IsFiniteSet(row) /\ Cardinality(row) = n
    BY <1>4, RowSize
  <2>4. IsFiniteSet(Owed) /\ Cardinality(Owed) = m
    BY DEF HInv, ListIsOwed, m
  <2>5. /\ IsFiniteSet(Owed')
        /\ Cardinality(Owed') = m + n - Cardinality({})
    <3> HIDE DEF row
    <3> QED BY <2>1, <2>2, <2>3, <2>4, FS_Union
  <2> QED BY <1>4, <1>5, <2>5, FS_EmptySet DEF ListIsOwed
<1>11. OnlyStarted'
  <2>1. /\ \A i \in 1..n : threads[i] \in Threads /\ pc[threads[i]] # "unborn"
        /\ \A i \in 1..m : handshake_threads[i] \in Threads /\ pc[handshake_threads[i]] # "unborn"
        /\ \A d \in Callers : \A i \in DOMAIN todo[d] :
              todo[d][i] \in Threads /\ pc[todo[d][i]] # "unborn"
    <3>1. /\ \A i \in DOMAIN threads : pc[threads[i]] # "unborn"
          /\ \A i \in DOMAIN handshake_threads : pc[handshake_threads[i]] # "unborn"
          /\ \A d \in Callers : \A i \in DOMAIN todo[d] : pc[todo[d][i]] # "unborn"
      BY DEF HInv, OnlyStarted, Started
    <3>2. \A d \in Callers : todo[d] \in Seq(Threads)
      BY DEF HInv, HandshakeTypes
    <3>3. \A d \in Callers : \A i \in DOMAIN todo[d] : todo[d][i] \in Threads
      BY <3>2
    <3> QED BY <1>5, <3>1, <3>3
  <2>2. UNCHANGED <<threads, todo>>
    BY <1>1 DEF tableVars
  <2>3. ASSUME NEW i \in 1..(m + n) PROVE pc'[handshake_threads'[i]] # "unborn"
    <3>1. i \in 1..m \/ i - m \in 1..n
      BY <1>4
    <3> QED BY <1>5, <1>8, <2>1, <3>1
  <2>4. Started(handshake_threads)'
    BY <1>5, <2>3 DEF Started
  <2> QED BY <1>5, <1>8, <2>1, <2>2, <2>4 DEF OnlyStarted, Started
<1>12. \A u \in Threads : SignalIsSound(u)'
  <2>1. /\ exec_status[c] # "New" /\ UNCHANGED <<exec_status, unacked, soft_handshake_left>>
    BY <1>1, <1>3 DEF HInv, SignalIsSound, statusVars
  <2>2. pc[c] \in Managed
    BY <1>1 DEF Managed, InHandshake
  <2> QED BY <1>1, <1>3, <2>1, <2>2, SignalKept
<1> QED BY <1>9, <1>10, <1>11, <1>12 DEF HInv

\* The caller takes as many threads as it has counted, which are there.
LEMMA DrainHStep ==
    ASSUME IInv, HInv, NEW c \in Callers, Drain(c)
    PROVE  HInv'
<1> DEFINE n == num_to_handshake[c]
           m == Len(handshake_threads)
           row == {c} \X (1..n)
<1>1. /\ pc[c] = "draining" /\ pc' = [pc EXCEPT ![c] = "visiting"]
      /\ handshake_lock' = c
      /\ todo' = [todo EXCEPT ![c] = SubSeq(handshake_threads, 1, n)]
      /\ handshake_threads' = SubSeq(handshake_threads, n + 1, m)
      /\ UNCHANGED <<statusVars, pairVars, is_about_to_terminate, tableVars, inner, monitor,
                     soft_handshake_left, num_to_handshake, calls>>
  BY DEF Drain, Goto, Remaining
<1>2. c \in Threads /\ Callers \subseteq Threads
  BY HandshakeConstants
<1>3. n \in Nat /\ handshake_threads \in Seq(Threads) /\ m \in Nat
  BY DEF HInv, HandshakeTypes, ListIsOwed
<1>4. \A u \in Threads : pc'[u] = IF u = c THEN "visiting" ELSE pc[u]
  BY <1>1 DEF IInv, StatusTypes
<1>5. /\ IsFiniteSet(row) /\ Cardinality(row) = n
      /\ IsFiniteSet(Owed) /\ Cardinality(Owed) = m
  <2>1. IsFiniteSet(row) /\ Cardinality(row) = n
    <3> HIDE DEF n
    <3> QED BY <1>3, RowSize
  <2> QED BY <2>1 DEF HInv, ListIsOwed
<1>6. /\ IsFiniteSet(Owed') /\ Cardinality(Owed') = m - n
      /\ n <= m
  <2>1. row \subseteq Owed
    BY <1>1 DEF Owed
  <2>2. Owed' = Owed \ row
    BY <1>1, <1>2, <1>4 DEF Owed
  <2>3. Owed \cap row = row
    BY <2>1
  <2> HIDE DEF row, n, m
  <2>4. Cardinality(row) <= Cardinality(Owed)
    BY <1>5, <2>1, FS_Subset
  <2> QED BY <1>5, <2>2, <2>3, <2>4, FS_Difference
<1>7. /\ handshake_threads' \in Seq(Threads) /\ Len(handshake_threads') = m - n
      /\ DOMAIN handshake_threads' = 1..(m - n) /\ DOMAIN handshake_threads = 1..m
      /\ \A i \in 1..(m - n) : handshake_threads'[i] = handshake_threads[i + n]
      /\ \A i \in 1..m : handshake_threads[i] \in Threads
  <2> HIDE DEF n
  <2> QED BY <1>1, <1>3, <1>6
<1> DEFINE taken == SubSeq(handshake_threads, 1, n)
<1>8. /\ taken \in Seq(Threads) /\ DOMAIN taken = 1..n
      /\ \A i \in 1..n : taken[i] = handshake_threads[i]
  <2> HIDE DEF n
  <2> QED BY <1>1, <1>3, <1>6
<1>9. todo' = [todo EXCEPT ![c] = taken]
  BY <1>1
<1> HIDE DEF taken, n, m
<1>10. /\ todo' \in [Callers -> Seq(Threads)]
       /\ \A d \in Callers : todo'[d] = IF d = c THEN taken ELSE todo[d]
  BY <1>8, <1>9 DEF HInv, HandshakeTypes
<1>11. HandshakeTypes'
  BY <1>1, <1>10 DEF HInv, HandshakeTypes, statusVars, pairVars, tableVars
<1>12. ListIsOwed'
  BY <1>6, <1>7 DEF ListIsOwed
<1>13. OnlyStarted'
  <2>1. /\ \A i \in 1..m : handshake_threads[i] \in Threads /\ pc[handshake_threads[i]] # "unborn"
        /\ \A i \in DOMAIN threads : threads[i] \in Threads /\ pc[threads[i]] # "unborn"
        /\ \A d \in Callers : \A i \in DOMAIN todo[d] :
              todo[d][i] \in Threads /\ pc[todo[d][i]] # "unborn"
    <3>1. /\ \A i \in DOMAIN threads : pc[threads[i]] # "unborn"
          /\ \A i \in DOMAIN handshake_threads : pc[handshake_threads[i]] # "unborn"
          /\ \A d \in Callers : \A i \in DOMAIN todo[d] : pc[todo[d][i]] # "unborn"
      BY DEF HInv, OnlyStarted, Started
    <3>2. threads \in Seq(Threads) /\ \A d \in Callers : todo[d] \in Seq(Threads)
      BY DEF IInv, TableIsSound, HInv, HandshakeTypes
    <3>3. /\ \A i \in DOMAIN threads : threads[i] \in Threads
          /\ \A d \in Callers : \A i \in DOMAIN todo[d] : todo[d][i] \in Threads
      BY <3>2
    <3> QED BY <1>7, <3>1, <3>3
  <2>2. threads' = threads
    BY <1>1 DEF tableVars
  <2>3. ASSUME NEW i \in 1..(m - n) PROVE pc'[handshake_threads'[i]] # "unborn"
    <3>1. i + n \in 1..m
      BY <1>3, <1>6
    <3> QED BY <1>4, <1>7, <2>1, <3>1
  <2>4. ASSUME NEW i \in 1..n PROVE pc'[taken[i]] # "unborn"
    <3>1. i \in 1..m
      BY <1>3, <1>6
    <3> QED BY <1>4, <1>8, <2>1, <3>1
  <2>5. Started(threads)' /\ Started(handshake_threads)'
    BY <1>4, <1>7, <2>1, <2>2, <2>3 DEF Started
  <2>6. ASSUME NEW d \in Callers PROVE Started(todo[d])'
    <3>1. CASE d = c
      BY <1>8, <1>10, <2>4, <3>1 DEF Started
    <3>2. CASE d # c
      BY <1>4, <1>10, <2>1, <3>2 DEF Started
    <3> QED BY <3>1, <3>2
  <2> QED BY <2>5, <2>6 DEF OnlyStarted
<1>14. \A u \in Threads : SignalIsSound(u)'
  <2>1. /\ exec_status[c] # "New" /\ UNCHANGED <<exec_status, unacked, soft_handshake_left>>
    BY <1>1, <1>2 DEF HInv, SignalIsSound, statusVars
  <2>2. pc[c] \in Managed
    BY <1>1 DEF Managed, InHandshake
  <2> QED BY <1>1, <1>2, <2>1, <2>2, SignalKept
<1> QED BY <1>11, <1>12, <1>13, <1>14 DEF HInv

\* A thread in managed code is counted as it is signalled.
LEMMA VisitHStep ==
    ASSUME IInv, HInv, NEW c \in Callers, Visit(c)
    PROVE  HInv'
<1> DEFINE t == Head(todo[c])
<1>1. /\ pc[c] = "visiting" /\ pc' = [pc EXCEPT ![c] = "waiting"] /\ todo[c] # <<>>
      /\ todo' = [todo EXCEPT ![c] = Tail(@)]
      /\ Signal(c, t) \/ PassOver(c, t)
      /\ UNCHANGED <<pairVars, is_about_to_terminate, tableVars, inner, handshake_lock,
                     handshake_threads, num_to_handshake, calls>>
  BY DEF Visit, Goto
<1>2. c \in Threads /\ Callers \subseteq Threads
  BY HandshakeConstants
<1>3. todo[c] \in Seq(Threads) /\ 1 \in DOMAIN todo[c]
  BY <1>1 DEF HInv, HandshakeTypes
<1>4. /\ Tail(todo[c]) \in Seq(Threads)
      /\ \A i \in DOMAIN Tail(todo[c]) :
            i + 1 \in DOMAIN todo[c] /\ Tail(todo[c])[i] = todo[c][i + 1]
      /\ t \in Threads /\ t = todo[c][1]
  BY <1>1, <1>3
<1>5. pc[t] # "unborn" /\ exec_status[t] # "New"
  BY <1>3, <1>4 DEF HInv, OnlyStarted, Started, SignalIsSound
<1>6. \A u \in Threads : pc'[u] = IF u = c THEN "waiting" ELSE pc[u]
  BY <1>1 DEF IInv, StatusTypes
<1> HIDE DEF t
<1>7. /\ todo' \in [Callers -> Seq(Threads)]
      /\ \A d \in Callers : todo'[d] = IF d = c THEN Tail(todo[c]) ELSE todo[d]
  BY <1>1, <1>4 DEF HInv, HandshakeTypes
<1>8. /\ take_yieldpoint' \in [Threads -> BOOLEAN]
      /\ monitor' \in [Threads -> Callers \cup {None}]
      /\ soft_handshake_left' \in Nat /\ soft_handshake_left' >= soft_handshake_left
      /\ unacked' \in [Callers -> SUBSET Threads]
  <2>1. CASE Signal(c, t)
    <3>1. /\ soft_handshake_left' \in {soft_handshake_left, soft_handshake_left + 1}
          /\ take_yieldpoint' \in {take_yieldpoint, [take_yieldpoint EXCEPT ![t] = TRUE]}
          /\ unacked' = [unacked EXCEPT ![c] = @ \cup {t}] /\ monitor' = monitor
      BY <2>1 DEF Signal
    <3>2. soft_handshake_left \in Nat /\ unacked \in [Callers -> SUBSET Threads]
      BY DEF HInv, HandshakeTypes
    <3>3. soft_handshake_left' \in Nat /\ soft_handshake_left' >= soft_handshake_left
      BY <3>1, <3>2
    <3>4. unacked' \in [Callers -> SUBSET Threads]
      BY <1>4, <3>1, <3>2
    <3> QED BY <3>1, <3>3, <3>4 DEF HInv, HandshakeTypes
  <2>2. CASE PassOver(c, t)
    BY <1>4, <2>2 DEF PassOver, statusVars, HInv, HandshakeTypes
  <2> QED BY <1>1, <2>1, <2>2
<1>9. HandshakeTypes'
  BY <1>1, <1>7, <1>8 DEF HInv, HandshakeTypes, pairVars, tableVars
<1>10. ListIsOwed'
  BY <1>1, <1>2, <1>6, ListKept DEF HInv
<1>11. OnlyStarted'
  <2>1. /\ \A i \in DOMAIN handshake_threads :
              handshake_threads[i] \in Threads /\ pc[handshake_threads[i]] # "unborn"
        /\ \A i \in DOMAIN threads : threads[i] \in Threads /\ pc[threads[i]] # "unborn"
        /\ \A d \in Callers : \A i \in DOMAIN todo[d] :
              todo[d][i] \in Threads /\ pc[todo[d][i]] # "unborn"
    <3>1. /\ Started(handshake_threads) /\ Started(threads)
          /\ \A d \in Callers : Started(todo[d])
      BY DEF HInv, OnlyStarted
    <3>2. handshake_threads \in Seq(Threads) /\ threads \in Seq(Threads)
      BY DEF IInv, TableIsSound, HInv, HandshakeTypes, ListIsOwed
    <3>3. todo \in [Callers -> Seq(Threads)]
      BY DEF HInv, HandshakeTypes
    <3> QED BY <3>1, <3>2, <3>3 DEF Started
  <2>2. threads' = threads /\ handshake_threads' = handshake_threads
    BY <1>1 DEF tableVars
  <2>3. ASSUME NEW d \in Callers PROVE Started(todo[d])'
    <3>1. \A u \in Threads : pc[u] # "unborn" => pc'[u] # "unborn"
      BY <1>6
    <3>2. CASE d = c
      <4>1. ASSUME NEW i \in DOMAIN Tail(todo[c])
            PROVE  Tail(todo[c])[i] \in Threads /\ pc[Tail(todo[c])[i]] # "unborn"
        BY <1>4, <2>1
      <4>2. todo'[d] = Tail(todo[c])
        BY <1>7, <3>2
      <4> QED BY <3>1, <4>1, <4>2 DEF Started
    <3>3. CASE d # c
      <4>1. todo'[d] = todo[d]
        BY <1>7, <3>3
      <4> QED BY <2>1, <3>1, <4>1 DEF Started
    <3> QED BY <3>2, <3>3
  <2>4. \A u \in Threads : pc[u] # "unborn" => pc'[u] # "unborn"
    BY <1>6
  <2>5. Started(threads)' /\ Started(handshake_threads)'
    BY <2>1, <2>2, <2>4 DEF Started
  <2> QED BY <2>3, <2>5 DEF OnlyStarted
<1>12. ASSUME NEW u \in Threads PROVE SignalIsSound(u)'
  <2>1. /\ exec_status[u] \in {"New", "InManaged", "InNative", "InManagedToBlock",
                               "BlockedInNative"}
        /\ SignalIsSound(u) /\ StatusIsSound(u)
    BY DEF HInv, IInv, StatusTypes
  <2>2. \/ exec_status'[u] = exec_status[u]
        \/ u = t /\ exec_status'[u] = BlockedStatus(exec_status[u])
    <3>1. \/ exec_status' = exec_status
          \/ exec_status' = [exec_status EXCEPT ![t] = BlockedStatus(exec_status[t])]
      BY <1>1 DEF Signal, PassOver, statusVars
    <3>2. t \in Threads /\ DOMAIN exec_status = Threads
      BY <1>4 DEF IInv, StatusTypes
    <3> QED BY <3>1, <3>2
  <2>3. /\ exec_status[u] # "New" => exec_status'[u] # "New"
        /\ exec_status[u] \in {"InManagedToBlock", "BlockedInNative"} =>
              exec_status'[u] \in {"InManagedToBlock", "BlockedInNative"}
    BY <2>1, <2>2, BlockedStatusFacts DEF BlockedStatus
  <2>4. /\ pc'[u] \in Managed <=> pc[u] \in Managed
        /\ pc'[u] # "unborn" => pc[u] # "unborn"
        /\ \A d \in Callers : pc[d] \in {"waiting", "asleep"} => pc'[d] = pc[d]
    BY <1>1, <1>2, <1>6 DEF Managed, InHandshake
  <2>5. ASSUME NEW d \in Callers, u \in unacked'[d]
        PROVE  /\ exec_status'[u] \in {"InManagedToBlock", "BlockedInNative"}
               /\ pc'[u] \in Managed =>
                    pc'[d] \in {"waiting", "asleep"} /\ soft_handshake_left' > 0
    <3>1. CASE u \in unacked[d]
      <4>1. soft_handshake_left > 0 => soft_handshake_left' > 0
        BY <1>8 DEF HInv, HandshakeTypes
      <4> QED BY <2>1, <2>3, <2>4, <3>1, <4>1 DEF SignalIsSound
    <3>2. CASE u \notin unacked[d]
      <4>1. Signal(c, t) /\ d = c /\ u = t
        <5>1. \/ Signal(c, t) /\ unacked' = [unacked EXCEPT ![c] = @ \cup {t}]
              \/ unacked' = unacked
          BY <1>1 DEF Signal, PassOver, statusVars
        <5>2. DOMAIN unacked = Callers
          BY DEF HInv, HandshakeTypes
        <5> QED BY <2>5, <3>2, <5>1, <5>2
      <4>2. exec_status'[t] = BlockedStatus(exec_status[t])
        BY <1>4, <4>1 DEF Signal, IInv, StatusTypes
      <4>3. exec_status'[t] \in {"InManagedToBlock", "BlockedInNative"}
        BY <1>5, <2>1, <4>1, <4>2 DEF BlockedStatus
      <4>4. ASSUME pc'[u] \in Managed PROVE soft_handshake_left' > 0
        <5>1. exec_status[t] \in {"InManaged", "InManagedToBlock"} /\ pc[t] # "blocked"
          BY <2>1, <2>4, <4>1, <4>4 DEF StatusIsSound, Managed, InHandshake, InPair
        <5>2. IsInManaged(t, BlockedStatus(exec_status[t]))
          BY <5>1, BlockedStatusFacts DEF IsInManaged
        <5> QED BY <4>1, <5>2 DEF Signal, HInv, HandshakeTypes
      <4>5. pc'[c] = "waiting"
        BY <1>2, <1>6
      <4> QED BY <4>1, <4>3, <4>4, <4>5
    <3> QED BY <3>1, <3>2
  <2> QED BY <2>1, <2>3, <2>4, <2>5 DEF SignalIsSound
<1> QED BY <1>9, <1>10, <1>11, <1>12 DEF HInv

-----------------------------------------------------------------------------

LEMMA InitHInv == Init => HInv
<1> SUFFICES ASSUME Init PROVE HInv
  OBVIOUS
<1>1. Main \in Threads /\ MaxCalls \in Nat
  BY HandshakeConstants
<1>2. HandshakeTypes
  BY <1>1 DEF Init, HandshakeTypes
<1>3. ListIsOwed
  <2>1. Owed = {}
    BY HandshakeConstants DEF Init, Owed
  <2> QED BY <2>1, FS_EmptySet DEF Init, ListIsOwed
<1>4. OnlyStarted
  BY <1>1 DEF Init, OnlyStarted, Started
<1>5. \A t \in Threads : SignalIsSound(t)
  BY DEF Init, SignalIsSound
<1> QED BY <1>2, <1>3, <1>4, <1>5 DEF HInv

LEMMA ThreadKeepsHInv ==
    ASSUME IInv, HInv, NEW t \in Threads, ThreadNext(t)
    PROVE  HInv'
<1>1. /\ "run" \in Managed /\ "parking" \in Managed
      /\ "native" \in Native /\ "adding" \in Native
  BY DEF Managed, Native
<1>2. CASE EnterNative(t, "run", "native") \/ EnterNative(t, "parking", "adding")
  BY <1>1, <1>2, EnterNativeHStep
<1>3. CASE LeaveNative(t) \/ Yieldpoint(t) \/ Wake(t) \/ Start(t)
  BY <1>3, LeaveNativeHStep, StartHStep
<1>4. CASE Pair(t) \/ \E u \in Threads : BeginPair(t, u) \/ Unblock(t, u)
  BY <1>4, PairMoves, RequestBlockHStep, UnblockHStep DEF Pair
<1>5. CASE BeginAdd(t) \/ AddThread(t) \/ Terminate(t) \/ AddAboutToTerminateCurrent(t)
  BY <1>5, BeginAddHStep, AddThreadHStep, TerminateHStep
<1> QED BY <1>2, <1>3, <1>4, <1>5 DEF ThreadNext

LEMMA HandshakeKeepsHInv ==
    ASSUME IInv, HInv, NEW c \in Callers, Call(c) \/ Handshake(c)
    PROVE  HInv'
<1>1. CASE Call(c) \/ LockTable(c) \/ GoOn(c) \/ Return(c) \/ Reap(c)
  BY <1>1, HandshakeMoves
<1>2. CASE Snapshot(c) \/ Drain(c) \/ Visit(c)
  BY <1>2, SnapshotHStep, DrainHStep, VisitHStep
<1>3. CASE Sleep(c)
  <2>1. "waiting" \in Managed /\ "asleep" \in Native /\ c \in Threads
    BY HandshakeConstants DEF Managed, InHandshake, Native
  <2> QED BY <1>3, <2>1, EnterNativeHStep DEF Sleep
<1> QED BY <1>1, <1>2, <1>3 DEF Handshake

LEMMA NextHInv == IInv /\ HInv /\ [Next]_vars => HInv'
<1> SUFFICES ASSUME IInv, HInv, [Next]_vars PROVE HInv'
  OBVIOUS
<1>1. CASE Next
  BY <1>1, ThreadKeepsHInv, HandshakeKeepsHInv DEF Next
<1>2. CASE UNCHANGED vars
  <2>1. UNCHANGED <<pc, statusVars, pairVars, is_about_to_terminate, tableVars, inner,
                    handshakeVars>>
    BY <1>2 DEF vars
  <2>2. HandshakeTypes' /\ \A u \in Threads : SignalIsSound(u)'
    BY <2>1 DEF HInv, HandshakeTypes, SignalIsSound, pairVars, statusVars, tableVars, handshakeVars
  <2>3. ListIsOwed'
    BY <2>1, ListKept DEF HInv, handshakeVars
  <2>4. OnlyStarted'
    BY <2>1, StartedKept DEF tableVars, handshakeVars
  <2> QED BY <2>2, <2>3, <2>4 DEF HInv
<1> QED BY <1>1, <1>2

\* The second invariant: the list of the handshakes covers what the callers have
\* counted, and a signalled thread is held back or counted.
THEOREM HandshakeInvariance == Spec => []HInv
<1>1. Init => IInv /\ HInv
  BY InitIInv, InitHInv
<1>2. (IInv /\ HInv) /\ [Next]_vars => (IInv /\ HInv)'
  BY NextIInv, NextHInv
<1> QED BY <1>1, <1>2, PTL DEF Spec

\* Every variable stays in its type; in particular a drain never runs past the
\* end of the shared list.
THEOREM TypeCorrect == Spec => []TypeOK
<1>1. IInv /\ HInv => TypeOK
  <2> SUFFICES ASSUME IInv, HInv PROVE TypeOK
    OBVIOUS
  <2>1. threads \in Seq(Threads \cup {None}) /\ free_thread_indices \in Seq(DOMAIN threads)
    BY DEF IInv, TableIsSound
  <2>2. /\ pc \in [Threads -> Managed \cup Native
                            \cup {"unborn", "blocked", "terminating", "dead"}]
        /\ exec_status \in [Threads -> {"New", "InManaged", "InNative", "InManagedToBlock",
                                        "BlockedInNative", "Terminated"}]
        /\ block_request \in [Threads -> BOOLEAN] /\ blocked \in [Threads -> BOOLEAN]
    BY DEF IInv, StatusTypes
  <2>3. about_to_terminate \in Seq(Threads) /\ handshake_threads \in Seq(Threads)
    BY DEF IInv, TableIsSound, HInv, ListIsOwed
  <2> QED BY <2>1, <2>2, <2>3 DEF TypeOK, HInv, HandshakeTypes
<1> QED BY <1>1, Invariance, HandshakeInvariance, PTL

\* No thread runs managed code after soft_handshake went on without it having
\* looked at the signal.
THEOREM NoneRunsUnacknowledgedThm == Spec => []NoneRunsUnacknowledged
<1>1. HInv => NoneRunsUnacknowledged
  <2> SUFFICES ASSUME HInv, NEW c \in Callers, NEW t \in unacked[c], pc[t] \in Managed
               PROVE  pc[c] \in {"waiting", "asleep"} /\ soft_handshake_left > 0
    BY DEF NoneRunsUnacknowledged
  <2>1. t \in Threads
    BY DEF HInv, HandshakeTypes
  <2> QED BY <2>1 DEF HInv, SignalIsSound
<1> QED BY <1>1, HandshakeInvariance, PTL
=============================================================================
