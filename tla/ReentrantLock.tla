--------------------------- MODULE ReentrantLock ---------------------------
(***************************************************************************)
(* What a reentrant mutex with a condition variable promises to those who  *)
(* use it, without a holder, a count, a mutex or a thread system: a thread *)
(* gets a guard only while nobody else has one, except for those who gave  *)
(* the lock up to wait; and whoever waited has, on coming back, the guards *)
(* it had, and comes back only when it was woken and the lock is free.     *)
(***************************************************************************)
EXTENDS Integers

CONSTANT Threads

VARIABLES
    held,   \* how many guards each thread has
    away,   \* threads that gave the lock up and keep their guards
    asleep  \* threads among them that wait to be notified

rvars == <<held, away, asleep>>

RInit ==
    /\ held = [t \in Threads |-> 0]
    /\ away = {}
    /\ asleep = {}

\* Nobody but t is between locking and unlocking.
FreeFor(t) == \A u \in Threads \ {t} : held[u] = 0 \/ u \in away

Inside(t) == held[t] > 0 /\ t \notin away

Lock(t) ==
    /\ t \notin away /\ FreeFor(t)
    /\ held' = [held EXCEPT ![t] = @ + 1]
    /\ UNCHANGED <<away, asleep>>

Unlock(t) ==
    /\ Inside(t)
    /\ held' = [held EXCEPT ![t] = @ - 1]
    /\ UNCHANGED <<away, asleep>>

\* With all its guards at once.
GiveUp(t) ==
    /\ Inside(t)
    /\ away' = away \cup {t}
    /\ asleep' \in {asleep, asleep \cup {t}}
    /\ UNCHANGED held

\* A notification, or the end of a timeout.
Wake(S) ==
    /\ asleep' = asleep \ S
    /\ UNCHANGED <<held, away>>

ComeBack(t) ==
    /\ t \in away \ asleep /\ FreeFor(t)
    /\ away' = away \ {t}
    /\ UNCHANGED <<held, asleep>>

RNext ==
    \/ \E t \in Threads : Lock(t) \/ Unlock(t) \/ GiveUp(t) \/ ComeBack(t)
    \/ \E S \in SUBSET Threads : Wake(S)

RSpec == RInit /\ [][RNext]_rvars
=============================================================================
