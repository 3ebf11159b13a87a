---------------------------- MODULE WorldControl ----------------------------
(***************************************************************************)
(* What stopping the world promises to the collector, without locks, flags *)
(* or condition variables.  Threads run managed code, are held by the      *)
(* collector, are gone, or are none of these (native code).  A held thread *)
(* does not run until the collector resumes the world, and the collector   *)
(* says that the world is stopped only when each thread it knew of is held *)
(* or gone.                                                                *)
(***************************************************************************)
CONSTANT Threads

VARIABLES
    phase,    \* what the collector is doing
    running,  \* threads in managed code
    held,     \* threads that wait for the collector
    gone,     \* threads that will never run again
    roster,   \* threads the collector knows of
    visited   \* threads handed to the collector while the world is stopped

wvars == <<phase, running, held, gone, roster, visited>>

WInit ==
    /\ phase = "running"
    /\ running \in SUBSET Threads
    /\ roster \in SUBSET Threads
    /\ held = {} /\ gone = {} /\ visited = {}

\* A thread enters managed code: from native code, or released by the collector.
Enter(t) ==
    /\ t \notin held \cup gone
    /\ running' = running \cup {t}
    /\ UNCHANGED <<phase, held, gone, roster, visited>>

\* A thread leaves managed code for native code.
Leave(t) ==
    /\ running' = running \ {t}
    /\ UNCHANGED <<phase, held, gone, roster, visited>>

\* A thread stops for the collector, or is caught outside managed code.
Hold(t) ==
    /\ t \notin gone
    /\ held' = held \cup {t}
    /\ running' = running \ {t}
    /\ UNCHANGED <<phase, gone, roster, visited>>

Die(t) ==
    /\ t \in running
    /\ gone' = gone \cup {t}
    /\ running' = running \ {t}
    /\ UNCHANGED <<phase, held, roster, visited>>

Stop ==
    /\ phase = "running"
    /\ phase' = "stopping"
    /\ UNCHANGED <<running, held, gone, roster, visited>>

\* The collector learns of threads, and forgets none.
Survey(R) ==
    /\ phase # "stopped"
    /\ roster \subseteq R
    /\ roster' = R
    /\ UNCHANGED <<phase, running, held, gone, visited>>

Announce(V) ==
    /\ phase = "stopping"
    /\ roster \subseteq held \cup gone
    /\ roster \ gone \subseteq V
    /\ V \subseteq held
    /\ phase' = "stopped"
    /\ visited' = V
    /\ UNCHANGED <<running, held, gone, roster>>

Resume ==
    /\ phase = "stopped"
    /\ phase' = "resuming"
    /\ visited' = {}
    /\ UNCHANGED <<running, held, gone, roster>>

Release(t) ==
    /\ phase = "resuming"
    /\ held' = held \ {t}
    /\ UNCHANGED <<phase, running, gone, roster, visited>>

Resumed ==
    /\ phase = "resuming"
    /\ phase' = "running"
    /\ UNCHANGED <<running, held, gone, roster, visited>>

WNext ==
    \/ \E t \in Threads : Enter(t) \/ Leave(t) \/ Hold(t) \/ Die(t) \/ Release(t)
    \/ \E S \in SUBSET Threads : Survey(S) \/ Announce(S)
    \/ Stop \/ Resume \/ Resumed

WSpec == WInit /\ [][WNext]_wvars
=============================================================================
