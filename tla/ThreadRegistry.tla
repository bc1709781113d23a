--------------------------- MODULE ThreadRegistry ---------------------------
(***************************************************************************)
(* What checkThreadsLife (events.cpp) promises the MI client about the     *)
(* debuggee's threads, without saying how the thread table is kept.        *)
(***************************************************************************)
EXTENDS Naturals, FiniteSets

CONSTANTS
    Ids,          \* thread index ids; a process never uses one twice
    THREADS_MAX   \* size of the thread table

VARIABLES
    alive, dead,  \* the debuggee's threads, present and past
    client        \* the threads the client has been told of

Init == (\E t \in Ids : alive = {t}) /\ dead = {} /\ client = {}

Birth(t) == /\ alive # {} /\ t \notin alive \cup dead
            /\ alive' = alive \cup {t}
            /\ UNCHANGED <<dead, client>>

Death(t) == /\ t \in alive
            /\ alive' = alive \ {t} /\ dead' = dead \cup {t}
            /\ client' = client

\* =thread-created: a thread that has been seen and is not yet known
Created(t) == /\ t \in (alive \cup dead) \ client
              /\ Cardinality(client) < THREADS_MAX
              /\ client' = client \cup {t}
              /\ UNCHANGED <<alive, dead>>

\* =thread-exited: a known thread, and it has finished
Exited(t) == /\ t \in client \cap dead
             /\ client' = client \ {t}
             /\ UNCHANGED <<alive, dead>>

Next == \E t \in Ids : Birth(t) \/ Death(t) \/ Created(t) \/ Exited(t)

Spec == Init /\ [][Next]_<<alive, dead, client>>
=============================================================================
