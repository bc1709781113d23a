---------------------------- MODULE ThreadTable ----------------------------
(***************************************************************************)
(* The thread table of lldbmi2 (STATE.threadids) and checkThreadsLife      *)
(* (events.cpp), the procedure that compares it with the debuggee's        *)
(* threads and prints =thread-created and =thread-exited.  The listener    *)
(* thread calls it on every stop and exit; the main thread calls it once,  *)
(* in -exec-run and -target-attach, right after it has started the         *)
(* listener.  Nothing keeps the two calls apart, so the procedure is       *)
(* modelled loop turn by loop turn, for a set of callers.                  *)
(***************************************************************************)
EXTENDS Naturals, FiniteSets

CONSTANTS
    Callers,      \* the threads of lldbmi2 that call checkThreadsLife
    Launcher,     \* the one among them, if any, that calls it only once
    Ids,          \* thread index ids of one process; positive, never reused
    THREADS_MAX   \* size of the table

ASSUME TableAssumption ==
    /\ Ids \subseteq Nat \ {0} /\ IsFiniteSet(Ids)
    /\ THREADS_MAX \in Nat \ {0}

Free == 0
Slots == 1 .. THREADS_MAX

VARIABLES
    alive, dead,   \* the debuggee's threads, present and past
    threadids,     \* the table
    client,        \* the threads the client has been told of
    pc,            \* where a caller is in checkThreadsLife
    seen,          \* the threads that were there when the call began
    todo,          \* those the first loop has still to look at
    cur,           \* the new thread that is being added
    stillalive,    \* the slots marked alive
    at             \* the slot the last loop looks at next

debuggee == <<alive, dead>>
locals == <<pc, seen, todo, cur, stillalive, at>>
vars == <<debuggee, threadids, client, locals>>

Known == {threadids[i] : i \in Slots} \ {Free}

TypeOK ==
    /\ alive \subseteq Ids /\ dead \subseteq Ids /\ client \subseteq Ids
    /\ threadids \in [Slots -> Ids \cup {Free}]
    /\ pc \in [Callers -> {"out", "scan", "insert", "sweep", "over"}]
    /\ seen \in [Callers -> SUBSET Ids] /\ todo \in [Callers -> SUBSET Ids]
    /\ cur \in [Callers -> Ids \cup {Free}]
    /\ stillalive \in [Callers -> SUBSET Slots]
    /\ at \in [Callers -> Slots]

Init ==
    /\ \E t \in Ids : alive = {t}    \* a process is launched with one thread
    /\ dead = {} /\ client = {}
    /\ threadids = [i \in Slots |-> Free]
    /\ pc = [c \in Callers |-> "out"]
    /\ seen = [c \in Callers |-> {}] /\ todo = [c \in Callers |-> {}]
    /\ cur = [c \in Callers |-> Free]
    /\ stillalive = [c \in Callers |-> {}]
    /\ at = [c \in Callers |-> 1]

-----------------------------------------------------------------------------
\* The debuggee starts and ends threads, also while it is being looked at: the
\* main thread's call follows the launch of a process that runs.
Birth(t) ==
    /\ alive # {}                  \* a thread is created by a thread
    /\ t \in Ids \ (alive \cup dead)
    /\ alive' = alive \cup {t}
    /\ UNCHANGED <<dead, threadids, client, locals>>

Death(t) ==
    /\ t \in alive
    /\ alive' = alive \ {t} /\ dead' = dead \cup {t}
    /\ UNCHANGED <<threadids, client, locals>>

First(P) == CHOOSE i \in P : \A j \in P : i <= j

SlotsOf(x) == {i \in Slots : threadids[i] = x}

\* The call begins: the number of threads is read, no slot is marked.
Enter(c) ==
    /\ pc[c] = "out"
    /\ pc' = [pc EXCEPT ![c] = "scan"]
    /\ seen' = [seen EXCEPT ![c] = alive] /\ todo' = [todo EXCEPT ![c] = alive]
    /\ stillalive' = [stillalive EXCEPT ![c] = {}]
    /\ UNCHANGED <<debuggee, threadids, client, cur, at>>

\* One turn of the first loop: a thread that is gone is skipped, one that is
\* in the table is marked at the first slot that holds it, another is new.
\* The code takes the threads from LLDB's list by position.  LLDB renews the
\* list when the process stops, and the listener has isrunning keep a stopped
\* process from going on until its call is over: a position is a thread.  Only
\* into the call of -exec-run a stop may fall; that it moves the positions then
\* is left out.
Lookup(c, t) ==
    /\ pc[c] = "scan" /\ t \in todo[c]
    /\ todo' = [todo EXCEPT ![c] = @ \ {t}]
    /\ \/ t \notin alive /\ UNCHANGED <<pc, cur, stillalive>>
       \/ /\ t \in alive /\ SlotsOf(t) # {}
          /\ stillalive' = [stillalive EXCEPT ![c] = @ \cup {First(SlotsOf(t))}]
          /\ UNCHANGED <<pc, cur>>
       \/ /\ t \in alive /\ SlotsOf(t) = {}
          /\ pc' = [pc EXCEPT ![c] = "insert"]
          /\ cur' = [cur EXCEPT ![c] = t]
          /\ UNCHANGED stillalive
    /\ UNCHANGED <<debuggee, threadids, client, seen, at>>

\* Mutant: the slot of a new thread is not marked alive.
InsertUnmarked(c) ==
    /\ pc[c] = "insert"
    /\ pc' = [pc EXCEPT ![c] = "scan"]
    /\ IF SlotsOf(Free) # {}
       THEN /\ threadids' = [threadids EXCEPT ![First(SlotsOf(Free))] = cur[c]]
            /\ client' = client \cup {cur[c]}
       ELSE UNCHANGED <<threadids, client>>
    /\ UNCHANGED <<debuggee, seen, todo, cur, stillalive, at>>

\* Mutant: the search for a free slot stops one slot short.
InsertShort(c) ==
    /\ pc[c] = "insert"
    /\ pc' = [pc EXCEPT ![c] = "scan"]
    /\ IF SlotsOf(Free) \ {THREADS_MAX} # {}
       THEN LET i == First(SlotsOf(Free) \ {THREADS_MAX})
            IN  /\ threadids' = [threadids EXCEPT ![i] = cur[c]]
                /\ stillalive' = [stillalive EXCEPT ![c] = @ \cup {i}]
                /\ client' = client \cup {cur[c]}
       ELSE UNCHANGED <<threadids, stillalive, client>>
    /\ UNCHANGED <<debuggee, seen, todo, cur, at>>

\* The new thread takes the first free slot and is announced; with a full
\* table it is dropped (an error goes to the log).
Insert(c) ==
    /\ pc[c] = "insert"
    /\ pc' = [pc EXCEPT ![c] = "scan"]
    /\ \/ /\ SlotsOf(Free) # {}
          /\ LET i == First(SlotsOf(Free))
             IN  /\ threadids' = [threadids EXCEPT ![i] = cur[c]]
                 /\ stillalive' = [stillalive EXCEPT ![c] = @ \cup {i}]
          /\ client' = client \cup {cur[c]}
       \/ SlotsOf(Free) = {} /\ UNCHANGED <<threadids, stillalive, client>>
    /\ UNCHANGED <<debuggee, seen, todo, cur, at>>

BeginSweep(c) ==
    /\ pc[c] = "scan" /\ todo[c] = {}
    /\ pc' = [pc EXCEPT ![c] = "sweep"]
    /\ at' = [at EXCEPT ![c] = 1]
    /\ UNCHANGED <<debuggee, threadids, client, seen, todo, cur, stillalive>>

\* Mutant: the slot of a finished thread is not freed.
SweepKeepsSlot(c) ==
    /\ pc[c] = "sweep"
    /\ client' = IF at[c] \in stillalive[c] THEN client
                                          ELSE client \ {threadids[at[c]]}
    /\ IF at[c] = THREADS_MAX
       THEN pc' = [pc EXCEPT ![c] = "out"] /\ UNCHANGED at
       ELSE at' = [at EXCEPT ![c] = @ + 1] /\ UNCHANGED pc
    /\ UNCHANGED <<debuggee, threadids, seen, todo, cur, stillalive>>

\* One turn of the last loop: a slot that is in use and not marked is
\* announced as exited and freed.  The call returns after the last slot.
Sweep(c) ==
    /\ pc[c] = "sweep"
    /\ IF threadids[at[c]] # Free /\ at[c] \notin stillalive[c]
       THEN /\ client' = client \ {threadids[at[c]]}
            /\ threadids' = [threadids EXCEPT ![at[c]] = Free]
       ELSE UNCHANGED <<client, threadids>>
    /\ IF at[c] = THREADS_MAX
       THEN /\ pc' = [pc EXCEPT ![c] = IF c = Launcher THEN "over" ELSE "out"]
            /\ UNCHANGED at
       ELSE at' = [at EXCEPT ![c] = @ + 1] /\ UNCHANGED pc
    /\ UNCHANGED <<debuggee, seen, todo, cur, stillalive>>

CheckThreadsLife(c) ==
    \/ Enter(c) \/ (\E t \in Ids : Lookup(c, t)) \/ Insert(c)
    \/ BeginSweep(c) \/ Sweep(c)

Next ==
    \/ \E c \in Callers : CheckThreadsLife(c)
    \/ \E t \in Ids : Birth(t) \/ Death(t)

Spec == Init /\ [][Next]_vars

\* The debuggee keeps stopping, so checkThreadsLife is called again and again,
\* and every call goes on to its end.
FairSpec == Spec /\ \A c \in Callers : WF_vars(CheckThreadsLife(c))

-----------------------------------------------------------------------------
\* One call at a time: what the code has once -exec-run is over.
Serial == \A c, d \in Callers : c = d

\* No two slots hold the same thread, so marking the first slot of a thread
\* marks the only one.
NoDuplicate ==
    \A i, j \in Slots : threadids[i] = threadids[j] /\ threadids[i] # Free => i = j

\* The table is exactly what the client has been told.
ClientAgrees == client = Known

\* =thread-created is never printed for a thread the client already knows.
CreatedOnce == \A c \in Callers : pc[c] = "insert" => cur[c] \notin client

\* "find finished threads" (checkThreadsLife's last loop): =thread-exited is
\* printed for finished threads only.
ExitedMeansFinished == [][client \ client' \subseteq dead]_vars

\* A call leaves out a live thread it saw only when the table was full; the
\* slots of finished threads count, since they are freed after the insertions.
MissedOnlyIfFull ==
    \A c \in Callers :
        pc[c] = "sweep" /\ at[c] = 1 /\ SlotsOf(Free) # {}
            => seen[c] \cap alive \subseteq client

\* When threads no longer come and go and all fit into the table, the client
\* ends up with exactly the live ones.
ClientConverges ==
    <>[](Cardinality(alive) <= THREADS_MAX => client = alive)

\* The table implements the registry.
Registry == INSTANCE ThreadRegistry
ImplementsRegistry == Registry!Spec
=============================================================================
