------------------------- MODULE ThreadTable_proofs -------------------------
(***************************************************************************)
(* Proofs about ThreadTable, for every size of the table and every finite  *)
(* set of threads, as long as calls of checkThreadsLife do not overlap.    *)
(***************************************************************************)
EXTENDS ThreadTable, TLAPS, FiniteSetTheorems, WellFoundedInduction

-----------------------------------------------------------------------------
\* Threads have one life, and the program only knows threads that were born.
Lives ==
    /\ alive \cap dead = {}
    /\ Known \subseteq alive \cup dead
    /\ \A c \in Callers : seen[c] \cup todo[c] \subseteq alive \cup dead

\* The thread being added is new.
CurIsNew ==
    \A c \in Callers : pc[c] = "insert" =>
        cur[c] \in alive \cup dead /\ SlotsOf(cur[c]) = {}

\* The heart of the argument: every slot with a live thread is marked once
\* the first loop is over.
Marked ==
    \A c \in Callers : \A i \in Slots : threadids[i] \in alive =>
        /\ pc[c] \in {"scan", "insert"} =>
               threadids[i] \in todo[c] \/ i \in stillalive[c]
        /\ pc[c] = "sweep" => i \in stillalive[c]

\* As long as a slot is free, a live thread that was seen is in the table, is
\* being added or is still to be looked at.
Found ==
    \A c \in Callers : SlotsOf(Free) # {} =>
        \A t \in seen[c] \cap alive :
            /\ pc[c] = "scan" => t \in todo[c] \/ SlotsOf(t) # {}
            /\ pc[c] = "insert" => t \in todo[c] \/ SlotsOf(t) # {} \/ t = cur[c]
            /\ pc[c] = "sweep" /\ at[c] = 1 => SlotsOf(t) # {}

IInv == TypeOK /\ NoDuplicate /\ ClientAgrees /\ Lives /\ CurIsNew /\ Marked /\ Found

-----------------------------------------------------------------------------
\* A set of naturals that is not empty has a least element.
LEMMA NatMin ==
    ASSUME NEW P \in SUBSET Nat, P # {}
    PROVE  \E i \in P : \A j \in P : i <= j
<1> DEFINE Less == {p \in Nat \X Nat : p[1] < p[2]}
<1>1. IsWellFoundedOn(Less, Nat)
    BY NatLessThanWellFounded, Zenon DEF OpToRel
<1> HIDE DEF Less
<1>2. PICK i \in P : \A j \in P : <<j, i>> \notin Less
    BY <1>1, WFMin
<1>3. \A j \in P : ~(j < i)
    BY <1>2 DEF Less
<1> QED BY <1>3

\* The searches of checkThreadsLife return a slot of the kind they look for.
LEMMA FirstIsIn ==
    ASSUME NEW P \in SUBSET Slots, P # {}
    PROVE  First(P) \in P
<1>1. P \in SUBSET Nat
    BY TableAssumption DEF Slots
<1> QED BY <1>1, NatMin DEF First

\* A thread is in the table exactly when some slot holds it.
LEMMA KnownIsSlot ==
    ASSUME NEW t \in Ids
    PROVE  t \in Known <=> SlotsOf(t) # {}
    BY TableAssumption DEF Known, SlotsOf, Free

LEMMA InitIInv == Init => IInv
<1> SUFFICES ASSUME Init PROVE IInv
    OBVIOUS
<1>1. TypeOK
    BY TableAssumption DEF Init, TypeOK, Slots, Free
<1>2. Known = {}
    BY DEF Init, Known, Free
<1> QED BY <1>1, <1>2, TableAssumption
        DEF Init, IInv, NoDuplicate, ClientAgrees, Lives, CurIsNew, Marked, Found,
            SlotsOf, Free

-----------------------------------------------------------------------------
\* The debuggee's own steps.
LEMMA BirthIInv ==
    ASSUME IInv, NEW b \in Ids, Birth(b)
    PROVE  IInv'
<1>1. /\ TypeOK' /\ NoDuplicate' /\ ClientAgrees' /\ Lives' /\ CurIsNew'
    BY DEF IInv, TypeOK, NoDuplicate, ClientAgrees, Lives, CurIsNew, Known, SlotsOf,
           Birth, locals
<1>2. Marked'
    <2>1. \A i \in Slots : threadids[i] # b
        BY TableAssumption DEF IInv, Lives, Birth, Known, Free
    <2> QED BY <2>1 DEF IInv, Marked, Birth, locals
<1>3. Found'
    BY DEF IInv, Lives, Found, Birth, SlotsOf, locals
<1> QED BY <1>1, <1>2, <1>3 DEF IInv

LEMMA DeathIInv ==
    ASSUME IInv, NEW b \in Ids, Death(b)
    PROVE  IInv'
<1>1. /\ TypeOK' /\ NoDuplicate' /\ ClientAgrees' /\ Lives' /\ CurIsNew'
    BY DEF IInv, TypeOK, NoDuplicate, ClientAgrees, Lives, CurIsNew, Known, SlotsOf,
           Death, locals
<1>2. Marked' /\ Found'
    BY DEF IInv, Marked, Found, Death, SlotsOf, locals
<1> QED BY <1>1, <1>2 DEF IInv

-----------------------------------------------------------------------------
\* The steps of checkThreadsLife.  With one caller, Callers = {c}.
LEMMA EnterIInv ==
    ASSUME Serial, IInv, NEW c \in Callers, Enter(c)
    PROVE  IInv'
<1>1. \A d \in Callers : d = c
    BY DEF Serial
<1>2. /\ TypeOK' /\ NoDuplicate' /\ ClientAgrees' /\ Lives' /\ CurIsNew'
    BY <1>1 DEF IInv, TypeOK, NoDuplicate, ClientAgrees, Lives, CurIsNew, Known,
           SlotsOf, Enter, debuggee
<1>3. Marked' /\ Found'
    BY <1>1 DEF IInv, TypeOK, Marked, Found, Enter, SlotsOf, debuggee
<1> QED BY <1>2, <1>3 DEF IInv

LEMMA LookupIInv ==
    ASSUME Serial, IInv, NEW c \in Callers, NEW t \in Ids, Lookup(c, t)
    PROVE  IInv'
<1>1. \A d \in Callers : d = c
    BY DEF Serial
<1>2. SlotsOf(t) # {} => First(SlotsOf(t)) \in SlotsOf(t)
    BY FirstIsIn DEF SlotsOf
<1>3. TypeOK'
    BY <1>2 DEF IInv, TypeOK, Lookup, debuggee, SlotsOf
<1>4. NoDuplicate' /\ ClientAgrees' /\ Lives'
    BY <1>1 DEF IInv, TypeOK, NoDuplicate, ClientAgrees, Lives, Known, Lookup, debuggee
<1>5. CurIsNew'
    BY <1>1 DEF IInv, TypeOK, CurIsNew, SlotsOf, Lookup, debuggee
<1>6. Marked'
    <2>1. CASE t \notin alive
        BY <1>1, <2>1 DEF IInv, TypeOK, Marked, Lookup, debuggee
    <2>2. CASE t \in alive /\ SlotsOf(t) = {}
        BY <1>1, <2>2 DEF IInv, TypeOK, Marked, SlotsOf, Lookup, debuggee
    <2>3. CASE t \in alive /\ SlotsOf(t) # {}
        <3>1. \A i \in Slots : threadids[i] = t => i = First(SlotsOf(t))
            BY <1>2, <2>3, TableAssumption DEF IInv, NoDuplicate, SlotsOf, Free
        <3> HIDE DEF First
        <3> QED BY <1>1, <2>3, <3>1 DEF IInv, TypeOK, Marked, Lookup, debuggee
    <2> QED BY <2>1, <2>2, <2>3
<1>7. Found'
    BY <1>1 DEF IInv, TypeOK, Found, SlotsOf, Lookup, debuggee
<1> QED BY <1>3, <1>4, <1>5, <1>6, <1>7 DEF IInv

LEMMA InsertIInv ==
    ASSUME Serial, IInv, NEW c \in Callers, Insert(c)
    PROVE  IInv'
<1>1. \A d \in Callers : d = c
    BY DEF Serial
<1> DEFINE i == First(SlotsOf(Free))
           t == cur[c]
<1>2. t \in Ids /\ t \in alive \cup dead /\ t # Free /\ \A j \in Slots : threadids[j] # t
    BY TableAssumption DEF IInv, TypeOK, Insert, CurIsNew, SlotsOf, Free
<1>3. CASE SlotsOf(Free) = {}
    <2>1. /\ UNCHANGED <<threadids, stillalive, client>>
        BY <1>3 DEF Insert
    <2>2. TypeOK' /\ NoDuplicate' /\ ClientAgrees' /\ Lives' /\ CurIsNew'
        BY <1>1, <2>1 DEF IInv, TypeOK, NoDuplicate, ClientAgrees, Lives, CurIsNew,
               Known, Insert, debuggee
    <2>3. Marked' /\ Found'
        BY <1>1, <1>3, <2>1 DEF IInv, TypeOK, Marked, Found, SlotsOf, Insert, debuggee
    <2> QED BY <2>2, <2>3 DEF IInv
<1>4. CASE SlotsOf(Free) # {}
    <2>1. i \in Slots /\ threadids[i] = Free
        BY <1>4, FirstIsIn DEF SlotsOf
    <2>2. /\ threadids' = [threadids EXCEPT ![i] = t]
          /\ stillalive' = [stillalive EXCEPT ![c] = @ \cup {i}]
          /\ client' = client \cup {t}
          /\ pc' = [pc EXCEPT ![c] = "scan"]
          /\ pc[c] = "insert"
          /\ UNCHANGED <<alive, dead, seen, todo, cur, at>>
        BY <1>4 DEF Insert, debuggee
    <2> HIDE DEF i, t
    <2>3. TypeOK'
        BY <1>2, <2>1, <2>2 DEF IInv, TypeOK
    <2>4. NoDuplicate'
        BY <1>2, <2>1, <2>2 DEF IInv, TypeOK, NoDuplicate
    <2>5. Known' = Known \cup {t}
        BY <1>2, <2>1, <2>2 DEF IInv, TypeOK, Known
    <2>6. ClientAgrees' /\ Lives'
        BY <1>2, <2>2, <2>5 DEF IInv, ClientAgrees, Lives
    <2>7. CurIsNew'
        BY <1>1, <2>2 DEF IInv, TypeOK, CurIsNew
    <2>8. Marked'
        BY <1>1, <2>1, <2>2 DEF IInv, TypeOK, Marked
    <2>9. Found'
        BY <1>1, <2>1, <2>2 DEF IInv, TypeOK, Found, SlotsOf, t
    <2> QED BY <2>3, <2>4, <2>6, <2>7, <2>8, <2>9 DEF IInv
<1> QED BY <1>3, <1>4

LEMMA BeginSweepIInv ==
    ASSUME Serial, IInv, NEW c \in Callers, BeginSweep(c)
    PROVE  IInv'
<1>1. \A d \in Callers : d = c
    BY DEF Serial
<1>2. 1 \in Slots
    BY TableAssumption DEF Slots
<1>3. TypeOK' /\ NoDuplicate' /\ ClientAgrees' /\ Lives' /\ CurIsNew'
    BY <1>1, <1>2 DEF IInv, TypeOK, NoDuplicate, ClientAgrees, Lives, CurIsNew, Known,
           BeginSweep, debuggee
<1>4. Marked' /\ Found'
    BY <1>1 DEF IInv, TypeOK, Marked, Found, SlotsOf, BeginSweep, debuggee
<1> QED BY <1>3, <1>4 DEF IInv

\* A thread the last loop announces as exited is in the table and is dead.
LEMMA SweptIsDead ==
    ASSUME IInv, NEW c \in Callers, pc[c] = "sweep",
           threadids[at[c]] # Free, at[c] \notin stillalive[c]
    PROVE  threadids[at[c]] \in dead /\ threadids[at[c]] \in client
<1>1. at[c] \in Slots
    BY DEF IInv, TypeOK
<1>2. threadids[at[c]] \in Known
    BY <1>1 DEF Known
<1> QED BY <1>1, <1>2 DEF IInv, Marked, Lives, ClientAgrees

LEMMA SweepIInv ==
    ASSUME Serial, IInv, NEW c \in Callers, Sweep(c)
    PROVE  IInv'
<1>1. \A d \in Callers : d = c
    BY DEF Serial
<1> DEFINE k == at[c]
<1>2. k \in Slots /\ pc[c] = "sweep"
    BY DEF IInv, TypeOK, Sweep
<1>3. /\ UNCHANGED <<alive, dead, seen, todo, cur, stillalive>>
      /\ pc' \in [Callers -> {"out", "scan", "insert", "sweep", "over"}]
      /\ at' \in [Callers -> Slots]
      /\ pc'[c] = "sweep" => at'[c] # 1
      /\ pc'[c] \in {"sweep", "out", "over"}
    <2>1. CASE k = THREADS_MAX
        BY <1>2, <2>1 DEF IInv, TypeOK, Sweep, debuggee
    <2>2. CASE k # THREADS_MAX
        <3>1. k + 1 \in Slots /\ k + 1 # 1
            BY <1>2, <2>2, TableAssumption DEF Slots
        <3> QED BY <1>2, <2>2, <3>1 DEF IInv, TypeOK, Sweep, debuggee
    <2> QED BY <2>1, <2>2
<1>4. CurIsNew' /\ Found'
    BY <1>1, <1>3 DEF CurIsNew, Found
<1>5. CASE threadids[k] # Free /\ k \notin stillalive[c]
    <2>1. /\ client' = client \ {threadids[k]}
          /\ threadids' = [threadids EXCEPT ![k] = Free]
        BY <1>5 DEF Sweep
    <2> HIDE DEF k
    <2>2. TypeOK' /\ NoDuplicate'
        BY <1>2, <1>3, <2>1 DEF IInv, TypeOK, NoDuplicate
    <2>3. Known' = Known \ {threadids[k]}
        BY <1>2, <2>1 DEF IInv, TypeOK, NoDuplicate, Known
    <2>4. ClientAgrees' /\ Lives'
        BY <1>3, <2>1, <2>3 DEF IInv, ClientAgrees, Lives
    <2>5. Marked'
        BY <1>1, <1>2, <1>3, <2>1, TableAssumption DEF IInv, TypeOK, Marked, Free
    <2> QED BY <1>4, <2>2, <2>4, <2>5 DEF IInv
<1>6. CASE ~(threadids[k] # Free /\ k \notin stillalive[c])
    <2>1. UNCHANGED <<client, threadids>>
        BY <1>6 DEF Sweep
    <2>2. TypeOK' /\ NoDuplicate' /\ ClientAgrees' /\ Lives'
        BY <1>3, <2>1 DEF IInv, TypeOK, NoDuplicate, ClientAgrees, Lives, Known
    <2>3. Marked'
        BY <1>1, <1>2, <1>3, <2>1 DEF IInv, Marked
    <2> QED BY <1>4, <2>2, <2>3 DEF IInv
<1> QED BY <1>5, <1>6

\* The invariant is inductive.
LEMMA NextIInv ==
    ASSUME Serial, IInv, [Next]_vars
    PROVE  IInv'
<1>1. CASE UNCHANGED vars
    BY <1>1 DEF IInv, TypeOK, NoDuplicate, ClientAgrees, Lives, CurIsNew, Marked,
           Found, Known, SlotsOf, vars, debuggee, locals
<1>2. ASSUME NEW t \in Ids, Birth(t) \/ Death(t) PROVE IInv'
    BY <1>2, BirthIInv, DeathIInv
<1>3. ASSUME NEW c \in Callers, CheckThreadsLife(c) PROVE IInv'
    BY <1>3, EnterIInv, LookupIInv, InsertIInv, BeginSweepIInv, SweepIInv
    DEF CheckThreadsLife
<1> QED BY <1>1, <1>2, <1>3 DEF Next

-----------------------------------------------------------------------------
\* checkThreadsLife, called by one thread at a time, never enters a thread
\* twice, announces a thread once, keeps the client's list equal to its table,
\* and misses a live thread only when the table is full.
THEOREM TableIsCorrect ==
    Serial => (Spec => [](NoDuplicate /\ ClientAgrees /\ CreatedOnce /\ MissedOnlyIfFull))
<1> SUFFICES ASSUME Serial
             PROVE  Spec => [](NoDuplicate /\ ClientAgrees /\ CreatedOnce /\ MissedOnlyIfFull)
    OBVIOUS
<1>1. IInv => NoDuplicate /\ ClientAgrees /\ CreatedOnce /\ MissedOnlyIfFull
    <2> SUFFICES ASSUME IInv
                 PROVE  NoDuplicate /\ ClientAgrees /\ CreatedOnce /\ MissedOnlyIfFull
        OBVIOUS
    <2>1. NoDuplicate /\ ClientAgrees
        BY DEF IInv
    <2>2. CreatedOnce
        BY DEF IInv, ClientAgrees, CurIsNew, CreatedOnce, Known, SlotsOf
    <2>3. MissedOnlyIfFull
        BY KnownIsSlot DEF IInv, TypeOK, ClientAgrees, Found, MissedOnlyIfFull
    <2> QED BY <2>1, <2>2, <2>3
<1> QED BY InitIInv, NextIInv, <1>1, PTL DEF Spec

\* "find finished threads": when calls do not overlap, =thread-exited is
\* printed for finished threads only.
THEOREM ExitedAreFinished == Serial => (Spec => ExitedMeansFinished)
<1> SUFFICES ASSUME Serial PROVE Spec => ExitedMeansFinished
    OBVIOUS
<1>1. ASSUME IInv, [Next]_vars PROVE [client \ client' \subseteq dead]_vars
    <2>1. ASSUME NEW c \in Callers, Sweep(c) PROVE client \ client' \subseteq dead
        BY <1>1, <2>1, SweptIsDead DEF Sweep
    <2>2. ASSUME NEW c \in Callers, CheckThreadsLife(c), ~Sweep(c)
          PROVE  client \ client' \subseteq dead
        BY <2>2 DEF CheckThreadsLife, Enter, Lookup, Insert, BeginSweep
    <2>3. ASSUME NEW t \in Ids, Birth(t) \/ Death(t) PROVE client \ client' \subseteq dead
        BY <2>3 DEF Birth, Death
    <2> QED BY <1>1, <2>1, <2>2, <2>3 DEF Next
<1> QED BY InitIInv, NextIInv, <1>1, PTL DEF Spec, ExitedMeansFinished

-----------------------------------------------------------------------------
\* With a free slot the table knows fewer threads than it has slots.
LEMMA RoomLeft ==
    ASSUME IInv, SlotsOf(Free) # {}
    PROVE  Cardinality(Known) < THREADS_MAX
<1> DEFINE used == {i \in Slots : threadids[i] # Free}
           f == [i \in used |-> threadids[i]]
<1>1. IsFiniteSet(Slots) /\ Cardinality(Slots) = THREADS_MAX
    BY FS_Interval, TableAssumption DEF Slots
<1>2. used \in SUBSET Slots /\ used # Slots
    BY DEF SlotsOf
<1> HIDE DEF used
<1>3. IsFiniteSet(used) /\ Cardinality(used) < THREADS_MAX
    BY <1>1, <1>2, FS_Subset, FS_CardinalityType, TableAssumption
<1>4. f \in Surjection(used, Known)
    BY DEF Surjection, Known, used
<1>5. Cardinality(Known) <= Cardinality(used) /\ IsFiniteSet(Known)
    BY <1>3, <1>4, FS_Surjection
<1> QED BY <1>3, <1>5, FS_CardinalityType, TableAssumption

\* The table implements the registry: with non-overlapping calls, what the
\* client is told are the steps ThreadRegistry allows, for every table size.
THEOREM TableImplementsRegistry == Serial => (Spec => ImplementsRegistry)
<1> SUFFICES ASSUME Serial PROVE Spec => ImplementsRegistry
    OBVIOUS
<1>1. Init => Registry!Init
    BY DEF Init, Registry!Init
<1>2. ASSUME IInv, [Next]_vars PROVE [Registry!Next]_<<alive, dead, client>>
    <2>1. CASE UNCHANGED vars
        BY <2>1 DEF vars, debuggee
    <2>2. ASSUME NEW t \in Ids, Birth(t) PROVE Registry!Next
        BY <2>2 DEF Birth, Registry!Next, Registry!Birth
    <2>3. ASSUME NEW t \in Ids, Death(t) PROVE Registry!Next
        BY <2>3 DEF Death, Registry!Next, Registry!Death
    <2>4. ASSUME NEW c \in Callers, Insert(c)
          PROVE  Registry!Next \/ UNCHANGED <<alive, dead, client>>
        <3>1. CASE SlotsOf(Free) = {}
            BY <2>4, <3>1 DEF Insert, debuggee
        <3>2. CASE SlotsOf(Free) # {}
            <4>1. cur[c] \in Ids \cap ((alive \cup dead) \ client)
                <5>1. cur[c] \in Ids /\ cur[c] \in alive \cup dead /\ SlotsOf(cur[c]) = {}
                    BY <1>2, <2>4 DEF IInv, TypeOK, CurIsNew, Insert
                <5>2. cur[c] \notin Known
                    BY <5>1, KnownIsSlot
                <5> QED BY <1>2, <5>1, <5>2 DEF IInv, ClientAgrees
            <4>2. Cardinality(client) < THREADS_MAX
                BY <1>2, <3>2, RoomLeft DEF IInv, ClientAgrees
            <4>3. Registry!Created(cur[c])
                <5>1. Registry!Cardinality(client) = Cardinality(client)
                    BY Zenon DEF Registry!Cardinality, Cardinality
                <5> QED BY <2>4, <3>2, <4>1, <4>2, <5>1 DEF Registry!Created, Insert, debuggee
            <4> QED BY <4>1, <4>3 DEF Registry!Next
        <3> QED BY <3>1, <3>2
    <2>5. ASSUME NEW c \in Callers, Sweep(c)
          PROVE  Registry!Next \/ UNCHANGED <<alive, dead, client>>
        <3>1. CASE threadids[at[c]] # Free /\ at[c] \notin stillalive[c]
            <4>1. threadids[at[c]] \in client \cap dead
                BY <1>2, <2>5, <3>1, SweptIsDead DEF Sweep
            <4>2. Registry!Exited(threadids[at[c]])
                BY <2>5, <3>1, <4>1 DEF Registry!Exited, Sweep, debuggee
            <4> QED BY <1>2, <4>1, <4>2 DEF Registry!Next, IInv, TypeOK
        <3> QED BY <2>5, <3>1 DEF Sweep, debuggee
    <2>6. ASSUME NEW c \in Callers, CheckThreadsLife(c), ~Insert(c), ~Sweep(c)
          PROVE  UNCHANGED <<alive, dead, client>>
        BY <2>6 DEF CheckThreadsLife, Enter, Lookup, BeginSweep, debuggee
    <2> QED BY <1>2, <2>1, <2>2, <2>3, <2>4, <2>5, <2>6 DEF Next
<1> QED BY InitIInv, NextIInv, <1>1, <1>2, PTL
        DEF Spec, ImplementsRegistry, Registry!Spec
=============================================================================
