--------------------------- MODULE Startup_proofs ---------------------------
(***************************************************************************)
(* Proofs about Environment, for arrays of any size and any texts, and     *)
(* about Startup, in which main, the client and the test scripts use it:   *)
(* for any arguments, scripts and outputs.                                 *)
(***************************************************************************)
EXTENDS Startup, FiniteSetTheorems, SequenceTheorems, TLAPS, WellFoundedInduction, NaturalsInduction

-----------------------------------------------------------------------------
(***************************************************************************)
(* The inductive invariant: the pointers in use lie below envspointer, and *)
(* so do the ends of their texts.  What is above is never read.            *)
(***************************************************************************)
Sizes ==
    /\ envp \in [0 .. ENV_ENTRIES - 1 -> Offsets \cup {NULL}]
    /\ envpentries \in 0 .. ENV_ENTRIES - 2
    /\ envs \in [Offsets -> Chars \cup {NUL}]
    /\ envspointer \in Offsets

Below ==
    /\ envp[envpentries] = NULL
    /\ \A i \in 0 .. envpentries - 1 :
          /\ envp[i] \in 0 .. envspointer - 1
          /\ \E q \in envp[i] .. envspointer - 1 : envs[q] = NUL

Shape == Sizes /\ Below

IInv == Shape /\ launched \in Seq(Seq(Chars)) /\ serving \in BOOLEAN

-----------------------------------------------------------------------------
(***************************************************************************)
(* Reading the arrays.                                                     *)
(***************************************************************************)
\* A set of natural numbers that is not empty has a smallest one.
LEMMA Smallest ==
    ASSUME NEW N \in SUBSET Nat, NEW n \in N
    PROVE  \E m \in N : \A k \in N : m <= k
<1> DEFINE R == {p \in Nat \X Nat : p[1] < p[2]}
<1>1. IsWellFoundedOn(R, Nat)
    BY NatLessThanWellFounded, Zenon DEF OpToRel
<1> HIDE DEF R
<1>2. PICK m \in N : \A k \in N : <<k, m>> \notin R
    BY <1>1, WFMin
<1>3. \A k \in N : ~(k < m)
    BY <1>2 DEF R
<1> QED BY <1>3

\* The end of a text
IsEnd(p, e) ==
    e \in p .. ENVS_SIZE - 1 /\ envs[e] = NUL /\ \A r \in p .. e - 1 : envs[r] # NUL

\* A text has an end wherever a NUL follows its start.
LEMMA EndExists ==
    ASSUME NEW p \in Offsets, NEW q \in p .. ENVS_SIZE - 1, envs[q] = NUL
    PROVE  \E e \in p .. q : IsEnd(p, e)
<1> DEFINE N == {r \in p .. q : envs[r] = NUL}
<1>1. N \in SUBSET Nat /\ q \in N
    BY SizesAssumption DEF Offsets
<1>2. PICK m \in N : \A k \in N : m <= k
    BY <1>1, Smallest
<1>3. m \in p .. q /\ IsEnd(p, m)
    BY <1>2, SizesAssumption DEF IsEnd, Offsets
<1> QED BY <1>3

\* The text is what stands before its end.
LEMMA TextIs ==
    ASSUME NEW p \in Offsets, NEW e, IsEnd(p, e)
    PROVE  TextAt(p) = [i \in 1 .. e - p |-> envs[p + i - 1]]
<1> DEFINE E(q) == envs[q] = NUL /\ \A r \in p .. q - 1 : envs[r] # NUL
           end == CHOOSE q \in p .. ENVS_SIZE - 1 : E(q)
<1>1. e \in p .. ENVS_SIZE - 1 /\ E(e)
    BY DEF IsEnd
<1>2. end \in p .. ENVS_SIZE - 1 /\ E(end)
    BY <1>1
<1>3. end = e
    BY <1>1, <1>2, SizesAssumption DEF Offsets
<1> QED BY <1>3 DEF TextAt

\* The list LLDB reads has one text per entry.
LEMMA EntriesAre ==
    ASSUME Shape
    PROVE  Entries = [i \in 1 .. envpentries |-> TextAt(envp[i - 1])]
<1> DEFINE E(k) == envp[k] = NULL /\ \A j \in 0 .. k - 1 : envp[j] # NULL
           n == CHOOSE k \in 0 .. ENV_ENTRIES - 1 : E(k)
<1>1. envpentries \in 0 .. ENV_ENTRIES - 1 /\ E(envpentries)
    BY SizesAssumption DEF Shape, Sizes, Below, NULL
<1>2. n \in 0 .. ENV_ENTRIES - 1 /\ E(n)
    BY <1>1
<1> HIDE DEF n
<1>3. ~(n < envpentries) /\ ~(envpentries < n)
    BY <1>1, <1>2
<1>4. n = envpentries
    BY <1>1, <1>2, <1>3, SizesAssumption
<1> QED BY <1>4 DEF Entries, n

\* The texts are sequences of characters without NUL.
LEMMA TextType ==
    ASSUME Sizes, NEW p \in Offsets, NEW q \in p .. ENVS_SIZE - 1, envs[q] = NUL
    PROVE  TextAt(p) \in Seq(Chars)
<1>1. PICK e \in p .. q : IsEnd(p, e)
    BY EndExists
<1>2. e - p \in Nat /\ \A i \in 1 .. e - p : p + i - 1 \in p .. e - 1 /\ p + i - 1 \in Offsets
    BY <1>1, SizesAssumption DEF Offsets
<1>3. \A i \in 1 .. e - p : envs[p + i - 1] \in Chars
    BY <1>1, <1>2 DEF IsEnd, Sizes
<1> QED BY <1>1, <1>2, <1>3, TextIs

LEMMA EntriesType ==
    ASSUME Shape
    PROVE  Entries \in Seq(Seq(Chars))
<1>1. \A i \in 1 .. envpentries : TextAt(envp[i - 1]) \in Seq(Chars)
    <2> TAKE i \in 1 .. envpentries
    <2>1. i - 1 \in 0 .. envpentries - 1
        BY DEF Shape, Sizes
    <2>2. PICK q \in envp[i - 1] .. envspointer - 1 : envs[q] = NUL
        BY <2>1 DEF Shape, Below
    <2>3. envp[i - 1] \in Offsets /\ q \in envp[i - 1] .. ENVS_SIZE - 1
        BY <2>1, <2>2, SizesAssumption DEF Shape, Sizes, Below, Offsets
    <2> QED BY <2>2, <2>3, TextType DEF Shape
<1>2. envpentries \in Nat
    BY DEF Shape, Sizes
<1> QED BY <1>1, <1>2, EntriesAre

\* How the arrays are read, in this state and in the next one
ReadsText ==
    \A p \in Offsets, e \in Nat : IsEnd(p, e) =>
        TextAt(p) = [i \in 1 .. e - p |-> envs[p + i - 1]]
ReadsEntries ==
    Shape => Entries = [i \in 1 .. envpentries |-> TextAt(envp[i - 1])]
Reads == ReadsText /\ ReadsEntries

LEMMA ReadsNow == Reads
    BY TextIs, EntriesAre DEF Reads, ReadsText, ReadsEntries

LEMMA ReadsNext == Reads'
    BY ReadsNow, PTL

-----------------------------------------------------------------------------
(***************************************************************************)
(* Adding an entry.                                                        *)
(***************************************************************************)
\* What -gdb-set env makes of its arguments is a text.
LEMMA EnvEntryType ==
    ASSUME NEW args \in Arguments
    PROVE  EnvEntry(args) \in Seq(Chars)
<1>1. PICK n \in 0 .. 3 : args \in [1 .. n -> Texts]
    BY DEF Arguments
<1>2. args \in Seq(Texts) /\ Len(args) = n
    BY <1>1
<1>3. \A i \in 1 .. 3 : (IF i <= Len(args) THEN args[i] ELSE NullText) \in Seq(Chars)
    BY <1>1, <1>2, SizesAssumption
<1>4. \A s, t \in Seq(Chars) : s \o t \in Seq(Chars)
    OBVIOUS
<1> QED BY <1>3, <1>4 DEF EnvEntry

\* An accepted text is written above all others, which it leaves alone.
LEMMA AcceptAppends ==
    ASSUME Shape, NEW text \in Seq(Chars), Fits(text),
           Accept(text, Len(text) + 1, {envpentries + 1})
    PROVE  Shape' /\ Entries' = Append(Entries, text)
<1>0. PICK p \in Offsets, n \in Nat : p = envspointer /\ n = envpentries
    BY DEF Shape, Sizes
<1> DEFINE z == p + Len(text)
<1>1. /\ p \in Offsets /\ n \in Nat /\ Len(text) \in Nat
      /\ z \in Nat /\ z + 1 < ENVS_SIZE /\ p <= z /\ n + 1 \in 0 .. ENV_ENTRIES - 2
    BY <1>0, SizesAssumption DEF Shape, Sizes, Fits, Offsets
<1>2. /\ envpentries' = n + 1 /\ envspointer' = z + 1
      /\ envp' = [i \in 0 .. ENV_ENTRIES - 1 |->
                     IF i = n THEN p ELSE IF i \in {n + 1} THEN NULL ELSE envp[i]]
      /\ envs' = [r \in Offsets |-> IF r \in p .. z - 1 THEN text[r - p + 1]
                                    ELSE IF r = z THEN NUL ELSE envs[r]]
    <2>1. envspointer' = p + (Len(text) + 1) /\ envs' = Copied(text, p)
        BY <1>0 DEF Accept
    <2>2. p + (Len(text) + 1) = z + 1
        BY <1>1 DEF Offsets
    <2>3. envpentries' = n + 1
        BY <1>0 DEF Accept
    <2>4. envp' = [i \in 0 .. ENV_ENTRIES - 1 |->
                      IF i = n THEN p ELSE IF i \in {n + 1} THEN NULL ELSE envp[i]]
        BY <1>0 DEF Accept
    <2>5. envs' = [r \in Offsets |-> IF r \in p .. z - 1 THEN text[r - p + 1]
                                    ELSE IF r = z THEN NUL ELSE envs[r]]
        <3>1. p + Len(text) - 1 = z - 1
            BY <1>1 DEF Offsets
        <3> QED BY <2>1, <3>1 DEF Copied
    <2> QED BY <2>1, <2>2, <2>3, <2>4, <2>5
<1> HIDE DEF z
<1>3. /\ envp'[n] = p /\ envp'[n + 1] = NULL
      /\ \A i \in 0 .. n - 1 : envp'[i] = envp[i]
    BY <1>1, <1>2, SizesAssumption
<1>4. /\ z \in Offsets /\ envs'[z] = NUL
      /\ \A i \in 1 .. Len(text) : envs'[p + i - 1] = text[i]
      /\ \A r \in 0 .. p - 1 : envs'[r] = envs[r]
    <2>1. \A i \in 1 .. Len(text) : p + i - 1 \in p .. z - 1 /\ p + i - 1 \in Offsets
        BY <1>1, SizesAssumption DEF Offsets, z
    <2>2. \A r \in 0 .. p - 1 : r \in Offsets /\ r \notin p .. z - 1 /\ r # z
        BY <1>1, SizesAssumption DEF Offsets
    <2>3. z \in Offsets /\ z \notin p .. z - 1
        BY <1>1, SizesAssumption DEF Offsets
    <2>4. \A i \in 1 .. Len(text) : (p + i - 1) - p + 1 = i
        BY <1>1 DEF Offsets
    <2> QED BY <1>2, <2>1, <2>2, <2>3, <2>4
<1>5. Sizes'
    <2>1. \A r \in p .. z - 1 : text[r - p + 1] \in Chars
        BY <1>1 DEF z, Offsets
    <2>2. envs' \in [Offsets -> Chars \cup {NUL}]
        BY <1>2, <2>1 DEF Shape, Sizes
    <2>3. envp' \in [0 .. ENV_ENTRIES - 1 -> Offsets \cup {NULL}]
        BY <1>1, <1>2 DEF Shape, Sizes
    <2>4. envspointer' \in Offsets
        BY <1>1, <1>2, SizesAssumption DEF Offsets
    <2> QED BY <1>1, <1>2, <2>2, <2>3, <2>4 DEF Sizes
<1>6. \A i \in 0 .. n - 1 :
          /\ envp[i] \in 0 .. p - 1
          /\ \E r \in envp[i] .. p - 1 : envs[r] = NUL
    BY <1>0 DEF Shape, Below
<1>7. Below'
    <2>1. ASSUME NEW i \in 0 .. n
          PROVE  /\ envp'[i] \in 0 .. z
                 /\ \E r \in envp'[i] .. z : envs'[r] = NUL
        <3>1. CASE i = n
            BY <1>1, <1>3, <1>4, <3>1 DEF Offsets
        <3>2. CASE i # n
            <4>1. i \in 0 .. n - 1
                BY <1>1, <3>2
            <4>2. PICK r \in envp[i] .. p - 1 : envs[r] = NUL
                BY <1>6, <4>1
            <4>3. /\ envp[i] \in 0 .. z /\ r \in envp[i] .. z /\ r \in 0 .. p - 1
                BY <1>1, <1>6, <4>1, <4>2, SizesAssumption DEF Offsets
            <4> QED BY <1>3, <1>4, <4>1, <4>2, <4>3
        <3> QED BY <3>1, <3>2
    <2>2. envpentries' - 1 = n /\ envspointer' - 1 = z
        <3>1. envpentries' = n + 1 /\ envspointer' = z + 1
            BY <1>2, Zenon
        <3>2. n \in Nat /\ z \in Nat
            BY <1>1, Zenon
        <3> QED BY <3>1, <3>2
    <2> QED BY <1>2, <1>3, <2>1, <2>2 DEF Below
<1>8. Shape'
    BY <1>5, <1>7 DEF Shape
<1>9. TextAt(p)' = text
    <2>1. \A i \in 1 .. Len(text) : text[i] # NUL
        BY SizesAssumption
    <2>2. ASSUME NEW r \in p .. z - 1 PROVE envs'[r] # NUL
        <3>1. r - p + 1 \in 1 .. Len(text) /\ p + (r - p + 1) - 1 = r
            BY <1>1 DEF z, Offsets
        <3> QED BY <1>4, <2>1, <3>1
    <2>3. IsEnd(p, z)'
        BY <1>1, <1>4, <2>2, SizesAssumption DEF IsEnd, Offsets
    <2>4. TextAt(p)' = [i \in 1 .. z - p |-> envs'[p + i - 1]]
        BY <1>1, <2>3, ReadsNext DEF Reads, ReadsText
    <2>5. z - p = Len(text)
        BY <1>1 DEF z, Offsets
    <2> QED BY <1>1, <1>4, <2>4, <2>5
<1>10. ASSUME NEW i \in 0 .. n - 1, NEW v \in Offsets, v = envp[i]
       PROVE  TextAt(v)' = TextAt(v)
    <2>1. PICK r \in v .. p - 1 : envs[r] = NUL
        BY <1>6, <1>10
    <2>2. r \in v .. ENVS_SIZE - 1
        BY <1>1, <2>1, SizesAssumption DEF Offsets
    <2>3. PICK e \in v .. r : IsEnd(v, e)
        BY <2>1, <2>2, EndExists
    <2>4. /\ e \in Nat /\ e \in v .. ENVS_SIZE - 1
          /\ \A k \in v .. e : k \in 0 .. p - 1
        BY <1>1, <2>1, <2>3, SizesAssumption DEF Offsets
    <2>5. \A k \in v .. e : envs'[k] = envs[k]
        BY <1>4, <2>4
    <2>6. /\ e \in v .. e
          /\ \A k \in v .. e - 1 : k \in v .. e
          /\ \A k \in 1 .. e - v : v + k - 1 \in v .. e
        BY <2>4, SizesAssumption DEF Offsets
    <2>7. IsEnd(v, e)'
        BY <2>3, <2>4, <2>5, <2>6 DEF IsEnd
    <2>8. TextAt(v)' = [k \in 1 .. e - v |-> envs'[v + k - 1]]
        BY <2>4, <2>7, ReadsNext DEF Reads, ReadsText
    <2>9. TextAt(v) = [k \in 1 .. e - v |-> envs[v + k - 1]]
        BY <2>3, TextIs
    <2> QED BY <2>5, <2>6, <2>8, <2>9
<1>11. Entries = [i \in 1 .. n |-> TextAt(envp[i - 1])]
    BY <1>0, EntriesAre
<1>12. Entries' = [i \in 1 .. n + 1 |-> TextAt(envp[i - 1])']
    BY <1>2, <1>8, ReadsNext DEF Reads, ReadsEntries
<1>13. ASSUME NEW i \in 1 .. n PROVE TextAt(envp[i - 1])' = TextAt(envp[i - 1])
    <2>1. i - 1 \in 0 .. n - 1
        BY <1>1
    <2>2. PICK v \in Offsets : v = envp[i - 1] /\ v = envp'[i - 1]
        BY <1>1, <1>3, <1>6, <2>1, SizesAssumption DEF Offsets
    <2>3. TextAt(envp[i - 1])' = TextAt(v)'
        BY <2>2 DEF TextAt
    <2> QED BY <1>10, <2>1, <2>2, <2>3
<1>14. TextAt(envp[n + 1 - 1])' = text
    <2>1. envp'[n + 1 - 1] = p
        BY <1>1, <1>3
    <2> QED BY <1>9, <2>1 DEF TextAt
<1>15. Entries' = Append(Entries, text)
    BY <1>1, <1>11, <1>12, <1>13, <1>14
<1> QED BY <1>8, <1>15

\* addEnvironment adds its text at the end or refuses it.
LEMMA AddAppends ==
    ASSUME Shape, NEW text \in Seq(Chars), AddEnvironment(text)
    PROVE  Shape' /\ (Entries' = Append(Entries, text) \/ Entries' = Entries)
<1>1. CASE Fits(text)
    BY <1>1, AcceptAppends DEF AddEnvironment
<1>2. CASE ~Fits(text)
    <2>1. UNCHANGED <<envp, envpentries, envs, envspointer>>
        BY <1>2 DEF AddEnvironment
    <2>2. Shape'
        BY <2>1 DEF Shape, Sizes, Below
    <2>3. Entries' = Entries
        BY <2>1 DEF Entries, TextAt
    <2> QED BY <2>2, <2>3
<1> QED BY <1>1, <1>2

-----------------------------------------------------------------------------
(***************************************************************************)
(* Every step keeps the invariant and is a step of the list.               *)
(***************************************************************************)
LEMMA InitIInv == Init => IInv /\ List!Init
<1> SUFFICES ASSUME Init PROVE IInv /\ List!Init
    OBVIOUS
<1>1. Shape
    BY SizesAssumption DEF Init, Shape, Sizes, Below, Offsets
<1>2. Entries = <<>>
    BY <1>1, EntriesAre DEF Init
<1>3. launched \in Seq(Seq(Chars)) /\ serving \in BOOLEAN
    <2>1. \A S : <<>> \in Seq(S)
        OBVIOUS
    <2>2. serving \in BOOLEAN
        BY Zenon DEF Init
    <2> QED BY <2>1, <2>2 DEF Init
<1>4. List!Init
    BY <1>2 DEF Init, List!Init
<1> QED BY <1>1, <1>3, <1>4 DEF IInv

LEMMA NextIInv ==
    ASSUME IInv, [Next]_vars
    PROVE  IInv' /\ [List!Next]_<<Entries, launched>>
<1> USE DEF IInv
<1>1. ASSUME NEW text \in Texts, CopyEnvironment(text)
      PROVE  IInv' /\ [List!Next]_<<Entries, launched>>
    <2>1. text \in Seq(Chars)
        BY SizesAssumption
    <2>2. Shape' /\ (Entries' = Append(Entries, text) \/ Entries' = Entries)
        BY <1>1, <2>1, AddAppends DEF CopyEnvironment
    <2> QED BY <1>1, <2>2 DEF CopyEnvironment, List!Next, List!Add
<1>2. ASSUME NEW args \in Arguments, GdbSetEnv(args)
      PROVE  IInv' /\ [List!Next]_<<Entries, launched>>
    <2>1. EnvEntry(args) \in Seq(Chars)
        BY EnvEntryType
    <2>2. /\ Shape'
          /\ Entries' = Append(Entries, EnvEntry(args)) \/ Entries' = Entries
        BY <1>2, <2>1, AddAppends DEF GdbSetEnv
    <2> QED BY <1>2, <2>2 DEF GdbSetEnv, List!Next, List!Add
<1>3. CASE UnsetEnv
    <2>1. Sizes' /\ Below'
        BY <1>3, SizesAssumption DEF UnsetEnv, Shape, Sizes, Below, Offsets
    <2>2. Entries' = <<>>
        BY <1>3, <2>1, ReadsNext DEF UnsetEnv, Reads, ReadsEntries, Shape
    <2> QED BY <1>3, <2>1, <2>2 DEF UnsetEnv, Shape, List!Next, List!Unset
<1>4. ASSUME UNCHANGED <<envp, envpentries, envs, envspointer>>
      PROVE  Shape' /\ Entries' = Entries
    BY <1>4 DEF Shape, Sizes, Below, Entries, TextAt
<1>5. CASE ExecRun
    BY <1>4, <1>5, EntriesType DEF ExecRun, List!Next, List!Run
<1>6. CASE EnterLoop
    BY <1>4, <1>6 DEF EnterLoop
<1>7. CASE UNCHANGED vars
    BY <1>4, <1>7 DEF vars
<1> QED BY <1>1, <1>2, <1>3, <1>5, <1>6, <1>7 DEF Next

-----------------------------------------------------------------------------
\* The arrays keep their types: no index of addEnvironment leaves them, and
\* what is launched is a list of texts.
THEOREM ArraysTyped == Spec => []TypeOK
<1>1. IInv => TypeOK
    BY DEF IInv, Shape, Sizes, TypeOK
<1> QED BY InitIInv, NextIInv, <1>1, PTL DEF Spec

\* Whoever follows the pointers of envp up to its NULL, as LLDB does at a
\* launch, finds texts that end inside envs.
THEOREM ReadsStayInside == Spec => []EntriesEnd
<1>1. IInv => EntriesEnd
    <2> SUFFICES ASSUME IInv PROVE EntriesEnd
        OBVIOUS
    <2>1. ASSUME NEW i \in 0 .. envpentries - 1
          PROVE  /\ envp[i] \in Offsets
                 /\ \E q \in envp[i] .. ENVS_SIZE - 1 : envs[q] = NUL
        <3>1. PICK q \in envp[i] .. envspointer - 1 : envs[q] = NUL
            BY DEF IInv, Shape, Below
        <3>2. envp[i] \in Offsets /\ q \in envp[i] .. ENVS_SIZE - 1
            BY <3>1, SizesAssumption DEF IInv, Shape, Sizes, Below, Offsets
        <3> QED BY <3>1, <3>2
    <2> QED BY <2>1 DEF IInv, Shape, Below, EntriesEnd
<1> QED BY InitIInv, NextIInv, <1>1, PTL DEF Spec

\* addEnvironment, unset env and -exec-run implement a list, for arrays of any
\* size: a launched program gets the entries accepted since the last unset.
THEOREM ArraysImplementList == Spec => ImplementsList
<1>1. List!Spec <=> List!Init /\ [][List!Next]_<<Entries, launched>>
    BY DEF List!Spec
<1> QED BY InitIInv, NextIInv, <1>1, PTL DEF Spec, ImplementsList

-----------------------------------------------------------------------------
(***************************************************************************)
(* Startup.                                                                *)
(***************************************************************************)

\* Whatever main does, it uses the arrays through Environment's operations.
LEMMA StartUsesEnvironment ==
    ASSUME [StartNext]_startVars
    PROVE  [Next]_vars
<1>1. CASE UNCHANGED startVars
    BY <1>1 DEF startVars
<1>2. CASE CopyEnviron
    BY <1>2 DEF CopyEnviron, Next
<1>3. CASE Decide
    BY <1>3 DEF Decide, Next
<1>4. CASE ClientSetsEnv \/ ClientUnsetsEnv \/ ClientRuns
    BY <1>4 DEF ClientSetsEnv, ClientUnsetsEnv, ClientRuns, FromCDT, Next
<1>5. CASE TestTurn
    <2>1. ASSUME NEW kind, NEW number, Execute(kind, number)
          PROVE  [Next]_vars
        <3>1. UNCHANGED vars \/ ExecRun \/ TestSetEnv
            BY <2>1 DEF Execute, TestRun
        <3>2. [1 .. 3 -> Texts] \subseteq Arguments
            BY DEF Arguments
        <3> QED BY <3>1, <3>2 DEF TestSetEnv, Next
    <2> QED BY <1>5, <2>1 DEF TestTurn
<1>6. CASE ParseArg \/ LogArgs \/ StdinEmptyLine \/ TestCrashes \/ LeaveLoop
           \/ ProgramStops \/ OnStopped \/ ProgramExits \/ ListenerKills
    BY <1>6 DEF ParseArg, LogArgs, StdinEmptyLine, TestCrashes, LeaveLoop,
                ProgramStops, OnStopped, ProgramExits, ListenerKills
<1> QED BY <1>1, <1>2, <1>3, <1>4, <1>5, <1>6 DEF StartNext

LEMMA StartIsEnvironment == StartSpec => Spec
<1>1. StartInit => Init
    BY DEF StartInit
<1> QED BY <1>1, StartUsesEnvironment, PTL DEF StartSpec, Spec

\* From the copy of main's environment to the last launch, by the client or by
\* a script: a launched program gets the entries accepted since the last unset.
THEOREM StartImplementsList == StartSpec => ImplementsList
BY StartIsEnvironment, ArraysImplementList, PTL

\* Whoever follows envp in the program as a whole, in main's copy of its own
\* environment, under the client's commands or in a script, stays inside envs.
THEOREM StartReadsInside == StartSpec => []EntriesEnd
BY StartIsEnvironment, ReadsStayInside, PTL

\* A program that runs, or whose stop the listener handles, keeps the scripts
\* waiting, unless a step command has resumed it.
Waiting ==
    ~stepped => /\ program = "running" \/ handling => isrunning
                /\ handling => program # "running"

LEMMA ExecuteKeepsWaiting ==
    ASSUME Waiting, ~isrunning, NEW kind, NEW number, Execute(kind, number)
    PROVE  Waiting'
<1>1. stepped' = (stepped \/ (kind = "step" /\ program = "stopped"))
    BY DEF Execute
<1>2. CASE kind = "run"
    BY <1>1, <1>2 DEF Execute, TestRun, Moves, Stays, session, Waiting
<1>3. CASE kind = "attach"
    BY <1>1, <1>3 DEF Execute, TestAttach, Stays, session, Waiting
<1>4. CASE kind = "continue"
    BY <1>1, <1>4 DEF Execute, TestContinue, Moves, Stays, session, Waiting
<1>5. CASE kind = "step"
    BY <1>1, <1>5 DEF Execute, TestStep, Waiting
<1>6. CASE kind = "kill"
    BY <1>1, <1>6 DEF Execute, TestKill, Stays, session, Waiting
<1>7. CASE kind = "exit"
    BY <1>1, <1>7 DEF Execute, TestExit, Waiting
<1>8. CASE kind \notin {"run", "attach", "continue", "step", "kill", "exit"}
    <2>1. UNCHANGED session
        BY <1>8 DEF Execute, Stays
    <2> QED BY <1>1, <1>8, <2>1 DEF session, Waiting
<1> QED BY <1>2, <1>3, <1>4, <1>5, <1>6, <1>7, <1>8

LEMMA StartKeepsWaiting ==
    ASSUME Waiting, [StartNext]_startVars
    PROVE  Waiting'
<1>1. CASE UNCHANGED <<session, stepped>>
    BY <1>1 DEF session, Waiting
<1>2. CASE UNCHANGED startVars
    BY <1>1, <1>2 DEF startVars, history
<1>3. CASE ParseArg \/ LogArgs \/ CopyEnviron \/ Decide \/ ClientSetsEnv \/ ClientUnsetsEnv
           \/ ClientRuns \/ TestCrashes \/ LeaveLoop
    BY <1>1, <1>3
    DEF ParseArg, LogArgs, CopyEnviron, Decide, ClientSetsEnv, ClientUnsetsEnv, ClientRuns,
        FromCDT, TestCrashes, LeaveLoop, history
<1>4. CASE TestTurn
    <2>1. UNCHANGED <<session, stepped>> \/ \E kind, number : Execute(kind, number)
        BY <1>4 DEF TestTurn, history
    <2> QED BY <1>1, <1>4, <2>1, ExecuteKeepsWaiting DEF TestTurn, TestReady
<1>5. CASE StdinEmptyLine \/ ProgramStops \/ OnStopped \/ ProgramExits \/ ListenerKills
    BY <1>5
    DEF StdinEmptyLine, ProgramStops, OnStopped, ProgramExits, ListenerKills, history, Waiting
<1> QED BY <1>2, <1>3, <1>4, <1>5 DEF StartNext

\* In test mode no command is taken from a sequence, a script or a log file
\* while the program runs, whatever they hold, until a step has resumed it.
THEOREM ScriptsPause == StartSpec => CommandsPause
<1>1. StartInit => Waiting
    BY DEF StartInit, Waiting
<1>2. ASSUME Waiting, [StartNext]_startVars
      PROVE  [TestTurn /\ command' \in {"look", "continue", "step", "kill"}
                 => stepped \/ program # "running"]_startVars
    BY <1>2 DEF Waiting, TestTurn, TestReady
<1> QED BY <1>1, <1>2, StartKeepsWaiting, PTL DEF StartSpec, CommandsPause

-----------------------------------------------------------------------------
(***************************************************************************)
(* The record of the arguments.  Every argument that is logged has as many *)
(* before it as are given before it.                                       *)
(***************************************************************************)
LEMMA GivenAre ==
    ASSUME NEW n \in Nat
    PROVE  /\ IsFiniteSet(GivenUpTo(n)) /\ Cardinality(GivenUpTo(n)) \in Nat
           /\ NotCommand(n + 1) =>
                 Cardinality(GivenUpTo(n + 1)) = Cardinality(GivenUpTo(n)) + 1
           /\ ~NotCommand(n + 1) => GivenUpTo(n + 1) = GivenUpTo(n)
<1>1. IsFiniteSet(1 .. n)
    BY FS_Interval
<1>2. GivenUpTo(n) \in SUBSET (1 .. n)
    BY DEF GivenUpTo
<1>3. IsFiniteSet(GivenUpTo(n)) /\ Cardinality(GivenUpTo(n)) \in Nat
    BY <1>1, <1>2, FS_Subset, FS_CardinalityType
<1>4. \A i \in 1 .. n + 1 : i \in 1 .. n \/ i = n + 1
    OBVIOUS
<1>5. \A i \in 1 .. n : i \in 1 .. n + 1
    OBVIOUS
<1>6. n + 1 \in 1 .. n + 1 /\ n + 1 \notin 1 .. n
    OBVIOUS
<1>7. ASSUME NotCommand(n + 1)
      PROVE  Cardinality(GivenUpTo(n + 1)) = Cardinality(GivenUpTo(n)) + 1
    <2>1. GivenUpTo(n + 1) = GivenUpTo(n) \cup {n + 1}
        BY <1>4, <1>5, <1>6, <1>7 DEF GivenUpTo
    <2>2. n + 1 \notin GivenUpTo(n)
        BY <1>6 DEF GivenUpTo
    <2> QED BY <1>3, <2>1, <2>2, FS_AddElement
<1>8. ASSUME ~NotCommand(n + 1) PROVE GivenUpTo(n + 1) = GivenUpTo(n)
    BY <1>4, <1>5, <1>8 DEF GivenUpTo
<1> QED BY <1>3, <1>7, <1>8

\* An argument that has been logged stands in front of what is logged next.
LEMMA PlacesAre ==
    ASSUME NEW n \in Nat, NEW i \in GivenUpTo(n)
    PROVE  Cardinality(GivenUpTo(i)) \in 1 .. Cardinality(GivenUpTo(n))
<1>1. i \in Nat /\ i >= 1 /\ i <= n /\ NotCommand(i)
    BY DEF GivenUpTo
<1>2. GivenUpTo(i) \in SUBSET GivenUpTo(n)
    <2>1. \A k \in 1 .. i : k \in 1 .. n
        BY <1>1
    <2> QED BY <2>1 DEF GivenUpTo
<1>3. Cardinality(GivenUpTo(i)) <= Cardinality(GivenUpTo(n))
    BY <1>2, GivenAre, FS_Subset
<1>4. Cardinality(GivenUpTo(i)) = Cardinality(GivenUpTo(i - 1)) + 1
    <2>1. i - 1 \in Nat /\ (i - 1) + 1 = i
        BY <1>1
    <2> QED BY <1>1, <2>1, GivenAre
<1>5. Cardinality(GivenUpTo(i - 1)) \in Nat /\ Cardinality(GivenUpTo(n)) \in Nat
    <2>1. i - 1 \in Nat
        BY <1>1
    <2> QED BY <2>1, GivenAre
<1> QED BY <1>3, <1>4, <1>5

LEMMA PlacedNext ==
    ASSUME NEW n \in Nat, NEW log \in Seq(STRING), NEW arg \in STRING,
           AllInPlace(log, n), NotCommand(n + 1), arg = argv[n + 1]
    PROVE  AllInPlace(log \o <<arg>>, n + 1)
<1> DEFINE l == log \o <<arg>>
           c == Cardinality(GivenUpTo(n))
<1>1. Len(log) = c /\ c \in Nat /\ Cardinality(GivenUpTo(n + 1)) = c + 1
    BY GivenAre DEF AllInPlace
<1>2. Len(l) = c + 1 /\ l[c + 1] = arg /\ \A k \in 1 .. c : l[k] = log[k]
    <2> HIDE DEF c
    <2> QED BY <1>1
<1> HIDE DEF l
<1>3. ASSUME NEW i \in GivenUpTo(n + 1) PROVE l[Cardinality(GivenUpTo(i))] = argv[i]
    <2>1. CASE i = n + 1
        BY <1>1, <1>2, <2>1
    <2>2. CASE i # n + 1
        <3>1. i \in GivenUpTo(n)
            BY <2>2 DEF GivenUpTo
        <3>2. Cardinality(GivenUpTo(i)) \in 1 .. c
            BY <3>1, PlacesAre
        <3>3. log[Cardinality(GivenUpTo(i))] = argv[i]
            BY <3>1 DEF AllInPlace
        <3> QED BY <1>2, <3>2, <3>3
    <2> QED BY <2>1, <2>2
<1> QED BY <1>1, <1>2, <1>3 DEF AllInPlace, l

LEMMA PlacedPast ==
    ASSUME NEW n \in Nat, NEW log, AllInPlace(log, n), ~NotCommand(n + 1)
    PROVE  AllInPlace(log, n + 1)
BY GivenAre DEF AllInPlace

\* What has been parsed is logged, and what comes next is no value of -ex.
LogInv ==
    /\ argv \in Seq(STRING) /\ narg \in 1 .. Len(argv) + 1
    /\ CommandsApart /\ phase = "args" =>
          /\ logbuffer \in Seq(STRING)
          /\ narg <= Len(argv) => NotCommand(narg)
          /\ AllInPlace(logbuffer, narg - 1)
    /\ ArgsLogged

LEMMA One == ASSUME NEW T, NEW a \in T PROVE <<a>> \in Seq(T)
OBVIOUS

LEMMA Two == ASSUME NEW T, NEW a \in T, NEW b \in T PROVE <<a, b>> \in Seq(T)
OBVIOUS

LEMMA Extended == ASSUME NEW T, NEW s \in Seq(T), NEW t \in Seq(T) PROVE s \o t \in Seq(T)
OBVIOUS

LEMMA OneByOne ==
    ASSUME NEW T, NEW s \in Seq(T), NEW a \in T, NEW b \in T
    PROVE  s \o <<a, b>> = (s \o <<a>>) \o <<b>>
<1> DEFINE x == s \o <<a, b>>
           y == s \o <<a>>
           z == y \o <<b>>
           n == Len(s)
<1>1. n \in Nat
    OBVIOUS
<1>2. /\ x \in Seq(T) /\ Len(x) = n + 2 /\ x[n + 1] = a /\ x[n + 2] = b
      /\ \A i \in 1 .. n : x[i] = s[i]
    OBVIOUS
<1>3. /\ y \in Seq(T) /\ Len(y) = n + 1 /\ y[n + 1] = a
      /\ \A i \in 1 .. n : y[i] = s[i]
    OBVIOUS
<1> HIDE DEF y
<1>4. /\ z \in Seq(T) /\ Len(z) = n + 2 /\ z[n + 2] = b
      /\ \A i \in 1 .. n + 1 : z[i] = y[i]
    BY <1>1, <1>3
<1> HIDE DEF x, z, n
<1>5. \A i \in 1 .. Len(x) : x[i] = z[i]
    <2>1. \A i \in 1 .. n + 2 : i \in 1 .. n \/ i = n + 1 \/ i = n + 2
        BY <1>1
    <2>2. \A i \in 1 .. n : i \in 1 .. n + 1
        BY <1>1
    <2>3. n + 1 \in 1 .. n + 1
        BY <1>1
    <2> QED BY <1>2, <1>3, <1>4, <2>1, <2>2, <2>3
<1>6. x = z
    <2>1. Len(x) = Len(z)
        BY <1>2, <1>4
    <2> QED BY <1>2, <1>4, <1>5, <2>1, SeqEqual
<1> QED BY <1>6 DEF x, y, z

LEMMA SameArguments ==
    ASSUME argv' = argv
    PROVE  /\ CommandsApart' <=> CommandsApart
           /\ NotCommand(narg)' <=> NotCommand(narg')
           /\ AllInPlace(logbuffer, narg - 1)' <=> AllInPlace(logbuffer', narg' - 1)
           /\ AllInPlace(argsRecord, Len(argv))' <=> AllInPlace(argsRecord', Len(argv))
<1>1. \A n : GivenUpTo(n)' = GivenUpTo(n)
    BY DEF GivenUpTo, NotCommand
<1> QED BY <1>1 DEF CommandsApart, NotCommand, AllInPlace, GivenUpTo

LEMMA ParseArgLogs ==
    ASSUME LogInv, ParseArg
    PROVE  LogInv'
<1>1. /\ phase = "args" /\ narg <= Len(argv)
      /\ AddLog /\ narg' = narg + Consumed
      /\ phase' \in {"args", "crash"} /\ argv' = argv
    BY DEF ParseArg
<1>2. argv \in Seq(STRING) /\ Len(argv) \in Nat /\ narg \in Nat /\ narg >= 1
    BY DEF LogInv
<1>3. Arg \in STRING /\ (HasValue => Value \in STRING /\ narg + 1 \in DOMAIN argv)
    BY <1>1, <1>2 DEF Arg, HasValue, Value
<1>4. narg' \in 1 .. Len(argv') + 1
    BY <1>1, <1>2 DEF Consumed, HasValue
<1>5. Logged \in Seq(STRING)
    <2>1. CASE Arg \in Valued /\ HasValue
        <3>1. Logged = <<Arg, Value>> /\ Arg \in STRING /\ Value \in STRING
            BY <1>3, <2>1 DEF Logged
        <3> QED BY <3>1, Two, Zenon
    <2>2. CASE ~(Arg \in Valued /\ HasValue)
        <3>1. Logged = <<Arg>>
            BY <2>2 DEF Logged
        <3> QED BY <1>3, <3>1, One, Zenon
    <2> QED BY <2>1, <2>2
<1>7. ASSUME CommandsApart
      PROVE  /\ logbuffer' \in Seq(STRING)
             /\ narg' <= Len(argv) => NotCommand(narg')
             /\ AllInPlace(logbuffer', narg' - 1)
    <2> DEFINE l == logbuffer \o <<Arg>>
               n == narg - 1
    <2>1. /\ NotCommand(narg) /\ AllInPlace(logbuffer, n) /\ n \in Nat /\ n + 1 = narg
          /\ logbuffer \in Seq(STRING)
        BY <1>1, <1>2, <1>7 DEF LogInv
    <2>2. AllInPlace(l, narg) /\ l \in Seq(STRING)
        <3>1. Arg = argv[n + 1] /\ NotCommand(n + 1)
            BY <2>1 DEF Arg
        <3>2. AllInPlace(l, n + 1)
            <4> HIDE DEF n
            <4> QED BY <1>3, <2>1, <3>1, PlacedNext
        <3>3. l \in Seq(STRING)
            BY <2>1, <1>3, Extended, One, Zenon DEF l
        <3> QED BY <2>1, <3>2, <3>3
    <2> HIDE DEF l, n
    <2>3. narg \in DOMAIN argv
        BY <1>1, <1>2
    <2>4. HasValue => Value # "new-ui"
        BY <1>3, <1>7 DEF CommandsApart, Value
    <2>5. logbuffer' = logbuffer \o Logged
        BY <1>1, <2>4 DEF AddLog, NewUI, addlog
    <2>10. logbuffer' \in Seq(STRING)
        BY <1>5, <2>1, <2>5, Extended, Zenon
    <2>6. HasValue /\ Arg \in Valued \cup {"-ex"} => Value # "-ex"
        <3>1. narg + 1 > 1 /\ (narg + 1) - 1 = narg
            BY <1>2
        <3> QED BY <1>3, <1>7, <3>1 DEF CommandsApart, Value, Arg
    <2>7. CASE Arg \in Valued /\ HasValue
        <3>1. narg' = narg + 2 /\ logbuffer' = logbuffer \o <<Arg, Value>>
            BY <1>1, <2>5, <2>7 DEF Consumed, Logged
        <3>2. logbuffer \o <<Arg, Value>> = l \o <<Value>>
            <4>1. Arg \in STRING /\ Value \in STRING /\ logbuffer \in Seq(STRING)
                BY <1>3, <2>1, <2>7
            <4> DEFINE words == STRING
                       a == Arg
                       b == Value
                       s == logbuffer
            <4>2. s \in Seq(words) /\ a \in words /\ b \in words
                BY <4>1
            <4>3. s \o <<a, b>> = (s \o <<a>>) \o <<b>>
                <5> HIDE DEF words, a, b, s
                <5> QED BY <4>2, OneByOne
            <4> QED BY <4>3 DEF l
        <3>3. Arg # "-ex"
            BY <2>7 DEF Valued
        <3>4. NotCommand(narg + 1)
            BY <1>2, <3>3 DEF NotCommand, Arg
        <3>5. AllInPlace(l \o <<Value>>, narg + 1)
            BY <1>2, <1>3, <2>2, <2>7, <3>4, PlacedNext DEF Value
        <3>6. narg' - 1 = narg + 1
            BY <1>2, <3>1
        <3>7. NotCommand(narg')
            BY <2>6, <2>7, <3>6 DEF NotCommand, Value
        <3> QED BY <2>10, <3>1, <3>2, <3>5, <3>6, <3>7
    <2>8. CASE Arg = "-ex" /\ HasValue
        <3>1. narg' = narg + 2 /\ logbuffer' = l
            BY <1>1, <2>5, <2>8 DEF Consumed, Logged, Valued, l
        <3>2. ~NotCommand(narg + 1)
            BY <1>2, <2>8 DEF NotCommand, Arg
        <3>3. AllInPlace(l, narg + 1)
            BY <1>2, <2>2, <3>2, PlacedPast
        <3>4. narg' - 1 = narg + 1
            BY <1>2, <3>1
        <3>5. NotCommand(narg')
            BY <2>6, <2>8, <3>4 DEF NotCommand, Value
        <3> QED BY <2>10, <3>1, <3>3, <3>4, <3>5
    <2>9. CASE ~(Arg \in Valued \cup {"-ex"} /\ HasValue)
        <3>1. narg' = narg + 1 /\ logbuffer' = l
            BY <1>1, <2>5, <2>9 DEF Consumed, Logged, l
        <3>2. narg' - 1 = narg
            BY <1>2, <3>1
        <3>3. ASSUME narg' <= Len(argv) PROVE NotCommand(narg')
            <4>1. HasValue
                BY <1>2, <3>1, <3>3 DEF HasValue
            <4>2. Arg # "-ex"
                BY <2>9, <4>1
            <4> QED BY <3>2, <4>2 DEF NotCommand, Arg
        <3> QED BY <2>10, <2>2, <3>1, <3>2, <3>3
    <2> QED BY <2>7, <2>8, <2>9
<1>8. ArgsLogged'
    BY <1>1 DEF ArgsLogged
<1>9. argv' \in Seq(STRING)
    BY <1>1, <1>2
<1>10. CommandsApart' /\ phase' = "args" =>
          /\ logbuffer' \in Seq(STRING)
          /\ narg' <= Len(argv') => NotCommand(narg)'
          /\ AllInPlace(logbuffer, narg - 1)'
    BY <1>1, <1>7, SameArguments
<1> QED BY <1>4, <1>8, <1>9, <1>10 DEF LogInv

LEMMA LogArgsLogs ==
    ASSUME LogInv, LogArgs
    PROVE  LogInv'
<1>1. /\ phase = "args" /\ narg > Len(argv) /\ phase' = "environ"
      /\ argv' = argv /\ narg' = narg /\ logbuffer' = logbuffer /\ opened' = opened
      /\ opened /\ Printed([scope |-> {"ARGS"}], log_mask) => argsRecord' = logbuffer
    BY DEF LogArgs
<1>2. Printed([scope |-> {"ARGS"}], log_mask)
    BY DEF Printed, log_mask, LOG_DEV, LogMask
<1>3. narg - 1 = Len(argv)
    BY <1>1 DEF LogInv
<1>4. CommandsApart => AllInPlace(logbuffer, Len(argv))
    BY <1>1, <1>3 DEF LogInv
<1>5. ArgsLogged'
    <2> SUFFICES ASSUME opened', CommandsApart'
                 PROVE  AllInPlace(argsRecord, Len(argv))'
        BY DEF ArgsLogged
    <2>1. AllInPlace(argsRecord', Len(argv))
        BY <1>1, <1>2, <1>4, SameArguments
    <2> QED BY <1>1, <2>1, SameArguments
<1>6. argv' \in Seq(STRING) /\ narg' \in 1 .. Len(argv') + 1
    BY <1>1 DEF LogInv
<1> QED BY <1>1, <1>5, <1>6 DEF LogInv

\* No other step touches the arguments or their record.
LEMMA OthersKeepLog ==
    ASSUME LogInv, [StartNext]_startVars, ~ParseArg, ~LogArgs
    PROVE  LogInv'
<1>1. /\ UNCHANGED <<argv, narg, logbuffer, argsRecord>>
      /\ phase' = "args" => phase = "args"
      /\ phase' \in {"environ", "loop"} /\ opened' => phase \in {"environ", "loop"} /\ opened
    <2>1. CASE CopyEnviron \/ Decide
        BY <2>1 DEF CopyEnviron, Decide, startup
    <2>2. CASE ClientSetsEnv \/ ClientUnsetsEnv \/ ClientRuns
        BY <2>2 DEF ClientSetsEnv, ClientUnsetsEnv, ClientRuns, FromCDT, startup
    <2>3. CASE StdinEmptyLine \/ TestCrashes \/ TestTurn \/ ProgramStops \/ OnStopped
               \/ ProgramExits \/ ListenerKills \/ LeaveLoop
        BY <2>3 DEF StdinEmptyLine, TestCrashes, TestTurn, ProgramStops, OnStopped, ProgramExits,
                    ListenerKills, LeaveLoop, startup
    <2>4. CASE UNCHANGED startVars
        BY <2>4 DEF startVars, startup
    <2> QED BY <2>1, <2>2, <2>3, <2>4 DEF StartNext
<1>2. ArgsLogged'
    <2> SUFFICES ASSUME phase' \in {"environ", "loop"}, opened', CommandsApart'
                 PROVE  AllInPlace(argsRecord, Len(argv))'
        BY DEF ArgsLogged
    <2>1. CommandsApart
        BY <1>1, SameArguments
    <2>2. AllInPlace(argsRecord, Len(argv))
        BY <1>1, <2>1 DEF LogInv, ArgsLogged
    <2>3. AllInPlace(argsRecord', Len(argv))
        BY <1>1, <2>2
    <2> QED BY <1>1, <2>3, SameArguments
<1>3. CommandsApart' /\ phase' = "args" =>
          /\ logbuffer' \in Seq(STRING)
          /\ narg' <= Len(argv') => NotCommand(narg)'
          /\ AllInPlace(logbuffer, narg - 1)'
    <2> SUFFICES ASSUME CommandsApart', phase' = "args"
                 PROVE  /\ logbuffer' \in Seq(STRING)
                        /\ narg' <= Len(argv') => NotCommand(narg)'
                        /\ AllInPlace(logbuffer, narg - 1)'
        OBVIOUS
    <2>1. CommandsApart /\ phase = "args"
        BY <1>1, SameArguments
    <2>2. /\ narg <= Len(argv) => NotCommand(narg)
          /\ AllInPlace(logbuffer, narg - 1) /\ logbuffer \in Seq(STRING)
        BY <2>1 DEF LogInv
    <2>3. /\ narg' <= Len(argv') => NotCommand(narg')
          /\ AllInPlace(logbuffer', narg' - 1) /\ logbuffer' \in Seq(STRING)
        BY <1>1, <2>2
    <2> QED BY <1>1, <2>3, SameArguments
<1> QED BY <1>1, <1>2, <1>3 DEF LogInv

\* The record of the arguments tells how the program was started, for
\* arguments of any number and in any order.
THEOREM ArgumentsAreLogged == StartSpec => []ArgsLogged
<1>1. StartInit => LogInv
    <2> SUFFICES ASSUME StartInit PROVE LogInv
        OBVIOUS
    <2>1. argv \in Seq(STRING) /\ narg = 1 /\ logbuffer = <<>> /\ phase = "args"
        BY ArgsAssumption DEF StartInit
    <2>2. GivenUpTo(0) = {}
        BY DEF GivenUpTo
    <2>3. Cardinality(GivenUpTo(0)) = 0
        BY <2>2, FS_EmptySet
    <2>4. AllInPlace(logbuffer, narg - 1)
        BY <2>1, <2>2, <2>3 DEF AllInPlace
    <2>5. logbuffer \in Seq(STRING) /\ narg \in 1 .. Len(argv) + 1
        BY <2>1
    <2> QED BY <2>1, <2>4, <2>5 DEF LogInv, NotCommand, ArgsLogged
<1>2. LogInv /\ [StartNext]_startVars => LogInv'
    BY ParseArgLogs, LogArgsLogs, OthersKeepLog
<1>3. LogInv => ArgsLogged
    BY DEF LogInv
<1> QED BY <1>1, <1>2, <1>3, PTL DEF StartSpec
=============================================================================
