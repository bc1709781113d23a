-------------------------- MODULE Variables_proofs --------------------------
(***************************************************************************)
(* Proofs about Variables, for all declarations, all expressions, all      *)
(* limits and any number of frames and variable objects.                   *)
(***************************************************************************)
EXTENDS Variables, SequenceTheorems, NaturalsInduction, WellFoundedInduction, TLAPS

-----------------------------------------------------------------------------
(* Induction over a set of numbers, and functions defined by recursion *)

LEMMA LeastExists ==
    ASSUME NEW S \in SUBSET Nat, S # {}
    PROVE  \E m \in S : \A k \in S : m <= k
<1> DEFINE R == {p \in Nat \X Nat : p[1] < p[2]}
<1>1. IsWellFoundedOn(R, Nat)
    BY NatLessThanWellFounded, Zenon DEF OpToRel
<1>2. PICK x \in S : TRUE
    OBVIOUS
<1> HIDE DEF R
<1>3. PICK m \in S : \A k \in S : <<k, m>> \notin R
    BY <1>1, <1>2, WFMin
<1>4. \A k \in S : ~(k < m)
    BY <1>3 DEF R
<1> QED BY <1>4

LEMMA UpTheNumbers ==
    ASSUME NEW n \in Nat, NEW S, 0 \in S, \A i \in 0 .. n - 1 : i \in S => i + 1 \in S
    PROVE  \A i \in 0 .. n : i \in S
<1> DEFINE Missing == {i \in 0 .. n : i \notin S}
<1> SUFFICES ASSUME Missing # {} PROVE FALSE
    OBVIOUS
<1>1. PICK m \in Missing : \A k \in Missing : m <= k
    <2>1. Missing \in SUBSET Nat
        OBVIOUS
    <2> HIDE DEF Missing
    <2> QED BY <2>1, LeastExists
<1>2. m - 1 \in 0 .. n - 1 /\ m - 1 \notin Missing
    BY <1>1
<1> QED BY <1>1, <1>2

\* a value that is made step by step
StepByStep(n, V, base, step) ==
    \E g \in [0 .. n -> V] : g[0] = base /\ \A i \in 1 .. n : g[i] = step[i][g[i - 1]]

LEMMA Recursion ==
    ASSUME NEW n \in Nat, NEW V, NEW base \in V, NEW step \in [1 .. n -> [V -> V]]
    PROVE  StepByStep(n, V, base, step)
<1> DEFINE Made(k, g) == g[0] = base /\ \A i \in 1 .. k : g[i] = step[i][g[i - 1]]
           S == {k \in 0 .. n : \E g \in [0 .. k -> V] : Made(k, g)}
<1>1. 0 \in S
    <2> DEFINE g == [i \in 0 .. 0 |-> base]
    <2>1. g \in [0 .. 0 -> V] /\ Made(0, g)
        OBVIOUS
    <2>2. 0 \in 0 .. n
        OBVIOUS
    <2> HIDE DEF g, Made
    <2> QED BY <2>1, <2>2
<1>2. ASSUME NEW k \in 0 .. n - 1, k \in S PROVE k + 1 \in S
    <2>1. PICK g \in [0 .. k -> V] : Made(k, g)
        BY <1>2
    <2> DEFINE h == [i \in 0 .. k + 1 |-> IF i <= k THEN g[i] ELSE step[k + 1][g[k]]]
    <2>2. g[k] \in V /\ step[k + 1] \in [V -> V]
        OBVIOUS
    <2>3. h \in [0 .. k + 1 -> V]
        BY <2>2
    <2>4. Made(k + 1, h)
        <3>1. h[0] = base
            BY <2>1
        <3>2. ASSUME NEW i \in 1 .. k + 1 PROVE h[i] = step[i][h[i - 1]]
            <4>1. CASE i <= k
                <5>1. h[i] = g[i] /\ h[i - 1] = g[i - 1] /\ i \in 1 .. k
                    BY <4>1
                <5> QED BY <5>1, <2>1
            <4>2. CASE i = k + 1
                BY <4>2
            <4> QED BY <4>1, <4>2
        <3> QED BY <3>1, <3>2
    <2> HIDE DEF h, Made
    <2> QED BY <2>3, <2>4
<1>3. n \in S
    <2> HIDE DEF S
    <2>1. \A i \in 0 .. n : i \in S
        BY <1>1, <1>2, UpTheNumbers
    <2>2. n \in 0 .. n
        OBVIOUS
    <2> QED BY <2>1, <2>2
<1> QED BY <1>3 DEF StepByStep

LEMMA MaxIsGreatest ==
    ASSUME NEW n \in Nat, NEW S \in SUBSET (0 .. n), S # {}
    PROVE  Max(S) \in S /\ \A y \in S : y <= Max(S)
<1> DEFINE T == {n - x : x \in S}
<1>1. T \in SUBSET Nat /\ T # {}
    <2>1. \A x \in S : n - x \in Nat
        OBVIOUS
    <2> QED BY <2>1
<1> HIDE DEF T
<1>2. PICK t \in T : \A y \in T : t <= y
    BY <1>1, LeastExists
<1>3. PICK x \in S : t = n - x
    BY <1>2 DEF T
<1>4. \A y \in S : n - x <= n - y
    BY <1>2, <1>3 DEF T
<1>5. \A y \in S : x >= y
    BY <1>4
<1> QED BY <1>5 DEF Max

-----------------------------------------------------------------------------
(* Beginnings of sequences *)

LEMMA BeginningIs ==
    ASSUME NEW T, NEW s \in Seq(T), NEW k \in 0 .. Len(s)
    PROVE  /\ SubSeq(s, 1, k) \in Seq(T) /\ Len(SubSeq(s, 1, k)) = k
           /\ \A j \in 1 .. k : SubSeq(s, 1, k)[j] = s[j]
<1>1. 1 \in Int /\ k \in Int /\ Len(s) \in Nat /\ \A j \in 1 .. k : s[j] \in T
    OBVIOUS
<1>2. /\ SubSeq(s, 1, k) \in Seq(T)
      /\ Len(SubSeq(s, 1, k)) = IF 1 <= k THEN k - 1 + 1 ELSE 0
      /\ \A j \in 1 .. k - 1 + 1 : SubSeq(s, 1, k)[j] = s[1 + j - 1]
    BY <1>1, SubSeqProperties
<1> QED BY <1>1, <1>2

LEMMA BeginningGrows ==
    ASSUME NEW T, NEW s \in Seq(T), NEW k \in 0 .. Len(s) - 1
    PROVE  SubSeq(s, 1, k + 1) = Append(SubSeq(s, 1, k), s[k + 1])
<1> DEFINE a == SubSeq(s, 1, k)
           b == SubSeq(s, 1, k + 1)
<1>1. k \in 0 .. Len(s) /\ k + 1 \in 0 .. Len(s) /\ s[k + 1] \in T /\ k \in Nat
    OBVIOUS
<1>2. a \in Seq(T) /\ Len(a) = k /\ \A j \in 1 .. k : a[j] = s[j]
    BY <1>1, BeginningIs
<1>3. b \in Seq(T) /\ Len(b) = k + 1 /\ \A j \in 1 .. k + 1 : b[j] = s[j]
    BY <1>1, BeginningIs
<1> HIDE DEF a, b
<1> DEFINE c == Append(a, s[k + 1])
<1>4. /\ c \in Seq(T) /\ Len(c) = k + 1
      /\ \A j \in 1 .. k : c[j] = a[j]
      /\ c[k + 1] = s[k + 1]
    BY <1>1, <1>2, AppendProperties
<1> HIDE DEF c
<1>5. \A j \in 1 .. Len(b) : b[j] = c[j]
    BY <1>1, <1>2, <1>3, <1>4
<1>6. b = c
    BY <1>3, <1>4, <1>5, SeqEqual
<1> QED BY <1>6 DEF a, b, c

LEMMA BeginningOfBeginning ==
    ASSUME NEW T, NEW s \in Seq(T), NEW k \in 0 .. Len(s), NEW j \in 0 .. k
    PROVE  SubSeq(SubSeq(s, 1, k), 1, j) = SubSeq(s, 1, j)
<1> DEFINE a == SubSeq(s, 1, k)
           b == SubSeq(s, 1, j)
<1>1. j \in 0 .. Len(s) /\ k \in Nat /\ j \in Nat
    OBVIOUS
<1>2. a \in Seq(T) /\ Len(a) = k /\ \A x \in 1 .. k : a[x] = s[x]
    BY BeginningIs
<1>3. b \in Seq(T) /\ Len(b) = j /\ \A x \in 1 .. j : b[x] = s[x]
    BY <1>1, BeginningIs
<1> HIDE DEF a, b
<1> DEFINE c == SubSeq(a, 1, j)
<1>4. c \in Seq(T) /\ Len(c) = j /\ \A x \in 1 .. j : c[x] = a[x]
    BY <1>2, BeginningIs
<1> HIDE DEF c
<1>5. \A x \in 1 .. Len(b) : b[x] = c[x]
    BY <1>1, <1>2, <1>3, <1>4
<1>6. b = c
    BY <1>3, <1>4, <1>5, SeqEqual
<1> QED BY <1>6 DEF a, b, c

-----------------------------------------------------------------------------
(* LLDB's own search *)

Places == Paths \cup {NoPath}

LEMMA PathIs ==
    ASSUME NEW p \in Paths
    PROVE  /\ p \in Seq(Names) /\ p # NoPath /\ Len(p) \in Nat /\ Len(p) > 0
           /\ Kids[p] \in Seq(Names) /\ Range(Kids[p]) \subseteq Names
           /\ \A n \in Range(Kids[p]) : Append(p, n) \in Paths
<1>1. p \in Seq(Names) /\ p # NoPath /\ Kids[p] \in Seq(Names)
    BY VariablesAssumption
<1>2. Range(Kids[p]) \subseteq Names
    BY <1>1 DEF Range
<1>3. Len(p) \in Nat /\ Len(p) > 0
    BY <1>1 DEF NoPath
<1> QED BY <1>1, <1>2, <1>3, VariablesAssumption

LEMMA SeenAreKids ==
    ASSUME NEW p \in Paths
    PROVE  Seen(p) \subseteq Range(Kids[p])
<1>1. Kids[p] \in Seq(Names) /\ Len(Kids[p]) \in Nat /\ children_max \in Nat
    BY PathIs, VariablesAssumption
<1> DEFINE m == Min({Len(Kids[p]), children_max})
<1>2. m \in Nat /\ m <= Len(Kids[p])
    <2>1. Len(Kids[p]) <= children_max => m = Len(Kids[p])
        BY <1>1 DEF Min
    <2>2. ~(Len(Kids[p]) <= children_max) => m = children_max
        BY <1>1 DEF Min
    <2> QED BY <1>1, <2>1, <2>2
<1> HIDE DEF m
<1>3. \A i \in 1 .. m : i \in DOMAIN Kids[p]
    BY <1>1, <1>2
<1>4. Seen(p) = {Kids[p][i] : i \in 1 .. m}
    BY DEF Seen, m
<1> QED BY <1>3, <1>4 DEF Range

LEMMA MemberIn ==
    ASSUME NEW p \in Places, NEW n \in Names
    PROVE  Member(p, n) \in Places
<1>1. CASE p = NoPath
    BY <1>1 DEF Member, Places
<1>2. CASE p # NoPath /\ n \in Range(Kids[p])
    BY <1>2, PathIs DEF Member, Places
<1>3. CASE p # NoPath /\ n \notin Range(Kids[p])
    <2> DEFINE q == Append(p, Anonymous)
    <2>1. CASE q \in Paths /\ n \in Range(Kids[q])
        <3>1. Append(q, n) \in Paths
            BY <2>1, PathIs
        <3>2. p \in Seq(Names) /\ Len(p) \in Nat
            BY <1>3, PathIs DEF Places
        <3>3. Append(q, n) = p \o <<Anonymous, n>>
            BY <3>2
        <3> QED BY <1>3, <2>1, <3>1, <3>3 DEF Member, Places
    <2>2. CASE ~(q \in Paths /\ n \in Range(Kids[q]))
        BY <1>3, <2>2 DEF Member, Places
    <2> QED BY <2>1, <2>2
<1> QED BY <1>1, <1>2, <1>3

\* the declarations of a name
LEMMA DeclaredAre ==
    ASSUME NEW f \in Functions, NEW n
    PROVE  /\ Declared(f, n) \subseteq 1 .. Len(Locals[f]) /\ Len(Locals[f]) \in Nat
           /\ \A i \in Declared(f, n) : LocalAt(f, i) \in Paths
<1> DEFINE Local == [root : DOMAIN Called, scope : SUBSET Blocks]
<1>1. Locals[f] \in Seq(Local)
    BY VariablesAssumption
<1>2. \A d \in Local : <<d.root>> \in Paths
    BY VariablesAssumption
<1> HIDE DEF Local
<1>3. DOMAIN Locals[f] = 1 .. Len(Locals[f]) /\ Len(Locals[f]) \in Nat
    BY <1>1
<1>4. \A i \in 1 .. Len(Locals[f]) : Locals[f][i] \in Local
    BY <1>1
<1> QED BY <1>2, <1>3, <1>4 DEF Declared, LocalAt

LEMMA VisibleIs ==
    ASSUME NEW s \in Sites, NEW n
    PROVE  Visible(s, n) \in Places
<1>1. s.function \in Functions
    BY DEF Sites
<1>2. CASE InScope(s, n) = {}
    BY <1>2 DEF Visible, Places
<1>3. CASE InScope(s, n) # {}
    <2>1. InScope(s, n) \subseteq Declared(s.function, n)
        BY DEF InScope
    <2>2. Len(Locals[s.function]) \in Nat /\ InScope(s, n) \in SUBSET (0 .. Len(Locals[s.function]))
        BY <1>1, <2>1, DeclaredAre
    <2>3. Max(InScope(s, n)) \in InScope(s, n)
        BY <1>3, <2>2, MaxIsGreatest
    <2>4. LocalAt(s.function, Max(InScope(s, n))) \in Paths
        BY <1>1, <2>1, <2>3, DeclaredAre
    <2> QED BY <1>3, <2>4 DEF Visible, Places
<1> QED BY <1>2, <1>3

\* What the list of variables gives for a name is one of its declarations; it
\* is the visible one, unless the name is shadowed.
LEMMA FirstByNameIs ==
    ASSUME NEW s \in Sites, NEW n
    PROVE  /\ GetFirstValueByName(s, n) \in Places
           /\ ~Shadowed(s, n) => GetFirstValueByName(s, n) \in {NoPath, Visible(s, n)}
<1> DEFINE D == Declared(s.function, n)
           first == Min(D)
<1>1. s.function \in Functions
    BY DEF Sites
<1>2. CASE D = {} \/ ~Readable(s, first)
    BY <1>2 DEF GetFirstValueByName, Places
<1>3. CASE D # {} /\ Readable(s, first)
    <2>1. D \in SUBSET Nat
        BY <1>1, DeclaredAre
    <2>2. first \in D /\ \A j \in D : first <= j
        <3> HIDE DEF D
        <3>1. \E i \in D : \A j \in D : i <= j
            BY <1>3, <2>1, LeastExists
        <3> QED BY <3>1 DEF Min
    <2>3. GetFirstValueByName(s, n) = LocalAt(s.function, first)
        BY <1>3 DEF GetFirstValueByName
    <2>4. LocalAt(s.function, first) \in Paths
        BY <1>1, <2>2, DeclaredAre
    <2>5. ~Shadowed(s, n) => LocalAt(s.function, first) = Visible(s, n)
        <3> HIDE DEF first
        <3> QED BY <1>3, <2>2 DEF Shadowed
    <2> QED BY <2>3, <2>4, <2>5 DEF Places
<1> QED BY <1>2, <1>3

\* one step of the search
Onward(p, s, strict) == IF strict /\ ~Fits(p, s.sep) THEN NoPath ELSE Member(p, s.name)
Root(s, e) == Visible(s, e.root)

LEMMA ExpressionIs ==
    ASSUME NEW e \in Expression
    PROVE  /\ Len(e.steps) \in Nat
           /\ \A i \in 1 .. Len(e.steps) : e.steps[i].name \in Names
<1> DEFINE Steps == [sep : {".", "->", "["}, name : Names]
<1>1. e.steps \in Seq(Steps)
    BY DEF Expression
<1>2. \A s \in Steps : s.name \in Names
    OBVIOUS
<1> HIDE DEF Steps
<1> QED BY <1>1, <1>2

LEMMA ReachedIs ==
    ASSUME NEW s \in Sites, NEW e \in Expression, NEW strict \in BOOLEAN
    PROVE  /\ Reached(s, e, strict) \in [0 .. Len(e.steps) -> Places]
           /\ Reached(s, e, strict)[0] = Root(s, e)
           /\ \A i \in 1 .. Len(e.steps) :
                 Reached(s, e, strict)[i] =
                     Onward(Reached(s, e, strict)[i - 1], e.steps[i], strict)
<1> DEFINE n == Len(e.steps)
           step == [i \in 1 .. n |-> [p \in Places |-> Onward(p, e.steps[i], strict)]]
           Table(g) == [i \in 0 .. n |->
                          IF i = 0 THEN Visible(s, e.root)
                          ELSE IF strict /\ ~Fits(g[i - 1], e.steps[i].sep) THEN NoPath
                          ELSE Member(g[i - 1], e.steps[i].name)]
<1>1. n \in Nat /\ \A i \in 1 .. n : e.steps[i].name \in Names
    BY ExpressionIs
<1>2. Root(s, e) \in Places
    BY VisibleIs DEF Root
<1>3. step \in [1 .. n -> [Places -> Places]]
    BY <1>1, MemberIn DEF Onward, Places
<1>4. PICK g \in [0 .. n -> Places] :
          g[0] = Root(s, e) /\ \A i \in 1 .. n : g[i] = step[i][g[i - 1]]
    <2>1. n \in Nat
        BY <1>1
    <2> HIDE DEF step, n
    <2>2. StepByStep(n, Places, Root(s, e), step)
        BY <2>1, <1>2, <1>3, Recursion
    <2> QED BY <2>2 DEF StepByStep
<1>5. \A i \in 1 .. n : g[i] = Onward(g[i - 1], e.steps[i], strict)
    <2> SUFFICES ASSUME NEW i \in 1 .. n PROVE g[i] = Onward(g[i - 1], e.steps[i], strict)
        OBVIOUS
    <2>1. i - 1 \in 0 .. n
        BY <1>1
    <2>2. g[i - 1] \in Places
        BY <2>1
    <2>3. g[i] = step[i][g[i - 1]]
        <3> HIDE DEF step
        <3> QED BY <1>4
    <2> QED BY <2>2, <2>3
<1>6. g = Table(g)
    <2>1. \A i \in 0 .. n : i # 0 => i \in 1 .. n
        BY <1>1
    <2>2. \A i \in 0 .. n : g[i] = Table(g)[i]
        BY <1>4, <1>5, <2>1 DEF Root, Onward
    <2> QED BY <1>4, <2>2
<1> HIDE DEF step
<1>7. Reached(s, e, strict) = Table(Reached(s, e, strict))
    <2>1. Reached(s, e, strict) = CHOOSE h : h = Table(h)
        BY DEF Reached
    <2> HIDE DEF Table, n
    <2> QED BY <1>6, <2>1
<1> DEFINE r == Reached(s, e, strict)
<1>8. DOMAIN r = 0 .. n /\ r[0] = Root(s, e)
    BY <1>1, <1>7 DEF Root
<1>9. \A i \in 1 .. n : r[i] = Onward(r[i - 1], e.steps[i], strict)
    <2>1. \A i \in 1 .. n : i \in 0 .. n /\ i # 0
        BY <1>1
    <2> HIDE DEF r, n
    <2>2. r = Table(r)
        BY <1>7 DEF r
    <2> QED BY <2>1, <2>2 DEF Onward
<1>10. \A i \in 0 .. n : r[i] \in Places
    <2> DEFINE S == {i \in 0 .. n : r[i] \in Places}
    <2> HIDE DEF r
    <2>1. 0 \in S
        BY <1>1, <1>2, <1>8
    <2>2. ASSUME NEW i \in 0 .. n - 1, i \in S PROVE i + 1 \in S
        <3>1. i + 1 \in 1 .. n /\ (i + 1) - 1 = i /\ r[i] \in Places
            BY <1>1, <2>2
        <3>2. r[i + 1] = Onward(r[i], e.steps[i + 1], strict)
            BY <1>9, <3>1
        <3>3. Onward(r[i], e.steps[i + 1], strict) \in Places
            BY <1>1, <3>1, MemberIn DEF Onward, Places
        <3> QED BY <3>1, <3>2, <3>3
    <2> HIDE DEF S
    <2>3. \A i \in 0 .. n : i \in S
        BY <1>1, <2>1, <2>2, UpTheNumbers
    <2> QED BY <2>3 DEF S
<1>11. r = [i \in 0 .. n |-> r[i]]
    BY <1>7, <1>8
<1> QED BY <1>8, <1>9, <1>10, <1>11

\* A search that minds the operators finds what the other one finds, or nothing.
LEMMA StrictIsLoose ==
    ASSUME NEW s \in Sites, NEW e \in Expression
    PROVE  \A i \in 0 .. Len(e.steps) :
               Reached(s, e, TRUE)[i] \in {NoPath, Reached(s, e, FALSE)[i]}
<1> DEFINE n == Len(e.steps)
           t == Reached(s, e, TRUE)
           l == Reached(s, e, FALSE)
           S == {i \in 0 .. n : t[i] \in {NoPath, l[i]}}
<1>1. n \in Nat
    BY ExpressionIs
<1>2. /\ t[0] = l[0]
      /\ \A i \in 1 .. n : t[i] = Onward(t[i - 1], e.steps[i], TRUE)
      /\ \A i \in 1 .. n : l[i] = Onward(l[i - 1], e.steps[i], FALSE)
    BY ReachedIs
<1> HIDE DEF n, t, l
<1>3. 0 \in S
    BY <1>1, <1>2
<1>4. ASSUME NEW i \in 0 .. n - 1, i \in S PROVE i + 1 \in S
    <2>1. i + 1 \in 1 .. n /\ (i + 1) - 1 = i /\ i + 1 \in 0 .. n
        BY <1>1
    <2>2. t[i + 1] = Onward(t[i], e.steps[i + 1], TRUE) /\ l[i + 1] = Onward(l[i], e.steps[i + 1], FALSE)
        BY <1>2, <2>1
    <2>3. CASE t[i] = NoPath
        BY <2>1, <2>2, <2>3 DEF Onward, Member
    <2>4. CASE t[i] = l[i]
        BY <2>1, <2>2, <2>4 DEF Onward
    <2> QED BY <1>4, <2>3, <2>4
<1> HIDE DEF S
<1>5. \A i \in 0 .. n : i \in S
    BY <1>1, <1>3, <1>4, UpTheNumbers
<1> QED BY <1>5 DEF S, n, t, l

\* what a search returns
Variable == [path : Paths, op : Ops]

LEMMA NoVarIsNone == NoVar \notin Variable /\ NoPath \notin Paths
BY VariablesAssumption DEF NoVar, Variable

\* The parts of a variable; the provers need to be told.
LEMMA PartsAre ==
    ASSUME NEW p, NEW o, NEW v, v = [path |-> p, op |-> o]
    PROVE  v.path = p /\ v.op = o
<1>1. [path |-> p, op |-> o].path = p /\ [path |-> p, op |-> o].op = o
    OBVIOUS
<1> QED BY <1>1, Zenon

LEMMA DenotedIs ==
    ASSUME NEW s \in Sites, NEW e \in Expression, NEW strict \in BOOLEAN,
           NEW p, p = Reached(s, e, strict)[Len(e.steps)]
    PROVE  /\ p \in Places
           /\ Denoted(s, e, strict) \in Variable \cup {NoVar}
           /\ Denoted(s, e, strict) # NoVar =>
                 p \in Paths /\ Denoted(s, e, strict) = [path |-> p, op |-> e.op]
           /\ e.op = "" /\ p \in Paths => Denoted(s, e, strict) = [path |-> p, op |-> ""]
<1>1. p \in Places
    <2>1. Len(e.steps) \in 0 .. Len(e.steps)
        BY ExpressionIs
    <2> QED BY <2>1, ReachedIs
<1>2. e.op \in Ops
    BY DEF Expression
<1>3. Denoted(s, e, strict) = IF p = NoPath \/ e.op = "@" \/ (e.op = "*" /\ p \notin Pointer)
                              THEN NoVar ELSE [path |-> p, op |-> e.op]
    BY DEF Denoted
<1>4. CASE p = NoPath \/ e.op = "@" \/ (e.op = "*" /\ p \notin Pointer)
    <2>1. Denoted(s, e, strict) = NoVar
        BY <1>3, <1>4
    <2>2. ~(e.op = "" /\ p \in Paths)
        BY <1>4, NoVarIsNone
    <2> QED BY <1>1, <2>1, <2>2
<1>5. CASE ~(p = NoPath \/ e.op = "@" \/ (e.op = "*" /\ p \notin Pointer))
    <2>1. Denoted(s, e, strict) = [path |-> p, op |-> e.op] /\ p \in Paths
        BY <1>1, <1>3, <1>5 DEF Places
    <2>2. [path |-> p, op |-> e.op] \in Variable
        BY <1>2, <2>1 DEF Variable
    <2> QED BY <1>1, <2>1, <2>2
<1> QED BY <1>4, <1>5

LEMMA DenotedStrictly ==
    ASSUME NEW s \in Sites, NEW e \in Expression
    PROVE  Denoted(s, e, TRUE) \in {NoVar, Denoted(s, e, FALSE)}
<1> DEFINE n == Len(e.steps)
<1>1. n \in 0 .. n
    BY ExpressionIs
<1>2. Reached(s, e, TRUE)[n] \in {NoPath, Reached(s, e, FALSE)[n]}
    BY <1>1, StrictIsLoose
<1> HIDE DEF n
<1> QED BY <1>2 DEF Denoted, n

-----------------------------------------------------------------------------
(* The search of variables.cpp *)

LEMMA FirstFoundIs ==
    ASSUME NEW a, NEW b, NEW c, NEW v, v = FirstFound(<<a, b, c>>)
    PROVE  /\ v = NoVar \/ (v \in {a, b, c} /\ v.path # NoPath)
           /\ a.path # NoPath \/ b.path # NoPath \/ c.path # NoPath => v.path # NoPath
<1> DEFINE vs == <<a, b, c>>
           T == {i \in DOMAIN vs : vs[i].path # NoPath}
<1>1. DOMAIN vs = 1 .. 3 /\ vs[1] = a /\ vs[2] = b /\ vs[3] = c
    OBVIOUS
<1> HIDE DEF vs
<1>2. \A i \in DOMAIN vs : vs[i] \in {a, b, c}
    <2>1. \A i \in 1 .. 3 : i = 1 \/ i = 2 \/ i = 3
        OBVIOUS
    <2> QED BY <1>1, <2>1
<1>3. v = IF \E i \in DOMAIN vs : vs[i].path # NoPath THEN vs[Min(T)] ELSE NoVar
    BY DEF FirstFound, vs
<1>4. CASE T = {}
    <2>1. v = NoVar
        BY <1>3, <1>4
    <2>2. \A i \in 1 .. 3 : vs[i].path = NoPath
        BY <1>1, <1>4
    <2>3. a.path = NoPath /\ b.path = NoPath /\ c.path = NoPath
        BY <1>1, <2>2
    <2> QED BY <2>1, <2>3
<1>5. CASE T # {}
    <2>1. T \in SUBSET Nat
        BY <1>1
    <2>2. v = vs[Min(T)]
        BY <1>3, <1>5
    <2>3. Min(T) \in T
        <3> HIDE DEF T
        <3>1. \E m \in T : \A k \in T : m <= k
            BY <1>5, <2>1, LeastExists
        <3> QED BY <3>1 DEF Min
    <2> QED BY <1>2, <2>2, <2>3
<1> QED BY <1>4, <1>5

\* The standard search gives a variable of the expression's own operator, and
\* the one the expression denotes, unless the root's name is shadowed.
LEMMA StandardIs ==
    ASSUME NEW s \in Sites, NEW e \in Expression, NEW v, v = getStandardPathVariable(s, e)
    PROVE  /\ v \in Variable \cup {NoVar}
           /\ v # NoVar => v.op = e.op /\ e.op # "@"
           /\ ~Shadowed(s, e.root) => v = Denoted(s, e, TRUE)
<1> DEFINE name == ByName(s, e)
           d == Denoted(s, e, TRUE)
           first == GetFirstValueByName(s, e.root)
<1>1. v = FirstFound(<<name, d, d>>)
    BY DEF getStandardPathVariable, GetValueForVariablePath, EvaluateExpression
<1>2. /\ v = NoVar \/ (v \in {name, d} /\ v.path # NoPath)
      /\ d.path # NoPath => v.path # NoPath
    <2> HIDE DEF name, d
    <2> QED BY <1>1, FirstFoundIs
<1>3. NoVar.path = NoPath /\ \A x \in Variable : x.path \in Paths /\ x.path # NoPath
    BY NoVarIsNone DEF NoVar, Variable
<1>4. d \in Variable \cup {NoVar} /\ (d # NoVar => d.op = e.op /\ e.op # "@")
    <2>1. TRUE \in BOOLEAN
        OBVIOUS
    <2>2. d \in Variable \cup {NoVar}
        BY <2>1, DenotedIs
    <2> QED BY <2>2 DEF Denoted
<1>5. ASSUME name.path # NoPath
      PROVE  /\ name = [path |-> first, op |-> ""] /\ name \in Variable
             /\ name.op = "" /\ e.op = "" /\ e.steps = <<>>
    <2>1. name = [path |-> IF Listable(e) THEN first ELSE NoPath, op |-> ""]
        BY DEF ByName
    <2>2. name.path = IF Listable(e) THEN first ELSE NoPath
        <3> DEFINE p == IF Listable(e) THEN first ELSE NoPath
        <3> HIDE DEF p, name
        <3>1. name = [path |-> p, op |-> ""]
            BY <2>1 DEF p
        <3>2. name.path = p
            BY <3>1, PartsAre
        <3> QED BY <3>2 DEF p
    <2>3. Listable(e)
        BY <1>5, <2>2
    <2>4. first \in Paths
        BY <1>5, <2>2, <2>3, FirstByNameIs DEF Places
    <2> HIDE DEF first, name
    <2>5. name = [path |-> first, op |-> ""]
        BY <2>1, <2>3
    <2>6. [path |-> first, op |-> ""] \in Variable
        BY <2>4 DEF Variable, Ops
    <2> QED BY <2>3, <2>5, <2>6 DEF Listable
<1>6. ASSUME ~Shadowed(s, e.root), name.path # NoPath
      PROVE  name = d
    <2>1. name = [path |-> first, op |-> ""] /\ name \in Variable /\ e.op = "" /\ e.steps = <<>>
        BY <1>5, <1>6
    <2>2. first \in Paths
        <3> HIDE DEF first, name
        <3>1. name.path = first
            BY <2>1
        <3> QED BY <2>1, <3>1 DEF Variable
    <2>3. first = Visible(s, e.root)
        BY <1>6, <2>2, FirstByNameIs, NoVarIsNone
    <2>4. TRUE \in BOOLEAN /\ Len(e.steps) = 0
        BY <2>1
    <2>5. Reached(s, e, TRUE)[Len(e.steps)] = first
        BY <2>3, <2>4, ReachedIs DEF Root
    <2> HIDE DEF first, name
    <2>6. Denoted(s, e, TRUE) = [path |-> first, op |-> ""]
        BY <2>1, <2>2, <2>4, <2>5, DenotedIs
    <2> QED BY <2>1, <2>6
<1> HIDE DEF name, d
<1>7. v \in Variable \cup {NoVar}
    BY <1>2, <1>4, <1>5
<1>8. v # NoVar => v.op = e.op /\ e.op # "@"
    BY <1>2, <1>4, <1>5
<1>9. ~Shadowed(s, e.root) => v = d
    <2> SUFFICES ASSUME ~Shadowed(s, e.root) PROVE v = d
        OBVIOUS
    <2>1. CASE v = NoVar
        <3>1. d.path = NoPath
            BY <1>2, <1>3, <2>1
        <3> QED BY <1>3, <1>4, <2>1, <3>1
    <2>2. CASE v # NoVar
        BY <1>2, <1>6, <2>2
    <2> QED BY <2>1, <2>2
<1> QED BY <1>7, <1>8, <1>9 DEF d

\* The beginning of an expression is searched like the expression.
LEMMA UpToIs ==
    ASSUME NEW e \in Expression, NEW i \in 1 .. Len(e.steps)
    PROVE  /\ UpTo(e, i) \in Expression
           /\ UpTo(e, i).op = e.op /\ UpTo(e, i).root = e.root
           /\ Len(UpTo(e, i).steps) = i - 1
           /\ \A k \in 1 .. i - 1 : UpTo(e, i).steps[k] = e.steps[k]
<1> DEFINE Steps == [sep : {".", "->", "["}, name : Names]
           s == SubSeq(e.steps, 1, i - 1)
<1>1. e.steps \in Seq(Steps) /\ Len(e.steps) \in Nat
    BY DEF Expression
<1>2. s \in Seq(Steps) /\ Len(s) = i - 1 /\ \A k \in 1 .. i - 1 : s[k] = e.steps[k]
    <2> HIDE DEF Steps
    <2> QED BY <1>1
<1>3. e = [op |-> e.op, root |-> e.root, steps |-> e.steps] /\ e.op \in Ops /\ e.root \in Names
    BY DEF Expression
<1>4. UpTo(e, i) = [op |-> e.op, root |-> e.root, steps |-> s]
    <2>1. UpTo(e, i) = [e EXCEPT !.steps = s]
        BY DEF UpTo
    <2> HIDE DEF s
    <2> QED BY <1>3, <2>1
<1> HIDE DEF s
<1> QED BY <1>2, <1>3, <1>4 DEF Expression

LEMMA UpToReached ==
    ASSUME NEW s \in Sites, NEW e \in Expression, NEW i \in 1 .. Len(e.steps),
           NEW strict \in BOOLEAN
    PROVE  \A k \in 0 .. i - 1 : Reached(s, UpTo(e, i), strict)[k] = Reached(s, e, strict)[k]
<1> DEFINE u == UpTo(e, i)
           r == Reached(s, e, strict)
           c == Reached(s, u, strict)
           S == {k \in 0 .. i - 1 : c[k] = r[k]}
<1>1. i \in Nat /\ i > 0 /\ Len(e.steps) \in Nat
    BY ExpressionIs
<1>2. u \in Expression /\ u.root = e.root /\ Len(u.steps) = i - 1
      /\ \A k \in 1 .. i - 1 : u.steps[k] = e.steps[k]
    BY UpToIs
<1> HIDE DEF u
<1>3. /\ r[0] = Root(s, e) /\ c[0] = Root(s, u)
      /\ \A k \in 1 .. Len(e.steps) : r[k] = Onward(r[k - 1], e.steps[k], strict)
      /\ \A k \in 1 .. i - 1 : c[k] = Onward(c[k - 1], u.steps[k], strict)
    BY <1>2, ReachedIs
<1> HIDE DEF r, c
<1>4. 0 \in S
    BY <1>1, <1>2, <1>3 DEF Root
<1>5. ASSUME NEW k \in 0 .. (i - 1) - 1, k \in S PROVE k + 1 \in S
    <2>1. k + 1 \in 1 .. i - 1 /\ k + 1 \in 1 .. Len(e.steps) /\ (k + 1) - 1 = k
        BY <1>1
    <2>2. u.steps[k + 1] = e.steps[k + 1] /\ c[k] = r[k]
        BY <1>2, <1>5, <2>1
    <2>3. r[k + 1] = Onward(r[k], e.steps[k + 1], strict) /\ c[k + 1] = Onward(c[k], u.steps[k + 1], strict)
        BY <1>3, <2>1
    <2> QED BY <2>1, <2>2, <2>3
<1> HIDE DEF S
<1>6. \A k \in 0 .. i - 1 : k \in S
    <2>1. i - 1 \in Nat
        BY <1>1
    <2> QED BY <1>4, <1>5, <2>1, UpTheNumbers
<1> QED BY <1>6 DEF S, r, c, u

LEMMA RootCutIs ==
    ASSUME NEW s \in Sites, NEW e \in Expression, RootCut(s, e) # 0
    PROVE  /\ RootCut(s, e) \in 1 .. Len(e.steps)
           /\ getStandardPathVariable(s, UpTo(e, RootCut(s, e))) # NoVar
<1> DEFINE T == {i \in Cuts(e.steps) : getStandardPathVariable(s, UpTo(e, i)) # NoVar}
           S == {0} \cup T
<1>1. Len(e.steps) \in Nat /\ DOMAIN e.steps = 1 .. Len(e.steps)
    BY ExpressionIs DEF Expression
<1>2. T \subseteq 1 .. Len(e.steps)
    BY <1>1 DEF Cuts
<1>3. RootCut(s, e) = Max(S)
    BY DEF RootCut
<1> HIDE DEF T
<1>4. Max(S) \in S
    <2>1. S \in SUBSET (0 .. Len(e.steps)) /\ S # {}
        BY <1>1, <1>2
    <2> HIDE DEF S
    <2> QED BY <1>1, <2>1, MaxIsGreatest
<1>5. RootCut(s, e) \in T
    BY <1>3, <1>4
<1> QED BY <1>2, <1>5 DEF T

LEMMA WalkIs ==
    ASSUME NEW path, NEW steps
    PROVE  Walk(path, steps) \in Places
<1> DEFINE found(q) ==
              /\ Len(q) = Len(path) + Len(steps) /\ IsPrefix(path, q)
              /\ \A i \in DOMAIN steps :
                    /\ q[Len(path) + i] \in Seen(SubSeq(q, 1, Len(path) + i - 1))
                    /\ getName(q[Len(path) + i]) = steps[i].name
                    /\ i = Len(steps) \/ steps[i + 1].sep # "["
                    /\ walk_depth_max - i > 1
<1>1. Walk(path, steps) = IF \E q \in Paths : found(q) THEN CHOOSE q \in Paths : found(q) ELSE NoPath
    BY DEF Walk
<1> HIDE DEF found
<1> QED BY <1>1 DEF Places

\* A path found by walking over the children is the path the expression
\* denotes, if the root is.
LEMMA WalkDenotes ==
    ASSUME NEW s \in Sites, NEW e \in Expression, NEW i \in 1 .. Len(e.steps),
           NEW root \in Paths, root = Reached(s, e, FALSE)[i - 1],
           NEW w, w = Walk(root, SubSeq(e.steps, i, Len(e.steps))), w # NoPath
    PROVE  w \in Paths /\ w = Reached(s, e, FALSE)[Len(e.steps)]
<1> DEFINE n == Len(e.steps)
           steps == SubSeq(e.steps, i, n)
           r == Reached(s, e, FALSE)
           m == n - i + 1
           l == Len(root)
           found(q) == /\ Len(q) = l + Len(steps) /\ IsPrefix(root, q)
                       /\ \A k \in DOMAIN steps :
                             /\ q[l + k] \in Seen(SubSeq(q, 1, l + k - 1))
                             /\ getName(q[l + k]) = steps[k].name
                             /\ k = Len(steps) \/ steps[k + 1].sep # "["
                             /\ walk_depth_max - k > 1
           S == {k \in 0 .. m : r[(i - 1) + k] = SubSeq(w, 1, l + k)}
<1>1. n \in Nat /\ i \in Nat /\ i > 0 /\ i <= n /\ \A k \in 1 .. n : e.steps[k].name \in Names
    BY ExpressionIs
<1>2. Len(steps) = m /\ DOMAIN steps = 1 .. m /\ \A k \in 1 .. m : steps[k] = e.steps[(i - 1) + k]
    <2> DEFINE Steps == [sep : {".", "->", "["}, name : Names]
    <2>1. e.steps \in Seq(Steps)
        BY DEF Expression
    <2> HIDE DEF Steps
    <2> QED BY <1>1, <2>1
<1>3. w \in Paths /\ found(w)
    <2> HIDE DEF steps, l
    <2>1. w = IF \E q \in Paths : found(q) THEN CHOOSE q \in Paths : found(q) ELSE NoPath
        BY DEF Walk, steps, l
    <2> HIDE DEF found
    <2> QED BY <2>1
<1>4. /\ w \in Seq(Names) /\ Len(w) = l + m /\ SubSeq(w, 1, l) = root
      /\ root \in Seq(Names) /\ l \in Nat /\ l > 0
    <2>1. Len(w) = l + m /\ SubSeq(w, 1, l) = SubSeq(root, 1, l)
        BY <1>2, <1>3 DEF IsPrefix
    <2>2. w \in Seq(Names) /\ root \in Seq(Names) /\ l \in Nat /\ l > 0
        BY <1>3, PathIs
    <2>3. SubSeq(root, 1, Len(root)) = root
        BY <2>2, SubSeqFull
    <2> QED BY <2>1, <2>2, <2>3
<1>5. \A k \in 1 .. m : w[l + k] \in Seen(SubSeq(w, 1, l + k - 1)) /\ getName(w[l + k]) = steps[k].name
    <2> SUFFICES ASSUME NEW k \in 1 .. m
                 PROVE  w[l + k] \in Seen(SubSeq(w, 1, l + k - 1)) /\ getName(w[l + k]) = steps[k].name
        OBVIOUS
    <2> HIDE DEF steps, m, l
    <2>1. k \in DOMAIN steps
        BY <1>2
    <2>2. \A j \in DOMAIN steps :
              w[l + j] \in Seen(SubSeq(w, 1, l + j - 1)) /\ getName(w[l + j]) = steps[j].name
        BY <1>3, Zenon
    <2> QED BY <2>1, <2>2, Zenon
<1>6. /\ \A k \in 1 .. n : r[k] = Onward(r[k - 1], e.steps[k], FALSE)
      /\ \A k \in 0 .. n : r[k] \in Places
    BY ReachedIs
<1>7. r[i - 1] = root
    OBVIOUS
<1> HIDE DEF r, steps, l, found
<1>8. 0 \in S
    <2>1. (i - 1) + 0 = i - 1 /\ l + 0 = l /\ 0 \in 0 .. m
        BY <1>1, <1>4
    <2> QED BY <1>4, <1>7, <2>1
<1>9. ASSUME NEW k \in 0 .. m - 1, k \in S PROVE k + 1 \in S
    <2> DEFINE here == SubSeq(w, 1, l + k)
               c == w[l + (k + 1)]
               j == (i - 1) + (k + 1)
    <2>1. /\ k + 1 \in 1 .. m /\ j \in 1 .. n /\ j - 1 = (i - 1) + k /\ j - 1 \in 0 .. n
          /\ l + (k + 1) - 1 = l + k /\ l + k \in 0 .. Len(w) - 1 /\ l + k \in 0 .. Len(w)
        <3>1. k \in Nat /\ k + 1 <= m /\ m = n - i + 1 /\ m \in Nat
            BY <1>1
        <3>2. Len(w) = l + m /\ l \in Nat
            BY <1>4
        <3>3. k + 1 \in 1 .. m /\ j \in 1 .. n /\ j - 1 = (i - 1) + k /\ j - 1 \in 0 .. n
            BY <1>1, <3>1
        <3>4. l + k \in 0 .. (l + m) - 1 /\ l + k \in 0 .. l + m /\ l + (k + 1) - 1 = l + k
            <4> HIDE DEF m
            <4> QED BY <3>1, <3>2
        <3> HIDE DEF n, m, j
        <3> QED BY <3>1, <3>2, <3>3, <3>4
    <2>2. here = r[j - 1] /\ here \in Places
        BY <1>6, <1>9, <2>1
    <2>3. here \in Seq(Names) /\ Len(here) = l + k
        BY <1>4, <2>1, BeginningIs
    <2>4. here \in Paths
        <3>1. here # NoPath
            <4> HIDE DEF here
            <4> QED BY <1>4, <2>1, <2>3 DEF NoPath
        <3> QED BY <2>2, <3>1 DEF Places
    <2>5. c \in Range(Kids[here])
        BY <1>5, <2>1, <2>4, SeenAreKids
    <2>6. c = e.steps[j].name
        <3>1. getName(c) = e.steps[j].name /\ e.steps[j].name \in Names
            BY <1>1, <1>2, <1>5, <2>1
        <3> QED BY <3>1, VariablesAssumption DEF getName
    <2>7. Append(here, c) = SubSeq(w, 1, l + (k + 1))
        <3>1. l + (k + 1) = (l + k) + 1
            BY <1>4, <2>1
        <3> QED BY <1>4, <2>1, <3>1, BeginningGrows
    <2>8. Member(here, c) = Append(here, c)
        BY <2>4, <2>5, PathIs DEF Member
    <2>9. r[j] = Onward(here, e.steps[j], FALSE)
        BY <1>6, <2>1, <2>2
    <2> HIDE DEF here, c
    <2>10. r[j] = SubSeq(w, 1, l + (k + 1))
        BY <2>6, <2>7, <2>8, <2>9 DEF Onward
    <2>11. k + 1 \in 0 .. m
        BY <2>1
    <2> QED BY <2>10, <2>11
<1>10. m \in Nat /\ m \in 0 .. m
    BY <1>1
<1> HIDE DEF S, m
<1>11. m \in S
    BY <1>8, <1>9, <1>10, UpTheNumbers
<1>12. r[(i - 1) + m] = SubSeq(w, 1, l + m)
    BY <1>11 DEF S
<1>13. (i - 1) + m = n /\ SubSeq(w, 1, l + m) = w
    <2>1. SubSeq(w, 1, Len(w)) = w
        BY <1>4, SubSeqFull
    <2>2. (i - 1) + m = n
        BY <1>1 DEF m
    <2> QED BY <1>4, <2>1, <2>2
<1> QED BY <1>3, <1>12, <1>13 DEF r

LEMMA DirectIs ==
    ASSUME NEW s \in Sites, NEW e \in Expression, NEW v, v = getDirectPathVariable(s, e),
           v.path # NoPath
    PROVE  /\ v \in Variable /\ v.op = "" /\ e.steps # <<>>
           /\ ~Shadowed(s, e.root) => v = [path |-> Reached(s, e, FALSE)[Len(e.steps)], op |-> ""]
<1> DEFINE i == RootCut(s, e)
           u == UpTo(e, i)
           d == getStandardPathVariable(s, u)
           w == Walk(d.path, SubSeq(e.steps, i, Len(e.steps)))
<1>1. v = IF i = 0 THEN NoVar ELSE [path |-> w, op |-> ""]
    BY DEF getDirectPathVariable
<1>2. i # 0 /\ v = [path |-> w, op |-> ""] /\ w # NoPath
    <2> HIDE DEF w, i
    <2>1. NoVar.path = NoPath
        BY DEF NoVar
    <2>2. [path |-> w, op |-> ""].path = w
        OBVIOUS
    <2> QED BY <1>1, <2>1, <2>2
<1>3. w \in Paths
    BY <1>2, WalkIs DEF Places
<1>4. i \in 1 .. Len(e.steps) /\ d # NoVar
    BY <1>2, RootCutIs
<1>5. Len(e.steps) \in Nat
    BY ExpressionIs
<1>6. e.steps # <<>>
    <2>1. Len(e.steps) # 0
        BY <1>4, <1>5
    <2> QED BY <2>1
<1>7. ~Shadowed(s, e.root) => w = Reached(s, e, FALSE)[Len(e.steps)]
    <2> SUFFICES ASSUME ~Shadowed(s, e.root) PROVE w = Reached(s, e, FALSE)[Len(e.steps)]
        OBVIOUS
    <2>1. u \in Expression /\ Len(u.steps) = i - 1 /\ u.root = e.root
        BY <1>4, UpToIs
    <2>2. d = Denoted(s, u, TRUE)
        <3> HIDE DEF u
        <3> QED BY <2>1, StandardIs
    <2>3. d.path \in Paths /\ d.path = Reached(s, u, TRUE)[i - 1]
        <3> DEFINE p == Reached(s, u, TRUE)[Len(u.steps)]
        <3>1. p \in Paths /\ d = [path |-> p, op |-> u.op]
            <4> HIDE DEF u, p, d
            <4>1. TRUE \in BOOLEAN /\ p = Reached(s, u, TRUE)[Len(u.steps)]
                BY DEF p
            <4> QED BY <1>4, <2>1, <2>2, <4>1, DenotedIs
        <3>2. p = Reached(s, u, TRUE)[i - 1]
            BY <2>1
        <3> HIDE DEF p, u, i, d
        <3>3. d.path = p
            BY <3>1
        <3> QED BY <3>1, <3>2, <3>3
    <2>4. i - 1 \in 0 .. i - 1 /\ i - 1 \in 0 .. Len(e.steps)
        BY <1>4, <1>5
    <2>5. Reached(s, UpTo(e, i), TRUE)[i - 1] = Reached(s, e, TRUE)[i - 1]
        BY <1>4, <2>4, UpToReached
    <2>6. Reached(s, e, TRUE)[i - 1] \in {NoPath, Reached(s, e, FALSE)[i - 1]}
        BY <2>4, StrictIsLoose
    <2>7. d.path = Reached(s, e, FALSE)[i - 1]
        BY <2>3, <2>5, <2>6, NoVarIsNone
    <2> HIDE DEF i, d
    <2> QED BY <1>2, <1>4, <2>3, <2>7, WalkDenotes
<1> HIDE DEF w, i, d, u
<1>8. [path |-> w, op |-> ""] \in Variable /\ [path |-> w, op |-> ""].op = ""
    BY <1>3 DEF Variable, Ops
<1> QED BY <1>2, <1>6, <1>7, <1>8

\* What is searched for is what the expression denotes, and it is found if
\* LLDB can find it, unless the root's name is shadowed.
LEMMA FoundMeant ==
    ASSUME NEW s \in Sites, NEW e \in Expressions, NEW v, v = getVariable(s, e)
    PROVE  /\ v \in Variable \cup {NoVar}
           /\ Plain(e) /\ ~Shadowed(s, e.root) /\ e.op # "@" =>
                 /\ v \in {NoVar, Denoted(s, e, FALSE)}
                 /\ Denoted(s, e, TRUE) # NoVar => v # NoVar
<1> DEFINE a == getPseudoArrayVariable(s, e)
           b == getDirectPathVariable(s, e)
           c == getStandardPathVariable(s, e)
           r == Reached(s, e, FALSE)[Len(e.steps)]
<1>1. e \in Expression
    BY VariablesAssumption
<1>2. a = NoVar \/ (e.op = "@" /\ a \in Variable)
    BY VariablesAssumption DEF getPseudoArrayVariable, Variable, Ops
<1>3. b.path # NoPath =>
          /\ b \in Variable /\ e.steps # <<>>
          /\ ~Shadowed(s, e.root) => b = [path |-> r, op |-> ""]
    BY <1>1, DirectIs
<1>4. /\ c \in Variable \cup {NoVar}
      /\ ~Shadowed(s, e.root) => c = Denoted(s, e, TRUE)
    BY <1>1, StandardIs
<1>5. v = FirstFound(<<a, b, c>>)
    BY DEF getVariable
<1>6. r \in Paths /\ e.op = "" => Denoted(s, e, FALSE) = [path |-> r, op |-> ""]
    <2>1. FALSE \in BOOLEAN
        OBVIOUS
    <2> QED BY <1>1, <2>1, DenotedIs
<1>7. /\ v = NoVar \/ (v \in {a, b, c} /\ v.path # NoPath)
      /\ c.path # NoPath => v.path # NoPath
    <2> HIDE DEF a, b, c
    <2> QED BY <1>5, FirstFoundIs
<1>8. NoVar.path = NoPath /\ \A x \in Variable : x.path \in Paths /\ x.path # NoPath
    BY NoVarIsNone DEF NoVar, Variable
<1>9. Denoted(s, e, TRUE) \in {NoVar, Denoted(s, e, FALSE)}
    BY <1>1, DenotedStrictly
<1> HIDE DEF a, b, c, r
<1>10. v \in Variable \cup {NoVar}
    <2>1. CASE v = b /\ v.path # NoPath
        BY <1>3, <2>1
    <2>2. CASE v \in {NoVar, a, c}
        BY <1>2, <1>4, <2>2
    <2> QED BY <1>7, <2>1, <2>2
<1>11. ASSUME Plain(e), ~Shadowed(s, e.root), e.op # "@"
       PROVE  /\ v \in {NoVar, Denoted(s, e, FALSE)}
              /\ Denoted(s, e, TRUE) # NoVar => v # NoVar
    <2>1. c = Denoted(s, e, TRUE)
        BY <1>4, <1>11
    <2>2. v = NoVar \/ v = b \/ v = c
        BY <1>2, <1>7, <1>11
    <2>3. ASSUME v = b, v # NoVar PROVE v = Denoted(s, e, FALSE)
        <3>1. b.path # NoPath
            BY <1>7, <2>3
        <3>2. b = [path |-> r, op |-> ""] /\ e.op = "" /\ b \in Variable
            BY <1>3, <1>11, <3>1 DEF Plain
        <3>3. r \in Paths
            <4>1. b.path = r
                BY <3>2
            <4> QED BY <1>8, <3>2, <4>1
        <3> QED BY <1>6, <2>3, <3>2, <3>3
    <2>4. v \in {NoVar, Denoted(s, e, FALSE)}
        BY <1>9, <2>1, <2>2, <2>3
    <2>5. c # NoVar => v # NoVar
        BY <1>4, <1>7, <1>8
    <2> QED BY <2>1, <2>4, <2>5
<1> QED BY <1>10, <1>11

-----------------------------------------------------------------------------
(* The walks over the children *)

\* what is below a path within so many levels
Deep(path, depth) ==
    {p \in Paths :
        \/ p = path
        \/ /\ IsPrefix(path, p) /\ Len(p) - Len(path) < depth
           /\ \A i \in Len(path) + 1 .. Len(p) :
                 LET q == SubSeq(p, 1, i - 1) IN q \notin Array /\ p[i] \in Seen(q)}

\* All below a path but itself lies below one of its children.
LEMMA DeepByChildren ==
    ASSUME NEW p \in Paths, NEW d \in Nat, NEW q \in Deep(p, d + 1), q # p
    PROVE  \E c \in Below(p, d + 1) : c \in Paths /\ q \in Deep(c, d)
<1> DEFINE l == Len(p)
           n == q[l + 1]
           c == Append(p, n)
<1>1. /\ q \in Paths /\ IsPrefix(p, q) /\ Len(q) - l < d + 1
      /\ \A i \in l + 1 .. Len(q) : SubSeq(q, 1, i - 1) \notin Array /\ q[i] \in Seen(SubSeq(q, 1, i - 1))
    BY DEF Deep
<1>2. p \in Seq(Names) /\ l \in Nat /\ q \in Seq(Names) /\ Len(q) \in Nat
    BY <1>1, PathIs
<1>3. l <= Len(q) /\ SubSeq(q, 1, l) = p
    <2>1. SubSeq(p, 1, Len(p)) = p
        BY <1>2, SubSeqFull
    <2> QED BY <1>1, <2>1 DEF IsPrefix
<1>4. l < Len(q)
    <2>1. CASE l = Len(q)
        <3>1. SubSeq(q, 1, Len(q)) = q
            BY <1>2, SubSeqFull
        <3> QED BY <1>3, <2>1, <3>1
    <2> HIDE DEF l
    <2> QED BY <1>2, <1>3, <2>1
<1> HIDE DEF l
<1>5. l + 1 \in l + 1 .. Len(q) /\ (l + 1) - 1 = l /\ l \in 0 .. Len(q) - 1 /\ l + 1 \in 0 .. Len(q)
    BY <1>2, <1>4
<1>6. p \notin Array /\ n \in Seen(p)
    BY <1>1, <1>3, <1>5
<1>7. ~(d + 1 <= 1)
    BY <1>1, <1>2, <1>4
<1>8. c \in Below(p, d + 1)
    BY <1>6, <1>7 DEF Below
<1>9. n \in Range(Kids[p])
    BY <1>6, SeenAreKids
<1>10. c \in Paths
    BY <1>9, PathIs
<1>11. SubSeq(q, 1, l + 1) = c
    BY <1>2, <1>3, <1>5, BeginningGrows
<1>12. c \in Seq(Names) /\ Len(c) = l + 1
    <2>1. n \in Names
        BY <1>9, PathIs
    <2> QED BY <1>2, <2>1, AppendProperties DEF l
<1> HIDE DEF n, c
<1>13. IsPrefix(c, q)
    <2>1. SubSeq(c, 1, Len(c)) = c
        BY <1>12, SubSeqFull
    <2> QED BY <1>2, <1>5, <1>11, <1>12, <2>1 DEF IsPrefix
<1>14. Len(q) - Len(c) < d
    BY <1>1, <1>2, <1>12
<1>15. \A i \in Len(c) + 1 .. Len(q) : SubSeq(q, 1, i - 1) \notin Array /\ q[i] \in Seen(SubSeq(q, 1, i - 1))
    <2>1. \A i \in Len(c) + 1 .. Len(q) : i \in l + 1 .. Len(q)
        BY <1>2, <1>12
    <2> QED BY <1>1, <2>1
<1>16. q \in Deep(c, d)
    BY <1>1, <1>13, <1>14, <1>15 DEF Deep
<1> QED BY <1>8, <1>10, <1>16

\* What lies below a child that is looked at lies below its parent.
LEMMA DeeperIsDeep ==
    ASSUME NEW p \in Paths, NEW d \in Nat, NEW c \in Below(p, d + 1), NEW q \in Deep(c, d)
    PROVE  q \in Deep(p, d + 1)
<1> DEFINE l == Len(p)
<1>1. PICK n \in Seen(p) : c = Append(p, n)
    BY DEF Below
<1>2. p \notin Array /\ ~(d + 1 <= 1)
    BY DEF Below
<1>3. n \in Names /\ c \in Paths
    <2>1. n \in Range(Kids[p])
        BY <1>1, SeenAreKids
    <2> QED BY <1>1, <2>1, PathIs
<1>4. p \in Seq(Names) /\ l \in Nat
    BY PathIs
<1>5. /\ c \in Seq(Names) /\ Len(c) = l + 1 /\ c[l + 1] = n
      /\ \A i \in 1 .. l : c[i] = p[i]
    BY <1>1, <1>3, <1>4, AppendProperties
<1>6. l \in 0 .. Len(c)
    BY <1>4, <1>5
<1>7. SubSeq(c, 1, l) = p
    <2> DEFINE s == SubSeq(c, 1, l)
    <2>1. s \in Seq(Names) /\ Len(s) = l /\ \A i \in 1 .. l : s[i] = c[i]
        BY <1>5, <1>6, BeginningIs
    <2> HIDE DEF s
    <2>2. \A i \in 1 .. Len(s) : s[i] = p[i]
        BY <1>5, <2>1
    <2>3. s = p
        <3>1. Len(s) = Len(p)
            BY <2>1
        <3> QED BY <1>4, <2>1, <2>2, <3>1, SeqEqual
    <2> QED BY <2>3 DEF s
<1>8. SubSeq(p, 1, Len(p)) = p
    BY <1>4, SubSeqFull
<1> DEFINE Good(x, i) == SubSeq(x, 1, i - 1) \notin Array /\ x[i] \in Seen(SubSeq(x, 1, i - 1))
<1>9. (l + 1) - 1 = l
    BY <1>4
<1>10. CASE q = c
    <2>1. IsPrefix(p, q) /\ Len(q) - l < d + 1
        BY <1>2, <1>4, <1>5, <1>7, <1>8, <1>10 DEF IsPrefix
    <2>2. \A i \in l + 1 .. Len(q) : i = l + 1
        BY <1>4, <1>5, <1>10
    <2>3. Good(q, l + 1)
        BY <1>2, <1>5, <1>7, <1>9, <1>10
    <2>4. \A i \in l + 1 .. Len(q) : Good(q, i)
        <3> HIDE DEF Good
        <3> QED BY <2>2, <2>3
    <2> QED BY <1>3, <1>10, <2>1, <2>4 DEF Deep
<1>11. CASE q # c
    <2>1. /\ q \in Paths /\ IsPrefix(c, q) /\ Len(q) - Len(c) < d
          /\ \A i \in Len(c) + 1 .. Len(q) : Good(q, i)
        BY <1>11 DEF Deep
    <2>2. q \in Seq(Names) /\ Len(q) \in Nat
        BY <2>1, PathIs
    <2>3. Len(c) <= Len(q) /\ SubSeq(q, 1, Len(c)) = c
        <3>1. SubSeq(c, 1, Len(c)) = c
            BY <1>5, SubSeqFull
        <3> QED BY <2>1, <3>1 DEF IsPrefix
    <2>4. l + 1 \in 0 .. Len(q) /\ l \in 0 .. l + 1 /\ l + 1 \in 1 .. l + 1 /\ l <= Len(q)
        BY <1>4, <1>5, <2>2, <2>3
    <2>5. SubSeq(q, 1, l) = p
        <3>1. SubSeq(SubSeq(q, 1, l + 1), 1, l) = SubSeq(q, 1, l)
            BY <2>2, <2>4, BeginningOfBeginning
        <3> QED BY <1>5, <1>7, <2>3, <3>1
    <2>6. q[l + 1] = n
        <3>1. SubSeq(q, 1, l + 1)[l + 1] = q[l + 1]
            BY <2>2, <2>4, BeginningIs
        <3> QED BY <1>5, <2>3, <3>1
    <2>7. Good(q, l + 1)
        BY <1>2, <1>9, <2>5, <2>6
    <2>8. \A i \in l + 1 .. Len(q) : Good(q, i)
        <3>1. \A i \in l + 1 .. Len(q) : i = l + 1 \/ i \in Len(c) + 1 .. Len(q)
            BY <1>4, <1>5, <2>2
        <3> HIDE DEF Good
        <3> QED BY <2>1, <2>7, <3>1
    <2>9. IsPrefix(p, q) /\ Len(q) - l < d + 1
        BY <1>4, <1>5, <1>8, <2>1, <2>2, <2>4, <2>5 DEF IsPrefix
    <2> QED BY <2>1, <2>8, <2>9 DEF Deep
<1> QED BY <1>10, <1>11

LEMMA DeepUnfolds ==
    ASSUME NEW p \in Paths
    PROVE  /\ Deep(p, 0) = {p}
           /\ \A d \in Nat : Deep(p, d + 1) = {p} \cup UNION {Deep(c, d) : c \in Below(p, d + 1)}
<1>1. Deep(p, 0) = {p}
    <2>1. p \in Deep(p, 0)
        BY DEF Deep
    <2>2. ASSUME NEW q \in Deep(p, 0), q # p PROVE FALSE
        <3>1. q \in Paths /\ Len(p) <= Len(q) /\ Len(q) - Len(p) < 0
            BY <2>2 DEF Deep, IsPrefix
        <3> QED BY <3>1, PathIs
    <2> QED BY <2>1, <2>2
<1>2. ASSUME NEW d \in Nat
      PROVE  Deep(p, d + 1) = {p} \cup UNION {Deep(c, d) : c \in Below(p, d + 1)}
    <2>1. p \in Deep(p, d + 1)
        BY DEF Deep
    <2>2. \A q \in Deep(p, d + 1) : q = p \/ \E c \in Below(p, d + 1) : q \in Deep(c, d)
        BY DeepByChildren
    <2>3. \A c \in Below(p, d + 1) : \A q \in Deep(c, d) : q \in Deep(p, d + 1)
        BY DeeperIsDeep
    <2> QED BY <2>1, <2>2, <2>3
<1> QED BY <1>1, <1>2

\* the table both walks fill
Row(t, d) == [p \in Paths |-> {p} \cup UNION {t[d - 1][q] : q \in Below(p, d)}]
Walked(t) == [d \in 0 .. change_depth_max |-> Row(t, d)]

LEMMA BelowArePaths ==
    ASSUME NEW p \in Paths, NEW d
    PROVE  Below(p, d) \subseteq Paths
<1>1. \A n \in Seen(p) : Append(p, n) \in Paths
    BY SeenAreKids, PathIs
<1> QED BY <1>1 DEF Below

LEMMA WalkedIsDeep ==
    ASSUME NEW t, t = (CHOOSE u : u = Walked(u)), NEW p \in Paths
    PROVE  t[change_depth_max][p] = Within(p)
<1> DEFINE D == change_depth_max
           g == [d \in 0 .. D |-> [x \in Paths |-> Deep(x, d)]]
           S == {d \in 0 .. D : \A x \in Paths : t[d][x] = Deep(x, d)}
<1>1. D \in Nat
    BY VariablesAssumption
<1>2. ASSUME NEW x \in Paths
      PROVE  Below(x, 0) = {}
    BY DEF Below
<1>3. g = Walked(g)
    <2>1. ASSUME NEW d \in 0 .. D, NEW x \in Paths
          PROVE  Deep(x, d) = {x} \cup UNION {g[d - 1][q] : q \in Below(x, d)}
        <3>1. CASE d = 0
            BY <1>2, <3>1, DeepUnfolds
        <3>2. CASE d # 0
            <4>1. d - 1 \in Nat /\ (d - 1) + 1 = d /\ d - 1 \in 0 .. D
                BY <1>1, <3>2
            <4>2. \A q \in Below(x, d) : g[d - 1][q] = Deep(q, d - 1)
                BY <4>1, BelowArePaths
            <4>3. Deep(x, d) = {x} \cup UNION {Deep(q, d - 1) : q \in Below(x, d)}
                BY <4>1, DeepUnfolds
            <4> HIDE DEF g
            <4> QED BY <4>2, <4>3
        <3> QED BY <3>1, <3>2
    <2>2. \A d \in 0 .. D : [x \in Paths |-> Deep(x, d)] = Row(g, d)
        <3> HIDE DEF g, D
        <3> QED BY <2>1 DEF Row
    <2>3. g = [d \in 0 .. D |-> Row(g, d)]
        <3> DEFINE h == g
        <3>1. h = g
            OBVIOUS
        <3> HIDE DEF h
        <3>2. g = [d \in 0 .. D |-> Row(h, d)]
            BY <2>2, <3>1
        <3> QED BY <3>1, <3>2
    <2> QED BY <2>3 DEF Walked
<1>4. t = Walked(t)
    <2> HIDE DEF g
    <2> QED BY <1>3
<1>5. \A d \in 0 .. D : \A x \in Paths :
          t[d][x] = {x} \cup UNION {t[d - 1][q] : q \in Below(x, d)}
    <2> SUFFICES ASSUME NEW d \in 0 .. D, NEW x \in Paths
                 PROVE  t[d][x] = {x} \cup UNION {t[d - 1][q] : q \in Below(x, d)}
        OBVIOUS
    <2>1. Walked(t)[d] = Row(t, d)
        BY DEF Walked
    <2>2. t[d] = Row(t, d)
        BY <1>4, <2>1, Zenon
    <2>3. Row(t, d)[x] = {x} \cup UNION {t[d - 1][q] : q \in Below(x, d)}
        BY DEF Row
    <2> QED BY <2>2, <2>3, Zenon
<1> HIDE DEF g
<1>6. 0 \in S
    <2>1. 0 \in 0 .. D
        BY <1>1
    <2>2. ASSUME NEW x \in Paths PROVE t[0][x] = {x}
        <3>1. t[0][x] = {x} \cup UNION {t[0 - 1][q] : q \in Below(x, 0)}
            BY <1>5, <2>1
        <3>2. UNION {t[0 - 1][q] : q \in Below(x, 0)} = {}
            BY <1>2
        <3> QED BY <3>1, <3>2
    <2> QED BY <2>1, <2>2, DeepUnfolds
<1>7. ASSUME NEW d \in 0 .. D - 1, d \in S PROVE d + 1 \in S
    <2>1. d \in Nat /\ d + 1 \in 0 .. D /\ (d + 1) - 1 = d
        BY <1>1
    <2>2. ASSUME NEW x \in Paths PROVE t[d + 1][x] = Deep(x, d + 1)
        <3>1. t[d + 1][x] = {x} \cup UNION {t[d][q] : q \in Below(x, d + 1)}
            BY <1>5, <2>1
        <3>2. \A q \in Below(x, d + 1) : t[d][q] = Deep(q, d)
            BY <1>7, BelowArePaths
        <3>3. Deep(x, d + 1) = {x} \cup UNION {Deep(q, d) : q \in Below(x, d + 1)}
            BY <2>1, DeepUnfolds
        <3> QED BY <3>1, <3>2, <3>3
    <2> QED BY <2>1, <2>2
<1> HIDE DEF S
<1>8. \A d \in 0 .. D : d \in S
    BY <1>1, <1>6, <1>7, UpTheNumbers
<1>9. D \in 0 .. D
    BY <1>1
<1>10. t[D][p] = Deep(p, D)
    BY <1>8, <1>9 DEF S
<1> QED BY <1>10 DEF Within, Deep

\* Both walks reach the variable and all below it within the limits.
LEMMA WalksReachAll ==
    ASSUME NEW v, v.path \in Paths
    PROVE  updateVarState(v) = Within(v.path) /\ formatChangedList(v) = Within(v.path)
<1> DEFINE t == CHOOSE u : u = Walked(u)
<1>1. updateVarState(v) = t[change_depth_max][v.path]
    BY DEF updateVarState, Walked, Row
<1>2. formatChangedList(v) = t[change_depth_max][v.path]
    BY DEF formatChangedList, Walked, Row
<1> HIDE DEF t
<1>3. t[change_depth_max][v.path] = Within(v.path)
    BY WalkedIsDeep DEF t
<1> QED BY <1>1, <1>2, <1>3

-----------------------------------------------------------------------------
(* The invariant *)

ObjectName == [number : Nat, kids : Seq(Names)]
Frame == [depth : Nat, function : Functions]
SessionVariable == [name : ObjectName, frame : Frame \cup {NoFrame}, var : Variable \cup {NoVar}]
Question == [frame : Frame, site : Sites, e : Expressions]

\* what the search found for a question
FoundOf(a) == getVariable(a.site, a.e)

TypeOK ==
    /\ stack \in Seq(Sites)
    /\ value \in Seq({0, 1}) /\ Len(value) = Len(stack)
    /\ objects \subseteq SessionVariable
    /\ asked \in Seq(Question) /\ next = Len(asked) + 1

\* An object is what was found for the question its number was given to, in
\* the frame of that question, or the child of it that its name tells.
ComesFrom(o, questions) ==
    LET a == questions[o.name.number] IN
    /\ o.name.number \in DOMAIN questions /\ FoundOf(a) # NoVar
    /\ o.frame = a.frame
    /\ o.var = [path |-> FoundOf(a).path \o o.name.kids,
                op |-> IF o.name.kids = <<>> THEN FoundOf(a).op ELSE ""]

ObjectsComeFromQuestions ==
    \A o \in objects :
        /\ o.var # NoVar => ComesFrom(o, asked)
        /\ o.name.kids = <<>> /\ o.name.number \in DOMAIN asked =>
               o.var = FoundOf(asked[o.name.number])

\* The last answer is about objects and questions as they are.
ValueIsOfAnObject ==
    reply.kind = "value" =>
        \E o \in objects : o.var # NoVar /\ reply.name = o.name /\ reply.shown = Shown(o)

CreatedIsTheQuestions ==
    reply.kind = "created" =>
        \E n \in DOMAIN asked :
            /\ reply.name = Object(n) /\ FoundOf(asked[n]) # NoVar
            /\ reply.marked = updateVarState(FoundOf(asked[n]))

ChangesAreTheQuestions ==
    reply.kind = "changes" =>
        \E s \in Sites, e \in Expressions :
            LET v == getVariable(s, e) IN
            /\ reply.name = [site |-> s, e |-> e]
            /\ reply.shown = IF v = NoVar THEN {}
                             ELSE {[path |-> p, text |-> formatExpressionPath(p)] :
                                      p \in formatChangedList(v)}

Inv == /\ TypeOK /\ ObjectsComeFromQuestions
       /\ ValueIsOfAnObject /\ CreatedIsTheQuestions /\ ChangesAreTheQuestions

LEMMA FoundIs ==
    ASSUME NEW s \in Sites, NEW e \in Expressions
    PROVE  Found[s][e] = getVariable(s, e)
BY DEF Found

LEMMA FoundOfIs ==
    ASSUME NEW a \in Question
    PROVE  /\ FoundOf(a) \in Variable \cup {NoVar}
           /\ FoundOf(a) # NoVar => FoundOf(a).path \in Paths
<1>1. a.site \in Sites /\ a.e \in Expressions
    BY DEF Question
<1>2. FoundOf(a) \in Variable \cup {NoVar}
    BY <1>1, FoundMeant DEF FoundOf
<1> QED BY <1>2 DEF Variable

LEMMA FramesAre ==
    ASSUME TypeOK, NEW d \in DOMAIN stack
    PROVE  stack[d] \in Sites /\ FrameAt(d) \in Frame
<1>1. d \in Nat /\ stack[d] \in Sites
    BY DEF TypeOK
<1>2. stack[d].function \in Functions
    BY <1>1 DEF Sites
<1> QED BY <1>1, <1>2 DEF Frame, FrameAt

\* Calls, returns and assignments keep the objects and withdraw the answer.
LEMMA RunningKeeps ==
    ASSUME Inv, Running, stack' \in Seq(Sites), value' \in Seq({0, 1}), Len(value') = Len(stack')
    PROVE  Inv'
<1>1. reply'.kind = "nothing" /\ objects' = objects /\ asked' = asked /\ next' = next
    BY DEF Running, Nothing
<1>2. TypeOK'
    BY <1>1 DEF Inv, TypeOK
<1>3. ObjectsComeFromQuestions'
    BY <1>1 DEF Inv, ObjectsComeFromQuestions, ComesFrom
<1> QED BY <1>1, <1>2, <1>3 DEF Inv, ValueIsOfAnObject, CreatedIsTheQuestions, ChangesAreTheQuestions

LEMMA CallKeeps ==
    ASSUME Inv, Call
    PROVE  Inv'
<1>1. PICK s \in Sites, v \in {0, 1} :
          Running /\ stack' = Append(stack, s) /\ value' = Append(value, v)
    BY DEF Call
<1>2. stack \in Seq(Sites) /\ value \in Seq({0, 1}) /\ Len(value) = Len(stack)
    BY DEF Inv, TypeOK
<1>3. stack' \in Seq(Sites) /\ value' \in Seq({0, 1}) /\ Len(value') = Len(stack')
    BY <1>1, <1>2, AppendProperties
<1> QED BY <1>1, <1>3, RunningKeeps

LEMMA StepKeeps ==
    ASSUME Inv, Step
    PROVE  Inv'
<1>1. PICK s \in Sites : Running /\ stack' = [stack EXCEPT ![Len(stack)] = s] /\ value' = value
    BY DEF Step
<1>2. stack \in Seq(Sites) /\ value \in Seq({0, 1}) /\ Len(value) = Len(stack)
    BY DEF Inv, TypeOK
<1>3. stack' \in Seq(Sites) /\ Len(stack') = Len(stack)
    <2>1. CASE stack = <<>>
        <3>1. stack' = <<>>
            BY <1>1, <2>1
        <3> QED BY <2>1, <3>1
    <2>2. CASE stack # <<>>
        <3>1. Len(stack) \in 1 .. Len(stack)
            BY <1>2, <2>2
        <3> QED BY <1>1, <1>2, <3>1, ExceptSeq
    <2> QED BY <2>1, <2>2
<1> QED BY <1>1, <1>2, <1>3, RunningKeeps

LEMMA ReturnKeeps ==
    ASSUME Inv, Return
    PROVE  Inv'
<1>1. Running /\ Len(stack) > 1 /\ stack' = Front(stack) /\ value' = Front(value)
    BY DEF Return
<1>2. stack \in Seq(Sites) /\ value \in Seq({0, 1}) /\ Len(value) = Len(stack)
    BY DEF Inv, TypeOK
<1>3. Len(stack) - 1 \in 0 .. Len(stack) /\ Len(value) - 1 \in 0 .. Len(value)
    BY <1>1, <1>2
<1>4. stack' = SubSeq(stack, 1, Len(stack) - 1) /\ value' = SubSeq(value, 1, Len(value) - 1)
    BY <1>1 DEF Front
<1>5. stack' \in Seq(Sites) /\ Len(stack') = Len(stack) - 1
    BY <1>2, <1>3, <1>4, BeginningIs
<1>6. value' \in Seq({0, 1}) /\ Len(value') = Len(value) - 1
    BY <1>2, <1>3, <1>4, BeginningIs
<1> QED BY <1>1, <1>2, <1>5, <1>6, RunningKeeps

LEMMA AssignKeeps ==
    ASSUME Inv, Assign
    PROVE  Inv'
<1>1. PICK d \in DOMAIN stack :
          Running /\ value' = [value EXCEPT ![d] = 1 - @] /\ stack' = stack
    BY DEF Assign
<1>2. stack \in Seq(Sites) /\ value \in Seq({0, 1}) /\ Len(value) = Len(stack)
    BY DEF Inv, TypeOK
<1>3. d \in DOMAIN value /\ 1 - value[d] \in {0, 1}
    BY <1>2
<1>4. value' \in Seq({0, 1}) /\ Len(value') = Len(value)
    BY <1>1, <1>2, <1>3
<1> QED BY <1>1, <1>2, <1>4, RunningKeeps

LEMMA ObjectIs ==
    ASSUME NEW n \in Nat
    PROVE  Object(n) \in ObjectName /\ Object(n).number = n /\ Object(n).kids = <<>>
BY DEF Object, ObjectName

LEMMA VarCreateKeeps ==
    ASSUME Inv, VarCreate
    PROVE  Inv'
<1>1. PICK d \in DOMAIN stack, e \in Expressions :
          LET var == Found[stack[d]][e]
              name == Object(next)
          IN /\ Command
             /\ objects' = Put(objects, [name |-> name, frame |-> FrameAt(d), var |-> var])
             /\ asked' = Append(asked, [frame |-> FrameAt(d), site |-> stack[d], e |-> e])
             /\ next' = next + 1
             /\ reply' = [kind |-> IF var = NoVar THEN "error" ELSE "created", name |-> name,
                          shown |-> IF var = NoVar THEN {} ELSE formatValue(var),
                          marked |-> IF var = NoVar THEN {} ELSE updateVarState(var)]
    BY DEF VarCreate
<1> DEFINE frame == FrameAt(d)
           q == [frame |-> frame, site |-> stack[d], e |-> e]
           var == FoundOf(q)
           o == [name |-> Object(next), frame |-> frame, var |-> var]
<1>2. TypeOK
    BY DEF Inv
<1>3. frame \in Frame /\ stack[d] \in Sites
    BY <1>2, FramesAre
<1>4. q \in Question
    BY <1>3 DEF Question
<1>5. Found[stack[d]][e] = var
    BY <1>3, FoundIs DEF FoundOf
<1>6. /\ objects' = Put(objects, o) /\ asked' = Append(asked, q) /\ next' = next + 1
      /\ UNCHANGED <<stack, value>>
    BY <1>1, <1>5 DEF Command
<1>7. /\ reply'.kind = IF var = NoVar THEN "error" ELSE "created"
      /\ reply'.name = Object(next)
      /\ reply'.marked = IF var = NoVar THEN {} ELSE updateVarState(var)
    BY <1>1, <1>5
<1> HIDE DEF q, var
<1>8. asked \in Seq(Question) /\ next = Len(asked) + 1 /\ next \in Nat /\ objects \subseteq SessionVariable
    BY <1>2 DEF TypeOK
<1>9. /\ asked' \in Seq(Question) /\ Len(asked') = next
      /\ \A n \in 1 .. Len(asked) : asked'[n] = asked[n]
      /\ asked'[next] = q
    BY <1>4, <1>6, <1>8, AppendProperties
<1>10. var \in Variable \cup {NoVar} /\ FoundOf(q) = var
    BY <1>4, FoundOfIs DEF var
<1>11. o \in SessionVariable
    BY <1>3, <1>8, <1>10, ObjectIs DEF SessionVariable
<1>12. objects' = {x \in objects : x.name # Object(next)} \cup {o}
    BY <1>6 DEF Put
<1>13. o.name = Object(next) /\ o.frame = frame /\ o.var = var
    OBVIOUS
<1> HIDE DEF o
<1>14. TypeOK'
    BY <1>2, <1>6, <1>8, <1>9, <1>11, <1>12 DEF TypeOK
<1>15. next \in DOMAIN asked' /\ DOMAIN asked' = 1 .. next /\ DOMAIN asked = 1 .. Len(asked)
    BY <1>8, <1>9
<1>16. ComesFrom(o, asked') \/ o.var = NoVar
    <2> SUFFICES ASSUME var # NoVar PROVE ComesFrom(o, asked')
        BY <1>13
    <2>1. o.name.number = next /\ o.name.kids = <<>>
        BY <1>8, <1>13, ObjectIs
    <2>2. q.frame = frame
        BY DEF q
    <2>3. var \in Variable /\ var.path \in Seq(Names)
        BY <1>10, PathIs DEF Variable
    <2>4. var.path \o <<>> = var.path
        BY <2>3
    <2>5. var = [path |-> var.path, op |-> var.op]
        BY <2>3 DEF Variable
    <2> QED BY <1>9, <1>10, <1>13, <1>15, <2>1, <2>2, <2>4, <2>5 DEF ComesFrom
<1>17. ASSUME NEW x \in objects, x.name # Object(next)
       PROVE  /\ x.var # NoVar => ComesFrom(x, asked')
              /\ x.name.kids = <<>> /\ x.name.number \in DOMAIN asked' =>
                     x.var = FoundOf(asked'[x.name.number])
    <2>1. /\ x.var # NoVar => ComesFrom(x, asked)
          /\ x.name.kids = <<>> /\ x.name.number \in DOMAIN asked => x.var = FoundOf(asked[x.name.number])
        BY DEF Inv, ObjectsComeFromQuestions
    <2>2. ComesFrom(x, asked) => ComesFrom(x, asked')
        <3> SUFFICES ASSUME ComesFrom(x, asked) PROVE ComesFrom(x, asked')
            OBVIOUS
        <3>1. x.name.number \in DOMAIN asked
            BY DEF ComesFrom
        <3>2. x.name.number \in DOMAIN asked' /\ asked'[x.name.number] = asked[x.name.number]
            BY <1>8, <1>9, <1>15, <3>1
        <3> QED BY <3>2 DEF ComesFrom
    <2>3. x.name.kids = <<>> => x.name.number # next
        <3>1. x.name = [number |-> x.name.number, kids |-> x.name.kids]
            BY <1>8 DEF SessionVariable, ObjectName
        <3> QED BY <1>17, <3>1 DEF Object
    <2>4. x.name.number \in DOMAIN asked' /\ x.name.number # next =>
              x.name.number \in DOMAIN asked /\ asked'[x.name.number] = asked[x.name.number]
        BY <1>8, <1>9, <1>15
    <2> QED BY <2>1, <2>2, <2>3, <2>4
<1>18. ObjectsComeFromQuestions'
    <2>1. o.var = FoundOf(asked'[o.name.number])
        BY <1>8, <1>9, <1>10, <1>13, ObjectIs
    <2> SUFFICES ASSUME NEW x \in objects'
                 PROVE  /\ x.var # NoVar => ComesFrom(x, asked')
                        /\ x.name.kids = <<>> /\ x.name.number \in DOMAIN asked' =>
                               x.var = FoundOf(asked'[x.name.number])
        BY DEF ObjectsComeFromQuestions
    <2>2. CASE x = o
        BY <1>16, <2>1, <2>2
    <2>3. CASE x \in objects /\ x.name # Object(next)
        BY <1>17, <2>3
    <2> QED BY <1>12, <2>2, <2>3
<1>19. ValueIsOfAnObject' /\ ChangesAreTheQuestions'
    <2>1. reply'.kind # "value" /\ reply'.kind # "changes"
        BY <1>7
    <2> QED BY <2>1 DEF ValueIsOfAnObject, ChangesAreTheQuestions
<1>20. CreatedIsTheQuestions'
    <2> SUFFICES ASSUME reply'.kind = "created"
                 PROVE  \E n \in DOMAIN asked' :
                            /\ reply'.name = Object(n) /\ FoundOf(asked'[n]) # NoVar
                            /\ reply'.marked = updateVarState(FoundOf(asked'[n]))
        BY DEF CreatedIsTheQuestions
    <2>1. var # NoVar /\ reply'.marked = updateVarState(var)
        BY <1>7
    <2> QED BY <1>7, <1>9, <1>10, <1>15, <2>1
<1> QED BY <1>14, <1>18, <1>19, <1>20 DEF Inv

\* The name of an object that shows something says all about it.
LEMMA NameTells ==
    ASSUME NEW x \in SessionVariable, NEW y \in SessionVariable, NEW questions,
           ComesFrom(x, questions), ComesFrom(y, questions), x.name = y.name
    PROVE  x = y
<1>1. x.frame = y.frame /\ x.var = y.var
    BY DEF ComesFrom
<1> QED BY <1>1 DEF SessionVariable

LEMMA ChildName ==
    ASSUME NEW x \in ObjectName, NEW n \in Names
    PROVE  /\ Child(x, n) = [number |-> x.number, kids |-> Append(x.kids, n)]
           /\ Child(x, n) \in ObjectName
           /\ Child(x, n).number = x.number /\ Child(x, n).kids = Append(x.kids, n)
<1> DEFINE a == Append(x.kids, n)
<1>1. x = [number |-> x.number, kids |-> x.kids] /\ x.number \in Nat /\ x.kids \in Seq(Names)
    BY DEF ObjectName
<1>2. a \in Seq(Names)
    BY <1>1, AppendProperties
<1>3. Child(x, n) = [x EXCEPT !.kids = a]
    BY DEF Child
<1> HIDE DEF a
<1>4. Child(x, n) = [number |-> x.number, kids |-> a]
    BY <1>1, <1>3
<1>5. Child(x, n) \in ObjectName
    BY <1>1, <1>2, <1>4 DEF ObjectName
<1>6. Child(x, n).number = x.number /\ Child(x, n).kids = a
    BY <1>4
<1> QED BY <1>4, <1>5, <1>6 DEF a

LEMMA ConcatAppended ==
    ASSUME NEW T, NEW n \in T
    PROVE  \A s, t \in Seq(T) : Append(s \o t, n) = s \o Append(t, n)
OBVIOUS

LEMMA ChildIs ==
    ASSUME TypeOK, NEW o \in objects, o.var # NoVar, ComesFrom(o, asked),
           NEW n \in Range(Kids[o.var.path]), NEW c,
           c = [name |-> Child(o.name, n), frame |-> o.frame,
                var |-> [path |-> Append(o.var.path, n), op |-> ""]]
    PROVE  /\ c \in SessionVariable /\ c.var # NoVar /\ c.name.kids # <<>>
           /\ c.name = Child(o.name, n) /\ ComesFrom(c, asked)
<1> DEFINE p == o.var.path
           k == o.name.kids
           a == asked[o.name.number]
<1>1. /\ o.name \in ObjectName /\ k \in Seq(Names) /\ o.frame \in Frame \cup {NoFrame} /\ o.var \in Variable
    BY DEF TypeOK, SessionVariable, ObjectName
<1>2. p \in Paths /\ n \in Names /\ Append(p, n) \in Paths
    <2>1. p \in Paths
        BY <1>1 DEF Variable
    <2> QED BY <2>1, PathIs
<1>3. /\ Child(o.name, n) \in ObjectName
      /\ Child(o.name, n).number = o.name.number /\ Child(o.name, n).kids = Append(k, n)
    BY <1>1, <1>2, ChildName
<1>4. Append(k, n) \in Seq(Names) /\ Append(k, n) # <<>>
    BY <1>1, <1>2, AppendProperties
<1>6. [path |-> Append(p, n), op |-> ""] \in Variable
    BY <1>2 DEF Variable, Ops
<1>7. c \in SessionVariable /\ c.var # NoVar
    <2>1. c.var = [path |-> Append(p, n), op |-> ""]
        OBVIOUS
    <2>2. c.var # NoVar
        BY <1>6, <2>1, NoVarIsNone
    <2>3. c \in SessionVariable
        <3> HIDE DEF p
        <3> QED BY <1>1, <1>3, <1>6 DEF SessionVariable, p
    <2> QED BY <2>2, <2>3
<1>8. c.name.number = o.name.number /\ c.name.kids = Append(k, n) /\ c.frame = o.frame
    <2>1. c.name = Child(o.name, n) /\ c.frame = o.frame
        OBVIOUS
    <2> QED BY <1>3, <2>1
<1>9. /\ o.name.number \in DOMAIN asked /\ FoundOf(a) # NoVar /\ o.frame = a.frame
      /\ p = FoundOf(a).path \o k
    <2>1. o.var = [path |-> FoundOf(a).path \o k, op |-> IF k = <<>> THEN FoundOf(a).op ELSE ""]
        BY DEF ComesFrom
    <2> HIDE DEF k, a, p
    <2>2. o.var.path = FoundOf(a).path \o k
        BY <2>1, PartsAre
    <2>3. o.name.number \in DOMAIN asked /\ FoundOf(a) # NoVar /\ o.frame = a.frame
        BY DEF ComesFrom, a
    <2> QED BY <2>2, <2>3 DEF p
<1>10. FoundOf(a).path \in Seq(Names)
    <2>1. asked \in Seq(Question)
        BY DEF TypeOK
    <2>2. a \in Question
        <3> DEFINE num == o.name.number
        <3>1. num \in DOMAIN asked
            BY <1>9
        <3> HIDE DEF num
        <3>2. asked[num] \in Question
            <4>1. num \in 1 .. Len(asked)
                BY <2>1, <3>1, LenProperties
            <4> QED BY <2>1, <4>1, ElementOfSeq
        <3> QED BY <3>2 DEF num
    <2> HIDE DEF a
    <2> QED BY <1>9, <2>2, FoundOfIs, PathIs
<1>11. Append(p, n) = FoundOf(a).path \o Append(k, n)
    <2> DEFINE b == FoundOf(a).path
    <2>1. b \in Seq(Names) /\ p = b \o k
        BY <1>9, <1>10
    <2> HIDE DEF p, k, a, b
    <2>2. Append(b \o k, n) = b \o Append(k, n)
        <3>1. k \in Seq(Names) /\ b \in Seq(Names) /\ n \in Names
            BY <1>1, <1>2, <2>1
        <3>2. \A s, t \in Seq(Names) : Append(s \o t, n) = s \o Append(t, n)
            BY <3>1, ConcatAppended
        <3> QED BY <3>1, <3>2
    <2>3. Append(p, n) = b \o Append(k, n)
        BY <2>1, <2>2
    <2> QED BY <2>3 DEF b
<1>12. c.var = [path |-> FoundOf(a).path \o Append(k, n), op |-> ""]
    BY <1>11
<1>13. ComesFrom(c, asked)
    BY <1>4, <1>8, <1>9, <1>12 DEF ComesFrom
<1>14. c.name = Child(o.name, n)
    OBVIOUS
<1> QED BY <1>4, <1>7, <1>8, <1>13, <1>14

LEMMA MinIsLeast ==
    ASSUME NEW S \in SUBSET Nat, NEW x \in S
    PROVE  Min(S) \in S /\ Min(S) <= x
<1>1. \E m \in S : \A k \in S : m <= k
    BY LeastExists
<1> QED BY <1>1 DEF Min

\* What listing the children of an object does.
LEMMA ChildrenListed ==
    ASSUME Inv, VarListChildren
    PROVE  \E o \in objects : \E before \in SUBSET Range(Kids[o.var.path]) :
              /\ o.var # NoVar /\ ComesFrom(o, asked)
              /\ objects' = {x \in objects : \A n \in before : x.name # Child(o.name, n)}
                    \cup {[name |-> Child(o.name, n), frame |-> o.frame,
                           var |-> [path |-> Append(o.var.path, n), op |-> ""]] : n \in before}
              /\ reply'.kind \in {"crashed", "children"}
              /\ UNCHANGED <<stack, value, asked, next>>
<1>1. PICK o \in objects :
        LET kids == Kids[o.var.path]
            child(n) == [name |-> Child(o.name, n), frame |-> o.frame,
                         var |-> [path |-> Append(o.var.path, n), op |-> ""]]
            before == {kids[i] : i \in 1 .. Min({i \in DOMAIN kids : kids[i] = Anonymous} \cup {Len(kids) + 1}) - 1}
        IN /\ Command /\ o.var # NoVar /\ Alive(o.frame)
           /\ objects' = {x \in objects : \A n \in before : x.name # Child(o.name, n)}
                             \cup {child(n) : n \in before}
           /\ reply' = [Nothing EXCEPT !.kind = IF Anonymous \in Range(kids) THEN "crashed"
                                                ELSE "children",
                                       !.name = o.name]
           /\ UNCHANGED <<asked, next>>
    BY DEF VarListChildren
<1> DEFINE kids == Kids[o.var.path]
           S == {i \in DOMAIN kids : kids[i] = Anonymous} \cup {Len(kids) + 1}
           before == {kids[i] : i \in 1 .. Min(S) - 1}
<1>2. o.var # NoVar /\ ComesFrom(o, asked)
    BY <1>1 DEF Inv, ObjectsComeFromQuestions
<1>3. o.var.path \in Paths
    <2>1. o.var \in Variable
        BY <1>2 DEF Inv, TypeOK, SessionVariable
    <2> QED BY <2>1 DEF Variable
<1>4. before \subseteq Range(kids)
    <2>1. kids \in Seq(Names) /\ Len(kids) \in Nat /\ DOMAIN kids = 1 .. Len(kids)
        BY <1>3, PathIs
    <2> HIDE DEF kids
    <2>2. S \in SUBSET Nat /\ Len(kids) + 1 \in S
        BY <2>1
    <2>3. Min(S) \in Nat /\ Min(S) <= Len(kids) + 1
        <3> HIDE DEF S
        <3> QED BY <2>2, MinIsLeast
    <2>4. \A i \in 1 .. Min(S) - 1 : i \in DOMAIN kids
        BY <2>1, <2>3
    <2> QED BY <2>4 DEF Range
<1>5. reply'.kind \in {"crashed", "children"}
    BY <1>1 DEF Nothing
<1>6. /\ objects' = {x \in objects : \A n \in before : x.name # Child(o.name, n)}
                    \cup {[name |-> Child(o.name, n), frame |-> o.frame,
                           var |-> [path |-> Append(o.var.path, n), op |-> ""]] : n \in before}
      /\ UNCHANGED <<stack, value, asked, next>>
    BY <1>1 DEF Command
<1> HIDE DEF before
<1>7. before \in SUBSET Range(Kids[o.var.path])
    BY <1>4
<1> QED BY <1>2, <1>5, <1>6, <1>7

LEMMA VarListChildrenKeeps ==
    ASSUME Inv, VarListChildren
    PROVE  Inv'
<1>1. PICK o \in objects : \E before \in SUBSET Range(Kids[o.var.path]) :
              /\ o.var # NoVar /\ ComesFrom(o, asked)
              /\ objects' = {x \in objects : \A n \in before : x.name # Child(o.name, n)}
                    \cup {[name |-> Child(o.name, n), frame |-> o.frame,
                           var |-> [path |-> Append(o.var.path, n), op |-> ""]] : n \in before}
              /\ reply'.kind \in {"crashed", "children"}
              /\ UNCHANGED <<stack, value, asked, next>>
    BY ChildrenListed
<1>2. PICK before \in SUBSET Range(Kids[o.var.path]) :
              /\ o.var # NoVar /\ ComesFrom(o, asked)
              /\ objects' = {x \in objects : \A n \in before : x.name # Child(o.name, n)}
                    \cup {[name |-> Child(o.name, n), frame |-> o.frame,
                           var |-> [path |-> Append(o.var.path, n), op |-> ""]] : n \in before}
              /\ reply'.kind \in {"crashed", "children"}
              /\ UNCHANGED <<stack, value, asked, next>>
    BY <1>1
<1>3. TypeOK
    BY DEF Inv
<1>4. ASSUME NEW x \in objects'
      PROVE  /\ x \in SessionVariable
             /\ x.var # NoVar => ComesFrom(x, asked)
             /\ x.name.kids = <<>> /\ x.name.number \in DOMAIN asked =>
                    x.var = FoundOf(asked[x.name.number])
    <2>1. CASE x \in objects
        BY <2>1 DEF Inv, TypeOK, ObjectsComeFromQuestions
    <2>2. CASE x \notin objects
        <3>1. PICK n \in before :
                  x = [name |-> Child(o.name, n), frame |-> o.frame,
                       var |-> [path |-> Append(o.var.path, n), op |-> ""]]
            BY <1>2, <2>2
        <3>2. x \in SessionVariable /\ x.name.kids # <<>> /\ ComesFrom(x, asked)
            BY <1>2, <1>3, <3>1, ChildIs
        <3> QED BY <3>2
    <2> QED BY <2>1, <2>2
<1>5. TypeOK'
    BY <1>2, <1>3, <1>4 DEF TypeOK
<1>6. asked' = asked
    BY <1>2
<1>7. ObjectsComeFromQuestions'
    BY <1>4, <1>6 DEF ObjectsComeFromQuestions
<1>8. reply'.kind \notin {"value", "created", "changes"}
    BY <1>2
<1> QED BY <1>5, <1>7, <1>8 DEF Inv, ValueIsOfAnObject, CreatedIsTheQuestions, ChangesAreTheQuestions

LEMMA VarEvaluateKeeps ==
    ASSUME Inv, VarEvaluate
    PROVE  Inv'
<1>1. PICK o \in objects :
          /\ Command /\ o.var # NoVar
          /\ reply' = [Nothing EXCEPT !.kind = "value", !.name = o.name, !.shown = Shown(o)]
          /\ UNCHANGED <<objects, asked, next>>
    BY DEF VarEvaluate
<1>2. reply'.kind = "value" /\ reply'.name = o.name /\ reply'.shown = Shown(o)
    BY <1>1 DEF Nothing
<1>3. UNCHANGED <<stack, value, objects, asked, next>>
    BY <1>1 DEF Command
<1>4. TypeOK' /\ ObjectsComeFromQuestions'
    BY <1>3 DEF Inv, TypeOK, ObjectsComeFromQuestions
<1>5. Shown(o)' = Shown(o)
    BY <1>3 DEF Shown, Alive, FrameAt
<1>6. ValueIsOfAnObject'
    BY <1>1, <1>2, <1>3, <1>5 DEF ValueIsOfAnObject
<1> QED BY <1>2, <1>4, <1>6 DEF Inv, CreatedIsTheQuestions, ChangesAreTheQuestions

LEMMA UnknownKeeps ==
    ASSUME Inv, Unknown
    PROVE  Inv'
<1> DEFINE o == [name |-> Object(next), frame |-> NoFrame, var |-> NoVar]
<1>1. /\ objects' = objects \cup {o} /\ reply'.kind = "error"
      /\ UNCHANGED <<stack, value, asked, next>>
    BY DEF Unknown, Command, Nothing
<1>2. asked \in Seq(Question) /\ next = Len(asked) + 1 /\ next \in Nat
    BY DEF Inv, TypeOK
<1>3. o \in SessionVariable /\ o.var = NoVar /\ o.name.number = next
    BY <1>2, ObjectIs DEF SessionVariable
<1>4. o.name.number \notin DOMAIN asked
    <2>1. next \notin 1 .. Len(asked)
        BY <1>2
    <2> QED BY <1>2, <1>3, <2>1, LenProperties
<1> HIDE DEF o
<1>5. TypeOK'
    BY <1>1, <1>3 DEF Inv, TypeOK
<1>6. ObjectsComeFromQuestions'
    BY <1>1, <1>3, <1>4 DEF Inv, ObjectsComeFromQuestions
<1> QED BY <1>1, <1>5, <1>6 DEF Inv, ValueIsOfAnObject, CreatedIsTheQuestions, ChangesAreTheQuestions

LEMMA ChangesAre ==
    ASSUME NEW s \in Sites, NEW e \in Expressions
    PROVE  LET v == getVariable(s, e) IN
           Changes[s][e] = IF v = NoVar THEN {}
                           ELSE {[path |-> p, text |-> formatExpressionPath(p)] :
                                    p \in formatChangedList(v)}
<1> DEFINE Text(v) == IF v = NoVar THEN {}
                      ELSE {[path |-> p, text |-> formatExpressionPath(p)] :
                               p \in formatChangedList(v)}
<1>1. Changes = [x \in Sites |-> [y \in Expressions |-> Text(Found[x][y])]]
    BY DEF Changes
<1> HIDE DEF Text
<1>2. Changes[s][e] = Text(getVariable(s, e))
    BY <1>1, FoundIs
<1> QED BY <1>2 DEF Text

LEMMA VarUpdateKeeps ==
    ASSUME Inv, VarUpdate
    PROVE  Inv'
<1>1. PICK d \in DOMAIN stack, e \in Expressions :
          /\ Command
          /\ reply' = [Nothing EXCEPT !.kind = "changes", !.name = [site |-> stack[d], e |-> e],
                                      !.shown = Changes[stack[d]][e]]
          /\ UNCHANGED <<objects, asked, next>>
    BY DEF VarUpdate
<1>2. stack[d] \in Sites
    BY FramesAre DEF Inv
<1>3. UNCHANGED <<stack, value, objects, asked, next>>
    BY <1>1 DEF Command
<1>4. /\ reply'.kind = "changes" /\ reply'.name = [site |-> stack[d], e |-> e]
      /\ reply'.shown = Changes[stack[d]][e]
    BY <1>1 DEF Nothing
<1>5. TypeOK' /\ ObjectsComeFromQuestions'
    BY <1>3 DEF Inv, TypeOK, ObjectsComeFromQuestions
<1>6. ChangesAreTheQuestions'
    BY <1>2, <1>4, ChangesAre DEF ChangesAreTheQuestions
<1> QED BY <1>4, <1>5, <1>6 DEF Inv, ValueIsOfAnObject, CreatedIsTheQuestions

LEMMA VarUpdateObjectKeeps ==
    ASSUME Inv, VarUpdateObject
    PROVE  Inv'
<1>1. reply'.kind = "no changes" /\ UNCHANGED <<stack, value, objects, asked, next>>
    BY DEF VarUpdateObject, Command, Nothing
<1>2. TypeOK' /\ ObjectsComeFromQuestions'
    BY <1>1 DEF Inv, TypeOK, ObjectsComeFromQuestions
<1> QED BY <1>1, <1>2 DEF Inv, ValueIsOfAnObject, CreatedIsTheQuestions, ChangesAreTheQuestions

LEMMA StutterKeeps ==
    ASSUME Inv, UNCHANGED vars
    PROVE  Inv'
<1>1. UNCHANGED <<stack, value, objects, asked, next, reply>>
    BY DEF vars
<1>2. \A o : Shown(o)' = Shown(o)
    BY <1>1 DEF Shown, Alive, FrameAt
<1>3. TypeOK' /\ ObjectsComeFromQuestions'
    BY <1>1 DEF Inv, TypeOK, ObjectsComeFromQuestions
<1>4. ValueIsOfAnObject'
    BY <1>1, <1>2 DEF Inv, ValueIsOfAnObject
<1>5. CreatedIsTheQuestions' /\ ChangesAreTheQuestions'
    BY <1>1 DEF Inv, CreatedIsTheQuestions, ChangesAreTheQuestions
<1> QED BY <1>3, <1>4, <1>5 DEF Inv

LEMMA InitInv == Init => Inv
<1> SUFFICES ASSUME Init PROVE Inv
    OBVIOUS
<1>1. PICK s \in Sites : stack = <<s>>
    BY DEF Init
<1>2. objects = {} /\ asked = <<>> /\ next = 1 /\ reply.kind = "nothing" /\ value = [d \in {1} |-> 0]
    BY DEF Init, Nothing
<1>3. value = <<0>>
    BY <1>2
<1>4. TypeOK
    <2>1. stack \in Seq(Sites) /\ Len(stack) = 1
        BY <1>1
    <2>2. value \in Seq({0, 1}) /\ Len(value) = 1
        BY <1>3
    <2>3. asked \in Seq(Question) /\ Len(asked) = 0
        BY <1>2, EmptySeq
    <2> QED BY <1>2, <2>1, <2>2, <2>3 DEF TypeOK
<1> QED BY <1>2, <1>4 DEF Inv, ObjectsComeFromQuestions, ValueIsOfAnObject, CreatedIsTheQuestions,
                       ChangesAreTheQuestions

LEMMA NextInv == Inv /\ [Next]_vars => Inv'
BY CallKeeps, StepKeeps, ReturnKeeps, AssignKeeps, VarCreateKeeps, VarListChildrenKeeps,
   VarEvaluateKeeps, UnknownKeeps, VarUpdateKeeps, VarUpdateObjectKeeps, StutterKeeps DEF Next

-----------------------------------------------------------------------------
(* What the commands promise *)

\* The objects keep their types, and each is what was found for the question
\* its number was given to, or the child of it that its name tells, whatever
\* has been listed, called and returned since.
THEOREM NamesTellTheirObjects == Spec => [](TypeOK /\ ObjectsComeFromQuestions)
<1>1. Inv => TypeOK /\ ObjectsComeFromQuestions
    BY DEF Inv
<1> QED BY InitInv, NextInv, <1>1, PTL DEF Spec

\* For all declarations, limits and expressions, -var-create enters what the
\* expression denotes, and enters it if LLDB could find it, unless the root's
\* name is one that the list of all blocks' variables gives another variable for.
THEOREM SearchIsRight == Spec => []FoundIsMeant
<1>1. Inv => FoundIsMeant
    <2> SUFFICES ASSUME Inv, NEW n \in DOMAIN asked, NEW o \in Objects(Object(n)),
                        Clear(asked[n]), asked[n].e.op # "@"
                 PROVE  LET a == asked[n] IN
                        /\ o.var \in {NoVar, Denoted(a.site, a.e, FALSE)}
                        /\ Denoted(a.site, a.e, TRUE) # NoVar => o.var # NoVar
        BY Zenon DEF FoundIsMeant
    <2>1. asked[n] \in Question
        BY DEF Inv, TypeOK
    <2>2. asked[n].site \in Sites /\ asked[n].e \in Expressions
        BY <2>1 DEF Question
    <2>3. o \in objects /\ o.name.number = n /\ o.name.kids = <<>>
        BY DEF Objects, Object
    <2>4. o.var = FoundOf(asked[n])
        BY <2>3 DEF Inv, ObjectsComeFromQuestions
    <2> QED BY <2>2, <2>4, FoundMeant DEF FoundOf, Clear
<1> QED BY InitInv, NextInv, <1>1, PTL DEF Spec

\* No command and no step of the debuggee takes an object's name to another
\* variable.
THEOREM NamesKeepTheirVariables == Spec => NeverRebound
<1>1. ASSUME Inv, [Next]_vars
      PROVE  [\A o \in objects : o.var # NoVar => o \in objects']_vars
    <2> SUFFICES ASSUME Next, NEW x \in objects, x.var # NoVar PROVE x \in objects'
        BY <1>1
    <2>1. x \in SessionVariable /\ ComesFrom(x, asked) /\ next = Len(asked) + 1 /\ asked \in Seq(Question)
        BY <1>1 DEF Inv, TypeOK, ObjectsComeFromQuestions
    <2>2. CASE \/ Call \/ Step \/ Return \/ Assign
                \/ VarEvaluate \/ Unknown \/ VarUpdate \/ VarUpdateObject
        BY <2>2 DEF Call, Step, Return, Assign, Running, VarEvaluate, Unknown, VarUpdate, VarUpdateObject
    <2>3. CASE VarCreate
        <3>1. \E o : objects' = {y \in objects : y.name # Object(next)} \cup {o}
            BY <2>3 DEF VarCreate, Put
        <3>2. x.name.number \in DOMAIN asked
            BY <2>1 DEF ComesFrom
        <3>3. x.name.number # next
            BY <2>1, <3>2
        <3>4. x.name # Object(next)
            BY <3>3 DEF Object
        <3> QED BY <3>1, <3>4
    <2>4. CASE VarListChildren
        <3>1. PICK o \in objects : \E before \in SUBSET Range(Kids[o.var.path]) :
                  /\ o.var # NoVar /\ ComesFrom(o, asked)
                  /\ objects' = {y \in objects : \A n \in before : y.name # Child(o.name, n)}
                        \cup {[name |-> Child(o.name, n), frame |-> o.frame,
                               var |-> [path |-> Append(o.var.path, n), op |-> ""]] : n \in before}
            BY <1>1, <2>4, ChildrenListed
        <3>2. PICK before \in SUBSET Range(Kids[o.var.path]) :
                  /\ o.var # NoVar /\ ComesFrom(o, asked)
                  /\ objects' = {y \in objects : \A n \in before : y.name # Child(o.name, n)}
                        \cup {[name |-> Child(o.name, n), frame |-> o.frame,
                               var |-> [path |-> Append(o.var.path, n), op |-> ""]] : n \in before}
            BY <3>1
        <3>3. CASE \A n \in before : x.name # Child(o.name, n)
            BY <3>2, <3>3
        <3>4. ASSUME NEW n \in before, x.name = Child(o.name, n) PROVE x \in objects'
            <4>1. PICK c : c = [name |-> Child(o.name, n), frame |-> o.frame,
                                var |-> [path |-> Append(o.var.path, n), op |-> ""]]
                OBVIOUS
            <4>2. c \in SessionVariable /\ c.name = Child(o.name, n) /\ ComesFrom(c, asked)
                BY <1>1, <3>2, <4>1, ChildIs DEF Inv
            <4>3. x = c
                BY <2>1, <3>4, <4>2, NameTells
            <4>4. c \in objects'
                BY <3>2, <4>1
            <4> QED BY <4>3, <4>4
        <3> QED BY <3>3, <3>4
    <2> QED BY <2>2, <2>3, <2>4 DEF Next
<1> QED BY InitInv, NextInv, <1>1, PTL DEF Spec, NeverRebound

\* A value is shown as the object's own frame has it, for any stack.
THEOREM ValuesAreTheObjects == Spec => []ShowsItsOwn
<1>1. Inv => ShowsItsOwn
    <2> SUFFICES ASSUME Inv, reply.kind = "value", NEW s \in reply.shown
                 PROVE  LET a == asked[reply.name.number]
                            path == Denoted(a.site, a.e, FALSE).path \o reply.name.kids
                        IN /\ s.frame = a.frame /\ s.value = value[a.frame.depth]
                           /\ Clear(a) /\ a.e.op # "@" =>
                                 s.path = path \/ \E n \in Seen(path) : s.path = Append(path, n)
        BY Zenon DEF ShowsItsOwn
    <2>1. PICK o \in objects : o.var # NoVar /\ reply.name = o.name /\ reply.shown = Shown(o)
        BY DEF Inv, ValueIsOfAnObject
    <2>2. ComesFrom(o, asked) /\ asked \in Seq(Question)
        BY <2>1 DEF Inv, TypeOK, ObjectsComeFromQuestions
    <2> DEFINE a == asked[o.name.number]
               p == o.var.path
               d == Denoted(a.site, a.e, FALSE)
    <2>3. o.name.number \in DOMAIN asked /\ FoundOf(a) # NoVar /\ o.frame = a.frame
        BY <2>2 DEF ComesFrom
    <2>4. p = FoundOf(a).path \o o.name.kids
        <3> DEFINE whole == FoundOf(a).path \o o.name.kids
                   op == IF o.name.kids = <<>> THEN FoundOf(a).op ELSE ""
        <3>1. o.var = [path |-> whole, op |-> op]
            BY <2>2 DEF ComesFrom
        <3> HIDE DEF a, p, whole, op
        <3>2. o.var.path = whole
            BY <3>1, PartsAre
        <3> QED BY <3>2 DEF p, whole
    <2>5. PICK q \in formatValue(o.var) :
              s = [frame |-> o.frame, path |-> q, op |-> o.var.op, value |-> value[o.frame.depth]]
        BY <2>1 DEF Shown
    <2>6. s.frame = o.frame /\ s.path = q /\ s.value = value[o.frame.depth]
        BY <2>5
    <2>7. q = p \/ \E n \in Seen(p) : q = Append(p, n)
        BY <2>5 DEF formatValue, formatSummary
    <2>8. ASSUME Clear(a), a.e.op # "@" PROVE FoundOf(a) = d
        <3>1. a \in Question
            <4> DEFINE num == o.name.number
            <4>1. num \in 1 .. Len(asked)
                BY <2>2, <2>3, LenProperties
            <4> HIDE DEF num
            <4>2. asked[num] \in Question
                BY <2>2, <4>1, ElementOfSeq
            <4> QED BY <4>2 DEF num
        <3> HIDE DEF a
        <3>2. a.site \in Sites /\ a.e \in Expressions
            BY <3>1 DEF Question
        <3> QED BY <2>3, <2>8, <3>2, FoundMeant DEF FoundOf, Clear
    <2> HIDE DEF a, p, d
    <2>9. Clear(a) /\ a.e.op # "@" => p = d.path \o o.name.kids
        BY <2>4, <2>8
    <2>10. asked[reply.name.number] = a /\ reply.name.kids = o.name.kids
        BY <2>1 DEF a
    <2> QED BY <2>3, <2>6, <2>7, <2>9, <2>10 DEF d
<1> QED BY InitInv, NextInv, <1>1, PTL DEF Spec

\* The walk that has LLDB count changes and the walk that prints them reach
\* the same: the variable and all below it, within any limits.
THEOREM WalksAreWhole == Spec => [](MarkedWhole /\ ListedWhole)
<1>1. Inv => MarkedWhole
    <2> SUFFICES ASSUME Inv, reply.kind = "created", NEW o \in Objects(reply.name)
                 PROVE  reply.marked = Within(o.var.path)
        BY DEF MarkedWhole
    <2>1. PICK n \in DOMAIN asked :
              /\ reply.name = Object(n) /\ FoundOf(asked[n]) # NoVar
              /\ reply.marked = updateVarState(FoundOf(asked[n]))
        BY DEF Inv, CreatedIsTheQuestions
    <2>2. o \in objects /\ o.name.number = n /\ o.name.kids = <<>>
        BY <2>1 DEF Objects, Object
    <2>3. o.var = FoundOf(asked[n])
        BY <2>2 DEF Inv, ObjectsComeFromQuestions
    <2>4. asked[n] \in Question
        BY DEF Inv, TypeOK
    <2>5. o.var.path \in Paths
        BY <2>1, <2>3, <2>4, FoundOfIs
    <2> QED BY <2>1, <2>3, <2>5, WalksReachAll
<1>2. Inv => ListedWhole
    <2> SUFFICES ASSUME Inv, Listed
                 PROVE  {s.path : s \in reply.shown} =
                            Within(Denoted(reply.name.site, reply.name.e, FALSE).path)
        BY DEF ListedWhole
    <2>1. PICK x \in Sites, e \in Expressions :
              LET v == getVariable(x, e) IN
              /\ reply.name = [site |-> x, e |-> e]
              /\ reply.shown = IF v = NoVar THEN {}
                               ELSE {[path |-> p, text |-> formatExpressionPath(p)] :
                                        p \in formatChangedList(v)}
        BY DEF Inv, ChangesAreTheQuestions, Listed
    <2> DEFINE v == getVariable(x, e)
               d == Denoted(x, e, FALSE)
    <2>2. reply.name.site = x /\ reply.name.e = e
        BY <2>1
    <2>3. Plain(e) /\ ~Shadowed(x, e.root) /\ e.op = "" /\ reply.shown # {}
        BY <2>2 DEF Listed, Clear
    <2>4. v # NoVar /\ reply.shown = {[path |-> p, text |-> formatExpressionPath(p)] : p \in formatChangedList(v)}
        BY <2>1, <2>3
    <2>6. v \in Variable /\ v = d
        <3>1. e.op # "@"
            BY <2>3
        <3>2. v \in Variable \cup {NoVar} /\ v \in {NoVar, d}
            BY <2>3, <3>1, FoundMeant
        <3> QED BY <2>4, <3>2
    <2>7. v.path \in Paths
        BY <2>6 DEF Variable
    <2> HIDE DEF v, d
    <2>8. formatChangedList(v) = Within(v.path)
        BY <2>7, WalksReachAll
    <2>9. {s.path : s \in reply.shown} = formatChangedList(v)
        <3>1. \A s \in reply.shown : s.path \in formatChangedList(v)
            BY <2>4
        <3>2. ASSUME NEW p \in formatChangedList(v) PROVE \E s \in reply.shown : s.path = p
            <4>1. [path |-> p, text |-> formatExpressionPath(p)] \in reply.shown
                BY <2>4
            <4>2. [path |-> p, text |-> formatExpressionPath(p)].path = p
                OBVIOUS
            <4> QED BY <4>1, <4>2, Zenon
        <3> QED BY <3>1, <3>2
    <2> QED BY <2>2, <2>6, <2>8, <2>9 DEF d
<1> QED BY InitInv, NextInv, <1>1, <1>2, PTL DEF Spec
=============================================================================
