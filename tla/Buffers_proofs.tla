--------------------------- MODULE Buffers_proofs ---------------------------
(***************************************************************************)
(* Proofs about the buffer of the command input, cdtbufferB: as a StringB, *)
(* for every limit, every initial size and all lengths of strings (when    *)
(* callers keep their texts shorter than BIG_LIMIT), and as the queue of   *)
(* lines that CommandBuffer makes of it, for every set of characters,      *)
(* every way the bytes are cut into chunks and every amount of input.      *)
(***************************************************************************)
EXTENDS StringB, CommandBuffer, FiniteSetTheorems, SequenceTheorems,
        WellFoundedInduction, NaturalsInduction, TLAPS

-----------------------------------------------------------------------------
(* StringB: no operation writes outside the buffer and none truncates *)

\* The two properties are one inductive invariant once capacity is bounded by
\* BIG_LIMIT: that is why growing is enough below the limit.
StringInv == StringTypeOK /\ MemorySafe /\ WholeText /\ capacity <= BIG_LIMIT

\* grow makes room: a text that ends below BIG_LIMIT fits into the new
\* capacity when it starts inside the old one and is no longer than asked for.
LEMMA GrownFits ==
    ASSUME NEW c \in Nat, NEW at_least \in Nat, NEW end \in Nat,
           c <= BIG_LIMIT, end < BIG_LIMIT, end < c + at_least \/ end < c + c
    PROVE  /\ Grown(c, at_least) \in Nat
           /\ Grown(c, at_least) <= BIG_LIMIT
           /\ end < Grown(c, at_least)
    BY StringBAssumption DEF Grown, Larger, Smaller

\* vsnprintf writes all of a text that fits.
LEMMA LastWrittenFits ==
    ASSUME NEW o \in Nat, NEW n \in Nat, NEW c \in Nat, o + n < c
    PROVE  LastWritten(o, n, c) = o + n
    BY DEF LastWritten, Smaller

\* Initially the buffer is empty and has room for the terminator.
LEMMA InitStringInv == StringInit => StringInv
    BY StringBAssumption
    DEF StringInit, StringInv, StringTypeOK, MemorySafe, WholeText, Grown, Larger, Smaller

\* Copying or appending a string keeps the invariant.
LEMMA CopyatInv ==
    ASSUME RespectLimit, StringInv, NEW n \in Lengths, NEW offset \in {0, size},
           Copyat(offset, n)
    PROVE  StringInv'
<1>1. n \in Nat /\ offset \in Nat /\ offset < capacity /\ offset + n < BIG_LIMIT
    BY StringBAssumption DEF Copyat, Allowed, StringInv, StringTypeOK, WholeText, MemorySafe
<1>2. CASE offset + n >= capacity
    <2>1. /\ Grown(capacity, n + 1) \in Nat
          /\ Grown(capacity, n + 1) <= BIG_LIMIT
          /\ offset + n < Grown(capacity, n + 1)
        <3>1. offset + n < capacity + (n + 1)
            BY <1>1 DEF StringInv, StringTypeOK
        <3> QED BY <1>1, <3>1, GrownFits DEF StringInv, StringTypeOK
    <2> QED BY <1>1, <1>2, <2>1
            DEF Copyat, StringInv, StringTypeOK, MemorySafe, WholeText
<1>3. CASE ~(offset + n >= capacity)
    BY <1>1, <1>3 DEF Copyat, StringInv, StringTypeOK, MemorySafe, WholeText
<1> QED BY <1>2, <1>3

\* So does appending a character.
LEMMA AppendCharInv ==
    ASSUME RespectLimit, StringInv, AppendChar
    PROVE  StringInv'
<1>1. size \in Nat /\ size < capacity /\ size + 1 < BIG_LIMIT
    BY DEF AppendChar, Allowed, StringInv, StringTypeOK, WholeText
<1>2. CASE size + 1 >= capacity
    <2>1. /\ Grown(capacity, 1) \in Nat
          /\ Grown(capacity, 1) <= BIG_LIMIT
          /\ size + 1 < Grown(capacity, 1)
        <3>1. size + 1 < capacity + 1
            BY <1>1 DEF StringInv, StringTypeOK
        <3> QED BY <1>1, <3>1, GrownFits DEF StringInv, StringTypeOK
    <2> QED BY <1>1, <1>2, <2>1
            DEF AppendChar, StringInv, StringTypeOK, MemorySafe, WholeText
<1>3. CASE ~(size + 1 >= capacity)
    BY <1>1, <1>3 DEF AppendChar, StringInv, StringTypeOK, MemorySafe, WholeText
<1> QED BY <1>2, <1>3

\* So does formatting: the second vsnprintf has the room the first had not.
LEMMA VosprintfInv ==
    ASSUME RespectLimit, StringInv, NEW n \in Lengths, NEW offset \in {0, size},
           Vosprintf(offset, n)
    PROVE  StringInv'
<1>1. /\ n \in Nat /\ offset \in Nat /\ offset < capacity
      /\ offset + n < BIG_LIMIT /\ capacity \in Nat
    BY StringBAssumption DEF Vosprintf, Allowed, StringInv, StringTypeOK, WholeText, MemorySafe
<1>2. /\ capacity' \in Nat /\ capacity <= capacity' /\ capacity' <= BIG_LIMIT
      /\ offset + n < capacity'
    <2>1. CASE n > capacity - offset - 1
        <3>1. offset + n < capacity + n
            BY <1>1
        <3>2. /\ Grown(capacity, n) \in Nat
              /\ Grown(capacity, n) <= BIG_LIMIT
              /\ offset + n < Grown(capacity, n)
            BY <1>1, <3>1, GrownFits DEF StringInv
        <3>3. capacity' = Grown(capacity, n)
            BY <2>1 DEF Vosprintf
        <3>4. capacity <= Grown(capacity, n)
            BY <1>1, StringBAssumption DEF Grown, Larger, Smaller, StringInv
        <3> QED BY <3>2, <3>3, <3>4
    <2>2. CASE ~(n > capacity - offset - 1)
        BY <1>1, <2>2 DEF Vosprintf, StringInv
    <2> QED BY <2>1, <2>2
<1>3. LastWritten(offset, n, capacity') = offset + n
    BY <1>1, <1>2, LastWrittenFits
<1>4. /\ LastWritten(offset, n, capacity) \in Nat
      /\ LastWritten(offset, n, capacity) <= offset + n
    BY <1>1 DEF LastWritten, Smaller
<1>5. top' = offset + n /\ text' = offset + n /\ size' = offset + n
    BY <1>1, <1>3, <1>4 DEF Vosprintf, Larger
<1> QED BY <1>1, <1>2, <1>5 DEF StringInv, StringTypeOK, MemorySafe, WholeText

\* Clearing only shortens the text.
LEMMA ClearInv ==
    ASSUME StringInv, NEW n \in Nat, NEW s \in 0 .. size, Clear(n, s)
    PROVE  StringInv'
    BY DEF Clear, StringInv, StringTypeOK, MemorySafe, WholeText

LEMMA BufferInvariant == RespectLimit => (StringSpec => []StringInv)
<1> SUFFICES ASSUME RespectLimit
             PROVE  StringSpec => []StringInv
    OBVIOUS
<1>1. StringInit => StringInv
    BY InitStringInv
<1>2. StringInv /\ [StringNext]_members => StringInv'
    <2> SUFFICES ASSUME StringInv, [StringNext]_members PROVE StringInv'
        OBVIOUS
    <2>1. CASE \E n \in Lengths : Copyat(0, n) \/ Copyat(size, n)
        BY <2>1, CopyatInv
    <2>2. CASE AppendChar
        BY <2>2, AppendCharInv
    <2>3. CASE \E n \in Lengths : Vosprintf(0, n) \/ Vosprintf(size, n)
        BY <2>3, VosprintfInv
    <2>4. CASE \E n \in Lengths \cup {BIG_LIMIT} : \E s \in 0 .. size : Clear(n, s)
        BY <2>4, ClearInv, StringBAssumption
    <2>5. CASE UNCHANGED members
        BY <2>5 DEF members, StringInv, StringTypeOK, MemorySafe, WholeText
    <2> QED BY <2>1, <2>2, <2>3, <2>4, <2>5 DEF StringNext
<1> QED BY <1>1, <1>2, PTL DEF StringSpec

\* For callers that keep their texts below BIG_LIMIT, every write of copyat,
\* append, vosprintf and clear stays inside the allocated bytes.
THEOREM BufferSafe == RespectLimit => (StringSpec => []MemorySafe)
<1>1. StringInv => MemorySafe
    BY DEF StringInv
<1> QED BY <1>1, BufferInvariant, PTL

\* For the same callers the text is whole after every call: no input line and
\* no MI record is cut off by the limit or by a buffer that was not grown.
THEOREM TextStaysWhole == RespectLimit => (StringSpec => []WholeText)
<1>1. StringInv => WholeText
    BY DEF StringInv
<1> QED BY <1>1, BufferInvariant, PTL

-----------------------------------------------------------------------------
(* The first line of a text *)

LEMMA LeastExists ==
    ASSUME NEW S \in SUBSET Nat, S # {}
    PROVE  \E m \in S : \A k \in S : m <= k
<1> DEFINE R == {p \in Nat \X Nat : p[1] < p[2]}
<1>1. IsWellFoundedOn(R, Nat)
    BY NatLessThanWellFounded, Zenon DEF OpToRel
<1>2. PICK x \in S : TRUE
    OBVIOUS
<1> HIDE DEF R
<1>3. PICK m \in S : \A k \in S : <<k, m>> \notin R
    BY <1>1, <1>2, WFMin
<1>4. \A k \in S : ~(k < m)
    BY <1>3 DEF R
<1> QED BY <1>4

LEMMA FirstLineIs ==
    ASSUME NEW b \in Text, Complete(b)
    PROVE  FirstLine(b) \in Lines(b) /\ \A j \in Lines(b) : FirstLine(b) <= j
<1>1. Lines(b) \in SUBSET Nat /\ Lines(b) # {}
    BY DEF Lines, Complete, Text
<1>2. \E m \in Lines(b) : \A k \in Lines(b) : m <= k
    BY <1>1, LeastExists
<1> QED BY <1>2 DEF FirstLine

\* Stripping leaves a beginning of the line.
LEMMA StripIn ==
    ASSUME NEW S, NEW t \in Seq(S)
    PROVE  Strip(t) \in Seq(S)
<1> DEFINE kept == {n \in 0 .. Len(t) : \A i \in n + 1 .. Len(t) : t[i] = CR}
<1>1. kept \in SUBSET Nat /\ Len(t) \in kept
    OBVIOUS
<1>2. \E n \in kept : \A m \in kept : n <= m
    BY <1>1, LeastExists
<1> DEFINE n == CHOOSE n \in kept : \A m \in kept : n <= m
<1>3. n \in kept
    BY <1>2
<1>4. Strip(t) = SubSeq(t, 1, n)
    BY DEF Strip
<1>5. n \in 0 .. Len(t)
    BY <1>3
<1> HIDE DEF n
<1> QED BY <1>4, <1>5

-----------------------------------------------------------------------------
(* Counting the lines of what was received *)

Count(r, i) == Cardinality({j \in Lines(r) : j <= i})

EndOf(r, n) == IF n = 0 THEN 0 ELSE CHOOSE i \in Lines(r) : Count(r, i) = n

\* r has an n-th line.
Ranked(r, n) == n = 0 \/ \E i \in Lines(r) : Count(r, i) = n

LEMMA LinesFinite ==
    ASSUME NEW r \in Text
    PROVE  /\ IsFiniteSet(Lines(r)) /\ Lines(r) \in SUBSET (1 .. Len(r))
           /\ \A i : IsFiniteSet({j \in Lines(r) : j <= i})
<1>1. Len(r) \in Nat /\ Lines(r) \in SUBSET (1 .. Len(r))
    BY DEF Text, Lines
<1>2. IsFiniteSet(1 .. Len(r))
    BY <1>1, FS_Interval
<1>3. IsFiniteSet(Lines(r))
    BY <1>1, <1>2, FS_Subset
<1> QED BY <1>1, <1>3, FS_Subset

\* No two lines have the same number.
LEMMA CountUnique ==
    ASSUME NEW r \in Text, NEW i \in Lines(r), NEW k \in Lines(r), Count(r, i) = Count(r, k)
    PROVE  i = k
<1>1. i \in Nat /\ k \in Nat
    BY LinesFinite DEF Text
<1> DEFINE I == {j \in Lines(r) : j <= i}
           K == {j \in Lines(r) : j <= k}
<1>2. IsFiniteSet(I) /\ IsFiniteSet(K) /\ Cardinality(I) = Cardinality(K)
    BY LinesFinite DEF Count
<1>3. i \in I /\ k \in K
    BY <1>1
<1>4. CASE i <= k
    <2>1. I \in SUBSET K
        BY <1>1, <1>4, LinesFinite DEF Text
    <2>2. I = K
        BY <1>2, <2>1, FS_Subset
    <2> QED BY <1>1, <1>3, <1>4, <2>2
<1>5. CASE k <= i
    <2>1. K \in SUBSET I
        BY <1>1, <1>5, LinesFinite DEF Text
    <2>2. I = K
        BY <1>2, <2>1, FS_Subset
    <2> QED BY <1>1, <1>3, <1>5, <2>2
<1> QED BY <1>1, <1>4, <1>5

LEMMA EndIs ==
    ASSUME NEW r \in Text, NEW i \in Lines(r), NEW n, Count(r, i) = n
    PROVE  n \in Nat \ {0} /\ EndOf(r, n) = i
<1> DEFINE I == {j \in Lines(r) : j <= i}
<1>1. i \in Nat /\ IsFiniteSet(I) /\ i \in I
    <2>1. i \in Nat
        BY LinesFinite DEF Text
    <2>2. IsFiniteSet(I)
        BY LinesFinite
    <2> QED BY <2>1, <2>2
<1>2. n \in Nat /\ n # 0
    <2>1. n = Cardinality(I)
        BY DEF Count
    <2> HIDE DEF I
    <2> QED BY <1>1, <2>1, FS_CardinalityType, FS_EmptySet
<1>3. \A k \in Lines(r) : Count(r, k) = n => k = i
    BY CountUnique
<1>4. (CHOOSE k \in Lines(r) : Count(r, k) = n) = i
    BY <1>3
<1> QED BY <1>2, <1>4 DEF EndOf

\* The end of the n-th line is where n lines have been counted.
LEMMA EndCounts ==
    ASSUME NEW r \in Text, NEW n, Ranked(r, n)
    PROVE  EndOf(r, n) \in 0 .. Len(r) /\ Count(r, EndOf(r, n)) = n
           /\ (n # 0 => EndOf(r, n) \in Lines(r))
<1>1. CASE n = 0
    <2>1. EndOf(r, n) = 0 /\ Len(r) \in Nat
        BY <1>1 DEF EndOf, Text
    <2>2. {j \in Lines(r) : j <= 0} = {}
        BY LinesFinite
    <2>3. Count(r, 0) = 0
        BY <2>2, FS_EmptySet DEF Count
    <2> QED BY <1>1, <2>1, <2>3
<1>2. CASE n # 0
    <2>1. PICK i \in Lines(r) : Count(r, i) = n
        BY <1>2 DEF Ranked
    <2>2. EndOf(r, n) = i
        BY <2>1, EndIs
    <2>3. i \in 0 .. Len(r)
        BY LinesFinite DEF Text
    <2> QED BY <2>1, <2>2, <2>3
<1> QED BY <1>1, <1>2

-----------------------------------------------------------------------------
(* More is received *)

LEMMA Joined ==
    ASSUME NEW r \in Text, NEW c \in Text
    PROVE  /\ r \o c \in Text /\ Len(r) \in Nat /\ Len(c) \in Nat
           /\ Len(r \o c) = Len(r) + Len(c)
           /\ \A i \in 1 .. Len(r) : (r \o c)[i] = r[i]
           /\ \A i \in Len(r) + 1 .. Len(r) + Len(c) : (r \o c)[i] = c[i - Len(r)]
    BY DEF Text

LEMMA OldLinesStay ==
    ASSUME NEW r \in Text, NEW c \in Text
    PROVE  /\ \A i \in Lines(r) : i \in Lines(r \o c)
           /\ \A i \in Lines(r \o c) : i <= Len(r) => i \in Lines(r)
           /\ \A i \in 0 .. Len(r) : Count(r \o c, i) = Count(r, i)
<1>1. ASSUME NEW i \in Lines(r) PROVE i \in Lines(r \o c)
    BY Joined DEF Lines
<1>2. ASSUME NEW i \in Lines(r \o c), i <= Len(r) PROVE i \in Lines(r)
    BY <1>2, Joined DEF Lines
<1>3. ASSUME NEW i \in 0 .. Len(r) PROVE Count(r \o c, i) = Count(r, i)
    <2>1. \A j \in Lines(r \o c) : j <= i => j <= Len(r)
        BY Joined, LinesFinite
    <2>2. {j \in Lines(r \o c) : j <= i} = {j \in Lines(r) : j <= i}
        BY <1>1, <1>2, <2>1
    <2> QED BY <2>2 DEF Count
<1> QED BY <1>1, <1>2, <1>3

LEMMA EndStays ==
    ASSUME NEW r \in Text, NEW c \in Text, NEW n, Ranked(r, n)
    PROVE  Ranked(r \o c, n) /\ EndOf(r \o c, n) = EndOf(r, n)
<1>1. CASE n = 0
    BY <1>1 DEF Ranked, EndOf
<1>2. CASE n # 0
    <2>1. PICK i \in Lines(r) : Count(r, i) = n
        BY <1>2 DEF Ranked
    <2>2. i \in 0 .. Len(r)
        BY LinesFinite DEF Text
    <2>3. i \in Lines(r \o c) /\ Count(r \o c, i) = n
        BY <2>1, <2>2, OldLinesStay
    <2>4. r \o c \in Text
        BY Joined
    <2> QED BY <2>1, <2>3, <2>4, EndIs DEF Ranked
<1> QED BY <1>1, <1>2

LEMMA Part ==
    ASSUME NEW r \in Text, NEW a \in Nat, NEW z \in 0 .. Len(r)
    PROVE  /\ SubSeq(r, a + 1, z) \in Text
           /\ Len(SubSeq(r, a + 1, z)) = IF a <= z THEN z - a ELSE 0
           /\ \A i \in 1 .. z - a : SubSeq(r, a + 1, z)[i] = r[a + i]
<1>1. \A i \in a + 1 .. z : r[i] \in Chars \cup {CR, NL}
    BY DEF Text
<1>2. a + 1 \in Int /\ z \in Int
    BY DEF Text
<1>3. /\ SubSeq(r, a + 1, z) \in Seq(Chars \cup {CR, NL})
      /\ Len(SubSeq(r, a + 1, z)) = IF a + 1 <= z THEN z - (a + 1) + 1 ELSE 0
      /\ \A i \in 1 .. z - (a + 1) + 1 : SubSeq(r, a + 1, z)[i] = r[(a + 1) + i - 1]
    BY <1>1, <1>2, SubSeqProperties
<1> QED BY <1>2, <1>3 DEF Text

\* What lay before stays, and what comes is put behind the rest.
LEMMA PartsStay ==
    ASSUME NEW r \in Text, NEW c \in Text, NEW a \in 0 .. Len(r)
    PROVE  /\ \A z \in 0 .. Len(r) : SubSeq(r \o c, a + 1, z) = SubSeq(r, a + 1, z)
           /\ SubSeq(r \o c, a + 1, Len(r \o c)) = SubSeq(r, a + 1, Len(r)) \o c
<1>1. /\ r \o c \in Text /\ Len(r) \in Nat /\ Len(c) \in Nat /\ a \in Nat
      /\ Len(r \o c) = Len(r) + Len(c)
      /\ \A i \in 1 .. Len(r) : (r \o c)[i] = r[i]
      /\ \A i \in Len(r) + 1 .. Len(r) + Len(c) : (r \o c)[i] = c[i - Len(r)]
    BY Joined
<1> DEFINE w == r \o c
<1> HIDE DEF w
<1>2. ASSUME NEW z \in 0 .. Len(r) PROVE SubSeq(w, a + 1, z) = SubSeq(r, a + 1, z)
    <2> DEFINE s == SubSeq(w, a + 1, z)
               t == SubSeq(r, a + 1, z)
    <2>1. z \in 0 .. Len(w)
        BY <1>1 DEF w
    <2>2. /\ s \in Text /\ Len(s) = IF a <= z THEN z - a ELSE 0
          /\ \A i \in 1 .. z - a : s[i] = w[a + i]
        BY <1>1, <2>1, Part DEF w
    <2>3. /\ t \in Text /\ Len(t) = IF a <= z THEN z - a ELSE 0
          /\ \A i \in 1 .. z - a : t[i] = r[a + i]
        BY <1>1, Part
    <2> HIDE DEF s, t
    <2>4. ASSUME NEW i \in 1 .. Len(s) PROVE s[i] = t[i]
        <3>1. i \in 1 .. z - a /\ a + i \in 1 .. Len(r)
            BY <1>1, <2>2
        <3>2. w[a + i] = r[a + i]
            BY <1>1, <3>1 DEF w
        <3> QED BY <2>2, <2>3, <3>1, <3>2
    <2>5. s = t
        BY <2>2, <2>3, <2>4, SeqEqual DEF Text
    <2> QED BY <2>5 DEF s, t
<1>3. SubSeq(w, a + 1, Len(w)) = SubSeq(r, a + 1, Len(r)) \o c
    <2> DEFINE s == SubSeq(w, a + 1, Len(w))
               t == SubSeq(r, a + 1, Len(r))
    <2>1. Len(w) \in 0 .. Len(w) /\ Len(w) - a = (Len(r) - a) + Len(c) /\ w \in Text
          /\ Len(r) \in 0 .. Len(r)
        BY <1>1 DEF w
    <2>2. /\ s \in Text /\ Len(s) = Len(w) - a
          /\ \A i \in 1 .. Len(w) - a : s[i] = w[a + i]
        BY <1>1, <2>1, Part
    <2>3. /\ t \in Text /\ Len(t) = Len(r) - a
          /\ \A i \in 1 .. Len(r) - a : t[i] = r[a + i]
        BY <1>1, <2>1, Part
    <2> HIDE DEF s, t
    <2>4. /\ t \o c \in Text /\ Len(t \o c) = Len(s)
          /\ \A i \in 1 .. Len(r) - a : (t \o c)[i] = t[i]
          /\ \A i \in (Len(r) - a) + 1 .. Len(s) : (t \o c)[i] = c[i - (Len(r) - a)]
        <3>1. /\ t \o c \in Text /\ Len(t \o c) = Len(t) + Len(c)
              /\ \A i \in 1 .. Len(t) : (t \o c)[i] = t[i]
              /\ \A i \in Len(t) + 1 .. Len(t) + Len(c) : (t \o c)[i] = c[i - Len(t)]
            BY <2>3, Joined
        <3>2. Len(s) = Len(t) + Len(c) /\ Len(t) = Len(r) - a
            BY <1>1, <2>1, <2>2, <2>3
        <3> QED BY <3>1, <3>2, Zenon
    <2>5. ASSUME NEW i \in 1 .. Len(s) PROVE s[i] = (t \o c)[i]
        <3>1. CASE i <= Len(r) - a
            <4>1. i \in 1 .. Len(r) - a /\ a + i \in 1 .. Len(r)
                BY <1>1, <3>1
            <4>2. w[a + i] = r[a + i]
                BY <1>1, <4>1 DEF w
            <4> QED BY <2>1, <2>2, <2>3, <2>4, <4>1, <4>2
        <3>2. CASE ~(i <= Len(r) - a)
            <4>1. /\ i \in (Len(r) - a) + 1 .. Len(s)
                  /\ a + i \in Len(r) + 1 .. Len(r) + Len(c)
                  /\ (a + i) - Len(r) = i - (Len(r) - a)
                BY <1>1, <2>1, <2>2, <3>2
            <4>2. w[a + i] = c[(a + i) - Len(r)]
                BY <1>1, <4>1 DEF w
            <4> QED BY <2>2, <2>4, <4>1, <4>2
        <3> QED BY <3>1, <3>2
    <2>6. s = t \o c
        BY <2>2, <2>4, <2>5, SeqEqual DEF Text
    <2> QED BY <2>6 DEF s, t
<1> QED BY <1>2, <1>3 DEF w

-----------------------------------------------------------------------------
(* A line is taken from the buffer *)

LEMMA PartOfPart ==
    ASSUME NEW r \in Text, NEW e \in 0 .. Len(r), NEW b, b = SubSeq(r, e + 1, Len(r)),
           NEW a \in Nat, NEW z \in 0 .. Len(b)
    PROVE  SubSeq(b, a + 1, z) = SubSeq(r, e + a + 1, e + z)
<1>1. Len(r) \in Nat /\ e \in Nat /\ e <= Len(r)
    BY DEF Text
<1>2. b \in Text /\ Len(b) = Len(r) - e /\ \A i \in 1 .. Len(r) - e : b[i] = r[e + i]
    BY <1>1, Part, Len(r) \in 0 .. Len(r)
<1>3. z \in Nat /\ e + z \in 0 .. Len(r) /\ e + a \in Nat /\ (e + z) - (e + a) = z - a
    BY <1>1, <1>2
<1> DEFINE s == SubSeq(b, a + 1, z)
           t == SubSeq(r, (e + a) + 1, e + z)
<1>4. /\ s \in Text /\ Len(s) = IF a <= z THEN z - a ELSE 0
      /\ \A i \in 1 .. z - a : s[i] = b[a + i]
    BY <1>2, Part
<1>5. /\ t \in Text /\ Len(t) = IF e + a <= e + z THEN (e + z) - (e + a) ELSE 0
      /\ \A i \in 1 .. (e + z) - (e + a) : t[i] = r[(e + a) + i]
    BY <1>3, Part
<1> HIDE DEF s, t
<1>6. Len(t) = Len(s) /\ \A i \in 1 .. z - a : t[i] = r[(e + a) + i]
    BY <1>1, <1>3, <1>4, <1>5
<1>7. ASSUME NEW i \in 1 .. Len(s) PROVE s[i] = t[i]
    <2>1. i \in 1 .. z - a /\ a + i \in 1 .. Len(r) - e /\ e + (a + i) = (e + a) + i
        BY <1>1, <1>2, <1>3, <1>4
    <2>2. b[a + i] = r[e + (a + i)]
        BY <1>2, <2>1
    <2> QED BY <1>4, <1>6, <2>1, <2>2
<1>8. s = t
    BY <1>4, <1>5, <1>6, <1>7, SeqEqual DEF Text
<1> QED BY <1>8 DEF s, t

\* b is what follows the n-th line of r.
Follows(r, n, b) == Ranked(r, n) /\ b = SubSeq(r, EndOf(r, n) + 1, Len(r))

NextLine(r, n, b) ==
    /\ FirstLine(b) \in 1 .. Len(b)
    /\ Ranked(r, n + 1) /\ EndOf(r, n + 1) = EndOf(r, n) + FirstLine(b)

\* The first line that is left is the next one that was received.
LEMMA NextEnd ==
    ASSUME NEW r \in Text, NEW n \in Nat, NEW b, Follows(r, n, b), Complete(b)
    PROVE  NextLine(r, n, b)
<1>a. PICK e : e = EndOf(r, n)
    OBVIOUS
<1>b. PICK f : f = FirstLine(b)
    OBVIOUS
<1>c. Ranked(r, n) /\ b = SubSeq(r, e + 1, Len(r))
    BY <1>a, Zenon DEF Follows
<1>1. Len(r) \in Nat /\ e \in 0 .. Len(r) /\ Count(r, e) = n
    BY <1>a, <1>c, EndCounts DEF Text
<1>2. b \in Text /\ Len(b) = Len(r) - e /\ \A i \in 1 .. Len(r) - e : b[i] = r[e + i]
    BY <1>1, <1>c, Part, Len(r) \in 0 .. Len(r)
<1>3. f \in Lines(b) /\ \A j \in Lines(b) : f <= j
    BY <1>2, <1>b, FirstLineIs
<1>4. f \in 1 .. Len(b) /\ b[f] = NL
    BY <1>3 DEF Lines
<1>5. e + f \in 1 .. Len(r) /\ r[e + f] = NL
    BY <1>1, <1>2, <1>4
<1>6. e + f \in Lines(r)
    BY <1>5 DEF Lines
<1> DEFINE E == {j \in Lines(r) : j <= e}
           F == {j \in Lines(r) : j <= e + f}
<1>7. ASSUME NEW j \in Lines(r), j <= e + f, ~(j <= e) PROVE j = e + f
    <2>1. j \in 1 .. Len(r) /\ r[j] = NL
        BY DEF Lines
    <2>2. j - e \in 1 .. Len(b) /\ e + (j - e) = j
        BY <1>1, <1>2, <1>7, <2>1
    <2>3. b[j - e] = NL
        BY <1>2, <2>1, <2>2
    <2>4. j - e \in Lines(b)
        BY <2>2, <2>3 DEF Lines
    <2>5. f <= j - e
        BY <1>3, <2>4
    <2>6. f \in Int /\ e \in Int /\ j \in Int
        BY <1>1, <1>4, <2>1
    <2> QED BY <1>7, <2>5, <2>6
<1>8. F = E \cup {e + f}
    <2>1. \A j \in Lines(r) : j \in Int
        BY LinesFinite
    <2>2. e + f <= e + f /\ \A j \in Lines(r) : j <= e => j <= e + f
        BY <1>1, <1>4, <2>1
    <2> QED BY <1>6, <1>7, <2>2
<1>9. Cardinality(F) = Cardinality(E) + 1
    <2>1. IsFiniteSet(E)
        BY LinesFinite
    <2>2. e + f \notin E
        BY <1>1, <1>4
    <2> HIDE DEF E, F
    <2> QED BY <1>8, <2>1, <2>2, FS_AddElement
<1>10. Count(r, e + f) = n + 1
    BY <1>1, <1>9 DEF Count
<1>11. EndOf(r, n + 1) = e + f
    BY <1>6, <1>10, EndIs
<1>12. Ranked(r, n + 1)
    BY <1>6, <1>10 DEF Ranked
<1> QED BY <1>a, <1>b, <1>4, <1>11, <1>12, Zenon DEF NextLine

-----------------------------------------------------------------------------
(* What has been executed and what is left *)

\* InOrder, of any values; and every executed line has been received.
Ordered(r, x, b) ==
    /\ \A k \in 0 .. Len(x) : Ranked(r, k)
    /\ \A k \in 1 .. Len(x) : x[k] = Strip(SubSeq(r, EndOf(r, k - 1) + 1, EndOf(r, k) - 1))
    /\ b = SubSeq(r, EndOf(r, Len(x)) + 1, Len(r))

LEMMA Receiving ==
    ASSUME NEW r \in Text, NEW c \in Text, NEW b, NEW x, Len(x) \in Nat, Ordered(r, x, b)
    PROVE  Ordered(r \o c, x, b \o c)
<1>1. ASSUME NEW k \in 0 .. Len(x)
      PROVE  /\ Ranked(r \o c, k) /\ EndOf(r \o c, k) = EndOf(r, k)
             /\ EndOf(r, k) \in 0 .. Len(r) /\ (k # 0 => EndOf(r, k) \in Lines(r))
    <2>1. Ranked(r, k)
        BY DEF Ordered
    <2> QED BY <2>1, EndStays, EndCounts
<1>2. ASSUME NEW k \in 1 .. Len(x)
      PROVE  x[k] = Strip(SubSeq(r \o c, EndOf(r \o c, k - 1) + 1, EndOf(r \o c, k) - 1))
    <2>1. k \in 0 .. Len(x) /\ k - 1 \in 0 .. Len(x) /\ k # 0
        OBVIOUS
    <2>2. EndOf(r, k - 1) \in 0 .. Len(r) /\ EndOf(r, k) - 1 \in 0 .. Len(r)
        BY <1>1, <2>1, LinesFinite DEF Text
    <2>3. SubSeq(r \o c, EndOf(r, k - 1) + 1, EndOf(r, k) - 1)
            = SubSeq(r, EndOf(r, k - 1) + 1, EndOf(r, k) - 1)
        BY <2>2, PartsStay
    <2>4. x[k] = Strip(SubSeq(r, EndOf(r, k - 1) + 1, EndOf(r, k) - 1))
        BY DEF Ordered
    <2> QED BY <1>1, <2>1, <2>3, <2>4
<1>3. b \o c = SubSeq(r \o c, EndOf(r \o c, Len(x)) + 1, Len(r \o c))
    <2>1. Len(x) \in 0 .. Len(x)
        OBVIOUS
    <2>2. EndOf(r, Len(x)) \in 0 .. Len(r) /\ EndOf(r \o c, Len(x)) = EndOf(r, Len(x))
        BY <1>1, <2>1
    <2>3. b = SubSeq(r, EndOf(r, Len(x)) + 1, Len(r))
        BY DEF Ordered
    <2> QED BY <2>2, <2>3, PartsStay
<1> QED BY <1>1, <1>2, <1>3 DEF Ordered

LEMMA Executing ==
    ASSUME NEW r \in Text, NEW x, NEW S, x \in Seq(S), NEW b, Ordered(r, x, b),
           b \in Text, Complete(b), NEW t \in S,
           t = Strip(SubSeq(b, 1, FirstLine(b) - 1))
    PROVE  Ordered(r, Append(x, t), SubSeq(b, FirstLine(b) + 1, Len(b)))
<1> DEFINE n == Len(x)
           e == EndOf(r, n)
           f == FirstLine(b)
           y == Append(x, t)
<1>1. n \in Nat /\ Ranked(r, n) /\ b = SubSeq(r, e + 1, Len(r))
    <2>1. Len(x) \in Nat /\ Len(x) \in 0 .. Len(x)
        OBVIOUS
    <2> QED BY <2>1 DEF Ordered
<1>2. f \in 1 .. Len(b) /\ Ranked(r, n + 1) /\ EndOf(r, n + 1) = e + f
    <2>1. Follows(r, n, b)
        BY <1>1 DEF Follows
    <2>2. NextLine(r, n, b)
        BY <1>1, <2>1, NextEnd, Zenon
    <2> QED BY <2>2 DEF NextLine
<1>3. e \in 0 .. Len(r) /\ Len(r) \in Nat
    BY <1>1, EndCounts DEF Text
<1>4. Len(b) = Len(r) - e
    BY <1>1, <1>3, Part, Len(r) \in 0 .. Len(r)
<1>5. Len(y) = n + 1 /\ y[n + 1] = t /\ \A k \in 1 .. n : y[k] = x[k]
    BY AppendProperties
<1> HIDE DEF e, f, y, n
<1>6. SubSeq(b, 1, f - 1) = SubSeq(r, e + 1, (e + f) - 1)
    <2>1. PICK a \in Nat : a = 0
        OBVIOUS
    <2>2. f - 1 \in 0 .. Len(b)
        BY <1>2, <1>3, <1>4
    <2>3. SubSeq(b, a + 1, f - 1) = SubSeq(r, e + a + 1, e + (f - 1))
        BY <1>1, <1>3, <2>2, PartOfPart
    <2>4. a + 1 = 1 /\ e + a + 1 = e + 1 /\ e + (f - 1) = (e + f) - 1
        BY <1>2, <1>3, <1>4, <2>1
    <2> QED BY <2>3, <2>4, Zenon
<1>7. SubSeq(b, f + 1, Len(b)) = SubSeq(r, (e + f) + 1, Len(r))
    <2>1. Len(b) \in 0 .. Len(b) /\ f \in Nat /\ e + Len(b) = Len(r)
        BY <1>2, <1>3, <1>4
    <2>2. SubSeq(b, f + 1, Len(b)) = SubSeq(r, e + f + 1, e + Len(b))
        BY <1>1, <1>3, <2>1, PartOfPart
    <2> QED BY <2>1, <2>2
<1>8. ASSUME NEW k \in 0 .. n + 1 PROVE Ranked(r, k)
    <2>1. k \in 0 .. n \/ k = n + 1
        BY <1>1
    <2> QED BY <1>2, <2>1 DEF Ordered, n
<1>9. ASSUME NEW k \in 1 .. n + 1
      PROVE  y[k] = Strip(SubSeq(r, EndOf(r, k - 1) + 1, EndOf(r, k) - 1))
    <2>1. CASE k = n + 1
        <3>1. k - 1 = n
            BY <1>1, <2>1
        <3>2. t = Strip(SubSeq(r, e + 1, (e + f) - 1))
            BY <1>6 DEF f
        <3> QED BY <1>2, <1>5, <2>1, <3>1, <3>2 DEF e
    <2>2. CASE k # n + 1
        <3>1. k \in 1 .. n
            BY <1>1, <2>2
        <3> QED BY <1>5, <3>1 DEF Ordered, n
    <2> QED BY <2>1, <2>2
<1> QED BY <1>2, <1>5, <1>7, <1>8, <1>9 DEF Ordered, e, f, y

-----------------------------------------------------------------------------
(* The invariant *)

\* A line is cut off before its newline, so it holds none.
LEMMA LineHasNoNewline ==
    ASSUME NEW b \in Text, Complete(b)
    PROVE  Strip(SubSeq(b, 1, FirstLine(b) - 1)) \in Seq(Chars \cup {CR})
<1>1. PICK f : f = FirstLine(b)
    OBVIOUS
<1>2. f \in 1 .. Len(b) /\ Len(b) \in Nat /\ \A j \in Lines(b) : f <= j
    BY <1>1, FirstLineIs DEF Lines, Text
<1>3. \A i \in 1 .. f - 1 : b[i] \in Chars \cup {CR}
    <2>1. \A i \in 1 .. f - 1 : i \in 1 .. Len(b) /\ ~(f <= i)
        BY <1>2
    <2>2. \A i \in 1 .. Len(b) : b[i] \in Chars \cup {CR, NL}
        BY DEF Text
    <2> QED BY <1>2, <2>1, <2>2 DEF Lines
<1>4. SubSeq(b, 1, f - 1) \in Seq(Chars \cup {CR})
    BY <1>2, <1>3, SubSeqProperties
<1> QED BY <1>1, <1>4, StripIn

IInv == TypeOK /\ Ordered(received, executed, buffer) /\ NothingWaits

LEMMA Start == Init => IInv
<1> SUFFICES ASSUME Init PROVE IInv
    OBVIOUS
<1>1. TypeOK
    <2>1. \A S : <<>> \in Seq(S)
        BY EmptySeq
    <2>2. received \in Text /\ buffer \in Text /\ executed \in Seq(Seq(Chars \cup {CR}))
        BY <2>1 DEF Init, Text
    <2> QED BY <2>2 DEF Init, TypeOK
<1>2. Ordered(received, executed, buffer)
    <2>1. Len(executed) = 0 /\ received = <<>> /\ buffer = <<>> /\ Len(received) = 0
        BY DEF Init
    <2>2. Ranked(received, 0) /\ EndOf(received, 0) = 0
        BY DEF Ranked, EndOf
    <2>3. SubSeq(received, 0 + 1, 0) = <<>>
        BY <2>1
    <2> QED BY <2>1, <2>2, <2>3 DEF Ordered
<1>3. NothingWaits
    BY DEF Init, NothingWaits, Complete, Lines
<1> QED BY <1>1, <1>2, <1>3 DEF IInv

\* What fromCDT does to what has been received, with the chunk among it.
LEMMA LineTaken ==
    ASSUME NEW r \in Text, TypeOK, NEW data \in Text,
           Ordered(r, executed, buffer \o data), NEW more, NEW wait, more # wait,
           FromCDT(data, more, wait)
    PROVE  /\ Ordered(r, executed', buffer') /\ buffer' \in Text
           /\ executed' \in Seq(Seq(Chars \cup {CR})) /\ eof' \in BOOLEAN
           /\ pc' \in {more, wait} /\ (pc' = wait => ~Complete(buffer'))
<1>1. PICK b : b = buffer \o data
    OBVIOUS
<1>2. b \in Text /\ Ordered(r, executed, b)
    BY <1>1, Joined DEF TypeOK
<1>3. CASE ~Complete(b)
    <2>1. buffer' = b /\ pc' = wait /\ executed' = executed /\ eof' = eof
        BY <1>1, <1>3 DEF FromCDT
    <2> QED BY <1>2, <1>3, <2>1 DEF TypeOK
<1>4. CASE Complete(b)
    <2>1. PICK t : t = Strip(SubSeq(b, 1, FirstLine(b) - 1))
        OBVIOUS
    <2>2. /\ executed' = Append(executed, t) /\ eof' = (eof \/ t = ExitLine)
          /\ buffer' = SubSeq(b, FirstLine(b) + 1, Len(b))
          /\ pc' = IF buffer' = <<>> THEN wait ELSE more
        BY <1>1, <1>4, <2>1 DEF FromCDT
    <2>3. t \in Seq(Chars \cup {CR})
        BY <1>2, <1>4, <2>1, LineHasNoNewline
    <2>4. executed \in Seq(Seq(Chars \cup {CR}))
        BY DEF TypeOK
    <2>5. Ordered(r, executed', buffer')
        BY <1>2, <1>4, <2>1, <2>2, <2>3, <2>4, Executing, Zenon
    <2>6. buffer' \in Text
        BY <1>2, <1>4, <2>2, FirstLineIs DEF Text, Lines
    <2>7. executed' \in Seq(Seq(Chars \cup {CR}))
        BY <2>2, <2>3, <2>4, AppendProperties
    <2>8. pc' = wait => ~Complete(buffer')
        <3>1. pc' = wait => buffer' = <<>>
            BY <2>2
        <3>2. ~Complete(<<>>)
            BY DEF Complete, Lines
        <3> QED BY <3>1, <3>2
    <2>9. eof' \in BOOLEAN
        BY <2>2, Zenon DEF TypeOK
    <2> QED BY <2>2, <2>5, <2>6, <2>7, <2>8, <2>9
<1> QED BY <1>3, <1>4

LEMMA NextKeeps == IInv /\ [Next]_vars => IInv'
<1> SUFFICES ASSUME IInv, [Next]_vars PROVE IInv'
    OBVIOUS
<1> USE DEF IInv
<1>1. TypeOK /\ received \in Text /\ buffer \in Text
    BY DEF TypeOK
<1>2. CASE UNCHANGED vars
    BY <1>2 DEF vars, TypeOK, NothingWaits
<1>3. ASSUME NEW chunk \in Chunks, ReadPty(chunk) PROVE IInv'
    <2>1. chunk \in Text
        BY BufferAssumption DEF Text
    <2>2. /\ received' = received \o chunk
          /\ FromCDT(chunk, "drain", "stacked")
        BY <1>3 DEF ReadPty
    <2>3. PICK r : r = received \o chunk
        OBVIOUS
    <2>4. r \in Text
        BY <1>1, <2>1, <2>3, Joined
    <2>5. Len(executed) \in Nat
        BY <1>1 DEF TypeOK
    <2>6. Ordered(r, executed, buffer \o chunk)
        BY <1>1, <2>1, <2>3, <2>5, Receiving, Zenon
    <2>7. /\ Ordered(r, executed', buffer') /\ buffer' \in Text
          /\ executed' \in Seq(Seq(Chars \cup {CR})) /\ eof' \in BOOLEAN
          /\ pc' \in {"drain", "stacked"}
        BY <1>1, <2>1, <2>2, <2>4, <2>6, LineTaken, "drain" # "stacked"
    <2> QED BY <2>2, <2>3, <2>4, <2>7 DEF TypeOK, NothingWaits
<1>4. ASSUME UNCHANGED received, NEW more, NEW wait, more # wait,
             {more, wait} \subseteq {"select", "drain", "stacked", "unstack"},
             more # "select",
             FromCDT(<<>>, more, wait)
      PROVE  IInv'
    <2>1. <<>> \in Text /\ buffer \o <<>> = buffer
        BY <1>1, EmptySeq, ConcatEmptySeq DEF Text
    <2>2. Ordered(received, executed, buffer \o <<>>)
        BY <2>1
    <2>3. /\ Ordered(received, executed', buffer') /\ buffer' \in Text
          /\ executed' \in Seq(Seq(Chars \cup {CR})) /\ eof' \in BOOLEAN
          /\ pc' \in {more, wait} /\ (pc' = wait => ~Complete(buffer'))
        BY <1>1, <1>4, <2>1, <2>2, LineTaken, Zenon
    <2> QED BY <1>1, <1>4, <2>3 DEF TypeOK, NothingWaits
<1>5. CASE Drain
    BY <1>4, <1>5 DEF Drain
<1>6. CASE Stacked
    BY <1>4, <1>6 DEF Stacked
<1>7. CASE NothingStacked
    <2>1. pc' = "select" /\ (eof \/ buffer = <<>>)
          /\ UNCHANGED <<received, executed, buffer, eof>>
        BY <1>7 DEF NothingStacked
    <2>2. ~Complete(<<>>)
        BY DEF Complete, Lines
    <2> QED BY <2>1, <2>2 DEF TypeOK, NothingWaits
<1>8. CASE EofElsewhere
    BY <1>8 DEF EofElsewhere, TypeOK, NothingWaits
<1>9. CASE Leave
    BY <1>9 DEF Leave, TypeOK, NothingWaits
<1> QED BY <1>2, <1>3, <1>5, <1>6, <1>7, <1>8, <1>9 DEF Next, Step

LEMMA InvariantImplies == IInv => InOrder
<1> SUFFICES ASSUME IInv PROVE InOrder
    OBVIOUS
<1> DEFINE n == Len(executed)
<1>1. n \in Nat /\ received \in Text /\ Ordered(received, executed, buffer)
    BY DEF IInv, TypeOK
<1>2. \A k : LineEnd(k) = EndOf(received, k)
    BY DEF LineEnd, EndOf, Count
<1>3. n <= Cardinality(Lines(received))
    <2>1. Ranked(received, n)
        BY <1>1 DEF Ordered
    <2>2. PICK e : e = EndOf(received, n)
        OBVIOUS
    <2>3. Cardinality({j \in Lines(received) : j <= e}) = n
        BY <1>1, <2>1, <2>2, EndCounts DEF Count
    <2>4. IsFiniteSet(Lines(received)) /\ {j \in Lines(received) : j <= e} \in SUBSET Lines(received)
        BY <1>1, LinesFinite
    <2> HIDE DEF n
    <2> QED BY <2>3, <2>4, FS_Subset
<1> QED BY <1>1, <1>2, <1>3 DEF Ordered, InOrder

-----------------------------------------------------------------------------
(* Theorems *)

\* The state keeps its types, and with them the rest of the invariant.
THEOREM TypeCorrect == Spec => []IInv
<1>1. Init => IInv
    BY Start
<1>2. IInv /\ [Next]_vars => IInv'
    BY NextKeeps
<1> QED BY <1>1, <1>2, PTL DEF Spec

\* Every line CDT sends reaches evalCDTCommand at most once, in the order sent
\* and undamaged, and the rest waits in cdtbufferB, however the bytes were cut.
THEOREM LinesInOrder == Spec => []InOrder
BY TypeCorrect, InvariantImplies, PTL

\* The main loop of lldbmi2 never sleeps in select on a complete command.
THEOREM NoCommandWaits == Spec => []NothingWaits
<1>1. IInv => NothingWaits
    BY DEF IInv
<1> QED BY <1>1, TypeCorrect, PTL
=============================================================================
