-------------------------- MODULE LineEditor_proofs --------------------------
(***************************************************************************)
(* Proofs about LineEditor, for every size of the buffer, every terminal,  *)
(* every history limit and every completion that fits into the buffer.     *)
(***************************************************************************)
EXTENDS LineEditor, WellFoundedInduction, NaturalsInduction, SequenceTheorems, TLAPS

-----------------------------------------------------------------------------
(* Least and greatest elements *)

LEMMA MinIsLeast ==
    ASSUME NEW S \in SUBSET Nat, S # {}
    PROVE  Min(S) \in S /\ \A y \in S : Min(S) <= y
<1> DEFINE R == {p \in Nat \X Nat : p[1] < p[2]}
<1>1. IsWellFoundedOn(R, Nat)
    BY NatLessThanWellFounded, Zenon DEF OpToRel
<1>2. PICK x \in S : TRUE
    OBVIOUS
<1> HIDE DEF R
<1>3. PICK m \in S : \A k \in S : <<k, m>> \notin R
    BY <1>1, <1>2, WFMin
<1>4. \A k \in S : ~(k < m)
    BY <1>3 DEF R
<1>5. \A k \in S : m <= k
    BY <1>4
<1> QED BY <1>5 DEF Min

LEMMA MaxIsGreatest ==
    ASSUME NEW n \in Nat, NEW S \in SUBSET (0 .. n), S # {}
    PROVE  Max(S) \in S /\ \A y \in S : y <= Max(S)
<1> DEFINE T == {n - x : x \in S}
<1>1. T \in SUBSET Nat
    <2>1. \A x \in S : n - x \in Nat
        OBVIOUS
    <2> QED BY <2>1
<1>2. T # {}
    OBVIOUS
<1> HIDE DEF T
<1>3. Min(T) \in T /\ \A y \in T : Min(T) <= y
    BY <1>1, <1>2, MinIsLeast
<1>4. PICK x \in S : Min(T) = n - x
    BY <1>3 DEF T
<1>5. \A y \in S : n - x <= n - y
    BY <1>3, <1>4 DEF T
<1>6. \A y \in S : x >= y
    BY <1>5
<1> QED BY <1>6 DEF Max

LEMMA MinOfTwo ==
    ASSUME NEW a \in Nat, NEW b \in Nat
    PROVE  Min({a, b}) = IF a <= b THEN a ELSE b
    BY MinIsLeast, Min({a, b}) \in {a, b} /\ \A y \in {a, b} : Min({a, b}) <= y

-----------------------------------------------------------------------------
(* Buffers and the texts in them *)

Buffers == [0 .. BufSize - 1 -> Bytes]

LEMMA Sizes == BufSize \in Nat /\ buflen \in Nat /\ buflen >= 1 /\ BufSize = buflen + 1
    BY EditorAssumption DEF buflen

\* Moving bytes inside the buffer gives a buffer.
LEMMA MemmoveIn ==
    ASSUME NEW b \in Buffers, NEW dst \in 0 .. buflen, NEW src \in 0 .. buflen, NEW n \in Nat,
           src + n <= BufSize
    PROVE  Memmove(b, dst, src, n) \in Buffers
    BY Sizes DEF Memmove, Buffers

\* The text at the start of a buffer ends at its first terminator.
LEMMA CStringIn ==
    ASSUME NEW b \in Buffers, NEW e \in 0 .. buflen, b[e] = NUL
    PROVE  /\ CString(b) \in Seq(Chars)
           /\ Len(CString(b)) <= e
           /\ b[Len(CString(b))] = NUL
           /\ \A i \in 1 .. Len(CString(b)) : CString(b)[i] = b[i - 1]
<1> DEFINE Z == {i \in DOMAIN b : b[i] = NUL}
           n == Min(Z)
<1>1. Z \in SUBSET Nat /\ e \in Z /\ DOMAIN b = 0 .. BufSize - 1
    BY Sizes DEF Buffers
<1>2. n \in Z /\ \A y \in Z : n <= y
    BY <1>1, MinIsLeast
<1>3. CString(b) = [i \in 1 .. n |-> b[i - 1]]
    BY DEF CString
<1>4. n \in Nat /\ n <= e
    BY <1>1, <1>2
<1>5. \A i \in 1 .. n : b[i - 1] \in Chars
    BY <1>1, <1>2, <1>4, Sizes DEF Bytes, Buffers
<1>6. b[n] = NUL
    BY <1>2
<1> HIDE DEF n, Z
<1>7. CString(b) \in Seq(Chars) /\ Len(CString(b)) = n
    BY <1>3, <1>4, <1>5
<1> QED BY <1>3, <1>4, <1>6, <1>7

\* What strncpy and snprintf leave is a buffer with a terminated text.
LEMMA StrncpyIn ==
    ASSUME NEW b \in Buffers, NEW t \in Seq(Chars)
    PROVE  Strncpy(b, t, buflen) \in Buffers /\ Strncpy(b, t, buflen)[buflen - 1] = NUL
    BY Sizes DEF Strncpy, Buffers, Bytes

LEMMA SnprintfIn ==
    ASSUME NEW b \in Buffers, NEW t \in Seq(Chars), Len(t) < buflen
    PROVE  /\ Snprintf(b, t, buflen) \in Buffers
           /\ Snprintf(b, t, buflen)[Len(t)] = NUL
           /\ \A i \in 0 .. Len(t) - 1 : Snprintf(b, t, buflen)[i] = t[i + 1]
<1>1. Min({Len(t), buflen - 1}) = Len(t)
    BY Sizes, MinOfTwo
<1> QED BY <1>1, Sizes DEF Snprintf, Buffers, Bytes

-----------------------------------------------------------------------------
(* The struct *)

\* m has the fields of struct linenoiseState and no others.
IsRecord(m) ==
    m = [buf |-> m.buf, len |-> m.len, pos |-> m.pos, oldpos |-> m.oldpos,
         oldrows |-> m.oldrows, history_index |-> m.history_index,
         in_completion |-> m.in_completion, completion_idx |-> m.completion_idx,
         cols |-> m.cols, row |-> m.row, shown |-> m.shown]

\* InBounds, of any value of the struct
Sane(m) ==
    /\ IsRecord(m)
    /\ m.buf \in Buffers
    /\ m.len \in 0 .. buflen /\ m.pos \in 0 .. m.len
    /\ m.buf[m.len] = NUL

\* The prompt does not fill the terminal's row.
Wide(m) == m.cols \in Nat /\ plen < m.cols

\* RowIsKnown; and the next redrawing cleans the row of the cursor, too.
Placed(m) ==
    /\ m.oldpos \in Nat /\ m.oldrows \in Nat
    /\ m.row = CursorRow(m, m.oldpos)
    /\ m.oldrows = 0 => m.oldpos = 0
    /\ m.oldrows # 0 => CursorRow(m, m.oldpos) <= m.oldrows

Counted(m) == m.in_completion \in BOOLEAN /\ m.completion_idx \in Nat

\* what no editing of the text and no redrawing changes
Keeps(k, m) ==
    /\ k.history_index = m.history_index /\ k.in_completion = m.in_completion
    /\ k.completion_idx = m.completion_idx /\ k.cols = m.cols

SameScreen(k, m) == k.oldpos = m.oldpos /\ k.oldrows = m.oldrows /\ k.row = m.row

SameText(k, m) == k.buf = m.buf /\ k.len = m.len /\ k.pos = m.pos

LEMMA RefreshSingle ==
    ASSUME NEW m, IsRecord(m), NEW t, NEW pos, NEW write,
           NEW k, k = refreshSingleLine(m, t, pos, write)
    PROVE  IsRecord(k) /\ SameText(k, m) /\ Keeps(k, m) /\ SameScreen(k, m)
<1>1. PICK s : k = [m EXCEPT !.shown = s]
    BY DEF refreshSingleLine
<1> QED BY <1>1 DEF IsRecord, SameText, Keeps, SameScreen

LEMMA RefreshMulti ==
    ASSUME NEW m, IsRecord(m), NEW t, NEW pos, NEW clean, NEW write,
           NEW k, k = refreshMultiLine(m, t, pos, clean, write)
    PROVE  IsRecord(k) /\ SameText(k, m) /\ Keeps(k, m)
<1>1. PICK a, b, c : k = [m EXCEPT !.oldrows = a, !.oldpos = b, !.row = c]
    BY Zenon DEF refreshMultiLine
<1> QED BY <1>1 DEF IsRecord, SameText, Keeps

\* Redrawing changes the screen only.
LEMMA RefreshKeeps ==
    ASSUME NEW m, IsRecord(m), NEW t, NEW pos, NEW clean, NEW write,
           NEW k, k = refreshWithFlags(m, t, pos, clean, write)
    PROVE  IsRecord(k) /\ SameText(k, m) /\ Keeps(k, m)
    BY RefreshSingle, RefreshMulti DEF refreshWithFlags

-----------------------------------------------------------------------------
(* Rows *)

LEMMA Quotient ==
    ASSUME NEW w \in Nat \ {0}, NEW a \in Nat
    PROVE  /\ a \div w \in Nat /\ a % w \in 0 .. w - 1
           /\ a = w * (a \div w) + (a % w)
<1>1. a \div w \in Nat
    OBVIOUS
<1>2. a % w \in 0 .. w - 1
    OBVIOUS
<1>3. a = w * (a \div w) + (a % w)
    OBVIOUS
<1> QED BY <1>1, <1>2, <1>3

LEMMA QuotientIs ==
    ASSUME NEW w \in Nat \ {0}, NEW a \in Nat, NEW q \in Nat, NEW r \in 0 .. w - 1,
           a = w * q + r
    PROVE  a \div w = q
    OBVIOUS

LEMMA QuotientMonotone ==
    ASSUME NEW w \in Nat \ {0}, NEW a \in Nat, NEW b \in Nat, a <= b
    PROVE  a \div w <= b \div w
    BY Quotient

\* The rows that are written reach to the cursor's, counting the row begun
\* behind a full one.
LEMMA RowsReachCursor ==
    ASSUME NEW m, Wide(m), NEW n \in Nat, NEW pos \in 0 .. n,
           NEW newline \in BOOLEAN,
           newline <=> pos > 0 /\ pos = n /\ (pos + plen) % m.cols = 0,
           NEW written, written = IF newline THEN Rows(m, n) + 1 ELSE Rows(m, n)
    PROVE  written \in Nat /\ CursorRow(m, pos) \in Nat /\ 1 <= CursorRow(m, pos)
           /\ CursorRow(m, pos) <= written
<1> DEFINE w == m.cols
           a == plen + n + w - 1
           c == plen + pos + w
<1>1. plen \in Nat /\ 1 <= plen /\ w \in Nat \ {0} /\ plen < w
    BY EditorAssumption DEF Wide
<1>2. a \in Nat /\ c \in Nat /\ w <= c
    BY <1>1
<1>3. Rows(m, n) = a \div w /\ CursorRow(m, pos) = c \div w
    BY DEF Rows, CursorRow
<1> HIDE DEF w
<1>4. a \div w \in Nat /\ c \div w \in Nat
    BY <1>1, <1>2, Quotient
<1>5. 1 <= c \div w
    <2>1. w \div w = 1
        BY <1>1, QuotientIs, w = w * 1 + 0
    <2> QED BY <1>1, <1>2, <2>1, QuotientMonotone
<1>6. CASE pos < n
    <2>1. c <= a
        BY <1>1, <1>6
    <2>2. c \div w <= a \div w
        BY <1>1, <1>2, <2>1, QuotientMonotone
    <2> QED BY <1>3, <1>4, <1>5, <2>2
<1>7. CASE pos = n
    <2> DEFINE q == (plen + n) \div w
               r == (plen + n) % w
    <2>1. plen + n \in Nat
        BY <1>1
    <2>2. q \in Nat /\ r \in 0 .. w - 1 /\ plen + n = w * q + r
        BY <1>1, <2>1, Quotient
    <2>3. newline <=> pos > 0 /\ r = 0
        BY <1>1, <1>7, pos + plen = plen + n DEF w
    <2> HIDE DEF q, r
    <2>4. w * (q + 1) = w * q + w
        BY <1>1, <2>2
    <2>5. c = w * (q + 1) + r
        BY <1>1, <1>7, <2>2, <2>4
    <2>6. c \div w = q + 1
        <3>1. q + 1 \in Nat
            BY <2>2
        <3> HIDE DEF c
        <3> QED BY <1>1, <1>2, <2>2, <2>5, <3>1, QuotientIs
    <2>7. CASE r = 0
        <3>1. pos > 0
            <4>1. SUFFICES ASSUME pos = 0 PROVE FALSE
                OBVIOUS
            <4>2. plen = w * q
                BY <1>1, <1>7, <2>2, <2>7, <4>1
            <4>3. q # 0
                BY <1>1, <4>2
            <4>4. w * q >= w
                BY <1>1, <2>2, <4>3
            <4> QED BY <1>1, <4>2, <4>4
        <3>2. written = Rows(m, n) + 1
            BY <2>3, <2>7, <3>1
        <3>3. a = w * q + (w - 1)
            BY <1>1, <2>2, <2>7
        <3>4. a \div w = q
            BY <1>1, <1>2, <2>2, <3>3, QuotientIs
        <3> QED BY <1>3, <1>5, <2>2, <2>6, <3>2, <3>4
    <2>8. CASE r # 0
        <3>1. a = w * (q + 1) + (r - 1)
            BY <1>1, <2>2, <2>4
        <3>2. a \div w = q + 1
            <4>1. q + 1 \in Nat /\ r - 1 \in 0 .. w - 1
                BY <1>1, <2>2, <2>8
            <4> HIDE DEF a
            <4> QED BY <1>1, <1>2, <3>1, <4>1, QuotientIs
        <3> QED BY <1>3, <1>5, <2>2, <2>3, <2>6, <2>8, <3>2
    <2> QED BY <2>7, <2>8
<1> QED BY <1>6, <1>7

\* Where the prompt ends the line has one row.
LEMMA FirstRow ==
    ASSUME NEW m, Wide(m)
    PROVE  CursorRow(m, 0) = 1
<1>1. plen \in Nat /\ m.cols \in Nat \ {0} /\ plen < m.cols
    BY EditorAssumption DEF Wide
<1>2. plen + 0 + m.cols = m.cols * 1 + plen
    BY <1>1
<1> QED BY <1>1, <1>2, QuotientIs DEF CursorRow

\* The cleaning ends on the row of the prompt.
LEMMA CleaningEndsOnTop ==
    ASSUME NEW m, Wide(m), Placed(m)
    PROVE  CleanedRow(m) = 1
<1>1. CursorRow(m, m.oldpos) \in Nat /\ 1 <= CursorRow(m, m.oldpos)
    BY RowsReachCursor, m.oldpos \in 0 .. m.oldpos DEF Placed
<1>2. CASE m.oldrows = 0
    BY <1>2, FirstRow DEF Placed, CleanedRow, AtLeast0
<1>3. CASE m.oldrows # 0
    BY <1>1, <1>3 DEF Placed, CleanedRow, AtLeast0
<1> QED BY <1>2, <1>3 DEF Placed

\* A redrawing in multi-line mode leaves the cursor where the next one
\* believes it, whatever text is shown; taking the line away leaves it on the
\* row of the prompt.
LEMMA RefreshPlaces ==
    ASSUME NEW m, IsRecord(m), Wide(m), NEW t \in Seq(Bytes), NEW pos \in 0 .. Len(t),
           NEW clean \in BOOLEAN, clean => Placed(m), ~clean => m.row = 1,
           NEW k, k = refreshMultiLine(m, t, pos, clean, TRUE)
    PROVE  Placed(k)
<1> DEFINE newline == pos > 0 /\ pos = Len(t) /\ (pos + plen) % m.cols = 0
           written == IF newline THEN Rows(m, Len(t)) + 1 ELSE Rows(m, Len(t))
           top == IF clean THEN CleanedRow(m) ELSE m.row
           row == top + written - 1 - AtLeast0(written - CursorRow(m, pos))
<1>1. k = [m EXCEPT !.oldrows = written, !.oldpos = pos, !.row = row]
    BY DEF refreshMultiLine
<1>2. /\ written \in Nat /\ CursorRow(m, pos) \in Nat /\ 1 <= CursorRow(m, pos)
      /\ CursorRow(m, pos) <= written
    <2>1. Len(t) \in Nat /\ newline \in BOOLEAN
        OBVIOUS
    <2> HIDE DEF newline
    <2>2. newline <=> pos > 0 /\ pos = Len(t) /\ (pos + plen) % m.cols = 0
        BY DEF newline
    <2>3. written = IF newline THEN Rows(m, Len(t)) + 1 ELSE Rows(m, Len(t))
        BY DEF written
    <2> HIDE DEF written
    <2> QED BY <2>1, <2>2, <2>3, RowsReachCursor
<1>3. top = 1
    BY CleaningEndsOnTop
<1> HIDE DEF written, top
<1>4. row = CursorRow(m, pos)
    BY <1>2, <1>3 DEF AtLeast0
<1> HIDE DEF row
<1>5. k.oldrows = written /\ k.oldpos = pos /\ k.row = row /\ k.cols = m.cols
    BY <1>1 DEF IsRecord
<1>6. CursorRow(k, pos) = CursorRow(m, pos)
    BY <1>5 DEF CursorRow
<1>7. k.row = CursorRow(k, k.oldpos)
    BY <1>4, <1>5, <1>6, Zenon
<1>8. CursorRow(k, k.oldpos) <= k.oldrows
    BY <1>2, <1>5, <1>6, Zenon
<1>9. k.oldpos \in Nat
    <2>1. pos \in Nat
        OBVIOUS
    <2> QED BY <1>5, <2>1, Zenon
<1>10. k.oldrows \in Nat /\ k.oldrows # 0
    <2>1. written # 0
        BY <1>2
    <2> QED BY <1>2, <1>5, <2>1, Zenon
<1> QED BY <1>7, <1>8, <1>9, <1>10, Zenon DEF Placed

LEMMA HidingPlaces ==
    ASSUME NEW m, IsRecord(m), Wide(m), Placed(m), NEW t, NEW pos,
           NEW k, k = refreshMultiLine(m, t, pos, TRUE, FALSE)
    PROVE  k.row = 1
<1>1. PICK a, b : k = [m EXCEPT !.oldrows = a, !.oldpos = b, !.row = CleanedRow(m)]
    BY DEF refreshMultiLine
<1>2. CleanedRow(m) = 1
    BY CleaningEndsOnTop
<1>3. k.row = CleanedRow(m)
    BY <1>1 DEF IsRecord
<1> QED BY <1>2, <1>3

-----------------------------------------------------------------------------
(* The text with a cursor that the bytes stand for *)

LEMMA TextIn ==
    ASSUME NEW m, Sane(m)
    PROVE  Text(m) \in Seq(Bytes) /\ Len(Text(m)) = m.len
           /\ \A i \in 1 .. m.len : Text(m)[i] = m.buf[i - 1]
<1>1. m.len \in Nat /\ \A i \in 1 .. m.len : m.buf[i - 1] \in Bytes
    BY Sizes DEF Sane, Buffers
<1> QED BY <1>1 DEF Text

LEMMA Beginning ==
    ASSUME NEW t \in Seq(Bytes), NEW n \in 0 .. Len(t), NEW a, a = SubSeq(t, 1, n)
    PROVE  a \in Seq(Bytes) /\ Len(a) = n /\ \A i \in 1 .. n : a[i] = t[i]
<1>1. \A i \in 1 .. n : t[i] \in Bytes
    OBVIOUS
<1>2. n \in Int /\ 1 \in Int
    OBVIOUS
<1>3. /\ SubSeq(t, 1, n) \in Seq(Bytes)
      /\ Len(SubSeq(t, 1, n)) = IF 1 <= n THEN n - 1 + 1 ELSE 0
      /\ \A i \in 1 .. n - 1 + 1 : SubSeq(t, 1, n)[i] = t[1 + i - 1]
    BY <1>1, <1>2, SubSeqProperties
<1> QED BY <1>3

LEMMA Rest ==
    ASSUME NEW t \in Seq(Bytes), NEW n \in 0 .. Len(t), NEW z, z = SubSeq(t, n + 1, Len(t))
    PROVE  z \in Seq(Bytes) /\ Len(z) = Len(t) - n
           /\ \A i \in 1 .. Len(t) - n : z[i] = t[n + i]
<1>1. \A i \in n + 1 .. Len(t) : t[i] \in Bytes
    OBVIOUS
<1>2. n + 1 \in Int /\ Len(t) \in Int
    OBVIOUS
<1>3. /\ SubSeq(t, n + 1, Len(t)) \in Seq(Bytes)
      /\ Len(SubSeq(t, n + 1, Len(t))) = IF n + 1 <= Len(t) THEN Len(t) - (n + 1) + 1 ELSE 0
      /\ \A i \in 1 .. Len(t) - (n + 1) + 1 :
            SubSeq(t, n + 1, Len(t))[i] = t[(n + 1) + i - 1]
    BY <1>1, <1>2, SubSeqProperties
<1> QED BY <1>3

\* k's bytes are m's without those between from and to,
Closes(k, m, from, to) ==
    /\ k.len = m.len - (to - from)
    /\ \A i \in 0 .. from - 1 : k.buf[i] = m.buf[i]
    /\ \A i \in from .. k.len - 1 : k.buf[i] = m.buf[i + (to - from)]

\* or m's with c at the cursor.
Opens(k, m, c) ==
    /\ k.len = m.len + 1
    /\ \A i \in 0 .. m.pos - 1 : k.buf[i] = m.buf[i]
    /\ k.buf[m.pos] = c
    /\ \A i \in m.pos + 1 .. m.len : k.buf[i] = m.buf[i - 1]

LEMMA ErasedText ==
    ASSUME NEW m, Sane(m), NEW k, Sane(k), NEW from \in 0 .. m.len, NEW to \in from .. m.len,
           Closes(k, m, from, to)
    PROVE  Text(k) = SubSeq(Text(m), 1, from) \o SubSeq(Text(m), to + 1, Len(Text(m)))
<1> DEFINE t == Text(m)
           a == SubSeq(t, 1, from)
           z == SubSeq(t, to + 1, Len(t))
<1> /\ k.len = m.len - (to - from)
    /\ \A i \in 0 .. from - 1 : k.buf[i] = m.buf[i]
    /\ \A i \in from .. k.len - 1 : k.buf[i] = m.buf[i + (to - from)]
    BY DEF Closes
<1>1. m.len \in Nat /\ from \in Nat /\ to \in Nat /\ from <= to /\ to <= m.len
    BY Sizes DEF Sane
<1>2. t \in Seq(Bytes) /\ Len(t) = m.len /\ \A i \in 1 .. m.len : t[i] = m.buf[i - 1]
    BY TextIn
<1>3. Text(k) \in Seq(Bytes) /\ Len(Text(k)) = k.len
      /\ \A i \in 1 .. k.len : Text(k)[i] = k.buf[i - 1]
    BY TextIn
<1> HIDE DEF t
<1>4. a \in Seq(Bytes) /\ Len(a) = from /\ \A i \in 1 .. from : a[i] = t[i]
    BY <1>1, <1>2, Beginning
<1>5. z \in Seq(Bytes) /\ Len(z) = m.len - to /\ \A i \in 1 .. m.len - to : z[i] = t[to + i]
    <2>1. to \in 0 .. Len(t)
        BY <1>1, <1>2
    <2> QED BY <1>2, <2>1, Rest
<1> HIDE DEF a, z
<1>6. a \o z \in Seq(Bytes) /\ Len(a \o z) = k.len
      /\ \A i \in 1 .. k.len : (a \o z)[i] = IF i <= from THEN a[i] ELSE z[i - from]
    <2>1. Len(a) + Len(z) = k.len
        BY <1>1, <1>4, <1>5
    <2>2. /\ a \o z \in Seq(Bytes) /\ Len(a \o z) = Len(a) + Len(z)
          /\ \A i \in 1 .. Len(a) + Len(z) :
                (a \o z)[i] = IF i <= Len(a) THEN a[i] ELSE z[i - Len(a)]
        BY <1>4, <1>5, ConcatProperties
    <2> QED BY <1>4, <2>1, <2>2, Zenon
<1>7. ASSUME NEW i \in 1 .. k.len PROVE Text(k)[i] = (a \o z)[i]
    <2>1. CASE i <= from
        <3>1. (a \o z)[i] = t[i]
            BY <1>1, <1>4, <1>6, <2>1
        <3>2. i - 1 \in 0 .. from - 1 /\ i \in 1 .. m.len
            BY <1>1, <2>1
        <3> QED BY <1>2, <1>3, <3>1, <3>2
    <2>2. CASE i > from
        <3>1. i - from \in 1 .. m.len - to
            BY <1>1, <2>2
        <3>2. (a \o z)[i] = z[i - from]
            <4>1. ~(i <= from)
                BY <1>1, <2>2
            <4> QED BY <1>6, <4>1, Zenon
        <3>3. z[i - from] = t[to + (i - from)]
            BY <1>5, <3>1
        <3>4. to + (i - from) \in 1 .. m.len
            BY <1>1, <3>1
        <3>5. t[to + (i - from)] = m.buf[to + (i - from) - 1]
            BY <1>2, <3>4
        <3>6. i - 1 \in from .. k.len - 1 /\ (i - 1) + (to - from) = to + (i - from) - 1
            BY <1>1, <2>2
        <3>7. k.buf[i - 1] = m.buf[(i - 1) + (to - from)]
            BY <3>6
        <3> QED BY <1>3, <3>2, <3>3, <3>5, <3>6, <3>7
    <2>3. i <= from \/ i > from
        BY <1>1
    <2> QED BY <2>1, <2>2, <2>3
<1>8. Text(k) = a \o z
    BY <1>3, <1>6, <1>7
<1> QED BY <1>8 DEF a, z, t

LEMMA InsertedText ==
    ASSUME NEW m, Sane(m), m.len < buflen, NEW c \in Bytes, NEW k, Sane(k), Opens(k, m, c)
    PROVE  Text(k) = InsertAt(Text(m), m.pos + 1, c)
<1> DEFINE t == Text(m)
           p == m.pos
           a == SubSeq(t, 1, p)
           z == SubSeq(t, p + 1, Len(t))
<1>0. /\ k.len = m.len + 1
      /\ \A i \in 0 .. p - 1 : k.buf[i] = m.buf[i]
      /\ k.buf[p] = c
      /\ \A i \in p + 1 .. m.len : k.buf[i] = m.buf[i - 1]
    BY DEF Opens
<1>1. m.len \in Nat /\ p \in Nat /\ p <= m.len
    BY Sizes DEF Sane
<1>2. t \in Seq(Bytes) /\ Len(t) = m.len /\ \A i \in 1 .. m.len : t[i] = m.buf[i - 1]
    BY TextIn
<1>3. Text(k) \in Seq(Bytes) /\ Len(Text(k)) = m.len + 1
      /\ \A i \in 1 .. m.len + 1 : Text(k)[i] = k.buf[i - 1]
    BY <1>0, TextIn
<1> HIDE DEF t
<1>4. InsertAt(t, p + 1, c) = a \o <<c>> \o z
    <2>1. (p + 1) - 1 = p
        BY <1>1
    <2> QED BY <2>1, Zenon DEF InsertAt
<1> p \in 0 .. Len(t)
    BY <1>1, <1>2
<1>5. a \in Seq(Bytes) /\ Len(a) = p /\ \A i \in 1 .. p : a[i] = t[i]
    BY <1>2, Beginning
<1>6. z \in Seq(Bytes) /\ Len(z) = m.len - p /\ \A i \in 1 .. m.len - p : z[i] = t[p + i]
    BY <1>2, Rest
<1> HIDE DEF a, z
<1> DEFINE v == a \o <<c>>
           u == v \o z
<1>7. v \in Seq(Bytes) /\ Len(v) = p + 1 /\ v[p + 1] = c /\ \A i \in 1 .. p : v[i] = a[i]
    <2>1. <<c>> \in Seq(Bytes) /\ Len(<<c>>) = 1 /\ <<c>>[1] = c
        OBVIOUS
    <2> DEFINE e == <<c>>
    <2> HIDE DEF e
    <2>2. /\ a \o e \in Seq(Bytes) /\ Len(a \o e) = Len(a) + Len(e)
          /\ \A i \in 1 .. Len(a) + Len(e) :
                (a \o e)[i] = IF i <= Len(a) THEN a[i] ELSE e[i - Len(a)]
        BY <1>5, <2>1, ConcatProperties DEF e
    <2>3. Len(a) = p /\ Len(e) = 1 /\ e[1] = c /\ v = a \o e
        BY <1>5, <2>1 DEF e
    <2> HIDE DEF v
    <2>4. Len(v) = p + 1 /\ \A i \in 1 .. p + 1 : v[i] = IF i <= p THEN a[i] ELSE e[i - p]
        BY <2>2, <2>3, Zenon
    <2>5. v[p + 1] = c
        <3>1. p + 1 \in 1 .. p + 1 /\ ~(p + 1 <= p) /\ (p + 1) - p = 1
            BY <1>1
        <3> QED BY <2>3, <2>4, <3>1, Zenon
    <2>6. \A i \in 1 .. p : v[i] = a[i]
        BY <1>1, <2>4
    <2> QED BY <2>2, <2>3, <2>4, <2>5, <2>6, Zenon
<1> HIDE DEF v
<1>8. /\ u \in Seq(Bytes) /\ Len(u) = m.len + 1
      /\ \A i \in 1 .. m.len + 1 : u[i] = IF i <= p + 1 THEN v[i] ELSE z[i - (p + 1)]
    <2>1. Len(v) + Len(z) = m.len + 1
        BY <1>1, <1>6, <1>7
    <2>2. /\ v \o z \in Seq(Bytes) /\ Len(v \o z) = Len(v) + Len(z)
          /\ \A i \in 1 .. Len(v) + Len(z) :
                (v \o z)[i] = IF i <= Len(v) THEN v[i] ELSE z[i - Len(v)]
        BY <1>6, <1>7, ConcatProperties
    <2> QED BY <1>7, <2>1, <2>2, Zenon
<1> HIDE DEF u
<1>9. ASSUME NEW i \in 1 .. m.len + 1 PROVE Text(k)[i] = u[i]
    <2>1. CASE i <= p
        <3>1. i \in 1 .. p /\ i - 1 \in 0 .. p - 1 /\ i \in 1 .. m.len
            BY <1>1, <2>1
        <3>2. u[i] = t[i]
            BY <1>1, <1>5, <1>7, <1>8, <2>1, <3>1
        <3> QED BY <1>0, <1>2, <1>3, <3>1, <3>2
    <2>2. CASE i = p + 1
        <3>1. i <= p + 1 /\ i - 1 = p
            BY <1>1, <2>2
        <3>2. u[i] = c
            BY <1>7, <1>8, <2>2, <3>1, Zenon
        <3> QED BY <1>0, <1>3, <3>1, <3>2, Zenon
    <2>3. CASE i > p + 1
        <3>1. /\ i - (p + 1) \in 1 .. m.len - p /\ ~(i <= p + 1)
              /\ p + (i - (p + 1)) = i - 1 /\ i - 1 \in 1 .. m.len
              /\ i - 1 \in p + 1 .. m.len
            BY <1>1, <2>3
        <3>2. u[i] = t[i - 1]
            BY <1>6, <1>8, <3>1
        <3> QED BY <1>0, <1>2, <1>3, <3>1, <3>2
    <2> QED BY <1>1, <2>1, <2>2, <2>3
<1>10. Text(k) = u
    BY <1>3, <1>8, <1>9
<1> QED BY <1>4, <1>10 DEF u, v, t

\* The characters on both sides of the cursor change places.
LEMMA TransposedText ==
    ASSUME NEW m, Sane(m), m.pos > 0, m.pos < m.len, NEW k, Sane(k), k.len = m.len,
           k.buf = [m.buf EXCEPT ![m.pos - 1] = m.buf[m.pos], ![m.pos] = m.buf[m.pos - 1]]
    PROVE  Text(k) = [Text(m) EXCEPT ![m.pos] = Text(m)[m.pos + 1],
                                     ![m.pos + 1] = Text(m)[m.pos]]
<1> DEFINE t == Text(m)
           u == [t EXCEPT ![m.pos] = t[m.pos + 1], ![m.pos + 1] = t[m.pos]]
<1>1. m.len \in Nat /\ m.pos \in Nat /\ DOMAIN m.buf = 0 .. buflen /\ m.len <= buflen
      /\ buflen \in Nat
    BY Sizes DEF Sane, Buffers
<1>2. t \in Seq(Bytes) /\ Len(t) = m.len /\ \A i \in 1 .. m.len : t[i] = m.buf[i - 1]
    BY TextIn
<1>3. Text(k) \in Seq(Bytes) /\ Len(Text(k)) = m.len
      /\ \A i \in 1 .. m.len : Text(k)[i] = k.buf[i - 1]
    BY TextIn
<1> HIDE DEF t
<1>4. DOMAIN t = 1 .. m.len /\ t[m.pos] = m.buf[m.pos - 1] /\ t[m.pos + 1] = m.buf[m.pos]
    <2>1. m.pos \in 1 .. m.len /\ m.pos + 1 \in 1 .. m.len /\ (m.pos + 1) - 1 = m.pos
        BY <1>1
    <2>2. DOMAIN t = 1 .. m.len
        BY <1>2
    <2>3. t[m.pos + 1] = m.buf[(m.pos + 1) - 1]
        BY <1>2, <2>1
    <2> QED BY <1>2, <2>1, <2>2, <2>3
<1>5. u \in Seq(Bytes) /\ Len(u) = m.len
    BY <1>1, <1>2, <1>4
<1>6. ASSUME NEW i \in 1 .. m.len PROVE Text(k)[i] = u[i]
    <2>1. u[i] = IF i = m.pos + 1 THEN t[m.pos] ELSE IF i = m.pos THEN t[m.pos + 1] ELSE t[i]
        BY <1>1, <1>4
    <2>2. i - 1 \in 0 .. buflen
        BY <1>1
    <2>3. k.buf[i - 1] = IF i - 1 = m.pos THEN m.buf[m.pos - 1]
                         ELSE IF i - 1 = m.pos - 1 THEN m.buf[m.pos] ELSE m.buf[i - 1]
        BY <1>1, <2>2
    <2> QED BY <1>1, <1>2, <1>3, <1>4, <2>1, <2>3
<1> HIDE DEF u
<1>7. Text(k) = u
    BY <1>3, <1>5, <1>6
<1> QED BY <1>7 DEF u, t

LEMMA SameTexts ==
    ASSUME NEW m, NEW k, k.buf = m.buf, k.len = m.len
    PROVE  Text(k) = Text(m)
    BY DEF Text

\* k comes from m by one of the changes that TextField allows.
Inserts(k, m) ==
    /\ Len(Text(m)) < buflen
    /\ \E b \in Bytes : Text(k) = InsertAt(Text(m), m.pos + 1, b)
    /\ k.pos = m.pos + 1

Moves(k, m) == Text(k) = Text(m) /\ k.pos \in 0 .. Len(Text(m))

Erases(k, m) == \E p \in 0 .. Len(Text(m)) :
    LET from == IF p < m.pos THEN p ELSE m.pos
        to == IF p < m.pos THEN m.pos ELSE p
    IN /\ Text(k) = SubSeq(Text(m), 1, from) \o SubSeq(Text(m), to + 1, Len(Text(m)))
       /\ k.pos = from

Transposes(k, m) ==
    /\ m.pos \in 1 .. Len(Text(m)) - 1
    /\ Text(k) = [Text(m) EXCEPT ![m.pos] = Text(m)[m.pos + 1], ![m.pos + 1] = Text(m)[m.pos]]
    /\ k.pos = IF m.pos = Len(Text(m)) - 1 THEN m.pos ELSE m.pos + 1

Edits(k, m) == Inserts(k, m) \/ Moves(k, m) \/ Erases(k, m) \/ Transposes(k, m)

Clears(k) == Text(k) = <<>> /\ k.pos = 0

LEMMA EditsErase ==
    ASSUME NEW m, Sane(m), NEW k, Sane(k), NEW from \in 0 .. m.len, NEW to \in from .. m.len,
           m.pos = from \/ m.pos = to, k.pos = from, Closes(k, m, from, to)
    PROVE  Edits(k, m)
<1>1. Text(k) = SubSeq(Text(m), 1, from) \o SubSeq(Text(m), to + 1, Len(Text(m)))
    BY ErasedText
<1>2. Len(Text(m)) = m.len /\ m.len \in Nat /\ from \in Nat /\ to \in Nat /\ from <= to
    BY TextIn, Sizes DEF Sane
<1>3. CASE m.pos = from
    <2>1. to \in 0 .. Len(Text(m)) /\ ~(to < m.pos)
        BY <1>2, <1>3
    <2>2. Erases(k, m)
        BY <1>1, <1>3, <2>1, Zenon DEF Erases
    <2> QED BY <2>2 DEF Edits
<1>4. CASE m.pos = to /\ from # to
    <2>1. from \in 0 .. Len(Text(m)) /\ from < m.pos
        BY <1>2, <1>4
    <2>2. Erases(k, m)
        BY <1>1, <1>4, <2>1, Zenon DEF Erases
    <2> QED BY <2>2 DEF Edits
<1> QED BY <1>3, <1>4

LEMMA EditsMove ==
    ASSUME NEW m, Sane(m), NEW k, k.buf = m.buf, k.len = m.len, k.pos \in 0 .. m.len
    PROVE  Edits(k, m)
    BY SameTexts, TextIn DEF Edits, Moves

\* Bytes moved to the front of the buffer
LEMMA MovedBack ==
    ASSUME NEW b \in Buffers, NEW to \in 0 .. buflen, NEW from \in 0 .. to, NEW n \in Nat,
           to + n <= BufSize, NEW r, r = Memmove(b, from, to, n)
    PROVE  /\ \A i \in 0 .. from - 1 : r[i] = b[i]
           /\ \A i \in from .. from + n - 1 : r[i] = b[i + (to - from)]
<1>1. DOMAIN b = 0 .. buflen /\ buflen \in Nat /\ BufSize = buflen + 1
    BY Sizes DEF Buffers
<1>2. r = [i \in 0 .. buflen |-> IF i \in from .. from + n - 1 THEN b[to + (i - from)] ELSE b[i]]
    BY <1>1 DEF Memmove
<1>3. ASSUME NEW i \in 0 .. from - 1 PROVE r[i] = b[i]
    BY <1>1, <1>2
<1>4. ASSUME NEW i \in from .. from + n - 1 PROVE r[i] = b[i + (to - from)]
    <2>1. i \in 0 .. buflen /\ to + (i - from) = i + (to - from)
        BY <1>1
    <2> QED BY <1>2, <2>1
<1> QED BY <1>3, <1>4

-----------------------------------------------------------------------------
(* Editing *)

Good(m) == Sane(m) /\ Wide(m) /\ Counted(m) /\ (mlmode => Placed(m))

\* k is m with another text that has not been shown yet.
Edited(k, m) == Sane(k) /\ Keeps(k, m) /\ SameScreen(k, m)

LEMMA KeepsSane ==
    ASSUME NEW k, NEW m, Sane(m), IsRecord(k), SameText(k, m)
    PROVE  Sane(k)
    BY DEF Sane, SameText

\* Showing a text, that of the buffer or another, while the screen is as the
\* last redrawing believes it or the cursor is on the row for the prompt.
LEMMA ShowGood ==
    ASSUME NEW m, Sane(m), Wide(m), Counted(m), NEW clean \in BOOLEAN,
           mlmode /\ clean => Placed(m), mlmode /\ ~clean => m.row = 1,
           NEW t \in Seq(Bytes), NEW pos \in 0 .. Len(t),
           NEW k, k = refreshWithFlags(m, t, pos, clean, TRUE)
    PROVE  Good(k) /\ Keeps(k, m) /\ SameText(k, m)
<1>1. IsRecord(m)
    BY DEF Sane
<1>2. IsRecord(k) /\ SameText(k, m) /\ Keeps(k, m)
    BY <1>1, RefreshKeeps
<1>3. Sane(k) /\ Wide(k) /\ Counted(k)
    BY <1>1, <1>2, KeepsSane DEF Good, Wide, Counted, Keeps
<1>4. mlmode => Placed(k)
    BY <1>1, RefreshPlaces DEF refreshWithFlags
<1> QED BY <1>2, <1>3, <1>4 DEF Good

LEMMA RefreshGood ==
    ASSUME NEW m, Good(m), NEW n, Edited(n, m), NEW k, k = refreshLine(n)
    PROVE  Good(k) /\ Keeps(k, m) /\ SameText(k, n)
<1>1. Good(n)
    BY DEF Good, Edited, Keeps, SameScreen, Wide, Counted, Placed, CursorRow
<1>2. Text(n) \in Seq(Bytes) /\ n.pos \in 0 .. Len(Text(n))
    BY <1>1, TextIn DEF Good, Sane
<1>3. k = refreshWithFlags(n, Text(n), n.pos, TRUE, TRUE)
    BY DEF refreshLine
<1>4. Good(k) /\ Keeps(k, n) /\ SameText(k, n)
    BY <1>1, <1>2, <1>3, ShowGood DEF Good
<1> QED BY <1>4 DEF Keeps, Edited

\* What an editing function does to the struct, and what it leaves.
Leaves(k, m) == Good(k) /\ Keeps(k, m)

LEMMA InsertedIn ==
    ASSUME NEW m, Sane(m), m.len < buflen, NEW c \in Bytes, NEW k, k = Inserted(m, c)
    PROVE  Edited(k, m) /\ k.len = m.len + 1 /\ k.pos = m.pos + 1
           /\ k.buf = [Memmove(m.buf, m.pos + 1, m.pos, m.len - m.pos)
                          EXCEPT ![m.pos] = c, ![m.len + 1] = NUL]
<1> DEFINE b == Memmove(m.buf, m.pos + 1, m.pos, m.len - m.pos)
           d == [b EXCEPT ![m.pos] = c, ![m.len + 1] = NUL]
<1>1. k = [m EXCEPT !.buf = d, !.len = m.len + 1, !.pos = m.pos + 1]
    BY DEF Inserted, Sane, IsRecord
<1>2. b \in Buffers
    <2>1. /\ m.buf \in Buffers /\ m.pos + 1 \in 0 .. buflen /\ m.pos \in 0 .. buflen
          /\ m.len - m.pos \in Nat /\ m.pos + (m.len - m.pos) <= BufSize
        BY Sizes DEF Sane
    <2> QED BY <2>1, MemmoveIn
<1>3. d \in Buffers /\ d[m.len + 1] = NUL
    <2>1. NUL \in Bytes /\ m.pos \in 0 .. BufSize - 1 /\ m.len + 1 \in 0 .. BufSize - 1
        BY Sizes DEF Bytes, Sane
    <2> HIDE DEF b
    <2> QED BY <1>2, <2>1 DEF Buffers
<1> HIDE DEF d
<1>4. /\ IsRecord(k) /\ k.buf = d /\ k.len = m.len + 1 /\ k.pos = m.pos + 1
      /\ Keeps(k, m) /\ SameScreen(k, m)
    BY <1>1 DEF Sane, IsRecord, Keeps, SameScreen
<1>5. Sane(k)
    <2>1. m.len + 1 \in 0 .. buflen /\ m.pos + 1 \in 0 .. m.len + 1
        BY Sizes DEF Sane
    <2> QED BY <1>3, <1>4, <2>1 DEF Sane
<1> QED BY <1>4, <1>5 DEF Edited, d

LEMMA InsertedIs ==
    ASSUME NEW m, Sane(m), m.len < buflen, NEW c \in Bytes, NEW k, k = Inserted(m, c)
    PROVE  k.len = m.len + 1 /\ k.pos = m.pos + 1
           /\ Text(k) = InsertAt(Text(m), m.pos + 1, c)
<1> DEFINE b == Memmove(m.buf, m.pos + 1, m.pos, m.len - m.pos)
           d == [b EXCEPT ![m.pos] = c, ![m.len + 1] = NUL]
<1>1. /\ m.len \in Nat /\ m.pos \in Nat /\ m.pos <= m.len /\ buflen \in Nat
      /\ DOMAIN m.buf = 0 .. buflen
    BY Sizes DEF Sane, Buffers
<1>2. Sane(k) /\ k.len = m.len + 1 /\ k.pos = m.pos + 1 /\ k.buf = d
    BY InsertedIn DEF Edited
<1>3. b = [i \in 0 .. buflen |->
             IF i \in m.pos + 1 .. m.pos + 1 + (m.len - m.pos) - 1
             THEN m.buf[m.pos + (i - (m.pos + 1))] ELSE m.buf[i]]
    BY <1>1 DEF Memmove
<1> HIDE DEF b
<1>4. DOMAIN b = 0 .. buflen
    BY <1>3
<1>5. ASSUME NEW i \in 0 .. m.pos - 1 PROVE k.buf[i] = m.buf[i]
    <2>1. d[i] = b[i]
        BY <1>1, <1>4
    <2>2. b[i] = m.buf[i]
        BY <1>1, <1>3
    <2> QED BY <1>2, <2>1, <2>2
<1>6. k.buf[m.pos] = c
    BY <1>1, <1>2, <1>4
<1>7. ASSUME NEW i \in m.pos + 1 .. m.len PROVE k.buf[i] = m.buf[i - 1]
    <2>1. d[i] = b[i]
        BY <1>1, <1>4
    <2>2. i \in m.pos + 1 .. m.pos + 1 + (m.len - m.pos) - 1 /\ i \in 0 .. buflen
          /\ m.pos + (i - (m.pos + 1)) = i - 1
        BY <1>1
    <2>3. b[i] = m.buf[i - 1]
        BY <1>3, <2>2
    <2> QED BY <1>2, <2>1, <2>3
<1>8. Text(k) = InsertAt(Text(m), m.pos + 1, c)
    <2>1. Opens(k, m, c)
        BY <1>2, <1>5, <1>6, <1>7 DEF Opens
    <2> QED BY <1>2, <2>1, InsertedText
<1> QED BY <1>2, <1>8

\* A character is inserted if there is room for it, however it is shown.
LEMMA InsertGood ==
    ASSUME NEW m, Good(m), NEW c \in Bytes, NEW k, k = linenoiseEditInsert(m, c)
    PROVE  Leaves(k, m) /\ Edits(k, m)
<1> DEFINE n == Inserted(m, c)
<1>1. Sane(m) /\ m.len \in Nat /\ buflen \in Nat
    BY Sizes DEF Good, Sane
<1>2. CASE m.len >= buflen
    <2>1. k = m
        BY <1>2 DEF linenoiseEditInsert
    <2>2. m.pos \in 0 .. m.len
        BY <1>1 DEF Sane
    <2> QED BY <1>1, <2>1, <2>2, EditsMove DEF Leaves, Keeps
<1>3. CASE m.len < buflen
    <2>1. Edited(n, m)
        BY <1>1, <1>3, InsertedIn
    <2>4. n.len = m.len + 1 /\ n.pos = m.pos + 1 /\ Text(n) = InsertAt(Text(m), m.pos + 1, c)
        BY <1>1, <1>3, InsertedIs
    <2> HIDE DEF n
    <2>5. ASSUME SameText(k, n) PROVE Edits(k, m)
        <3>1. Text(k) = InsertAt(Text(m), m.pos + 1, c) /\ k.pos = m.pos + 1
            BY <2>4, <2>5, SameTexts DEF SameText
        <3>2. Len(Text(m)) < buflen
            BY <1>1, <1>3, TextIn
        <3> QED BY <3>1, <3>2, Zenon DEF Edits, Inserts
    <2>2. CASE Echoed(m)
        <3>1. k = Echo(n, c)
            BY <1>1, <1>3, <2>2 DEF linenoiseEditInsert, n
        <3>2. PICK sh : k = [n EXCEPT !.shown = sh]
            <4>1. k = [n EXCEPT !.shown.text = n.shown.text \o Masked(<<c>>),
                                !.shown.col = n.shown.col + 1]
                BY <3>1, <2>1 DEF Echo, Edited, Sane, IsRecord
            <4> QED BY <4>1
        <3>3. IsRecord(k) /\ SameText(k, n) /\ Keeps(k, n) /\ SameScreen(k, n)
            BY <2>1, <3>2 DEF Edited, Sane, IsRecord, SameText, Keeps, SameScreen
        <3>4. Sane(k)
            BY <2>1, <3>3, KeepsSane DEF Edited
        <3>5. ~mlmode
            BY <2>2 DEF Echoed
        <3>6. Wide(k) /\ Counted(k) /\ Keeps(k, m)
            BY <2>1, <3>3 DEF Good, Edited, Keeps, Wide, Counted
        <3> QED BY <2>5, <3>3, <3>4, <3>5, <3>6 DEF Good, Leaves
    <2>3. CASE ~Echoed(m)
        <3>1. k = refreshLine(n)
            BY <1>1, <1>3, <2>3 DEF linenoiseEditInsert, n
        <3>2. Good(k) /\ Keeps(k, m) /\ SameText(k, n)
            BY <2>1, <3>1, RefreshGood
        <3> QED BY <2>5, <3>2 DEF Leaves
    <2> QED BY <2>2, <2>3
<1> QED BY <1>1, <1>2, <1>3

LEMMA MoveGood ==
    ASSUME NEW m, Good(m), NEW p \in 0 .. m.len, NEW k, k = MoveTo(m, p)
    PROVE  Leaves(k, m) /\ Edits(k, m) /\ k.buf = m.buf /\ k.len = m.len /\ k.pos = p
<1> Sane(m)
    BY DEF Good
<1>1. CASE p = m.pos
    BY <1>1, EditsMove DEF MoveTo, Leaves, Keeps
<1>2. CASE p # m.pos
    <2> DEFINE n == [m EXCEPT !.pos = p]
    <2>1. k = refreshLine(n)
        BY <1>2 DEF MoveTo
    <2>2. IsRecord(n) /\ n.buf = m.buf /\ n.len = m.len /\ n.pos = p
          /\ Keeps(n, m) /\ SameScreen(n, m)
        BY DEF Good, Sane, IsRecord, Keeps, SameScreen
    <2> HIDE DEF n
    <2>3. Edited(n, m)
        BY <2>2 DEF Edited, Good, Sane
    <2>4. Good(k) /\ Keeps(k, m) /\ SameText(k, n)
        BY <2>1, <2>3, RefreshGood
    <2> QED BY <2>2, <2>4, EditsMove DEF Leaves, SameText
<1> QED BY <1>1, <1>2

\* m with another text and cursor, not yet shown
Replaced(m, b, n, p) == [m EXCEPT !.buf = b, !.len = n, !.pos = p]

LEMMA ReplacedIs ==
    ASSUME NEW m, IsRecord(m), NEW b, NEW n, NEW p, NEW k, k = Replaced(m, b, n, p)
    PROVE  IsRecord(k) /\ k.buf = b /\ k.len = n /\ k.pos = p /\ Keeps(k, m) /\ SameScreen(k, m)
    BY DEF IsRecord, Keeps, SameScreen, Replaced

\* Any text and cursor that are put into the struct and shown.
LEMMA ReplacedGood ==
    ASSUME NEW m, Good(m), NEW b \in Buffers, NEW n \in 0 .. buflen, b[n] = NUL,
           NEW p \in 0 .. n,
           NEW k, k = refreshLine(Replaced(m, b, n, p))
    PROVE  Leaves(k, m) /\ k.buf = b /\ k.len = n /\ k.pos = p
<1> DEFINE e == Replaced(m, b, n, p)
<1>1. IsRecord(e) /\ e.buf = b /\ e.len = n /\ e.pos = p /\ Keeps(e, m) /\ SameScreen(e, m)
    <2>1. IsRecord(m)
        BY DEF Good, Sane
    <2> QED BY <2>1, ReplacedIs
<1> HIDE DEF e
<1>2. Edited(e, m)
    BY <1>1 DEF Edited, Sane
<1>3. Good(k) /\ Keeps(k, m) /\ SameText(k, e)
    BY <1>2, RefreshGood DEF e
<1> QED BY <1>1, <1>3 DEF Leaves, SameText

\* A struct with another text in its buffer, or a shorter one.
LEMMA DeleteGood ==
    ASSUME NEW m, Good(m), NEW k, k = linenoiseEditDelete(m)
    PROVE  Leaves(k, m) /\ Edits(k, m)
<1> Sane(m)
    BY DEF Good
<1>1. CASE m.len > 0 /\ m.pos < m.len
    <2> DEFINE b == Memmove(m.buf, m.pos, m.pos + 1, m.len - m.pos - 1)
               d == [b EXCEPT ![m.len - 1] = NUL]
    <2>1. k = refreshLine([m EXCEPT !.buf = d, !.len = m.len - 1])
        BY <1>1 DEF linenoiseEditDelete, Good, Sane, IsRecord
    <2>2. [m EXCEPT !.buf = d, !.len = m.len - 1] = Replaced(m, d, m.len - 1, m.pos)
        BY DEF Good, Sane, IsRecord, Replaced
    <2>3. /\ b \in Buffers
          /\ \A i \in 0 .. m.pos - 1 : b[i] = m.buf[i]
          /\ \A i \in m.pos .. m.pos + (m.len - m.pos - 1) - 1 :
                b[i] = m.buf[i + (m.pos + 1 - m.pos)]
        <3>1. /\ m.buf \in Buffers /\ m.pos + 1 \in 0 .. buflen /\ m.pos \in 0 .. buflen
              /\ m.pos \in 0 .. m.pos + 1
              /\ m.len - m.pos - 1 \in Nat /\ m.pos + 1 + (m.len - m.pos - 1) <= BufSize
            BY <1>1, Sizes DEF Good, Sane
        <3> QED BY <3>1, MemmoveIn, MovedBack
    <2>4. NUL \in Bytes /\ m.len - 1 \in 0 .. BufSize - 1 /\ m.len - 1 \in 0 .. buflen
          /\ m.pos \in 0 .. m.len - 1
        BY <1>1, Sizes DEF Bytes, Good, Sane
    <2> HIDE DEF b
    <2>5. d \in Buffers /\ d[m.len - 1] = NUL
        BY <2>3, <2>4 DEF Buffers
    <2>6. \A i \in 0 .. m.len - 2 : d[i] = b[i]
        BY <2>3, <2>4, Sizes DEF Buffers, Sane
    <2> HIDE DEF d
    <2>7. Leaves(k, m) /\ k.buf = d /\ k.len = m.len - 1 /\ k.pos = m.pos
        BY <2>1, <2>2, <2>4, <2>5, ReplacedGood
    <2>8. Closes(k, m, m.pos, m.pos + 1)
        BY <1>1, <2>3, <2>4, <2>6, <2>7, Sizes DEF Closes, Sane
    <2>9. m.pos \in 0 .. m.len /\ m.pos + 1 \in m.pos .. m.len /\ Sane(k)
        BY <1>1, <2>7, Sizes DEF Sane, Leaves, Good
    <2> QED BY <2>7, <2>8, <2>9, EditsErase
<1>2. CASE ~(m.len > 0 /\ m.pos < m.len)
    <2>1. k = m /\ m.pos \in 0 .. m.len
        BY <1>2 DEF linenoiseEditDelete, Sane
    <2> QED BY <2>1, EditsMove DEF Leaves, Keeps
<1> QED BY <1>1, <1>2

LEMMA BackspaceGood ==
    ASSUME NEW m, Good(m), NEW k, k = linenoiseEditBackspace(m)
    PROVE  Leaves(k, m) /\ Edits(k, m)
<1> Sane(m)
    BY DEF Good
<1>1. CASE m.pos > 0 /\ m.len > 0
    <2> DEFINE b == Memmove(m.buf, m.pos - 1, m.pos, m.len - m.pos)
               d == [b EXCEPT ![m.len - 1] = NUL]
    <2>1. k = refreshLine(Replaced(m, d, m.len - 1, m.pos - 1))
        BY <1>1 DEF linenoiseEditBackspace, Good, Sane, IsRecord, Replaced
    <2>2. /\ b \in Buffers
          /\ \A i \in 0 .. (m.pos - 1) - 1 : b[i] = m.buf[i]
          /\ \A i \in m.pos - 1 .. (m.pos - 1) + (m.len - m.pos) - 1 :
                b[i] = m.buf[i + (m.pos - (m.pos - 1))]
        <3>1. /\ m.buf \in Buffers /\ m.pos - 1 \in 0 .. buflen /\ m.pos \in 0 .. buflen
              /\ m.pos - 1 \in 0 .. m.pos
              /\ m.len - m.pos \in Nat /\ m.pos + (m.len - m.pos) <= BufSize
            BY <1>1, Sizes DEF Good, Sane
        <3> QED BY <3>1, MemmoveIn, MovedBack
    <2>3. NUL \in Bytes /\ m.len - 1 \in 0 .. BufSize - 1 /\ m.len - 1 \in 0 .. buflen
          /\ m.pos - 1 \in 0 .. m.len - 1
        BY <1>1, Sizes DEF Bytes, Good, Sane
    <2> HIDE DEF b
    <2>4. d \in Buffers /\ d[m.len - 1] = NUL
        BY <2>2, <2>3 DEF Buffers
    <2>5. \A i \in 0 .. m.len - 2 : d[i] = b[i]
        BY <2>2, <2>3, Sizes DEF Buffers, Sane
    <2> HIDE DEF d
    <2>6. Leaves(k, m) /\ k.buf = d /\ k.len = m.len - 1 /\ k.pos = m.pos - 1
        BY <2>1, <2>3, <2>4, ReplacedGood
    <2>7. Closes(k, m, m.pos - 1, m.pos)
        BY <1>1, <2>2, <2>3, <2>5, <2>6, Sizes DEF Closes, Sane
    <2>8. m.pos - 1 \in 0 .. m.len /\ m.pos \in m.pos - 1 .. m.len /\ Sane(k)
        BY <1>1, <2>6, Sizes DEF Sane, Leaves, Good
    <2> QED BY <2>6, <2>7, <2>8, EditsErase
<1>2. CASE ~(m.pos > 0 /\ m.len > 0)
    <2>1. k = m /\ m.pos \in 0 .. m.len
        BY <1>2 DEF linenoiseEditBackspace, Sane
    <2> QED BY <2>1, EditsMove DEF Leaves, Keeps
<1> QED BY <1>1, <1>2

\* The word before the cursor begins inside the text.
LEMMA WordStartIn ==
    ASSUME NEW b, NEW p \in Nat
    PROVE  WordStart(b, p) \in 0 .. p
<1> DEFINE Q == {i \in 0 .. p : i = 0 \/ b[i - 1] # SPACE}
           q == Max(Q)
           W == {i \in 0 .. q : i = 0 \/ b[i - 1] = SPACE}
<1>1. Q \in SUBSET (0 .. p) /\ 0 \in Q
    OBVIOUS
<1>2. q \in 0 .. p
    BY <1>1, MaxIsGreatest
<1>3. q \in Nat /\ q <= p
    BY <1>2
<1> HIDE DEF q
<1>4. W \in SUBSET (0 .. q) /\ 0 \in W
    BY <1>3
<1>5. Max(W) \in 0 .. q
    BY <1>3, <1>4, MaxIsGreatest
<1>6. WordStart(b, p) = Max(W)
    BY DEF WordStart, q
<1> QED BY <1>3, <1>5, <1>6

LEMMA DeletePrevWordGood ==
    ASSUME NEW m, Good(m), NEW k, k = linenoiseEditDeletePrevWord(m)
    PROVE  Leaves(k, m) /\ Edits(k, m)
<1> DEFINE p == WordStart(m.buf, m.pos)
           b == Memmove(m.buf, p, m.pos, m.len - m.pos + 1)
           n == m.len - (m.pos - p)
<1>1. m.pos \in Nat /\ m.len \in Nat /\ m.pos <= m.len /\ m.len <= buflen
    BY Sizes DEF Good, Sane
<1>2. p \in 0 .. m.pos
    BY <1>1, WordStartIn
<1>3. k = refreshLine(Replaced(m, b, n, p))
    <2>1. k = refreshLine([m EXCEPT !.buf = b, !.pos = p, !.len = n])
        BY DEF linenoiseEditDeletePrevWord, Good, Sane, IsRecord
    <2> HIDE DEF b, n, p
    <2>2. [m EXCEPT !.buf = b, !.pos = p, !.len = n] = Replaced(m, b, n, p)
        BY DEF Good, Sane, IsRecord, Replaced
    <2> QED BY <2>1, <2>2
<1> HIDE DEF p
<1>4. /\ b \in Buffers
      /\ \A i \in 0 .. p - 1 : b[i] = m.buf[i]
      /\ \A i \in p .. p + (m.len - m.pos + 1) - 1 : b[i] = m.buf[i + (m.pos - p)]
    <2>1. /\ m.buf \in Buffers /\ p \in 0 .. m.pos /\ m.pos \in 0 .. buflen
          /\ m.len - m.pos + 1 \in Nat /\ m.pos + (m.len - m.pos + 1) <= BufSize
        BY <1>1, <1>2, Sizes DEF Good, Sane
    <2>2. p \in 0 .. buflen
        BY <1>1, <1>2, Sizes
    <2> QED BY <2>1, <2>2, MemmoveIn, MovedBack
<1>5. n \in 0 .. buflen /\ p \in 0 .. n /\ n <= m.len
    BY <1>1, <1>2, Sizes
<1>6. b[n] = NUL
    <2>1. n \in p .. p + (m.len - m.pos + 1) - 1 /\ n + (m.pos - p) = m.len
        BY <1>1, <1>2
    <2> HIDE DEF b, n
    <2> QED BY <1>4, <2>1 DEF Good, Sane
<1>7. n = m.len - (m.pos - p) /\ n <= p + (m.len - m.pos + 1) - 1
    BY <1>1, <1>2
<1> HIDE DEF b, n
<1>8. Leaves(k, m) /\ k.buf = b /\ k.len = n /\ k.pos = p
    BY <1>3, <1>4, <1>5, <1>6, ReplacedGood
<1>9. Closes(k, m, p, m.pos)
    BY <1>1, <1>2, <1>4, <1>5, <1>7, <1>8 DEF Closes
<1>10. p \in 0 .. m.len /\ m.pos \in p .. m.len /\ Sane(k) /\ Sane(m)
    BY <1>1, <1>2, <1>8 DEF Leaves, Good
<1> QED BY <1>8, <1>9, <1>10, EditsErase

LEMMA TransposeGood ==
    ASSUME NEW m, Good(m), NEW k, k = Transpose(m)
    PROVE  Leaves(k, m) /\ Edits(k, m)
<1> Sane(m)
    BY DEF Good
<1>1. CASE m.pos > 0 /\ m.pos < m.len
    <2> DEFINE d == [m.buf EXCEPT ![m.pos - 1] = m.buf[m.pos], ![m.pos] = m.buf[m.pos - 1]]
               p == IF m.pos # m.len - 1 THEN m.pos + 1 ELSE m.pos
    <2>1. k = refreshLine([m EXCEPT !.buf = d, !.pos = p])
        BY <1>1 DEF Transpose, Good, Sane, IsRecord
    <2>2. /\ m.pos - 1 \in 0 .. BufSize - 1 /\ m.pos \in 0 .. BufSize - 1
          /\ m.len \in 0 .. BufSize - 1 /\ m.len \in 0 .. buflen
          /\ m.len # m.pos /\ m.len # m.pos - 1 /\ p \in 0 .. m.len
        BY <1>1, Sizes DEF Good, Sane
    <2>3. d \in Buffers /\ d[m.len] = NUL
        BY <2>2 DEF Buffers, Good, Sane
    <2> HIDE DEF d, p
    <2>4. [m EXCEPT !.buf = d, !.pos = p] = Replaced(m, d, m.len, p)
        BY DEF Good, Sane, IsRecord, Replaced
    <2>5. Leaves(k, m) /\ k.buf = d /\ k.len = m.len /\ k.pos = p
        BY <2>1, <2>2, <2>3, <2>4, ReplacedGood
    <2>6. Text(k) = [Text(m) EXCEPT ![m.pos] = Text(m)[m.pos + 1],
                                    ![m.pos + 1] = Text(m)[m.pos]]
        BY <1>1, <2>5, TransposedText DEF Leaves, Good, d
    <2>7. /\ m.pos \in 1 .. Len(Text(m)) - 1
          /\ p = IF m.pos = Len(Text(m)) - 1 THEN m.pos ELSE m.pos + 1
        BY <1>1, TextIn, Sizes DEF Sane, p
    <2>8. Transposes(k, m)
        BY <2>5, <2>6, <2>7, Zenon DEF Transposes
    <2> QED BY <2>5, <2>8 DEF Edits
<1>2. CASE ~(m.pos > 0 /\ m.pos < m.len)
    <2>1. k = m /\ m.pos \in 0 .. m.len
        BY <1>2 DEF Transpose, Sane
    <2> QED BY <2>1, EditsMove DEF Leaves, Keeps
<1> QED BY <1>1, <1>2

LEMMA EmptyText ==
    ASSUME NEW k, k.len = 0
    PROVE  Text(k) = <<>>
    BY DEF Text

LEMMA KillLineGood ==
    ASSUME NEW m, Good(m), NEW k, k = KillLine(m)
    PROVE  Leaves(k, m) /\ Clears(k)
<1> DEFINE d == [m.buf EXCEPT ![0] = NUL]
<1>1. k = refreshLine([m EXCEPT !.buf = d, !.pos = 0, !.len = 0])
    BY DEF KillLine, Good, Sane, IsRecord
<1>2. d \in Buffers /\ d[0] = NUL
    BY Sizes DEF Buffers, Bytes, Good, Sane
<1> HIDE DEF d
<1>3. [m EXCEPT !.buf = d, !.pos = 0, !.len = 0] = Replaced(m, d, 0, 0)
    BY DEF Good, Sane, IsRecord, Replaced
<1>4. 0 \in 0 .. buflen /\ 0 \in 0 .. 0
    BY Sizes
<1>5. Leaves(k, m) /\ k.len = 0 /\ k.pos = 0
    BY <1>1, <1>2, <1>3, <1>4, ReplacedGood
<1> QED BY <1>5, EmptyText DEF Clears

LEMMA KillEndGood ==
    ASSUME NEW m, Good(m), NEW k, k = KillEnd(m)
    PROVE  Leaves(k, m) /\ Edits(k, m)
<1> DEFINE d == [m.buf EXCEPT ![m.pos] = NUL]
<1>1. k = refreshLine([m EXCEPT !.buf = d, !.len = m.pos])
    BY DEF KillEnd, Good, Sane, IsRecord
<1>2. m.pos \in 0 .. buflen /\ m.pos \in 0 .. m.pos /\ m.pos \in 0 .. BufSize - 1
    BY Sizes DEF Good, Sane
<1>3. d \in Buffers /\ d[m.pos] = NUL
    BY <1>2 DEF Buffers, Bytes, Good, Sane
<1> HIDE DEF d
<1>4. [m EXCEPT !.buf = d, !.len = m.pos] = Replaced(m, d, m.pos, m.pos)
    BY DEF Good, Sane, IsRecord, Replaced
<1>5. Leaves(k, m) /\ k.buf = d /\ k.len = m.pos /\ k.pos = m.pos
    BY <1>1, <1>2, <1>3, <1>4, ReplacedGood
<1>6. \A i \in 0 .. m.pos - 1 : d[i] = m.buf[i]
    BY <1>2, Sizes DEF d, Buffers, Good, Sane
<1>7. Sane(k) /\ Sane(m) /\ m.pos \in 0 .. m.len /\ m.len \in m.pos .. m.len
    BY <1>5, Sizes DEF Leaves, Good, Sane
<1>8. Closes(k, m, m.pos, m.len)
    BY <1>2, <1>5, <1>6, <1>7, Sizes DEF Closes, Sane
<1> QED BY <1>5, <1>7, <1>8, EditsErase

\* Nothing is cleaned, but the cursor is on the screen's first row.
LEMMA ClearScreenGood ==
    ASSUME NEW m, Good(m), NEW k, k = ClearScreen(m)
    PROVE  Leaves(k, m) /\ Edits(k, m)
<1> DEFINE n == [m EXCEPT !.row = 1]
<1>1. k = refreshWithFlags(n, Text(m), m.pos, FALSE, TRUE)
    BY DEF ClearScreen
<1>2. IsRecord(n) /\ SameText(n, m) /\ Keeps(n, m) /\ n.row = 1
    BY DEF Good, Sane, IsRecord, SameText, Keeps
<1> HIDE DEF n
<1>3. Sane(n) /\ Wide(n) /\ Counted(n)
    BY <1>2, KeepsSane DEF Good, Wide, Counted, Keeps
<1>4. Text(m) \in Seq(Bytes) /\ m.pos \in 0 .. Len(Text(m))
    BY TextIn DEF Good, Sane
<1>5. Good(k) /\ Keeps(k, n) /\ SameText(k, n)
    BY <1>1, <1>2, <1>3, <1>4, ShowGood
<1>6. Edits(k, m)
    BY <1>2, <1>5, EditsMove DEF Good, Sane, SameText
<1> QED BY <1>2, <1>5, <1>6 DEF Leaves, Keeps

\* Every key that only edits keeps the struct as it must be.
LEMMA EditKeyGood ==
    ASSUME NEW m, Good(m), NEW key \in EditKeys, NEW k, k = EditKey(key, m)
    PROVE  Leaves(k, m) /\ (Edits(k, m) \/ Clears(k))
<1>1. m.len \in Nat /\ m.pos \in 0 .. m.len
    BY Sizes DEF Good, Sane
<1>2. CASE key = "BACKSPACE"
    BY <1>2, BackspaceGood DEF EditKey
<1>3. CASE key = "DELETE"
    BY <1>3, DeleteGood DEF EditKey
<1>4. CASE key = "TRANSPOSE"
    BY <1>4, TransposeGood DEF EditKey
<1>5. CASE key = "LEFT"
    <2>1. AtLeast0(m.pos - 1) \in 0 .. m.len
        BY <1>1 DEF AtLeast0
    <2>2. k = MoveTo(m, AtLeast0(m.pos - 1))
        BY <1>5 DEF EditKey, linenoiseEditMoveLeft
    <2> QED BY <2>1, <2>2, MoveGood
<1>6. CASE key = "RIGHT"
    <2> DEFINE p == IF m.pos # m.len THEN m.pos + 1 ELSE m.pos
    <2>1. p \in 0 .. m.len
        BY <1>1
    <2>2. k = MoveTo(m, p)
        BY <1>6 DEF EditKey, linenoiseEditMoveRight
    <2> HIDE DEF p
    <2> QED BY <2>1, <2>2, MoveGood
<1>7. CASE key = "HOME"
    <2>1. 0 \in 0 .. m.len
        BY <1>1
    <2> QED BY <1>7, <2>1, MoveGood DEF EditKey, linenoiseEditMoveHome
<1>8. CASE key = "END"
    <2>1. m.len \in 0 .. m.len
        BY <1>1
    <2> QED BY <1>8, <2>1, MoveGood DEF EditKey, linenoiseEditMoveEnd
<1>9. CASE key = "KILL_LINE"
    BY <1>9, KillLineGood DEF EditKey
<1>10. CASE key = "KILL_END"
    BY <1>10, KillEndGood DEF EditKey
<1>11. CASE key = "CLEAR"
    BY <1>11, ClearScreenGood DEF EditKey
<1>12. CASE key = "WORD"
    BY <1>12, DeletePrevWordGood DEF EditKey
<1> QED BY <1>2, <1>3, <1>4, <1>5, <1>6, <1>7, <1>8, <1>9, <1>10, <1>11, <1>12 DEF EditKeys

-----------------------------------------------------------------------------
(* Completion, history, ENTER *)

LEMMA CompletionsTyped ==
    ASSUME NEW i \in 1 .. Len(Completions)
    PROVE  Completions[i] \in Seq(Chars) /\ Completions[i] \in Seq(Bytes)
           /\ Len(Completions[i]) \in Nat
<1>1. Completions \in Seq(Seq(Chars)) /\ i \in DOMAIN Completions
    BY EditorAssumption
<1>2. Completions[i] \in Seq(Chars)
    BY <1>1
<1>3. Len(Completions[i]) \in Nat
    BY <1>2
<1>4. Completions[i] \in Seq(Bytes)
    BY <1>2 DEF Bytes
<1> QED BY <1>2, <1>3, <1>4

\* m has been taken out of a completion, or was not in one.
Taken(k, m) == Good(k) /\ k.history_index = m.history_index /\ ~k.in_completion

\* The text is still m's, or the one that was offered.
Accepts(k, m) ==
    \/ SameText(k, m)
    \/ \E i \in DOMAIN Completions : Text(k) = Completions[i] /\ k.pos = Len(Completions[i])

LEMMA TextIs ==
    ASSUME NEW t \in Seq(Chars), NEW k, k.len = Len(t),
           \A i \in 0 .. Len(t) - 1 : k.buf[i] = t[i + 1]
    PROVE  Text(k) = t
<1>1. Text(k) = [i \in 1 .. Len(t) |-> k.buf[i - 1]]
    BY DEF Text
<1>2. ASSUME NEW i \in 1 .. Len(t) PROVE k.buf[i - 1] = t[i]
    <2>1. i - 1 \in 0 .. Len(t) - 1 /\ (i - 1) + 1 = i
        OBVIOUS
    <2>2. k.buf[i - 1] = t[(i - 1) + 1]
        BY <2>1
    <2> QED BY <2>1, <2>2
<1> QED BY <1>1, <1>2

LEMMA CompletionEnds ==
    ASSUME NEW m, IsRecord(m), NEW k, k = [m EXCEPT !.in_completion = FALSE]
    PROVE  IsRecord(k) /\ SameText(k, m) /\ SameScreen(k, m) /\ k.in_completion = FALSE
           /\ k.history_index = m.history_index /\ k.completion_idx = m.completion_idx
           /\ k.cols = m.cols
    BY DEF IsRecord, SameText, SameScreen

LEMMA AcceptedGood ==
    ASSUME NEW m, Good(m), NEW offered, m.in_completion => offered = Completions,
           m.in_completion /\ m.completion_idx < Len(offered) =>
               Len(offered[m.completion_idx + 1]) < buflen,
           NEW k, k = Accepted(m, offered)
    PROVE  Taken(k, m) /\ Accepts(k, m)
<1>1. CASE ~m.in_completion
    BY <1>1 DEF Accepted, Taken, Accepts, SameText
<1>2. CASE m.in_completion
    <2> DEFINE n == [m EXCEPT !.in_completion = FALSE]
               t == Completions[m.completion_idx + 1]
               b == Snprintf(m.buf, t, buflen)
               taken == m.completion_idx < Len(Completions)
    <2>1. IsRecord(n) /\ SameText(n, m) /\ SameScreen(n, m) /\ n.in_completion = FALSE
          /\ n.history_index = m.history_index /\ n.completion_idx = m.completion_idx
          /\ n.cols = m.cols
        <3>1. IsRecord(m)
            BY DEF Good, Sane
        <3> QED BY <3>1, CompletionEnds
    <2>2. k = refreshLine(IF taken THEN [n EXCEPT !.buf = Snprintf(@, t, buflen),
                                                  !.len = Len(t), !.pos = Len(t)]
                          ELSE n)
        BY <1>2 DEF Accepted, Accepting
    <2> HIDE DEF n
    <2>3. Good(n)
        <3>1. Sane(n)
            BY <2>1, KeepsSane DEF Good
        <3> QED BY <2>1, <3>1 DEF Good, Wide, Counted, Placed, CursorRow, SameScreen
    <2>4. CASE taken
        <3>1. m.completion_idx + 1 \in 1 .. Len(Completions)
            BY <2>4, EditorAssumption DEF Good, Counted
        <3>2. t \in Seq(Chars) /\ Len(t) \in Nat /\ Len(t) < buflen
            BY <1>2, <2>4, <3>1, CompletionsTyped
        <3> HIDE DEF t
        <3>3. b \in Buffers /\ b[Len(t)] = NUL /\ \A i \in 0 .. Len(t) - 1 : b[i] = t[i + 1]
            BY <3>2, SnprintfIn DEF Good, Sane
        <3>4. Len(t) \in 0 .. buflen /\ Len(t) \in 0 .. Len(t)
            BY <3>2, Sizes
        <3>5. n.buf = m.buf
            BY <2>1 DEF SameText
        <3> HIDE DEF b
        <3>6. k = refreshLine(Replaced(n, b, Len(t), Len(t)))
            BY <2>2, <2>4, <3>5 DEF Replaced, b
        <3>7. Leaves(k, n) /\ k.buf = b /\ k.len = Len(t) /\ k.pos = Len(t)
            BY <2>3, <3>3, <3>4, <3>6, ReplacedGood
        <3>8. Text(k) = t
            BY <3>2, <3>3, <3>7, TextIs
        <3>9. m.completion_idx + 1 \in DOMAIN Completions
            BY <3>1, EditorAssumption
        <3>10. Accepts(k, m)
            BY <3>7, <3>8, <3>9 DEF Accepts, t
        <3> QED BY <2>1, <3>7, <3>10 DEF Leaves, Keeps, Taken
    <2>5. CASE ~taken
        <3>1. k = refreshLine(n)
            BY <2>2, <2>5
        <3>2. Edited(n, n)
            BY <2>3 DEF Good, Edited, Keeps, SameScreen
        <3>3. Good(k) /\ Keeps(k, n) /\ SameText(k, n)
            BY <2>3, <3>1, <3>2, RefreshGood
        <3> QED BY <2>1, <3>3 DEF Keeps, Taken, Accepts, SameText
    <2> QED BY <2>4, <2>5
<1> QED BY <1>1, <1>2 DEF Good, Counted

LEMMA CompletionShown ==
    ASSUME NEW m, Sane(m), Wide(m), Counted(m), NEW clean \in BOOLEAN,
           mlmode /\ clean => Placed(m), mlmode /\ ~clean => m.row = 1,
           NEW k, k = refreshWithCompletion(m, Completions, clean)
    PROVE  Leaves(k, m) /\ SameText(k, m)
<1>1. CASE m.completion_idx < Len(Completions)
    <2> DEFINE t == Completions[m.completion_idx + 1]
    <2>1. m.completion_idx + 1 \in 1 .. Len(Completions)
        BY <1>1, EditorAssumption DEF Counted
    <2>2. t \in Seq(Bytes) /\ Len(t) \in 0 .. Len(t)
        BY <2>1, CompletionsTyped
    <2>3. k = refreshWithFlags(m, t, Len(t), clean, TRUE)
        BY <1>1 DEF refreshWithCompletion
    <2> HIDE DEF t
    <2> QED BY <2>2, <2>3, ShowGood DEF Leaves
<1>2. CASE ~(m.completion_idx < Len(Completions))
    <2>1. Text(m) \in Seq(Bytes) /\ m.pos \in 0 .. Len(Text(m))
        BY TextIn DEF Sane
    <2>2. k = refreshWithFlags(m, Text(m), m.pos, clean, TRUE)
        BY <1>2 DEF refreshWithCompletion
    <2> QED BY <2>1, <2>2, ShowGood DEF Leaves
<1> QED BY <1>1, <1>2

LEMMA EnteredGood ==
    ASSUME NEW m, Good(m), NEW k, k = Entered(m)
    PROVE  Leaves(k, m) /\ Edits(k, m)
<1> DEFINE n == IF mlmode THEN linenoiseEditMoveEnd(m) ELSE m
<1>1. Leaves(n, m) /\ n.buf = m.buf /\ n.len = m.len /\ n.pos \in 0 .. m.len
    <2>1. m.len \in 0 .. m.len /\ m.pos \in 0 .. m.len
        BY Sizes DEF Good, Sane
    <2> QED BY <2>1, MoveGood DEF linenoiseEditMoveEnd, Leaves, Keeps
<1>2. k = CASE ~hints -> n
            [] hints /\ mlmode -> refreshLine(n)
            [] OTHER -> [n EXCEPT !.shown = Window(n, Text(n), n.pos)]
    BY DEF Entered
<1> HIDE DEF n
<1> Sane(m)
    BY DEF Good
<1>3. CASE ~hints
    BY <1>1, <1>2, <1>3, EditsMove
<1>4. CASE hints /\ mlmode
    <2>1. k = refreshLine(n)
        BY <1>2, <1>4
    <2>2. Edited(n, n)
        BY <1>1 DEF Leaves, Good, Edited, Keeps, SameScreen
    <2>3. Good(k) /\ Keeps(k, n) /\ SameText(k, n)
        BY <1>1, <2>1, <2>2, RefreshGood DEF Leaves
    <2>4. Edits(k, m)
        BY <1>1, <2>3, EditsMove DEF SameText
    <2> QED BY <1>1, <2>3, <2>4 DEF Leaves, Keeps
<1>5. CASE hints /\ ~mlmode
    <2>1. PICK s : k = [n EXCEPT !.shown = s]
        BY <1>2, <1>5
    <2>2. IsRecord(k) /\ SameText(k, n) /\ Keeps(k, n)
        BY <1>1, <2>1 DEF Leaves, Good, Sane, IsRecord, SameText, Keeps
    <2>3. Sane(k)
        BY <1>1, <2>2, KeepsSane DEF Leaves, Good
    <2>4. Edits(k, m)
        BY <1>1, <2>2, EditsMove DEF SameText
    <2> QED BY <1>1, <1>5, <2>2, <2>3, <2>4 DEF Leaves, Good, Keeps, Wide, Counted
<1> QED BY <1>3, <1>4, <1>5

-----------------------------------------------------------------------------
(* The history *)

Histories == Seq(Seq(Chars))

LEMMA HistoryAddIn ==
    ASSUME history \in Histories, history_max_len \in Nat \ {0},
           Len(history) <= history_max_len, NEW t \in Seq(Chars),
           NEW h, h = HistoryAdd(history, t)
    PROVE  h \in Histories /\ h # <<>> /\ Len(h) <= history_max_len
<1>1. CASE history # <<>> /\ Last(history) = t
    BY <1>1 DEF HistoryAdd
<1>2. CASE ~(history # <<>> /\ Last(history) = t)
    <2> DEFINE g == IF Len(history) = history_max_len THEN Tail(history) ELSE history
    <2>1. h = Append(g, t)
        BY <1>2 DEF HistoryAdd
    <2>2. g \in Histories /\ Len(g) + 1 <= history_max_len
        <3>1. CASE Len(history) = history_max_len
            <4>1. history # <<>>
                BY <3>1
            <4> QED BY <3>1, <4>1 DEF Histories
        <3>2. CASE Len(history) # history_max_len
            BY <3>2 DEF Histories
        <3> QED BY <3>1, <3>2
    <2> HIDE DEF g
    <2> QED BY <2>1, <2>2 DEF Histories
<1> QED BY <1>1, <1>2

LEMMA ExceptHistory ==
    ASSUME NEW h \in Histories, NEW i, NEW t \in Seq(Chars), NEW g, g = [h EXCEPT ![i] = t]
    PROVE  g \in Histories /\ Len(g) = Len(h)
<1>1. CASE i \in DOMAIN h
    BY <1>1 DEF Histories
<1>2. CASE i \notin DOMAIN h
    <2>1. g = h
        BY <1>2 DEF Histories
    <2> QED BY <2>1
<1> QED BY <1>1, <1>2

\* Going through the history shows an entry that exists.
LEMMA HistoryNextGood ==
    ASSUME NEW m, Good(m), m.history_index \in Int, history \in Histories,
           NEW dir \in {1, -1}, HistoryNext(m, dir)
    PROVE  /\ Good(l') /\ l'.in_completion = m.in_completion
           /\ history' \in Histories /\ Len(history') = Len(history)
           /\ l'.history_index = m.history_index \/ l'.history_index \in 0 .. Len(history) - 1
           /\ l' = m \/ l'.pos = l'.len
<1> DEFINE i == m.history_index + dir
           saved == [history EXCEPT ![Scratch] = CString(m.buf)]
           b == Strncpy(m.buf, saved[Len(saved) - i], buflen)
           n == Len(CString(b))
           h == [m EXCEPT !.history_index = i]
<1>1. CASE Len(history) <= 1
    BY <1>1 DEF HistoryNext
<1>2. CASE ~(Len(history) <= 1)
    <2>1. /\ history' = saved
          /\ l' = IF i \in 0 .. Len(history) - 1
                  THEN refreshLine([m EXCEPT !.history_index = i, !.buf = b,
                                             !.len = n, !.pos = n])
                  ELSE m
        BY <1>2, Zenon DEF HistoryNext
    <2>2. CString(m.buf) \in Seq(Chars)
        BY CStringIn DEF Good, Sane
    <2>3. saved \in Histories /\ Len(saved) = Len(history)
        BY <2>2, ExceptHistory
    <2>4. CASE i \notin 0 .. Len(history) - 1
        BY <2>1, <2>3, <2>4
    <2>5. CASE i \in 0 .. Len(history) - 1
        <3>1. saved[Len(saved) - i] \in Seq(Chars)
            <4> HIDE DEF saved, i
            <4>1. Len(saved) - i \in 1 .. Len(saved)
                BY <2>3, <2>5 DEF Histories
            <4> QED BY <2>3, <4>1 DEF Histories
        <3>2. b \in Buffers /\ b[buflen - 1] = NUL
            BY <3>1, StrncpyIn DEF Good, Sane
        <3> HIDE DEF b
        <3>3. n <= buflen - 1 /\ b[n] = NUL /\ CString(b) \in Seq(Chars)
            BY <3>2, Sizes, CStringIn, buflen - 1 \in 0 .. buflen
        <3>4. n \in 0 .. buflen /\ n \in 0 .. n
            BY <3>3, Sizes
        <3> HIDE DEF n, i
        <3>5. IsRecord(h) /\ SameText(h, m) /\ SameScreen(h, m) /\ h.history_index = i
              /\ h.in_completion = m.in_completion /\ h.completion_idx = m.completion_idx
              /\ h.cols = m.cols
            BY DEF Good, Sane, IsRecord, SameText, SameScreen
        <3>6. [m EXCEPT !.history_index = i, !.buf = b, !.len = n, !.pos = n]
                = Replaced(h, b, n, n)
            BY DEF Good, Sane, IsRecord, Replaced
        <3> HIDE DEF h
        <3>7. Good(h)
            <4>1. Sane(h)
                BY <3>5, KeepsSane DEF Good
            <4> QED BY <3>5, <4>1 DEF Good, Wide, Counted, Placed, CursorRow, SameScreen
        <3>8. l' = refreshLine(Replaced(h, b, n, n))
            BY <2>1, <2>5, <3>6
        <3>9. Leaves(l', h) /\ l'.len = n /\ l'.pos = n
            BY <3>2, <3>3, <3>4, <3>7, <3>8, ReplacedGood
        <3> QED BY <2>1, <2>3, <2>5, <3>5, <3>9 DEF Leaves, Keeps
    <2> QED BY <2>4, <2>5
<1> QED BY <1>1, <1>2
-----------------------------------------------------------------------------
(* The inductive invariant *)

Editing == pc \in {"editing", "hidden"}

TypeOK ==
    /\ host \in {"main", "any"}
    /\ tty \in BOOLEAN /\ mlmode \in BOOLEAN /\ maskmode \in BOOLEAN /\ hints \in BOOLEAN
    /\ rawmode \in BOOLEAN /\ atexit_registered \in BOOLEAN /\ eof \in BOOLEAN
    /\ history \in Histories /\ history_max_len \in HistoryMaxLens
    /\ pc \in {"stopped", "loading", "keycodes", "editing", "hidden", "returned",
               "exited", "crashed"}
    /\ loaded \in Nat
    /\ line \in Histories /\ Len(line) <= 1

\* The screen is as the next redrawing believes it while a line is edited.
Screen ==
    /\ mlmode /\ pc = "editing" => Placed(l)
    /\ mlmode /\ pc = "hidden" => l.row = 1

\* In raw mode the history has an entry for the line; without it the history
\* may be empty.
Entries ==
    /\ Len(history) <= history_max_len
    /\ Editing => l.history_index = 0 \/ l.history_index \in 0 .. Len(history) - 1
    /\ Editing /\ rawmode => history # <<>>

\* Raw mode is set on terminals only, whose restoring at exit has then been
\* registered, and ends before anything but editing begins.
Raw ==
    /\ rawmode => tty /\ atexit_registered
    /\ pc \in {"stopped", "loading", "exited", "crashed"} => ~rawmode

IInv == TypeOK /\ Sane(l) /\ Wide(l) /\ Counted(l) /\ Screen /\ Entries /\ Raw

LEMMA GoodLine ==
    ASSUME IInv, pc = "editing"
    PROVE  Good(l) /\ l.history_index \in Int
<1>1. Len(history) \in Nat
    BY DEF IInv, TypeOK, Histories
<1> QED BY <1>1 DEF IInv, Screen, Entries, Editing, Good

\* What a key must leave, whether the line goes on or ends.
LEMMA FedKeeps ==
    ASSUME IInv, Reading, Fed, Good(l'), history' \in Histories,
           Len(history') <= history_max_len, line' \in Histories, Len(line') <= 1,
           \/ /\ pc' = "editing" /\ Len(history') = Len(history)
              /\ \/ l'.history_index = l.history_index
                 \/ l'.history_index \in 0 .. Len(history) - 1
           \/ pc' = "returned"
           \/ pc' = "crashed" /\ ~rawmode
    PROVE  IInv'
<1>1. TypeOK'
    BY DEF IInv, TypeOK, Fed, setting, terminal
<1>2. Sane(l)' /\ Wide(l)' /\ Counted(l)' /\ Screen'
    BY DEF Good, Screen, Fed, setting, terminal
<1>3. Entries'
    <2>1. Len(history') <= history_max_len'
        BY DEF Fed
    <2>2. CASE pc' = "editing"
        <3>1. history # <<>> => history' # <<>>
            BY <2>2 DEF Histories, IInv, TypeOK
        <3>2. /\ l.history_index = 0 \/ l.history_index \in 0 .. Len(history) - 1
              /\ rawmode => history # <<>>
            BY DEF IInv, Entries, Editing, Reading
        <3> QED BY <2>1, <2>2, <3>1, <3>2 DEF Entries, Fed, terminal
    <2>3. CASE pc' # "editing"
        BY <2>1, <2>3 DEF Entries, Editing
    <2> QED BY <2>2, <2>3
<1>4. Raw'
    BY DEF IInv, Raw, Fed, terminal, setting, Reading
<1> QED BY <1>1, <1>2, <1>3, <1>4 DEF IInv

\* ENTER and Ctrl-D free the entry of the line.
LEMMA PoppedKeeps ==
    ASSUME IInv, Reading, Fed, Good(l'), PopHistory, NEW r, r \in Histories, Len(r) <= 1,
           history # <<>> => Returns(r)
    PROVE  IInv'
<1>1. history \in Histories /\ Len(history) <= history_max_len /\ history_max_len \in Nat
      /\ line \in Histories /\ Len(line) <= 1
    BY EditorAssumption DEF IInv, TypeOK, Entries
<1>2. CASE history = <<>>
    <2>1. pc' = "crashed" /\ history' = history /\ line' = line
        BY <1>2 DEF PopHistory
    <2>2. ~rawmode
        BY <1>2 DEF IInv, Entries, Editing, Reading
    <2> QED BY <1>1, <2>1, <2>2, FedKeeps
<1>3. CASE history # <<>>
    <2>1. history' = Front(history) /\ pc' = "returned" /\ line' = r
        BY <1>3 DEF PopHistory, Returns
    <2>2. Front(history) \in Histories /\ Len(Front(history)) <= history_max_len
        BY <1>1, <1>3 DEF Front, Histories
    <2> QED BY <1>1, <2>1, <2>2, FedKeeps
<1> QED BY <1>2, <1>3

\* A key arrives while the editor waits for one, with or without a completion.
LEMMA AcceptedLine ==
    ASSUME IInv, Reading, NEW offered \in Offer, Fits(offered), NEW m, m = Accepted(l, offered)
    PROVE  /\ Good(m) /\ ~m.in_completion
           /\ m.history_index = l.history_index /\ m.history_index \in Int
<1>1. Good(l) /\ l.history_index \in Int
    BY GoodLine DEF Reading
<1>2. l.in_completion => offered = Completions
    BY DEF Offer
<1>3. Taken(m, l)
    BY <1>1, <1>2, AcceptedGood DEF Fits
<1> QED BY <1>1, <1>3 DEF Taken

LEMMA SameLine ==
    ASSUME IInv
    PROVE  history \in Histories /\ Len(history) <= history_max_len /\ Len(history) \in Nat
           /\ history_max_len \in Nat \ {0} /\ line \in Histories /\ Len(line) <= 1
           /\ NoLine \in Histories /\ Len(NoLine) <= 1
    BY EditorAssumption DEF IInv, TypeOK, Entries, NoLine, Histories

Completing(m, i) == [m EXCEPT !.in_completion = TRUE, !.completion_idx = i]

LEMMA CompletionGoesOn ==
    ASSUME NEW m, IsRecord(m), NEW i, NEW k, k = Completing(m, i)
    PROVE  IsRecord(k) /\ SameText(k, m) /\ SameScreen(k, m) /\ k.in_completion = TRUE
           /\ k.history_index = m.history_index /\ k.completion_idx = i /\ k.cols = m.cols
    BY DEF IsRecord, SameText, SameScreen, Completing

LEMMA KeysKeep ==
    ASSUME IInv, FeedEdit \/ FeedChar \/ FeedOddByte \/ FeedTab \/ FeedEscape
                 \/ FeedInterrupt \/ ReadFails
    PROVE  IInv'
<1> USE SameLine
<1>1. CASE FeedEdit
    <2>1. PICK k \in EditKeys, offered \in Offer :
            Reading /\ Fits(offered) /\ l' = EditKey(k, Accepted(l, offered))
        BY <1>1 DEF FeedEdit
    <2>2. Leaves(l', Accepted(l, offered)) /\ Accepted(l, offered).history_index = l.history_index
        BY <2>1, AcceptedLine, EditKeyGood
    <2> QED BY <1>1, <2>1, <2>2, FedKeeps DEF FeedEdit, Leaves, Keeps, Reading
<1>2. CASE FeedChar
    <2>1. PICK c \in Bytes, offered \in Offer :
            /\ Reading /\ Fits(offered) /\ l' = linenoiseEditInsert(Accepted(l, offered), c)
            /\ UNCHANGED <<pc, line>> \/ Returns(NoLine)
            /\ UNCHANGED history /\ Fed
        BY <1>2 DEF FeedChar
    <2>2. Leaves(l', Accepted(l, offered)) /\ Accepted(l, offered).history_index = l.history_index
        BY <2>1, AcceptedLine, InsertGood
    <2> QED BY <2>1, <2>2, FedKeeps DEF Leaves, Keeps, Reading, Returns
<1>3. CASE FeedOddByte
    <2>1. PICK offered \in Offer :
            /\ Reading /\ Fits(offered) /\ l' = Accepted(l, offered)
            /\ UNCHANGED <<pc, line>> \/ Returns(NoLine)
            /\ UNCHANGED history /\ Fed
        BY <1>3 DEF FeedOddByte
    <2>2. Good(l') /\ l'.history_index = l.history_index
        BY <2>1, AcceptedLine
    <2> QED BY <2>1, <2>2, FedKeeps DEF Reading, Returns
<1>4. CASE FeedTab
    <2> DEFINE i == IF l.in_completion THEN (l.completion_idx + 1) % (Len(Completions) + 1) ELSE 0
               m == Completing(l, i)
    <2>1. Good(l)
        BY <1>4, GoodLine DEF FeedTab, Reading
    <2>2. l' = refreshWithCompletion(m, Completions, TRUE)
        BY <1>4, <2>1 DEF FeedTab, Good, Sane, IsRecord, Completing
    <2>3. i \in Nat
        <3>1. l.completion_idx + 1 \in Nat /\ Len(Completions) + 1 \in Nat \ {0}
            BY <2>1, EditorAssumption DEF Good, Counted
        <3>2. (l.completion_idx + 1) % (Len(Completions) + 1)
                \in 0 .. (Len(Completions) + 1) - 1
            BY <3>1, Quotient
        <3>3. (l.completion_idx + 1) % (Len(Completions) + 1) \in Nat
            BY <3>1, <3>2
        <3> QED BY <3>3
    <2> HIDE DEF i
    <2>4. IsRecord(m) /\ SameText(m, l) /\ SameScreen(m, l) /\ m.in_completion = TRUE
          /\ m.history_index = l.history_index /\ m.completion_idx = i /\ m.cols = l.cols
        <3>1. IsRecord(l)
            BY <2>1 DEF Good, Sane
        <3> QED BY <3>1, CompletionGoesOn
    <2> HIDE DEF m
    <2>5. Sane(m)
        BY <2>1, <2>4, KeepsSane DEF Good
    <2>6. Wide(m) /\ Counted(m) /\ (mlmode => Placed(m))
        BY <2>1, <2>3, <2>4 DEF Good, Wide, Counted, Placed, CursorRow, SameScreen
    <2>7. Leaves(l', m)
        BY <2>2, <2>5, <2>6, CompletionShown
    <2> QED BY <1>4, <2>4, <2>7, FedKeeps DEF FeedTab, Leaves, Keeps, Reading
<1>5. CASE FeedEscape
    <2> DEFINE m == [l EXCEPT !.in_completion = FALSE]
    <2>1. Good(l)
        BY <1>5, GoodLine DEF FeedEscape, Reading
    <2>2. l' = refreshLine(m)
        BY <1>5 DEF FeedEscape
    <2>3. IsRecord(m) /\ SameText(m, l) /\ SameScreen(m, l) /\ m.in_completion = FALSE
          /\ m.history_index = l.history_index /\ m.completion_idx = l.completion_idx
          /\ m.cols = l.cols
        <3>1. IsRecord(l)
            BY <2>1 DEF Good, Sane
        <3> QED BY <3>1, CompletionEnds
    <2> HIDE DEF m
    <2>4. Sane(m)
        BY <2>1, <2>3, KeepsSane DEF Good
    <2>5. Good(m) /\ Edited(m, m)
        BY <2>1, <2>3, <2>4
        DEF Good, Wide, Counted, Placed, CursorRow, SameScreen, Edited, Keeps
    <2>6. Good(l') /\ Keeps(l', m)
        BY <2>2, <2>5, RefreshGood
    <2> QED BY <1>5, <2>3, <2>6, FedKeeps DEF FeedEscape, Keeps, Reading
<1>6. CASE FeedInterrupt
    <2>1. PICK offered \in Offer : Reading /\ Fits(offered) /\ l' = Accepted(l, offered)
        BY <1>6 DEF FeedInterrupt
    <2>2. Good(l')
        BY <2>1, AcceptedLine
    <2> QED BY <1>6, <2>1, <2>2, FedKeeps DEF FeedInterrupt, Returns
<1>7. CASE ReadFails
    <2>1. Good(l)
        BY <1>7, GoodLine DEF ReadFails, Reading
    <2> QED BY <1>7, <2>1, FedKeeps DEF ReadFails, Returns
<1> QED BY <1>1, <1>2, <1>3, <1>4, <1>5, <1>6, <1>7

LEMMA HistoryKeysKeep ==
    ASSUME IInv, FeedHistory
    PROVE  IInv'
<1>1. PICK dir \in {1, -1}, offered \in Offer :
        Reading /\ Fits(offered) /\ HistoryNext(Accepted(l, offered), dir)
    BY DEF FeedHistory
<1>2. Good(Accepted(l, offered)) /\ Accepted(l, offered).history_index = l.history_index
      /\ Accepted(l, offered).history_index \in Int
    BY <1>1, AcceptedLine
<1>3. /\ Good(l') /\ history' \in Histories /\ Len(history') = Len(history)
      /\ l'.history_index = l.history_index \/ l'.history_index \in 0 .. Len(history) - 1
    BY <1>1, <1>2, SameLine, HistoryNextGood
<1> QED BY <1>1, <1>3, SameLine, FedKeeps DEF FeedHistory, Reading

LEMMA EndsKeep ==
    ASSUME IInv, FeedEnter \/ FeedEof
    PROVE  IInv'
<1>1. CASE FeedEnter
    <2>1. PICK offered \in Offer :
            /\ Reading /\ Fits(offered) /\ l' = Entered(Accepted(l, offered)) /\ PopHistory
            /\ history # <<>> => Returns(<<CString(Accepted(l, offered).buf)>>)
        BY <1>1 DEF FeedEnter
    <2> DEFINE m == Accepted(l, offered)
    <2>2. Good(m)
        BY <2>1, AcceptedLine
    <2> HIDE DEF m
    <2>3. Good(l')
        BY <2>1, <2>2, EnteredGood DEF Leaves, m
    <2>4. CString(m.buf) \in Seq(Chars)
        BY <2>2, CStringIn DEF Good, Sane
    <2>5. <<CString(m.buf)>> \in Histories /\ Len(<<CString(m.buf)>>) <= 1
        BY <2>4 DEF Histories
    <2> QED BY <1>1, <2>1, <2>3, <2>5, PoppedKeeps DEF FeedEnter, m
<1>2. CASE FeedEof
    <2>1. PICK offered \in Offer : Reading /\ Fits(offered) /\ l' = Accepted(l, offered)
        BY <1>2 DEF FeedEof
    <2>2. Good(l')
        BY <2>1, AcceptedLine
    <2> QED BY <1>2, <2>1, <2>2, SameLine, PoppedKeeps DEF FeedEof
<1> QED BY <1>1, <1>2

\* The width that linenoiseEditStart takes leaves room behind the prompt.
LEMMA ColumnsWide ==
    ASSUME NEW t \in Terminals
    PROVE  getColumns(t) \in Nat /\ plen < getColumns(t)
<1>1. CASE t.ws_col # 0
    BY <1>1, EditorAssumption DEF getColumns
<1>2. CASE t.ws_col = 0
    <2> DEFINE c == getCursorPosition(t.replies[2])
               start == IF host = "main" THEN -1 ELSE getCursorPosition(t.replies[1])
               cols == IF start = -1 THEN -1 ELSE c
    <2>1. getColumns(t) = IF cols # -1 THEN cols ELSE DefaultColumns
        BY <1>2 DEF getColumns
    <2>2. c # -1 => c \in Nat /\ plen < c
        <3>1. c # -1 => Len(t.replies[2]) = 4 /\ c = t.replies[2][3]
            BY DEF getCursorPosition
        <3> QED BY <3>1, EditorAssumption
    <2> HIDE DEF c
    <2>3. cols # -1 => cols \in Nat /\ plen < cols
        BY <2>2
    <2> HIDE DEF cols
    <2>4. DefaultColumns \in Nat /\ plen < DefaultColumns
        BY EditorAssumption DEF DefaultColumns
    <2> QED BY <2>1, <2>3, <2>4
<1> QED BY <1>1, <1>2

LEMMA FreshState ==
    ASSUME NEW b \in Buffers, b[0] = NUL, NEW w \in Nat, plen < w, NEW i, NEW s,
           NEW k, k = [buf |-> b, len |-> 0, pos |-> 0, oldpos |-> 0, oldrows |-> 0,
                       history_index |-> i, in_completion |-> FALSE, completion_idx |-> 0,
                       cols |-> w, row |-> 1, shown |-> s]
    PROVE  Good(k) /\ Placed(k) /\ k.history_index = i
<1>1. IsRecord(k) /\ k.cols = w /\ k.oldpos = 0 /\ k.oldrows = 0 /\ k.row = 1
      /\ k.in_completion = FALSE /\ k.completion_idx = 0 /\ k.history_index = i
      /\ k.buf = b /\ k.len = 0 /\ k.pos = 0
    BY DEF IsRecord
<1>2. Sane(k) /\ Wide(k) /\ Counted(k)
    BY <1>1, Sizes DEF Sane, Wide, Counted
<1>3. Placed(k)
    BY <1>1, <1>2, FirstRow DEF Placed
<1> QED BY <1>1, <1>2, <1>3 DEF Good

LEMMA StartKeeps ==
    ASSUME IInv, linenoiseEditStart
    PROVE  IInv'
<1>1. PICK t \in Terminals, success \in BOOLEAN :
        /\ pc = "stopped" /\ (success => tty)
        /\ l' = [linenoiseState EXCEPT !.buf = [l.buf EXCEPT ![0] = NUL],
                                       !.cols = getColumns(t), !.shown.col = plen]
        /\ enableRawMode(success)
        /\ history' = IF success THEN HistoryAdd(history, <<>>) ELSE history
        /\ pc' = "editing" /\ line' = NoLine
        /\ UNCHANGED <<setting, history_max_len, loaded, eof>>
    BY DEF linenoiseEditStart
<1>2. /\ rawmode' = success /\ (rawmode' => tty /\ atexit_registered')
      /\ atexit_registered' \in BOOLEAN
    BY <1>1 DEF IInv, Raw, TypeOK, enableRawMode
<1> DEFINE b == [l.buf EXCEPT ![0] = NUL]
<1>3. b \in Buffers /\ b[0] = NUL
    BY Sizes DEF IInv, Sane, Buffers, Bytes
<1> HIDE DEF b
<1>4. PICK s : l' = [buf |-> b, len |-> 0, pos |-> 0, oldpos |-> 0, oldrows |-> 0,
                     history_index |-> 0, in_completion |-> FALSE, completion_idx |-> 0,
                     cols |-> getColumns(t), row |-> 1, shown |-> s]
    BY <1>1 DEF linenoiseState, b
<1>5. Good(l') /\ Placed(l') /\ l'.history_index = 0
    BY <1>3, <1>4, ColumnsWide, FreshState
<1>6. /\ history' \in Histories /\ Len(history') <= history_max_len
      /\ rawmode' => history' # <<>>
    <2>1. <<>> \in Seq(Chars)
        OBVIOUS
    <2> QED BY <1>1, <1>2, <2>1, SameLine, HistoryAddIn
<1>7. TypeOK'
    BY <1>1, <1>2, <1>6, SameLine DEF IInv, TypeOK, setting
<1>8. Screen' /\ Entries' /\ Raw'
    BY <1>1, <1>2, <1>5, <1>6 DEF Screen, Entries, Raw, setting, Editing
<1> QED BY <1>5, <1>7, <1>8 DEF IInv, Good

\* The line is taken away and shown again.
LEMMA HidingKeeps ==
    ASSUME IInv, linenoiseHide \/ linenoiseShow
    PROVE  IInv'
<1>1. CASE linenoiseHide
    <2>1. /\ pc = "editing" /\ pc' = "hidden"
          /\ l' = refreshWithFlags(l, Text(l), l.pos, TRUE, FALSE)
          /\ UNCHANGED <<history, line>> /\ Fed
        BY <1>1 DEF linenoiseHide
    <2>2. Good(l) /\ IsRecord(l)
        BY <2>1, GoodLine DEF Good, Sane
    <2>3. IsRecord(l') /\ SameText(l', l) /\ Keeps(l', l)
        BY <2>1, <2>2, RefreshKeeps
    <2>4. Sane(l)' /\ Wide(l)' /\ Counted(l)'
        BY <2>2, <2>3, KeepsSane DEF Good, Wide, Counted, Keeps
    <2>5. mlmode => l'.row = 1
        BY <2>1, <2>2, HidingPlaces DEF refreshWithFlags, Good
    <2>6. TypeOK' /\ Raw'
        BY <2>1 DEF IInv, TypeOK, Raw, Fed, setting, terminal
    <2>7. Screen' /\ Entries'
        BY <2>1, <2>3, <2>5 DEF IInv, Screen, Entries, Fed, setting, terminal, Keeps, Editing
    <2> QED BY <2>4, <2>6, <2>7 DEF IInv
<1>2. CASE linenoiseShow
    <2>1. PICK offered \in Offer :
          /\ pc = "hidden" /\ pc' = "editing"
          /\ l' = IF l.in_completion THEN refreshWithCompletion(l, offered, FALSE)
                  ELSE refreshWithFlags(l, Text(l), l.pos, FALSE, TRUE)
          /\ UNCHANGED <<history, line>> /\ Fed
        BY <1>2 DEF linenoiseShow
    <2>2. Sane(l) /\ Wide(l) /\ Counted(l) /\ (mlmode => l.row = 1)
        BY <2>1 DEF IInv, Screen
    <2>3. Good(l') /\ Keeps(l', l)
        <3>1. CASE l.in_completion
            <4>1. offered = Completions
                BY <2>1, <3>1 DEF Offer
            <4> QED BY <2>1, <2>2, <3>1, <4>1, CompletionShown DEF Leaves
        <3>2. CASE ~l.in_completion
            <4>1. Text(l) \in Seq(Bytes) /\ l.pos \in 0 .. Len(Text(l))
                BY <2>2, TextIn DEF Sane
            <4> QED BY <2>1, <2>2, <3>2, <4>1, ShowGood
        <3> QED BY <3>1, <3>2
    <2>4. TypeOK' /\ Raw'
        BY <2>1 DEF IInv, TypeOK, Raw, Fed, setting, terminal
    <2>5. Screen' /\ Entries'
        BY <2>1, <2>3
        DEF IInv, Screen, Entries, Fed, setting, terminal, Keeps, Good, Editing
    <2> QED BY <2>3, <2>4, <2>5 DEF IInv, Good
<1> QED BY <1>1, <1>2

\* The struct and the history stay, and no line is begun.
LEMMA LineUntouched ==
    ASSUME IInv, l' = l, history' = history, history_max_len' = history_max_len,
           UNCHANGED setting, TypeOK', Raw', rawmode' => rawmode,
           pc' # pc => pc' \notin {"editing", "hidden"}
    PROVE  IInv'
<1>1. Screen' /\ Entries'
    BY DEF IInv, Screen, Entries, Editing, setting
<1> QED BY <1>1 DEF IInv

\* What happens between two lines, or to a line that is not read from keys.
LEMMA OthersKeep ==
    ASSUME IInv, FeedNoTTY \/ TakeLine \/ PlainLine \/ linenoiseSetMultiLine
                 \/ linenoiseMaskMode \/ linenoiseSetHintsCallback
                 \/ linenoisePrintKeyCodes \/ QuitTyped \/ GdbExit \/ Exit
    PROVE  IInv'
<1> <<SPACE>> \in Seq(Chars)
    BY EditorAssumption
<1> <<<<>>>> \in Histories /\ <<<<SPACE>>>> \in Histories /\ NoLine \in Histories
    /\ Len(<<<<>>>>) <= 1 /\ Len(<<<<SPACE>>>>) <= 1 /\ Len(NoLine) <= 1
    BY DEF Histories, NoLine
<1>1. CASE FeedNoTTY
    <2>1. TypeOK' /\ Raw'
        BY <1>1 DEF IInv, TypeOK, Raw, FeedNoTTY, Returns, Fed, setting, terminal
    <2> QED BY <1>1, <2>1, LineUntouched DEF FeedNoTTY, Returns, Fed, setting, terminal
<1>2. CASE TakeLine
    <2>1. rawmode' = FALSE
        BY <1>2 DEF IInv, Raw, TypeOK, TakeLine, linenoiseEditStop, disableRawMode
    <2>2. TypeOK' /\ Raw'
        BY <1>2, <2>1 DEF IInv, TypeOK, Raw, TakeLine, setting
    <2> QED BY <1>2, <2>1, <2>2, LineUntouched DEF TakeLine
<1>3. CASE PlainLine
    <2>1. TypeOK' /\ Raw'
        BY <1>3 DEF IInv, TypeOK, Raw, PlainLine, setting, terminal
    <2> QED BY <1>3, <2>1, LineUntouched DEF PlainLine, terminal
<1>4. CASE linenoiseSetMultiLine \/ linenoiseMaskMode \/ linenoiseSetHintsCallback
    <2>1. mlmode' \in BOOLEAN /\ maskmode' \in BOOLEAN /\ hints' \in BOOLEAN
        BY <1>4, Zenon DEF IInv, TypeOK, Between, linenoiseSetMultiLine, linenoiseMaskMode,
                           linenoiseSetHintsCallback
    <2>3. TypeOK' /\ Raw'
        BY <1>4, <2>1 DEF IInv, TypeOK, Raw, Between, linenoiseSetMultiLine,
                          linenoiseMaskMode, linenoiseSetHintsCallback, terminal
    <2>2. /\ l' = l /\ history' = history /\ history_max_len' = history_max_len
          /\ pc = "stopped" /\ pc' = "stopped"
        BY <1>4 DEF Between, linenoiseSetMultiLine, linenoiseMaskMode,
                    linenoiseSetHintsCallback, terminal
    <2> QED BY <2>2, <2>3 DEF IInv, Screen, Entries, Editing
<1>5. CASE linenoisePrintKeyCodes
    <2>1. PICK success \in BOOLEAN :
            /\ pc = "stopped" /\ (success => tty) /\ enableRawMode(success)
            /\ pc' = IF success THEN "keycodes" ELSE "stopped"
            /\ UNCHANGED <<setting, l, history, history_max_len, loaded, line, eof>>
        BY <1>5 DEF linenoisePrintKeyCodes
    <2>2. /\ rawmode' = success /\ (rawmode' => tty /\ atexit_registered')
          /\ atexit_registered' \in BOOLEAN
        BY <2>1 DEF IInv, Raw, TypeOK, enableRawMode
    <2>3. TypeOK' /\ Raw'
        BY <2>1, <2>2 DEF IInv, TypeOK, Raw, setting
    <2> QED BY <2>1, <2>3 DEF IInv, Screen, Entries, Editing, setting
<1>6. CASE QuitTyped
    <2>1. TypeOK' /\ Raw'
        BY <1>6 DEF IInv, TypeOK, Raw, QuitTyped, disableRawMode, setting
    <2> QED BY <1>6, <2>1, LineUntouched DEF QuitTyped, disableRawMode
<1>7. CASE GdbExit
    <2>1. TypeOK' /\ Raw'
        BY <1>7 DEF IInv, TypeOK, Raw, GdbExit, setting, terminal
    <2> QED BY <1>7, <2>1, LineUntouched DEF GdbExit, terminal
<1>8. CASE Exit
    <2>1. rawmode' = FALSE
        BY <1>8 DEF IInv, Raw, TypeOK, Exit, linenoiseAtExit, disableRawMode
    <2>2. TypeOK' /\ Raw'
        BY <1>8, <2>1 DEF IInv, TypeOK, Raw, Exit, setting
    <2> QED BY <1>8, <2>1, <2>2, LineUntouched DEF Exit
<1> QED BY <1>1, <1>2, <1>3, <1>4, <1>5, <1>6, <1>7, <1>8

\* The history between two lines.
LEMMA HistoryKeeps ==
    ASSUME IInv, KeepLine \/ linenoiseHistorySetMaxLen \/ linenoiseHistoryLoad
    PROVE  IInv'
<1>1. history \in Histories /\ Len(history) \in Nat
    BY SameLine
<1>2. /\ l' = l /\ UNCHANGED <<setting, terminal, line, eof>>
      /\ pc \in {"stopped", "loading"} /\ pc' \in {"stopped", "loading"}
    BY DEF KeepLine, linenoiseHistorySetMaxLen, linenoiseHistoryLoad
<1>3. history' \in Histories /\ Len(history') <= history_max_len'
      /\ history_max_len' \in HistoryMaxLens /\ loaded' \in Nat
    <2>1. CASE KeepLine
        <3>1. line[1] \in Seq(Chars)
            BY <2>1, SameLine DEF KeepLine, NoLine, Histories
        <3>2. history' = HistoryAdd(history, line[1]) /\ UNCHANGED <<history_max_len, loaded>>
            BY <2>1 DEF KeepLine
        <3> QED BY <3>1, <3>2, SameLine, HistoryAddIn DEF IInv, TypeOK
    <2>2. CASE linenoiseHistorySetMaxLen
        <3>1. PICK n \in HistoryMaxLens :
                /\ history_max_len' = n /\ loaded' = loaded
                /\ history' = SubSeq(history, AtLeast0(Len(history) - n) + 1, Len(history))
            BY <2>2 DEF linenoiseHistorySetMaxLen
        <3>2. n \in Nat /\ loaded' \in Nat
            BY <3>1, EditorAssumption DEF IInv, TypeOK
        <3> DEFINE a == AtLeast0(Len(history) - n)
        <3>3. a \in 0 .. Len(history) /\ Len(history) - a <= n
            BY <1>1, <3>2 DEF AtLeast0
        <3> HIDE DEF a
        <3>4. SubSeq(history, a + 1, Len(history)) \in Histories
              /\ Len(SubSeq(history, a + 1, Len(history))) = Len(history) - a
            BY <1>1, <3>3 DEF Histories
        <3> QED BY <3>1, <3>2, <3>3, <3>4 DEF a
    <2>3. CASE linenoiseHistoryLoad
        <3> DEFINE n == IF pc = "loading" THEN loaded ELSE 0
        <3>1. history_max_len' = history_max_len
              /\ IF n < Len(HistoryFile)
                 THEN loaded' = n + 1 /\ history' = HistoryAdd(history, HistoryFile[n + 1])
                 ELSE loaded' = 0 /\ history' = history
            BY <2>3 DEF linenoiseHistoryLoad
        <3>2. n \in Nat
            BY DEF IInv, TypeOK
        <3> HIDE DEF n
        <3>3. CASE n < Len(HistoryFile)
            <4>1. HistoryFile[n + 1] \in Seq(Chars)
                BY <3>2, <3>3, EditorAssumption
            <4> QED BY <3>1, <3>2, <3>3, <4>1, SameLine, HistoryAddIn DEF IInv, TypeOK
        <3>4. CASE ~(n < Len(HistoryFile))
            BY <3>1, <3>4, SameLine DEF IInv, TypeOK
        <3> QED BY <3>3, <3>4
    <2> QED BY <2>1, <2>2, <2>3
<1>4. TypeOK' /\ Raw'
    BY <1>2, <1>3 DEF IInv, TypeOK, Raw, setting, terminal
<1> QED BY <1>2, <1>3, <1>4 DEF IInv, Screen, Entries, Editing

LEMMA BlockingKeeps ==
    ASSUME IInv, linenoiseBlockingEdit
    PROVE  IInv'
<1>1. rawmode' = FALSE
    BY DEF IInv, Raw, TypeOK, linenoiseBlockingEdit, linenoiseEditStop, disableRawMode
<1>2. TypeOK' /\ Raw'
    BY <1>1 DEF IInv, TypeOK, Raw, linenoiseBlockingEdit, setting
<1> DEFINE b == [i \in 0 .. BufSize - 1 |-> NUL]
<1>3. b \in Buffers /\ b[0] = NUL
    BY Sizes DEF Buffers, Bytes
<1> HIDE DEF b
<1>4. l' = [buf |-> b, len |-> 0, pos |-> 0, oldpos |-> 0, oldrows |-> 0,
            history_index |-> l.history_index, in_completion |-> FALSE,
            completion_idx |-> 0, cols |-> DefaultColumns, row |-> 1, shown |-> Blank]
    BY DEF linenoiseBlockingEdit, linenoiseState, b
<1>5. DefaultColumns \in Nat /\ plen < DefaultColumns
    BY EditorAssumption DEF DefaultColumns
<1>6. Good(l')
    BY <1>3, <1>4, <1>5, FreshState
<1> QED BY <1>2, <1>6
    DEF IInv, Good, Screen, Entries, Editing, linenoiseBlockingEdit, setting

LEMMA InitHolds ==
    ASSUME Init
    PROVE  IInv
<1>1. history_max_len \in HistoryMaxLens
    <2>1. PICK n \in HistoryMaxLens : \A k \in HistoryMaxLens : k <= n
        BY EditorAssumption
    <2>2. n \in Nat /\ HistoryMaxLens \in SUBSET (0 .. n) /\ HistoryMaxLens # {}
        BY <2>1, EditorAssumption
    <2> QED BY <2>2, MaxIsGreatest DEF Init
<1> DEFINE b == [i \in 0 .. BufSize - 1 |-> NUL]
<1>2. b \in Buffers /\ b[0] = NUL
    BY Sizes DEF Buffers, Bytes
<1> HIDE DEF b
<1>3. l = [buf |-> b, len |-> 0, pos |-> 0, oldpos |-> 0, oldrows |-> 0,
           history_index |-> 0, in_completion |-> FALSE, completion_idx |-> 0,
           cols |-> DefaultColumns, row |-> 1, shown |-> Blank]
    BY DEF Init, linenoiseState, b
<1>4. DefaultColumns \in Nat /\ plen < DefaultColumns
    BY EditorAssumption DEF DefaultColumns
<1>5. Good(l)
    BY <1>2, <1>3, <1>4, FreshState
<1>6. TypeOK
    <2>1. /\ history \in Histories /\ line \in Histories /\ Len(line) <= 1 /\ loaded \in Nat
        BY DEF Init, NoLine, Histories
    <2> QED BY <1>1, <2>1 DEF Init, TypeOK
<1>7. Len(history) <= history_max_len
    BY <1>1, EditorAssumption DEF Init
<1> QED BY <1>5, <1>6, <1>7 DEF IInv, Good, Screen, Entries, Editing, Raw, Init

\* An offer too long for the buffer has been taken: no step is described.
Overrun == pc = "overrun" /\ Len(history) <= history_max_len

LEMMA OverrunBegins ==
    ASSUME IInv, FeedTooLong
    PROVE  Overrun'
    BY DEF IInv, Entries, FeedTooLong, Fed, Overrun

LEMMA OverrunStays ==
    ASSUME Overrun, [Next]_vars
    PROVE  Overrun'
<1>1. ASSUME Next PROVE FALSE
    BY <1>1
    DEF Next, Overrun, linenoiseEditStart, Reading, FeedEdit, FeedChar, FeedOddByte, FeedTab,
        FeedEscape, FeedHistory, FeedEnter, FeedEof, FeedInterrupt, ReadFails, FeedTooLong,
        FeedNoTTY, linenoiseHide, linenoiseShow, TakeLine, linenoiseBlockingEdit, PlainLine,
        Between, linenoiseSetMultiLine, linenoiseMaskMode, linenoiseSetHintsCallback, KeepLine,
        linenoiseHistorySetMaxLen, linenoiseHistoryLoad, linenoisePrintKeyCodes, QuitTyped,
        GdbExit, Exit
<1>2. CASE UNCHANGED vars
    BY <1>2 DEF Overrun, vars
<1> QED BY <1>1, <1>2

LEMMA NextKeeps ==
    ASSUME IInv, [Next]_vars
    PROVE  IInv' \/ Overrun'
<1>1. CASE FeedEdit \/ FeedChar \/ FeedOddByte \/ FeedTab \/ FeedEscape
           \/ FeedInterrupt \/ ReadFails
    BY <1>1, KeysKeep
<1>2. CASE FeedHistory
    BY <1>2, HistoryKeysKeep
<1>3. CASE FeedEnter \/ FeedEof
    BY <1>3, EndsKeep
<1>4. CASE linenoiseEditStart
    BY <1>4, StartKeeps
<1>5. CASE linenoiseHide \/ linenoiseShow
    BY <1>5, HidingKeeps
<1>6. CASE FeedNoTTY \/ TakeLine \/ PlainLine \/ linenoiseSetMultiLine
           \/ linenoiseMaskMode \/ linenoiseSetHintsCallback
           \/ linenoisePrintKeyCodes \/ QuitTyped \/ GdbExit \/ Exit
    BY <1>6, OthersKeep
<1>7. CASE KeepLine \/ linenoiseHistorySetMaxLen \/ linenoiseHistoryLoad
    BY <1>7, HistoryKeeps
<1>8. CASE linenoiseBlockingEdit
    BY <1>8, BlockingKeeps
<1>9. CASE UNCHANGED vars
    BY <1>9 DEF IInv, TypeOK, Screen, Entries, Raw, Editing, vars
<1>10. CASE FeedTooLong
    BY <1>10, OverrunBegins
<1> QED BY <1>1, <1>2, <1>3, <1>4, <1>5, <1>6, <1>7, <1>8, <1>9, <1>10 DEF Next

\* The struct, the history and the terminal's mode stay as every function of
\* the editor needs them, until an offer too long for the buffer is taken.
THEOREM TypeCorrect == Spec => [](IInv \/ Overrun)
<1>1. Init => IInv \/ Overrun
    BY InitHolds
<1>2. (IInv \/ Overrun) /\ [Next]_vars => (IInv \/ Overrun)'
    BY NextKeeps, OverrunStays
<1> QED BY <1>1, <1>2, PTL DEF Spec

\* Whatever is typed, completed, taken from the history or cut: the cursor
\* stays in the text, the text in the buffer and a terminator behind it
\* (linenoiseEditInsert, completeLine, linenoiseEditHistoryNext), until an
\* offer of buflen characters or more is taken.
THEOREM TextInBuffer == Spec => []InBounds
<1>1. IInv \/ Overrun => InBounds
    BY DEF IInv, Overrun, Sane, Buffers, InBounds
<1> QED BY <1>1, TypeCorrect, PTL

\* The entry that going through the history overwrites exists, and so does
\* the one that ENTER frees; the history keeps to its limit, whatever was set
\* and loaded between the lines (linenoiseEditHistoryNext, linenoiseHistoryAdd,
\* linenoiseHistorySetMaxLen).
THEOREM HistoryKept == Spec => []HistoryInRange
<1>1. IInv \/ Overrun => HistoryInRange
    <2>0. Overrun => HistoryInRange
        BY DEF Overrun, HistoryInRange
    <2>1. SUFFICES ASSUME IInv PROVE HistoryInRange
        BY <2>0
    <2>2. history \in Histories
        BY <2>1 DEF IInv, TypeOK
    <2>3. Editing /\ rawmode => Len(history) \in Nat /\ Len(history) # 0
        BY <2>1, <2>2 DEF IInv, Entries, Histories
    <2> QED BY <2>1, <2>3 DEF IInv, Entries, HistoryInRange, Editing
<1> QED BY <1>1, TypeCorrect, PTL

\* However the program ends, the terminal is not left in raw mode
\* (linenoiseAtExit, linenoiseEditStop and main's strlen of a missing line).
THEOREM NeverEndsRaw == Spec => []TerminalRestored
<1>1. IInv \/ Overrun => TerminalRestored
    BY DEF IInv, Overrun, Raw, TerminalRestored
<1> QED BY <1>1, TypeCorrect, PTL

\* On a terminal of any width and for a prompt of any length below it the
\* multi-line redrawing knows the row of the cursor (refreshMultiLine,
\* linenoiseHide, linenoiseShow, the completion's redrawing).
THEOREM RowAlwaysKnown == Spec => []RowIsKnown
<1>1. IInv \/ Overrun => RowIsKnown
    BY DEF IInv, Overrun, Screen, Placed, RowIsKnown
<1> QED BY <1>1, TypeCorrect, PTL

-----------------------------------------------------------------------------
(* The bytes implement a text with a cursor. *)

LEMMA TextInLines ==
    ASSUME NEW m, Sane(m)
    PROVE  Text(m) \in Field!Lines
<1>1. Text(m) \in [1 .. m.len -> Bytes]
    <2>1. Text(m) \in Seq(Bytes) /\ Len(Text(m)) = m.len
        BY TextIn
    <2> QED BY <2>1
<1>2. m.len \in 0 .. buflen
    BY DEF Sane
<1> QED BY <1>1, <1>2 DEF Field!Lines

\* A change of the text and cursor of m is one that TextField allows to t.
LEMMA FieldAllows ==
    ASSUME NEW m, NEW t, Text(m) = t, Edits(l', m)
    PROVE  Field!Edit(t, m.pos)
<1>1. CASE Inserts(l', m)
    <2>1. Field!Insert(t, m.pos)
        BY <1>1 DEF Inserts, Field!Insert, InsertAt, Field!InsertAt
    <2> QED BY <2>1 DEF Field!Edit
<1>2. CASE Moves(l', m)
    <2>1. Field!Move(t, m.pos)
        BY <1>2 DEF Moves, Field!Move
    <2> QED BY <2>1 DEF Field!Edit
<1>3. CASE Erases(l', m)
    <2>1. Field!Erase(t, m.pos)
        BY <1>3 DEF Erases, Field!Erase
    <2> QED BY <2>1 DEF Field!Edit
<1>4. CASE Transposes(l', m)
    <2>1. Field!Transpose(t, m.pos)
        BY <1>4 DEF Transposes, Field!Transpose
    <2> QED BY <2>1 DEF Field!Edit
<1> QED BY <1>1, <1>2, <1>3, <1>4 DEF Edits

\* A key that may end a completion is one change to the offered text, if it
\* was taken, and to the edited one otherwise.
LEMMA FieldTakes ==
    ASSUME NEW m, Accepts(m, l), Edits(l', m)
    PROVE  Field!Next
<1>1. Field!Edit(Text(m), m.pos)
    BY FieldAllows
<1>2. CASE SameText(m, l)
    <2>1. Text(m) = Text(l) /\ m.pos = l.pos
        BY <1>2, SameTexts DEF SameText
    <2>2. Field!Edit(Text(l), l.pos)
        BY <1>1, <2>1
    <2> QED BY <2>2 DEF Field!Next
<1>3. ASSUME NEW i \in DOMAIN Completions, Text(m) = Completions[i], m.pos = Len(Completions[i])
      PROVE  Field!Next
    <2>1. Completions[i] \in ToSet(Completions)
        BY DEF ToSet
    <2>2. Field!Edit(Completions[i], Len(Completions[i]))
        BY <1>1, <1>3
    <2> QED BY <2>1, <2>2 DEF Field!Next
<1> QED BY <1>2, <1>3 DEF Accepts

LEMMA FieldClears ==
    ASSUME Clears(l')
    PROVE  Field!Next
    BY DEF Clears, Field!Next, Field!Clear

\* What happens to the text and the cursor in a step.
FieldStep == Field!Next \/ UNCHANGED <<Text(l), l.pos>>

LEMMA SameIsStep ==
    ASSUME l' = l \/ SameText(l', l)
    PROVE  FieldStep
<1>1. Text(l') = Text(l) /\ l'.pos = l.pos
    BY SameTexts DEF SameText
<1> QED BY <1>1 DEF FieldStep

LEMMA AcceptedText ==
    ASSUME IInv, Reading, NEW offered \in Offer, Fits(offered), NEW m, m = Accepted(l, offered)
    PROVE  Good(m) /\ Sane(m) /\ Accepts(m, l)
<1>1. Good(l)
    BY GoodLine DEF Reading
<1>2. l.in_completion => offered = Completions
    BY DEF Offer
<1>3. Taken(m, l) /\ Accepts(m, l)
    BY <1>1, <1>2, AcceptedGood DEF Fits
<1> QED BY <1>3 DEF Taken, Good

LEMMA AcceptedIsStep ==
    ASSUME IInv, Reading, NEW offered \in Offer, Fits(offered), l' = Accepted(l, offered)
    PROVE  FieldStep
<1> DEFINE m == Accepted(l, offered)
<1>1. Sane(m) /\ Accepts(m, l)
    BY AcceptedText
<1> HIDE DEF m
<1>2. l' = m
    BY DEF m
<1>3. m.pos \in 0 .. m.len
    BY <1>1 DEF Sane
<1>4. Edits(l', m)
    BY <1>1, <1>2, <1>3, EditsMove
<1> QED BY <1>1, <1>4, FieldTakes DEF FieldStep

LEMMA KeysAreSteps ==
    ASSUME IInv, FeedEdit \/ FeedChar \/ FeedOddByte \/ FeedTab \/ FeedEscape
                 \/ FeedHistory \/ FeedEnter \/ FeedEof \/ FeedInterrupt \/ ReadFails
    PROVE  FieldStep
<1>1. CASE FeedEdit
    <2>1. PICK k \in EditKeys, offered \in Offer :
            Reading /\ Fits(offered) /\ l' = EditKey(k, Accepted(l, offered))
        BY <1>1 DEF FeedEdit
    <2>2. PICK m : m = Accepted(l, offered)
        OBVIOUS
    <2>3. Good(m) /\ Accepts(m, l)
        BY <2>1, <2>2, AcceptedText
    <2>4. Edits(l', m) \/ Clears(l')
        BY <2>1, <2>2, <2>3, EditKeyGood
    <2> QED BY <2>3, <2>4, FieldTakes, FieldClears DEF FieldStep
<1>2. CASE FeedChar
    <2>1. PICK c \in Bytes, offered \in Offer :
            Reading /\ Fits(offered) /\ l' = linenoiseEditInsert(Accepted(l, offered), c)
        BY <1>2 DEF FeedChar
    <2>2. PICK m : m = Accepted(l, offered)
        OBVIOUS
    <2>3. Good(m) /\ Accepts(m, l)
        BY <2>1, <2>2, AcceptedText
    <2>4. Edits(l', m)
        BY <2>1, <2>2, <2>3, InsertGood
    <2> QED BY <2>3, <2>4, FieldTakes DEF FieldStep
<1>3. CASE FeedOddByte \/ FeedInterrupt \/ FeedEof
    <2>1. PICK offered \in Offer : Reading /\ Fits(offered) /\ l' = Accepted(l, offered)
        BY <1>3 DEF FeedOddByte, FeedInterrupt, FeedEof
    <2> QED BY <2>1, AcceptedIsStep
<1>4. CASE FeedTab
    <2> DEFINE i == IF l.in_completion THEN (l.completion_idx + 1) % (Len(Completions) + 1) ELSE 0
    <2>1. Good(l)
        BY <1>4, GoodLine DEF FeedTab, Reading
    <2>2. l' = refreshWithCompletion(Completing(l, i), Completions, TRUE)
        BY <1>4, <2>1 DEF FeedTab, Good, Sane, IsRecord, Completing
    <2> HIDE DEF i
    <2>3. PICK m : m = Completing(l, i)
        OBVIOUS
    <2>4. IsRecord(m) /\ SameText(m, l)
        <3>1. IsRecord(l)
            BY <2>1 DEF Good, Sane
        <3> QED BY <2>3, <3>1, CompletionGoesOn
    <2>5. SameText(l', m)
        <3>1. \E t, pos : l' = refreshWithFlags(m, t, pos, TRUE, TRUE)
            BY <2>2, <2>3 DEF refreshWithCompletion
        <3> QED BY <2>4, <3>1, RefreshKeeps
    <2>6. SameText(l', l)
        BY <2>4, <2>5 DEF SameText
    <2> QED BY <2>6, SameIsStep
<1>5. CASE FeedEscape
    <2>1. IsRecord(l)
        BY <1>5, GoodLine DEF FeedEscape, Reading, Good, Sane
    <2>2. PICK m : m = [l EXCEPT !.in_completion = FALSE] /\ l' = refreshLine(m)
        BY <1>5 DEF FeedEscape
    <2>3. IsRecord(m) /\ SameText(m, l)
        BY <2>1, <2>2, CompletionEnds
    <2>4. SameText(l', m)
        BY <2>2, <2>3, RefreshKeeps DEF refreshLine
    <2>5. SameText(l', l)
        BY <2>3, <2>4 DEF SameText
    <2> QED BY <2>5, SameIsStep
<1>6. CASE FeedHistory
    <2>1. PICK dir \in {1, -1}, offered \in Offer :
            Reading /\ Fits(offered) /\ HistoryNext(Accepted(l, offered), dir)
        BY <1>6 DEF FeedHistory
    <2>2. PICK m : m = Accepted(l, offered)
        OBVIOUS
    <2>3. Good(m) /\ Sane(m) /\ Accepts(m, l) /\ m.history_index \in Int
        BY <2>1, <2>2, AcceptedText, AcceptedLine
    <2>4. Good(l') /\ (l' = m \/ l'.pos = l'.len)
        BY <2>1, <2>2, <2>3, SameLine, HistoryNextGood
    <2>5. CASE l' = m
        BY <2>1, <2>2, <2>5, AcceptedIsStep
    <2>6. CASE l'.pos = l'.len
        <3>1. Text(l') \in Field!Lines /\ l'.pos = Len(Text(l'))
            BY <2>4, <2>6, TextInLines, TextIn DEF Good
        <3>2. Field!Replace
            BY <3>1 DEF Field!Replace
        <3> QED BY <3>2 DEF FieldStep, Field!Next
    <2> QED BY <2>4, <2>5, <2>6
<1>7. CASE FeedEnter
    <2>1. PICK offered \in Offer : Reading /\ Fits(offered) /\ l' = Entered(Accepted(l, offered))
        BY <1>7 DEF FeedEnter
    <2>2. PICK m : m = Accepted(l, offered)
        OBVIOUS
    <2>3. Good(m) /\ Accepts(m, l)
        BY <2>1, <2>2, AcceptedText
    <2>4. Edits(l', m)
        BY <2>1, <2>2, <2>3, EnteredGood
    <2> QED BY <2>3, <2>4, FieldTakes DEF FieldStep
<1>8. CASE ReadFails
    BY <1>8, SameIsStep DEF ReadFails
<1> QED BY <1>1, <1>2, <1>3, <1>4, <1>5, <1>6, <1>7, <1>8

LEMMA StartsAreSteps ==
    ASSUME linenoiseEditStart \/ linenoiseBlockingEdit
    PROVE  FieldStep
<1>1. l'.len = 0 /\ l'.pos = 0
    <2>1. CASE linenoiseEditStart
        <3>1. PICK t \in Terminals :
                l' = [linenoiseState EXCEPT !.buf = [l.buf EXCEPT ![0] = NUL],
                                            !.cols = getColumns(t), !.shown.col = plen]
            BY <2>1, Zenon DEF linenoiseEditStart
        <3>2. PICK s :
                l' = [buf |-> [l.buf EXCEPT ![0] = NUL], len |-> 0, pos |-> 0, oldpos |-> 0,
                      oldrows |-> 0, history_index |-> 0, in_completion |-> FALSE,
                      completion_idx |-> 0, cols |-> getColumns(t), row |-> 1, shown |-> s]
            BY <3>1 DEF linenoiseState
        <3> QED BY <3>2
    <2>2. CASE linenoiseBlockingEdit
        BY <2>2 DEF linenoiseBlockingEdit, linenoiseState
    <2> QED BY <2>1, <2>2
<1>2. Clears(l')
    BY <1>1, EmptyText DEF Clears
<1> QED BY <1>2, FieldClears DEF FieldStep

LEMMA HidingIsStep ==
    ASSUME IInv, linenoiseHide \/ linenoiseShow
    PROVE  FieldStep
<1>1. IsRecord(l)
    BY DEF IInv, Sane
<1>2. \E t, pos, clean, write : l' = refreshWithFlags(l, t, pos, clean, write)
    BY DEF linenoiseHide, linenoiseShow, refreshWithCompletion
<1>3. SameText(l', l)
    BY <1>1, <1>2, RefreshKeeps
<1> QED BY <1>3, SameIsStep

\* Insertions and deletions by memmove, words, kills, transposition,
\* completion and history are, on the text that the bytes up to the length
\* stand for, the changes a text field may make; nothing else changes it but
\* the taking of an offer too long for the buffer.
THEOREM FieldImplemented == Spec => ImplementsField
<1>1. Init => Field!Init
    <2>1. SUFFICES ASSUME Init PROVE Text(l) = <<>> /\ l.pos = 0
        BY DEF Field!Init
    <2>2. l.len = 0 /\ l.pos = 0
        BY <2>1 DEF Init, linenoiseState
    <2> QED BY <2>2, EmptyText
<1>2. (IInv \/ Overrun) /\ [Next]_vars =>
            [pc' = "overrun" \/ Field!Next]_<<Text(l), l.pos>>
    <2>7. Overrun /\ [Next]_vars => pc' = "overrun"
        BY OverrunStays DEF Overrun
    <2> SUFFICES ASSUME IInv, [Next]_vars PROVE FieldStep \/ pc' = "overrun"
        BY <2>7 DEF FieldStep
    <2>1. CASE FeedEdit \/ FeedChar \/ FeedOddByte \/ FeedTab \/ FeedEscape
               \/ FeedHistory \/ FeedEnter \/ FeedEof \/ FeedInterrupt \/ ReadFails
        BY <2>1, KeysAreSteps
    <2>2. CASE linenoiseEditStart \/ linenoiseBlockingEdit
        BY <2>2, StartsAreSteps
    <2>3. CASE linenoiseHide \/ linenoiseShow
        BY <2>3, HidingIsStep
    <2>4. CASE FeedNoTTY \/ TakeLine \/ PlainLine \/ linenoiseSetMultiLine
               \/ linenoiseMaskMode \/ linenoiseSetHintsCallback \/ KeepLine
               \/ linenoiseHistorySetMaxLen \/ linenoiseHistoryLoad
               \/ linenoisePrintKeyCodes \/ QuitTyped \/ GdbExit \/ Exit
        <3>1. l' = l
            BY <2>4 DEF FeedNoTTY, TakeLine, PlainLine, linenoiseSetMultiLine, Between,
                        linenoiseMaskMode, linenoiseSetHintsCallback, KeepLine,
                        linenoiseHistorySetMaxLen, linenoiseHistoryLoad,
                        linenoisePrintKeyCodes, QuitTyped, GdbExit, Exit
        <3> QED BY <3>1, SameIsStep
    <2>5. CASE UNCHANGED vars
        BY <2>5, SameIsStep DEF vars
    <2>6. CASE FeedTooLong
        BY <2>6 DEF FeedTooLong
    <2> QED BY <2>1, <2>2, <2>3, <2>4, <2>5, <2>6 DEF Next
<1> QED BY <1>1, <1>2, TypeCorrect, PTL DEF Spec, ImplementsField

-----------------------------------------------------------------------------
(* What the terminal shows in single-line mode *)

\* Redrawing shows the line as it is.
LEMMA RedrawnShows ==
    ASSUME ~mlmode, NEW n, IsRecord(n), NEW clean,
           NEW k, k = refreshWithFlags(n, Text(n), n.pos, clean, TRUE)
    PROVE  ShownRight(k)
<1> DEFINE w == Window(n, Text(n), n.pos)
           h == refreshShowHints(n, Text(n))
<1>1. k = [n EXCEPT !.shown = [w EXCEPT !.text = w.text \o h]]
    BY DEF refreshWithFlags, refreshSingleLine, abAppend, Window
<1>2. [w EXCEPT !.text = w.text \o h] = [text |-> w.text \o h, col |-> w.col]
    <2>1. PICK x, y : w = [text |-> x, col |-> y]
        BY DEF Window
    <2> DEFINE z == w.text \o h
    <2> HIDE DEF w, z
    <2>2. [w EXCEPT !.text = z] = [text |-> z, col |-> w.col]
        BY <2>1
    <2> QED BY <2>2 DEF z
<1>3. SameText(k, n) /\ Keeps(k, n)
    BY RefreshKeeps
<1>4. Text(k) = Text(n) /\ k.pos = n.pos /\ k.cols = n.cols
    BY <1>3, SameTexts DEF SameText, Keeps
<1>5. Window(k, Text(k), k.pos) = w /\ refreshShowHints(k, Text(k)) = h
    BY <1>4 DEF Window, refreshShowHints
<1> HIDE DEF w, h
<1>6. k.shown = [text |-> w.text \o h, col |-> w.col]
    BY <1>1, <1>2 DEF IsRecord
<1> QED BY <1>5, <1>6 DEF ShownRight, Showing

LEMMA RefreshShows ==
    ASSUME ~mlmode, NEW n, IsRecord(n), NEW k, k = refreshLine(n)
    PROVE  ShownRight(k)
<1>1. k = refreshWithFlags(n, Text(n), n.pos, TRUE, TRUE)
    BY DEF refreshLine
<1> QED BY <1>1, RedrawnShows

LEMMA ReplacedShows ==
    ASSUME ~mlmode, NEW m, IsRecord(m), NEW b, NEW n, NEW p,
           NEW k, k = refreshLine(Replaced(m, b, n, p))
    PROVE  ShownRight(k)
<1>1. IsRecord(Replaced(m, b, n, p))
    BY ReplacedIs
<1> QED BY <1>1, RefreshShows

\* The window of a line that ends before the terminal's last column is the
\* line.
LEMMA WindowIsLine ==
    ASSUME NEW m, Sane(m), Wide(m), m.pos = m.len, plen + m.len < m.cols
    PROVE  /\ Window(m, Text(m), m.pos).text = Masked(Text(m))
           /\ Window(m, Text(m), m.pos).col = plen + m.len
<1>1. Text(m) \in Seq(Bytes) /\ Len(Text(m)) = m.len /\ m.len \in Nat
    BY TextIn, Sizes DEF Sane
<1>2. plen \in Nat /\ m.cols \in Nat
    BY EditorAssumption DEF Wide, DefaultColumns
<1>3. AtLeast0(plen + m.pos + 1 - m.cols) = 0
    BY <1>1, <1>2 DEF AtLeast0
<1>4. Min({m.len, 0 + m.cols - plen}) = m.len
    <2>1. m.len \in Nat /\ 0 + m.cols - plen \in Nat /\ m.len <= 0 + m.cols - plen
        BY <1>1, <1>2
    <2> QED BY <2>1, MinOfTwo
<1>5. SubSeq(Text(m), 0 + 1, m.len) = Text(m)
    BY <1>1
<1>6. Window(m, Text(m), m.pos) =
        [text |-> Masked(SubSeq(Text(m), 0 + 1, Min({m.len, 0 + m.cols - plen}))),
         col |-> plen + m.pos - 0]
    BY <1>1, <1>3, Zenon DEF Window
<1>7. SubSeq(Text(m), 0 + 1, Min({m.len, 0 + m.cols - plen})) = Text(m)
    BY <1>4, <1>5, Zenon
<1>8. Window(m, Text(m), m.pos) = [text |-> Masked(Text(m)), col |-> plen + m.pos - 0]
    BY <1>6, <1>7, Zenon
<1>9. plen + m.pos - 0 = plen + m.len
    BY <1>1, <1>2
<1> QED BY <1>8, <1>9

LEMMA MaskedIn ==
    ASSUME NEW t \in Seq(Bytes)
    PROVE  Masked(t) \o <<>> = Masked(t)
<1>1. Masked(t) \in Seq(Bytes \cup {"*"})
    BY DEF Masked
<1> QED BY <1>1, ConcatEmptySeq

\* A character that is only echoed is shown as a redrawing would show it.
LEMMA EchoShows ==
    ASSUME ~mlmode, NEW m, Good(m), ShownRight(m), m.len < buflen, Echoed(m), NEW c \in Bytes,
           NEW k, k = Echo(Inserted(m, c), c)
    PROVE  ShownRight(k)
<1> DEFINE n == Inserted(m, c)
<1>1. Sane(m) /\ Wide(m) /\ m.pos = m.len /\ m.len \in Nat /\ plen \in Nat /\ m.cols \in Nat
      /\ plen + m.len + 1 < m.cols /\ ~hints
    <2>1. Sane(m) /\ Wide(m) /\ m.pos = m.len /\ plen + m.len + 1 < m.cols /\ ~hints
        BY DEF Good, Echoed
    <2>2. plen \in Nat /\ m.cols \in Nat
        BY <2>1, EditorAssumption DEF Wide, DefaultColumns
    <2>3. m.len \in Nat
        BY <2>1, Sizes DEF Sane
    <2> QED BY <2>1, <2>2, <2>3
<1>2. Edited(n, m) /\ n.shown = m.shown
    <2>1. n.shown = m.shown
        BY <1>1 DEF Inserted, Sane, IsRecord
    <2> QED BY <1>1, <2>1, InsertedIn
<1>3. n.len = m.len + 1 /\ n.pos = m.pos + 1 /\ Text(n) = InsertAt(Text(m), m.pos + 1, c)
    BY <1>1, InsertedIs
<1> HIDE DEF n
<1>4. Text(m) \in Seq(Bytes) /\ Len(Text(m)) = m.len
    BY <1>1, TextIn
<1>5. Text(n) = Text(m) \o <<c>>
    <2> DEFINE t == Text(m)
    <2>1. InsertAt(t, m.pos + 1, c)
            = (SubSeq(t, 1, (m.pos + 1) - 1) \o <<c>>) \o SubSeq(t, m.pos + 1, Len(t))
        BY Zenon DEF InsertAt
    <2> HIDE DEF t
    <2>2. t \in Seq(Bytes) /\ Len(t) = m.len
        BY <1>4 DEF t
    <2>3. SubSeq(t, 1, (m.pos + 1) - 1) = t /\ SubSeq(t, m.pos + 1, Len(t)) = <<>>
        BY <1>1, <2>2
    <2>4. t \o <<c>> \in Seq(Bytes)
        BY <2>2
    <2>5. (t \o <<c>>) \o <<>> = t \o <<c>>
        BY <2>4, ConcatEmptySeq
    <2> QED BY <1>3, <2>1, <2>3, <2>5 DEF t
<1>6. Masked(Text(n)) = Masked(Text(m)) \o Masked(<<c>>)
    <2>1. CASE maskmode
        BY <1>4, <1>5, <2>1 DEF Masked
    <2>2. CASE ~maskmode
        BY <1>5, <2>2 DEF Masked
    <2> QED BY <2>1, <2>2
<1>7. Window(m, Text(m), m.pos).text = Masked(Text(m))
      /\ Window(m, Text(m), m.pos).col = plen + m.len
    BY <1>1, WindowIsLine
<1>8. Sane(n) /\ Wide(n) /\ n.pos = n.len /\ n.cols = m.cols /\ plen + n.len < n.cols
    BY <1>1, <1>2, <1>3 DEF Edited, Wide, Keeps
<1>9. Window(n, Text(n), n.pos).text = Masked(Text(n))
      /\ Window(n, Text(n), n.pos).col = plen + n.len
    BY <1>8, WindowIsLine
<1>10. m.shown = [text |-> Masked(Text(m)), col |-> plen + m.len]
    <2>1. refreshShowHints(m, Text(m)) = <<>>
        BY <1>1 DEF refreshShowHints
    <2>2. m.shown = [text |-> Masked(Text(m)) \o <<>>, col |-> plen + m.len]
        BY <1>7, <2>1, Zenon DEF ShownRight, Showing
    <2>3. Masked(Text(m)) \o <<>> = Masked(Text(m))
        BY <1>4, MaskedIn
    <2> QED BY <2>2, <2>3, Zenon
<1>11. k = [n EXCEPT !.shown = [text |-> Masked(Text(n)) \o <<>>, col |-> plen + n.len]]
    <2>1. k = [n EXCEPT !.shown = [text |-> m.shown.text \o Masked(<<c>>), col |-> m.shown.col + 1]]
        <3>1. k = [n EXCEPT !.shown.text = n.shown.text \o Masked(<<c>>),
                            !.shown.col = n.shown.col + 1]
            BY <1>2 DEF Echo, Edited, Sane, IsRecord, n
        <3> DEFINE x == n.shown.text \o Masked(<<c>>)
                   y == n.shown.col + 1
        <3>2. x = m.shown.text \o Masked(<<c>>) /\ y = m.shown.col + 1
            BY <1>2
        <3>3. k = [n EXCEPT !.shown.text = x, !.shown.col = y]
            BY <3>1, Zenon
        <3>4. PICK a, b : n.shown = [text |-> a, col |-> b]
            BY <1>2, <1>10
        <3> HIDE DEF x, y
        <3>5. k = [n EXCEPT !.shown = [text |-> x, col |-> y]]
            BY <1>2, <3>3, <3>4 DEF Edited, Sane, IsRecord
        <3> QED BY <3>2, <3>5, Zenon
    <2>2. Masked(Text(n)) \o <<>> = Masked(Text(n))
        BY <1>4, <1>5, MaskedIn
    <2>3. m.shown.text = Masked(Text(m)) /\ m.shown.col + 1 = plen + n.len
        BY <1>1, <1>3, <1>10
    <2> QED BY <1>6, <2>1, <2>2, <2>3, Zenon
<1>12. SameText(k, n) /\ Keeps(k, n)
    BY <1>2, <1>11 DEF Edited, Sane, IsRecord, SameText, Keeps
<1>13. Window(k, Text(k), k.pos) = Window(n, Text(n), n.pos)
    BY <1>12, SameTexts DEF SameText, Keeps, Window
<1>14. k.shown = [text |-> Masked(Text(n)) \o <<>>, col |-> plen + n.len]
    BY <1>2, <1>11 DEF Edited, Sane, IsRecord
<1>15. refreshShowHints(k, Text(k)) = <<>>
    BY <1>1 DEF refreshShowHints
<1> QED BY <1>9, <1>13, <1>14, <1>15, Zenon DEF ShownRight, Showing

\* the same for the parts of the struct that the functions change
LEMMA ShorterShows ==
    ASSUME ~mlmode, NEW m, IsRecord(m), NEW b, NEW n,
           NEW k, k = refreshLine([m EXCEPT !.buf = b, !.len = n])
    PROVE  ShownRight(k)
<1>1. ASSUME NEW e, e = [m EXCEPT !.buf = b, !.len = n] PROVE IsRecord(e)
    BY <1>1 DEF IsRecord
<1> QED BY <1>1, RefreshShows

LEMMA OtherBytesShow ==
    ASSUME ~mlmode, NEW m, IsRecord(m), NEW b, NEW p,
           NEW k, k = refreshLine([m EXCEPT !.buf = b, !.pos = p])
    PROVE  ShownRight(k)
<1>1. ASSUME NEW e, e = [m EXCEPT !.buf = b, !.pos = p] PROVE IsRecord(e)
    BY <1>1 DEF IsRecord
<1> QED BY <1>1, RefreshShows

LEMMA CutShows ==
    ASSUME ~mlmode, NEW m, IsRecord(m), NEW b, NEW n, NEW p,
           NEW k, k = refreshLine([m EXCEPT !.buf = b, !.pos = p, !.len = n])
    PROVE  ShownRight(k)
<1>1. ASSUME NEW e, e = [m EXCEPT !.buf = b, !.pos = p, !.len = n] PROVE IsRecord(e)
    BY <1>1 DEF IsRecord
<1> QED BY <1>1, RefreshShows

LEMMA EntryShows ==
    ASSUME ~mlmode, NEW m, IsRecord(m), NEW b, NEW n, NEW i,
           NEW k, k = refreshLine([m EXCEPT !.history_index = i, !.buf = b, !.len = n, !.pos = n])
    PROVE  ShownRight(k)
<1>1. ASSUME NEW e, e = [m EXCEPT !.history_index = i, !.buf = b, !.len = n, !.pos = n]
      PROVE  IsRecord(e)
    BY <1>1 DEF IsRecord
<1> QED BY <1>1, RefreshShows

LEMMA InsertShows ==
    ASSUME ~mlmode, NEW m, Good(m), ShownRight(m), NEW c \in Bytes,
           NEW k, k = linenoiseEditInsert(m, c)
    PROVE  ShownRight(k)
<1>1. m.len \in Nat /\ buflen \in Nat /\ Sane(m)
    BY Sizes DEF Good, Sane
<1>2. CASE m.len >= buflen
    BY <1>2 DEF linenoiseEditInsert
<1>3. CASE m.len < buflen
    <2>1. IsRecord(Inserted(m, c))
        BY <1>1, <1>3, InsertedIn DEF Edited, Sane
    <2>2. CASE Echoed(m)
        <3>1. k = Echo(Inserted(m, c), c)
            BY <1>1, <1>3, <2>2 DEF linenoiseEditInsert
        <3> QED BY <1>3, <2>2, <3>1, EchoShows
    <2>3. CASE ~Echoed(m)
        <3>1. k = refreshLine(Inserted(m, c))
            BY <1>1, <1>3, <2>3 DEF linenoiseEditInsert
        <3> QED BY <2>1, <3>1, RefreshShows
    <2> QED BY <2>2, <2>3
<1> QED BY <1>1, <1>2, <1>3

LEMMA MoveShows ==
    ASSUME ~mlmode, NEW m, IsRecord(m), ShownRight(m), NEW p, NEW k, k = MoveTo(m, p)
    PROVE  ShownRight(k)
<1>1. CASE p = m.pos
    BY <1>1 DEF MoveTo
<1>2. CASE p # m.pos
    <2>1. k = refreshLine([m EXCEPT !.pos = p])
        BY <1>2 DEF MoveTo
    <2>2. IsRecord([m EXCEPT !.pos = p])
        BY DEF IsRecord
    <2> QED BY <2>1, <2>2, RefreshShows
<1> QED BY <1>1, <1>2

\* A key redraws the line, or changes nothing.
LEMMA EditKeyShows ==
    ASSUME ~mlmode, NEW m, IsRecord(m), ShownRight(m), NEW key \in EditKeys,
           NEW k, k = EditKey(key, m)
    PROVE  ShownRight(k)
<1>1. CASE key = "BACKSPACE"
    <2>1. k = linenoiseEditBackspace(m)
        BY <1>1 DEF EditKey
    <2>2. k = m \/ \E b, n, p : k = refreshLine(Replaced(m, b, n, p))
        <3>1. k = m \/ \E b : k = refreshLine([m EXCEPT !.buf = b, !.len = @ - 1, !.pos = @ - 1])
            BY <2>1, Zenon DEF linenoiseEditBackspace
        <3> QED BY <3>1 DEF Replaced, IsRecord
    <2> QED BY <2>2, ReplacedShows
<1>2. CASE key = "DELETE"
    <2>1. k = linenoiseEditDelete(m)
        BY <1>2 DEF EditKey
    <2>2. k = m \/ \E b, n : k = refreshLine([m EXCEPT !.buf = b, !.len = n])
        BY <2>1, Zenon DEF linenoiseEditDelete
    <2> QED BY <2>2, ShorterShows
<1>3. CASE key = "TRANSPOSE"
    <2>1. k = Transpose(m)
        BY <1>3 DEF EditKey
    <2>2. k = m \/ \E b, p : k = refreshLine([m EXCEPT !.buf = b, !.pos = p])
        BY <2>1, Zenon DEF Transpose
    <2> QED BY <2>2, OtherBytesShow
<1>4. CASE key \in {"LEFT", "RIGHT", "HOME", "END"}
    <2>1. \E p : k = MoveTo(m, p)
        BY <1>4 DEF EditKey, linenoiseEditMoveLeft, linenoiseEditMoveRight,
                    linenoiseEditMoveHome, linenoiseEditMoveEnd
    <2> QED BY <2>1, MoveShows
<1>5. CASE key = "KILL_LINE"
    <2>1. k = KillLine(m)
        BY <1>5 DEF EditKey
    <2>2. \E b, n, p : k = refreshLine([m EXCEPT !.buf = b, !.pos = p, !.len = n])
        BY <2>1, Zenon DEF KillLine
    <2> QED BY <2>2, CutShows
<1>6. CASE key = "KILL_END"
    <2>1. k = KillEnd(m)
        BY <1>6 DEF EditKey
    <2>2. \E b, n : k = refreshLine([m EXCEPT !.buf = b, !.len = n])
        BY <2>1, Zenon DEF KillEnd
    <2> QED BY <2>2, ShorterShows
<1>7. CASE key = "CLEAR"
    <2> DEFINE n == [m EXCEPT !.row = 1]
    <2>1. k = refreshWithFlags(n, Text(m), m.pos, FALSE, TRUE)
        BY <1>7 DEF EditKey, ClearScreen
    <2>2. IsRecord(n) /\ n.buf = m.buf /\ n.len = m.len /\ n.pos = m.pos
        BY DEF IsRecord
    <2> HIDE DEF n
    <2>3. Text(m) = Text(n)
        BY <2>2, SameTexts
    <2> QED BY <2>1, <2>2, <2>3, RedrawnShows
<1>8. CASE key = "WORD"
    <2>1. k = linenoiseEditDeletePrevWord(m)
        BY <1>8 DEF EditKey
    <2>2. \E b, n, p : k = refreshLine([m EXCEPT !.buf = b, !.pos = p, !.len = n])
        BY <2>1, Zenon DEF linenoiseEditDeletePrevWord
    <2> QED BY <2>2, CutShows
<1> QED BY <1>1, <1>2, <1>3, <1>4, <1>5, <1>6, <1>7, <1>8 DEF EditKeys

\* A completion that ends is followed by a redrawing.
LEMMA AcceptedShows ==
    ASSUME ~mlmode, NEW m, IsRecord(m), ~m.in_completion => ShownRight(m), NEW offered,
           NEW k, k = Accepted(m, offered)
    PROVE  ShownRight(k)
<1>1. CASE ~m.in_completion
    BY <1>1 DEF Accepted
<1>2. CASE m.in_completion
    <2> DEFINE n == [m EXCEPT !.in_completion = FALSE]
    <2>1. \E b, i, p : k = refreshLine(Replaced(n, b, i, p)) \/ k = refreshLine(n)
        BY <1>2, Zenon DEF Accepted, Accepting, Replaced
    <2>2. IsRecord(n)
        BY CompletionEnds
    <2> HIDE DEF n
    <2> QED BY <2>1, <2>2, ReplacedShows, RefreshShows
<1> QED BY <1>1, <1>2

LEMMA HistoryShows ==
    ASSUME ~mlmode, NEW m, IsRecord(m), ShownRight(m), NEW dir, HistoryNext(m, dir)
    PROVE  ShownRight(l')
<1>1. l' = m \/ \E i, b, n : l' = refreshLine([m EXCEPT !.history_index = i, !.buf = b,
                                                        !.len = n, !.pos = n])
    BY Zenon DEF HistoryNext
<1> QED BY <1>1, EntryShows

LEMMA WindowIn ==
    ASSUME NEW m, Sane(m), Wide(m), NEW w, w = Window(m, Text(m), m.pos)
    PROVE  w = [text |-> w.text \o <<>>, col |-> w.col]
<1> DEFINE left == AtLeast0(plen + m.pos + 1 - m.cols)
           last == Min({Len(Text(m)), left + m.cols - plen})
           t == SubSeq(Text(m), left + 1, last)
<1>1. Text(m) \in Seq(Bytes) /\ Len(Text(m)) = m.len /\ m.len \in Nat /\ m.pos \in Nat
    BY TextIn, Sizes DEF Sane
<1>2. left \in Nat /\ left + m.cols - plen \in Nat
    <2>1. m.cols \in Nat /\ plen \in Nat /\ plen < m.cols
        BY EditorAssumption DEF Wide, DefaultColumns
    <2>2. left \in Nat
        BY <1>1, <2>1 DEF AtLeast0
    <2> HIDE DEF left
    <2> QED BY <2>1, <2>2
<1>3. w = [text |-> Masked(t), col |-> plen + m.pos - left]
    BY Zenon DEF Window
<1> HIDE DEF left
<1>4. last \in Nat /\ last <= Len(Text(m))
    BY <1>1, <1>2, MinOfTwo
<1> HIDE DEF last
<1>5. t \in Seq(Bytes)
    BY <1>1, <1>2, <1>4
<1> HIDE DEF t
<1>6. w.text = Masked(t) /\ w.col = plen + m.pos - left
    BY <1>3
<1> QED BY <1>3, <1>5, <1>6, MaskedIn, Zenon

\* When ENTER has been handled the hint is gone.
LEMMA EnteredShows ==
    ASSUME ~mlmode, NEW m, Good(m), ShownRight(m), NEW k, k = Entered(m)
    PROVE  k.shown = Showing(k, <<>>)
<1>1. CASE ~hints
    <2>1. k = m
        BY <1>1 DEF Entered
    <2>2. refreshShowHints(m, Text(m)) = <<>>
        BY <1>1 DEF refreshShowHints
    <2> QED BY <2>1, <2>2, Zenon DEF ShownRight
<1>2. CASE hints
    <2> DEFINE w == Window(m, Text(m), m.pos)
    <2>1. k = [m EXCEPT !.shown = w]
        BY <1>2 DEF Entered
    <2>2. k.shown = w /\ k.buf = m.buf /\ k.len = m.len /\ k.pos = m.pos /\ k.cols = m.cols
        BY <2>1 DEF Good, Sane, IsRecord
    <2>3. Text(k) = Text(m)
        BY <2>2, SameTexts
    <2>4. w = Window(k, Text(k), k.pos)
        BY <2>2, <2>3, Zenon DEF Window
    <2>5. Showing(k, <<>>) = [text |-> w.text \o <<>>, col |-> w.col]
        BY <2>4, Zenon DEF Showing
    <2> QED BY <2>2, <2>5, WindowIn DEF Good
<1> QED BY <1>1, <1>2

\* The modes that say what is shown stay the same while a line is edited.
LEMMA SameModes ==
    ASSUME UNCHANGED setting
    PROVE  /\ ShownRight(l') => ShownRight(l)'
           /\ l'.shown = Showing(l', <<>>) => (l.shown = Showing(l, <<>>))'
<1>1. hints' = hints /\ maskmode' = maskmode
    BY DEF setting
<1> QED BY <1>1 DEF ShownRight, Showing, Window, Masked, refreshShowHints, Text

SInv == IInv /\ ScreenShowsLine

LEMMA KeysShow ==
    ASSUME SInv, FeedEdit \/ FeedChar \/ FeedOddByte \/ FeedTab \/ FeedEscape
                 \/ FeedInterrupt \/ ReadFails \/ FeedHistory
    PROVE  ScreenShowsLine'
<1> SUFFICES ASSUME (~mlmode /\ rawmode /\ ~l.in_completion)'
             PROVE  /\ pc' = "editing" => ShownRight(l)'
                    /\ pc' = "returned" /\ line' # NoLine => (l.shown = Showing(l, <<>>))'
    BY DEF ScreenShowsLine
<1>1. Reading /\ Fed
    BY DEF FeedEdit, FeedChar, FeedOddByte, FeedTab, FeedEscape, FeedInterrupt, ReadFails,
           FeedHistory
<1>2. UNCHANGED setting /\ ~mlmode /\ rawmode /\ pc = "editing"
    BY <1>1 DEF Fed, setting, terminal, Reading
<1>3. Good(l) /\ IsRecord(l) /\ (~l.in_completion => ShownRight(l))
    BY <1>2, GoodLine DEF SInv, ScreenShowsLine, Good, Sane
<1>4. ASSUME NEW offered
      PROVE  ShownRight(Accepted(l, offered))
    BY <1>2, <1>3, AcceptedShows
<1>5. ASSUME NEW offered \in Offer, Fits(offered)
      PROVE  Good(Accepted(l, offered)) /\ IsRecord(Accepted(l, offered))
    BY <1>1, <1>5, AcceptedLine DEF SInv, Good, Sane
<1>6. CASE FeedEdit
    <2>1. ShownRight(l') /\ UNCHANGED <<pc, line>>
        BY <1>2, <1>4, <1>5, <1>6, EditKeyShows DEF FeedEdit
    <2> QED BY <1>2, <2>1, SameModes
<1>7. CASE FeedChar
    <2>1. PICK c \in Bytes, offered \in Offer :
            /\ Fits(offered) /\ l' = linenoiseEditInsert(Accepted(l, offered), c)
            /\ UNCHANGED <<pc, line>> \/ Returns(NoLine)
        BY <1>7 DEF FeedChar
    <2>2. ShownRight(l')
        BY <1>2, <1>4, <1>5, <2>1, InsertShows
    <2> QED BY <1>2, <2>1, <2>2, SameModes DEF Returns
<1>8. CASE FeedOddByte \/ FeedInterrupt
    <2>1. ShownRight(l') /\ (UNCHANGED <<pc, line>> \/ Returns(NoLine))
        BY <1>4, <1>8 DEF FeedOddByte, FeedInterrupt
    <2> QED BY <1>2, <2>1, SameModes DEF Returns
<1>9. CASE FeedTab
    <2> DEFINE i == IF l.in_completion THEN (l.completion_idx + 1) % (Len(Completions) + 1) ELSE 0
               m == Completing(l, i)
    <2>1. l' = refreshWithCompletion(m, Completions, TRUE)
        BY <1>3, <1>9 DEF FeedTab, IsRecord, Completing
    <2>2. IsRecord(m) /\ m.in_completion = TRUE
        BY <1>3, CompletionGoesOn
    <2> HIDE DEF m
    <2>3. l'.in_completion = TRUE
        BY <2>1, <2>2, RefreshKeeps DEF refreshWithCompletion, Keeps
    <2> QED BY <2>3
<1>10. CASE FeedEscape
    <2>1. l' = refreshLine([l EXCEPT !.in_completion = FALSE]) /\ UNCHANGED <<pc, line>>
        BY <1>10 DEF FeedEscape
    <2>2. IsRecord([l EXCEPT !.in_completion = FALSE])
        BY <1>3, CompletionEnds
    <2>3. ShownRight(l')
        BY <1>2, <2>1, <2>2, RefreshShows
    <2> QED BY <1>2, <2>1, <2>3, SameModes
<1>11. CASE ReadFails
    BY <1>2, <1>11 DEF ReadFails, Returns
<1>12. CASE FeedHistory
    <2>1. ShownRight(l') /\ UNCHANGED <<pc, line>>
        BY <1>2, <1>4, <1>5, <1>12, HistoryShows DEF FeedHistory
    <2> QED BY <1>2, <2>1, SameModes
<1> QED BY <1>6, <1>7, <1>8, <1>9, <1>10, <1>11, <1>12

LEMMA EndsShow ==
    ASSUME SInv, FeedEnter \/ FeedEof
    PROVE  ScreenShowsLine'
<1> SUFFICES ASSUME (~mlmode /\ rawmode /\ ~l.in_completion)'
             PROVE  /\ pc' = "editing" => ShownRight(l)'
                    /\ pc' = "returned" /\ line' # NoLine => (l.shown = Showing(l, <<>>))'
    BY DEF ScreenShowsLine
<1>1. Reading /\ Fed
    BY DEF FeedEnter, FeedEof
<1>2. UNCHANGED setting /\ ~mlmode /\ rawmode /\ pc = "editing"
    BY <1>1 DEF Fed, setting, terminal, Reading
<1>3. IsRecord(l) /\ (~l.in_completion => ShownRight(l)) /\ history # <<>>
    BY <1>2, GoodLine DEF SInv, ScreenShowsLine, Good, Sane, IInv, Entries, Editing
<1>4. CASE FeedEnter
    <2>1. PICK offered \in Offer :
            /\ Fits(offered) /\ l' = Entered(Accepted(l, offered))
            /\ history # <<>> => Returns(<<CString(Accepted(l, offered).buf)>>)
        BY <1>4 DEF FeedEnter
    <2>2. Good(Accepted(l, offered)) /\ ShownRight(Accepted(l, offered))
        BY <1>1, <1>2, <1>3, <2>1, AcceptedLine, AcceptedShows DEF SInv
    <2>3. l'.shown = Showing(l', <<>>)
        BY <1>2, <2>1, <2>2, EnteredShows
    <2> QED BY <1>2, <1>3, <2>1, <2>3, SameModes DEF Returns
<1>5. CASE FeedEof
    BY <1>3, <1>5 DEF FeedEof, Returns
<1> QED BY <1>4, <1>5

LEMMA StartShows ==
    ASSUME SInv, linenoiseEditStart
    PROVE  ScreenShowsLine'
<1>1. PICK t \in Terminals :
        /\ l' = [linenoiseState EXCEPT !.buf = [l.buf EXCEPT ![0] = NUL],
                                       !.cols = getColumns(t), !.shown.col = plen]
        /\ pc' = "editing" /\ UNCHANGED setting
    BY DEF linenoiseEditStart
<1>2. /\ l'.shown = [text |-> <<>>, col |-> plen]
      /\ l'.len = 0 /\ l'.pos = 0 /\ l'.cols = getColumns(t)
    BY <1>1 DEF linenoiseState, Blank
<1>3. Sane(l') /\ Wide(l') /\ plen + 0 = plen
    BY StartKeeps, EditorAssumption DEF SInv, IInv, DefaultColumns
<1>4. Text(l') = <<>>
    BY <1>2, EmptyText
<1>5. Window(l', Text(l'), l'.pos).text = Masked(<<>>)
      /\ Window(l', Text(l'), l'.pos).col = plen
    <2>1. plen + l'.len < l'.cols /\ l'.pos = l'.len
        BY <1>2, <1>3 DEF Wide
    <2> QED BY <1>2, <1>3, <1>4, <2>1, WindowIsLine
<1>6. Masked(<<>>) \o <<>> = <<>>
    BY DEF Masked
<1>7. l'.shown = Showing(l', <<>>)
    BY <1>2, <1>5, <1>6, Zenon DEF Showing
<1>8. ShownRight(l')
    BY <1>2, <1>7 DEF ShownRight
<1> QED BY <1>1, <1>8, SameModes DEF ScreenShowsLine

LEMMA HidingShows ==
    ASSUME SInv, linenoiseHide \/ linenoiseShow
    PROVE  ScreenShowsLine'
<1>1. CASE linenoiseHide
    BY <1>1 DEF linenoiseHide, ScreenShowsLine
<1>2. CASE linenoiseShow
    <2>1. PICK offered \in Offer :
          /\ pc' = "editing" /\ UNCHANGED setting
          /\ l' = IF l.in_completion THEN refreshWithCompletion(l, offered, FALSE)
                  ELSE refreshWithFlags(l, Text(l), l.pos, FALSE, TRUE)
        BY <1>2 DEF linenoiseShow, Fed
    <2>2. IsRecord(l)
        BY DEF SInv, IInv, Sane
    <2>3. CASE l.in_completion
        <3>1. l'.in_completion = l.in_completion
            BY <2>1, <2>2, <2>3, RefreshKeeps DEF refreshWithCompletion, Keeps
        <3> QED BY <2>3, <3>1 DEF ScreenShowsLine
    <2>4. CASE ~l.in_completion
        <3>1. ~mlmode => ShownRight(l')
            BY <2>1, <2>2, <2>4, RedrawnShows
        <3> QED BY <2>1, <3>1, SameModes DEF ScreenShowsLine, setting
    <2> QED BY <2>3, <2>4
<1> QED BY <1>1, <1>2

\* No other step touches the line, and none changes how it is shown while it
\* is on a raw terminal.
LEMMA OthersShow ==
    ASSUME SInv, FeedNoTTY \/ TakeLine \/ linenoiseBlockingEdit \/ PlainLine
                 \/ linenoiseSetMultiLine \/ linenoiseMaskMode \/ linenoiseSetHintsCallback
                 \/ KeepLine \/ linenoiseHistorySetMaxLen \/ linenoiseHistoryLoad
                 \/ linenoisePrintKeyCodes \/ QuitTyped \/ Exit
    PROVE  ScreenShowsLine'
<1>1. CASE FeedNoTTY
    BY <1>1 DEF FeedNoTTY, Fed, terminal, SInv, IInv, Raw, ScreenShowsLine
<1>2. CASE TakeLine \/ linenoiseBlockingEdit
    BY <1>2 DEF TakeLine, linenoiseBlockingEdit, ScreenShowsLine
<1>3. CASE PlainLine \/ KeepLine \/ linenoiseHistorySetMaxLen
    BY <1>3 DEF PlainLine, KeepLine, linenoiseHistorySetMaxLen, ScreenShowsLine
<1>4. CASE linenoiseSetMultiLine \/ linenoiseMaskMode \/ linenoiseSetHintsCallback
    BY <1>4 DEF linenoiseSetMultiLine, linenoiseMaskMode, linenoiseSetHintsCallback, Between,
                ScreenShowsLine
<1>5. CASE linenoiseHistoryLoad \/ linenoisePrintKeyCodes \/ QuitTyped \/ Exit
    BY <1>5 DEF linenoiseHistoryLoad, linenoisePrintKeyCodes, QuitTyped, Exit, ScreenShowsLine
<1> QED BY <1>1, <1>2, <1>3, <1>4, <1>5

LEMMA SameShows ==
    ASSUME SInv, GdbExit \/ UNCHANGED vars
    PROVE  ScreenShowsLine'
<1>1. /\ l' = l /\ pc' = pc /\ line' = line /\ mlmode' = mlmode /\ rawmode' = rawmode
      /\ UNCHANGED setting
    BY DEF GdbExit, vars, setting, terminal
<1> QED BY <1>1, SameModes DEF SInv, ScreenShowsLine

\* On a terminal of any width, with any callback for hints, the terminal
\* shows the line with the hint for it, whatever was typed, completed, taken
\* from the history, hidden or only echoed.
THEOREM ScreenIsTrue == Spec => []ScreenShowsLine
<1>1. Init => SInv \/ Overrun
    BY InitHolds DEF Init, SInv, ScreenShowsLine
<1>2. SInv /\ [Next]_vars => SInv' \/ Overrun'
    BY NextKeeps, OverrunBegins, KeysShow, EndsShow, StartShows, HidingShows, OthersShow,
       SameShows
    DEF SInv, Next
<1>3. SInv \/ Overrun => ScreenShowsLine
    BY DEF SInv, Overrun, ScreenShowsLine
<1>4. (SInv \/ Overrun) /\ [Next]_vars => (SInv \/ Overrun)'
    BY <1>2, OverrunStays
<1> QED BY <1>1, <1>3, <1>4, PTL DEF Spec
=============================================================================
