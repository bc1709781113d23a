------------------------------- MODULE StringB -------------------------------
(***************************************************************************)
(* StringB (stringb.cpp), the growing buffer behind every input line and   *)
(* every MI record, reduced to its sizes: the bytes allocated, the length  *)
(* the object reports, the length of the text it really holds, and the     *)
(* last byte the latest operation wrote.  Memory allocation does not fail. *)
(***************************************************************************)
EXTENDS Integers

CONSTANTS
    BIG_LIMIT,     \* the most a buffer may grow to
    Sizes,         \* initial sizes (BIG_LINE_MAX, NAME_MAX, ...)
    Lengths,       \* lengths of the strings copied, appended and formatted
    RespectLimit   \* whether callers keep every text shorter than BIG_LIMIT

ASSUME StringBAssumption ==
    /\ BIG_LIMIT \in Nat
    /\ Sizes \subseteq 1 .. BIG_LIMIT
    /\ Lengths \subseteq Nat
    /\ RespectLimit \in BOOLEAN

VARIABLES
    capacity,   \* buffer_capacity
    size,       \* buffer_size
    text,       \* strlen(buffer_array)
    top         \* index of the last byte written by the latest operation

\* the members of the class
members == <<capacity, size, text, top>>

StringTypeOK == capacity \in Nat /\ size \in Nat /\ text \in Nat /\ top \in Nat

Larger(a, b) == IF a > b THEN a ELSE b
Smaller(a, b) == IF a < b THEN a ELSE b

\* Mutant: growth by what is asked for only, forgetting what is in use.
GrownToSize(c, at_least) == Smaller(Larger(c, at_least), BIG_LIMIT)

\* The capacity after grow (at_least) from capacity c.
Grown(c, at_least) == Smaller(c + Larger(at_least, c), BIG_LIMIT)

\* The constructor with a size, followed by the first clear.
StringInit ==
    /\ \E n \in Sizes : capacity = Grown(0, n)
    /\ size = 0 /\ text = 0 /\ top = 0

Allowed(end) == RespectLimit => end < BIG_LIMIT

\* copyat, at the start (copy) or at the end (append); strcpy copies all of
\* the string, whatever grow came up with.
Copyat(offset, length) ==
    /\ Allowed(offset + length)
    /\ capacity' = IF offset + length >= capacity THEN Grown(capacity, length + 1)
                                                  ELSE capacity
    /\ size' = offset + length
    /\ text' = offset + length
    /\ top' = offset + length

\* Mutant: room is made for the character and not for the terminator.
AppendCharNoTerminator ==
    /\ Allowed(size + 1)
    /\ capacity' = IF size >= capacity THEN Grown(capacity, 1) ELSE capacity
    /\ size' = size + 1
    /\ text' = size + 1
    /\ top' = size + 1

AppendChar ==
    /\ Allowed(size + 1)
    /\ capacity' = IF size + 1 >= capacity THEN Grown(capacity, 1) ELSE capacity
    /\ size' = size + 1
    /\ text' = size + 1
    /\ top' = size + 1

\* vsnprintf into c - offset bytes writes at most that many.  A negative count
\* becomes a huge size_t, and everything is written.
LastWritten(offset, length, c) ==
    IF offset > c THEN offset + length ELSE Smaller(offset + length, c - 1)

\* vosprintf, at the start (sprintf) or at the end (catsprintf): a result that
\* did not fit is formatted again after the buffer has grown.
Vosprintf(offset, length) ==
    /\ Allowed(offset + length)
    /\ capacity' = IF length > capacity - offset - 1 THEN Grown(capacity, length)
                                                    ELSE capacity
    /\ size' = offset + length
    /\ text' = LastWritten(offset, length, capacity')
    /\ top' = Larger(LastWritten(offset, length, capacity),
                     LastWritten(offset, length, capacity'))

\* clear: bytes are removed at start and the rest is moved up.
Clear(bytes, start) ==
    /\ start <= size
    /\ IF start + bytes >= size
       THEN size' = start /\ text' = start /\ top' = start
       ELSE size' = size - bytes /\ text' = text - bytes /\ top' = text - bytes
    /\ UNCHANGED capacity

StringNext ==
    \/ \E n \in Lengths : Copyat(0, n) \/ Copyat(size, n)
    \/ AppendChar
    \/ \E n \in Lengths : Vosprintf(0, n) \/ Vosprintf(size, n)
    \/ \E n \in Lengths \cup {BIG_LIMIT} : \E s \in 0 .. size : Clear(n, s)

StringSpec == StringInit /\ [][StringNext]_members

-----------------------------------------------------------------------------
\* No operation writes behind the allocated bytes: "protection" is the comment
\* on BIG_LIMIT in stringb.h, and grow is called whenever room is short.
MemorySafe == top < capacity

\* The length a buffer reports is the length of the text it holds, and the
\* terminator has its place: a record that is written is never a part of one.
WholeText == size = text /\ size < capacity
=============================================================================
