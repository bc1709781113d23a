----------------------------- MODULE TextField -----------------------------
(***************************************************************************)
(* What a line editor promises its user: a text of bounded length with a   *)
(* cursor in it, changed at the cursor or exchanged for another text.      *)
(* LineEditor implements it with a byte array and moves of memory.         *)
(***************************************************************************)
EXTENDS Naturals, Sequences, SequencesExt

CONSTANTS
    Bytes,     \* what the text is made of
    MaxLen,    \* its greatest length
    Offers     \* the texts that completion may put in its place

VARIABLES text, cursor

Lines == UNION {[1 .. n -> Bytes] : n \in 0 .. MaxLen}

Init == text = <<>> /\ cursor = 0

\* The changes below are made to a text t with the cursor at c.
Insert(t, c) == /\ Len(t) < MaxLen
                /\ \E b \in Bytes : text' = InsertAt(t, c + 1, b)
                /\ cursor' = c + 1

Move(t, c) == text' = t /\ cursor' \in 0 .. Len(t)

\* what lies between the cursor and some other place goes
Erase(t, c) == \E p \in 0 .. Len(t) :
    LET from == IF p < c THEN p ELSE c
        to == IF p < c THEN c ELSE p
    IN /\ text' = SubSeq(t, 1, from) \o SubSeq(t, to + 1, Len(t))
       /\ cursor' = from

Clear == text' = <<>> /\ cursor' = 0

\* the characters on both sides of the cursor change places
Transpose(t, c) == /\ c \in 1 .. Len(t) - 1
                   /\ text' = [t EXCEPT ![c] = t[c + 1], ![c + 1] = t[c]]
                   /\ cursor' = IF c = Len(t) - 1 THEN c ELSE c + 1

Replace == text' \in Lines /\ cursor' = Len(text')

Edit(t, c) == Insert(t, c) \/ Move(t, c) \/ Erase(t, c) \/ Transpose(t, c)

Next == Clear \/ Replace \/ Edit(text, cursor) \/ \E t \in Offers : Edit(t, Len(t))

Spec == Init /\ [][Next]_<<text, cursor>>
=============================================================================
