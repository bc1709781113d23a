--------------------------- MODULE CommandBuffer ---------------------------
(***************************************************************************)
(* How lldbmi2 turns the bytes it reads from CDT's pty into commands: the  *)
(* main loop of main (lldbmi2.cpp) and the beginning of fromCDT            *)
(* (engine.cpp), which appends a chunk to STATE.cdtbufferB and takes the   *)
(* first complete line out of it.  A chunk is whatever read returns: part  *)
(* of a line, a line, or several with part of another.                     *)
(***************************************************************************)
EXTENDS Naturals, Sequences, FiniteSets

CONSTANTS
    Chars,      \* the characters of commands; without CR and NL
    CR, NL,
    ExitLine,   \* the line of -gdb-exit
    Chunks,     \* what one read may return; never empty
    MaxInput    \* bound: bytes the client sends

ASSUME BufferAssumption ==
    /\ Chunks \subseteq Seq(Chars \cup {CR, NL}) \ {<<>>}
    /\ NL \notin Chars \cup {CR}

VARIABLES
    received,   \* history: every byte read
    executed,   \* history: every line handed to evalCDTCommand
    buffer,     \* cdtbufferB
    eof,
    pc          \* where the main loop is

vars == <<received, executed, buffer, eof, pc>>

Text == Seq(Chars \cup {CR, NL})

TypeOK ==
    /\ received \in Text /\ buffer \in Text
    /\ executed \in Seq(Seq(Chars \cup {CR}))
    /\ eof \in BOOLEAN
    /\ pc \in {"select", "drain", "stacked", "unstack", "left"}

Init == /\ received = <<>> /\ executed = <<>> /\ buffer = <<>>
        /\ eof = FALSE /\ pc = "select"

Lines(b) == {i \in 1 .. Len(b) : b[i] = NL}
Complete(b) == Lines(b) # {}

FirstLine(b) == CHOOSE i \in Lines(b) : \A j \in Lines(b) : i <= j

\* "remove trailing \r and \n"
Strip(line) ==
    LET kept == {n \in 0 .. Len(line) : \A i \in n + 1 .. Len(line) : line[i] = CR}
    IN  SubSeq(line, 1, CHOOSE n \in kept : \A m \in kept : n <= m)

\* Mutant: what follows the first line is thrown away with it.
FromCDTOneLine(data, more, wait) ==
    LET b == buffer \o data
    IN  \/ /\ ~Complete(b)
           /\ buffer' = b /\ pc' = wait
           /\ UNCHANGED <<executed, eof>>
        \/ /\ Complete(b)
           /\ LET line == Strip(SubSeq(b, 1, FirstLine(b) - 1))
              IN  /\ executed' = Append(executed, line)
                  /\ eof' = (eof \/ line = ExitLine)
           /\ buffer' = <<>>
           /\ pc' = wait

\* fromCDT: the caller goes on at more after MORE_DATA, at wait otherwise.
FromCDT(data, more, wait) ==
    LET b == buffer \o data
    IN  \/ /\ ~Complete(b)
           /\ buffer' = b /\ pc' = wait
           /\ UNCHANGED <<executed, eof>>
        \/ /\ Complete(b)
           /\ LET line == Strip(SubSeq(b, 1, FirstLine(b) - 1))
              IN  /\ executed' = Append(executed, line)
                  /\ eof' = (eof \/ line = ExitLine)
           /\ buffer' = SubSeq(b, FirstLine(b) + 1, Len(b))
           /\ pc' = IF buffer' = <<>> THEN wait ELSE more

\* Mutant: a chunk is read and only its first command executed.
ReadPtyOnce(chunk) ==
    /\ pc = "select" /\ ~eof
    /\ Len(received) + Len(chunk) <= MaxInput
    /\ received' = received \o chunk
    /\ FromCDT(chunk, "select", "select")

\* select reports data on the pty; the chunk goes to fromCDT, and what it
\* leaves is worked off without a look at eof.
ReadPty(chunk) ==
    /\ pc = "select" /\ ~eof
    /\ Len(received) + Len(chunk) <= MaxInput
    /\ received' = received \o chunk
    /\ FromCDT(chunk, "drain", "stacked")

Drain ==
    /\ pc = "drain"
    /\ FromCDT(<<>>, "drain", "stacked")
    /\ UNCHANGED received

\* "execute stacked commands if many command arrived once"
Stacked ==
    /\ pc \in {"stacked", "unstack"}
    /\ pc = "stacked" => ~eof /\ buffer # <<>>
    /\ FromCDT(<<>>, "unstack", "select")
    /\ UNCHANGED received

NothingStacked ==
    /\ pc = "stacked" /\ (eof \/ buffer = <<>>)
    /\ pc' = "select"
    /\ UNCHANGED <<received, executed, buffer, eof>>

\* The listener thread, or an empty line on the terminal, ends the session.
EofElsewhere ==
    /\ pc # "left" /\ ~eof
    /\ eof' = TRUE
    /\ UNCHANGED <<received, executed, buffer, pc>>

Leave ==
    /\ pc = "select" /\ eof
    /\ pc' = "left"
    /\ UNCHANGED <<received, executed, buffer, eof>>

Step == Drain \/ Stacked \/ NothingStacked \/ Leave
Next == (\E chunk \in Chunks : ReadPty(chunk)) \/ Step \/ EofElsewhere

Spec == Init /\ [][Next]_vars /\ WF_vars(Step)

-----------------------------------------------------------------------------
\* Every line the client sent is executed at most once, in the order sent and
\* undamaged, however the bytes were cut into chunks; what has not been
\* executed is in the buffer.
LineEnd(n) == IF n = 0 THEN 0
              ELSE CHOOSE i \in Lines(received) :
                      Cardinality({j \in Lines(received) : j <= i}) = n

InOrder ==
    LET n == Len(executed)
    IN  /\ n <= Cardinality(Lines(received))
        /\ \A k \in 1 .. n :
              executed[k] = Strip(SubSeq(received, LineEnd(k - 1) + 1, LineEnd(k) - 1))
        /\ buffer = SubSeq(received, LineEnd(n) + 1, Len(received))

\* The main loop never goes back to sleep in select on a complete command.
NothingWaits == pc = "select" /\ ~eof => ~Complete(buffer)

\* A complete line is executed, unless the session ends first.
LinesAreExecuted ==
    Complete(buffer) ~> ~Complete(buffer) \/ eof
=============================================================================
