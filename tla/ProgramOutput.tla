--------------------------- MODULE ProgramOutput ---------------------------
(***************************************************************************)
(* The way of the debuggee's output: the program writes, LLDB keeps the    *)
(* text and sends an event, and the listener fetches it into a buffer,     *)
(* takes the \r out of every \r\n in place and writes the result to the    *)
(* client's pty (processListener in events.cpp, writelog in log.cpp).      *)
(***************************************************************************)
EXTENDS Integers, Sequences, SequencesExt, FiniteSets

CONSTANTS
    LINE_MAX,     \* size of iobuffer
    Chars,        \* what a program writes besides the ends of lines
    MaxText,      \* bound: characters the program writes at once
    MaxEvents     \* bound: events waiting for the listener

NUL == "NUL"
CR == "\r"
LF == "\n"

\* MaxText is less than LINE_MAX: a text that fills iobuffer leaves no NUL in it, and
\* the copying loop runs on into the stack, which is not modelled.

\* The debuggee's terminal writes \r\n for every \n of the program.
Terminal(text) == FlattenSeq([i \in DOMAIN text |-> IF text[i] = LF THEN <<CR, LF>> ELSE <<text[i]>>])
Texts == {t \in {Terminal(x) : x \in UNION {[1..n -> Chars \cup {LF}] : n \in 1..MaxText}} :
              Len(t) <= MaxText}

VARIABLES
    stdout, stderr,   \* what LLDB has read from the program and keeps
    events,           \* the events for the listener
    iobuffer,         \* the listener's buffer, never cleared
    given,            \* what the last GetSTDOUT returned
    sent              \* what was written to the pty for it

vars == <<stdout, stderr, events, iobuffer, given, sent>>

\* The stack of a new thread is empty pages.
Init ==
    /\ stdout = <<>> /\ stderr = <<>> /\ events = <<>>
    /\ iobuffer = [i \in 1..LINE_MAX |-> NUL]
    /\ given = <<>> /\ sent = <<>>

ProgramWrites(text) ==
    /\ Len(events) < MaxEvents /\ Len(stdout) + Len(text) <= MaxText
    /\ stdout' = stdout \o text /\ events' = Append(events, "STDOUT")
    /\ UNCHANGED <<stderr, iobuffer, given, sent>>

ProgramComplains(text) ==
    /\ Len(events) < MaxEvents /\ Len(stderr) + Len(text) <= MaxText
    /\ stderr' = stderr \o text /\ events' = Append(events, "STDERR")
    /\ UNCHANGED <<stdout, iobuffer, given, sent>>

\* The loop that removes \r: it copies up to the first NUL, wherever that is.
Dropped(buffer) ==
    LET end == SelectInSeq(buffer, LAMBDA c : c = NUL)
    IN  {i \in 1..(end - 1) : buffer[i] = CR /\ buffer[i + 1] = LF}
Squeezed(buffer) ==
    LET end == SelectInSeq(buffer, LAMBDA c : c = NUL)
        kept == SelectSeq([i \in 1..end |-> i], LAMBDA i : i \notin Dropped(buffer))
    IN  [i \in DOMAIN buffer |-> IF i \in DOMAIN kept THEN buffer[kept[i]] ELSE buffer[i]]

\* The output events: both fetch the standard output.
Relay ==
    /\ events # <<>> /\ Head(events) # "OTHER"
    /\ LET iobytes == IF Len(stdout) < LINE_MAX THEN Len(stdout) ELSE LINE_MAX
           filled == [i \in 1..LINE_MAX |-> IF i <= iobytes THEN stdout[i] ELSE iobuffer[i]]
       IN  /\ given' = SubSeq(stdout, 1, iobytes)
           /\ stdout' = SubSeq(stdout, iobytes + 1, Len(stdout))
           /\ IF iobytes > 0
              THEN /\ iobuffer' = Squeezed(filled)
                   /\ sent' = SubSeq(iobuffer', 1, iobytes - Cardinality(Dropped(filled)))
              ELSE sent' = <<>> /\ UNCHANGED iobuffer
    /\ events' = Tail(events)
    /\ UNCHANGED stderr

\* An event that is only logged (interrupt, profile data)
ProcessReports ==
    /\ Len(events) < MaxEvents /\ events' = Append(events, "OTHER")
    /\ UNCHANGED <<stdout, stderr, iobuffer, given, sent>>
IgnoreEvent ==
    /\ events # <<>> /\ Head(events) = "OTHER" /\ events' = Tail(events)
    /\ UNCHANGED <<stdout, stderr, iobuffer, given, sent>>

Next ==
    \/ \E text \in Texts : ProgramWrites(text) \/ ProgramComplains(text)
    \/ ProcessReports \/ Relay \/ IgnoreEvent

Spec == Init /\ [][Next]_vars

-----------------------------------------------------------------------------
\* "pass stdout and stderr from application to pty" (events.cpp:135) but for the \r
\* that is removed (events.cpp:144): every text fetched arrives whole.
LineEnds(text) == {i \in 1..(Len(text) - 1) : text[i] = CR /\ text[i + 1] = LF}
PassedOn ==
    LET kept == SelectSeq([i \in DOMAIN given |-> i], LAMBDA i : i \notin LineEnds(given))
    IN  sent = [i \in DOMAIN kept |-> given[kept[i]]]
=============================================================================
