---------------------------- MODULE TestScripts ----------------------------
(***************************************************************************)
(* The sources of commands in test mode (test.cpp): the built-in           *)
(* sequences, and script files, which hold commands, or are the log file   *)
(* of an earlier session (log.cpp), whose commands are then replayed.      *)
(*                                                                         *)
(* A command, a line of a file and a text are sequences of tokens: the     *)
(* characters the code looks at are tokens of their own, and a kind of     *)
(* command is one token.                                                   *)
(***************************************************************************)
EXTENDS Naturals, SequencesExt, TLC

CONSTANT WITH_LO_TESTS     \* a developer's build has one more sequence
ASSUME TestAssumption == WITH_LO_TESTS \in BOOLEAN

Digit == "0"
Space == " "
Tab == "TAB"
Bar == "|"
Slashes == "//"
CDT_IN == ">>="

(***************************************************************************)
(* The kinds of commands: "setup" (-environment-cd, -file-exec-and-symbols,*)
(* -gdb-set, -inferior-tty-set and the like), "break" (also catch), "ask"  *)
(* (an answer that needs no program, -list-thread-groups for example),     *)
(* "look" (an answer about a stopped program: threads, frames, variables), *)
(* "setenv", and those that move the program.                              *)
(***************************************************************************)
Kinds == {"setup", "break", "ask", "look", "setenv",
          "run", "attach", "continue", "step", "kill", "exit"}
Resumes == {"run", "attach", "continue", "step"}

\* n commands of one kind
Some(n, kind) == [i \in 1 .. n |-> kind]

testcommands_NONE == Some(4, "setup") \o <<"run", "exit">>

testcommands_THREAD ==
    Some(3, "setup") \o Some(2, "break") \o <<"setup", "run", "ask">>
    \o Some(3, "look") \o <<"step">> \o Some(4, "look") \o Some(2, "step")
    \o <<"continue">> \o Some(2, "look")
    \o <<"continue", "kill", "look", "continue", "exit">>

testcommands_VARS ==
    Some(3, "setup") \o <<"break", "setup", "run">> \o Some(5, "look")
    \o <<"exit">>

testcommands_UPDATE ==
    Some(3, "setup") \o <<"break", "setup", "run">> \o Some(7, "look")
    \o <<"step">> \o Some(4, "look") \o <<"exit">>

testcommands_LARGE_CHAR_ARRAY ==
    Some(3, "setup") \o <<"break", "run">> \o Some(6, "look")
    \o <<"step">> \o Some(5, "look") \o <<"exit">>

testcommands_LARGE_ARRAY ==
    Some(3, "setup") \o <<"break", "run", "look", "look", "exit">>

testcommands_POINTERS ==
    LET Display(n) == <<"ask">> \o Some(n, "look")
    IN  Some(3, "setup") \o <<"break", "run">> \o Display(6)
        \o <<"step">> \o Display(5) \o <<"step">> \o Display(5)
        \o <<"step">> \o Display(5) \o <<"exit">>

testcommands_ATTACH ==
    <<"setup", "attach", "break", "setup">> \o Some(3, "look")
    \o <<"ask", "look", "look", "exit">>

testcommands_MEMBERS ==
    Some(3, "setup") \o <<"ask", "break", "run", "ask">> \o Some(6, "look")
    \o <<"step", "look">> \o Some(3, "step") \o <<"exit">>

testcommands_STRING ==
    Some(3, "setup") \o <<"ask", "break", "run", "ask">> \o Some(13, "look")
    \o <<"step", "look", "step", "step", "step", "exit">>

testcommands_ARGS ==
    LET Display(n) == <<"ask">> \o Some(n, "look")
    IN  Some(3, "setup") \o <<"ask", "ask">> \o Some(3, "break") \o <<"run">>
        \o Display(11) \o <<"continue">> \o Display(11) \o <<"continue">>
        \o Display(4) \o <<"continue">> \o Display(10)
        \o <<"continue", "exit">>

testcommands_OTHER ==
    Some(5, "setup") \o <<"setenv">> \o Some(3, "ask")
    \o <<"look", "break", "break", "ask", "ask">> \o Some(14, "look")
    \o <<"exit">>

testcommands_CRASH ==
    Some(3, "setup") \o <<"break", "setup", "run", "look", "exit">>

testcommands_INPUT ==
    Some(3, "setup") \o <<"break", "setup", "run", "exit">>

testcommands_CATCH_THROW ==
    Some(4, "setup") \o <<"break", "run", "look", "exit">>

testcommands_BIG_CLASS ==
    Some(4, "setup") \o <<"break", "run", "look", "exit">>

testcommands_LONG_INHERITANCE ==
    Some(4, "setup") \o <<"break", "run">> \o Some(8, "look") \o <<"exit">>

testcommands_LO ==
    Some(3, "setup") \o <<"break", "break", "setup", "run">> \o Some(15, "look")
    \o <<"exit">>

getTestCommands(n) ==
    LET lists == <<testcommands_THREAD, testcommands_VARS, testcommands_UPDATE,
                   testcommands_LARGE_CHAR_ARRAY, testcommands_LARGE_ARRAY,
                   testcommands_POINTERS, testcommands_ATTACH,
                   testcommands_MEMBERS, testcommands_STRING, testcommands_ARGS,
                   testcommands_CRASH, testcommands_INPUT,
                   testcommands_CATCH_THROW, testcommands_OTHER,
                   testcommands_BIG_CLASS, testcommands_LONG_INHERITANCE>>
    IN  IF n \in DOMAIN lists THEN lists[n]
        ELSE IF n = 31 /\ WITH_LO_TESTS THEN testcommands_LO
        ELSE testcommands_NONE

setTestSequence(ts) == getTestCommands(ts)

-----------------------------------------------------------------------------
(***************************************************************************)
(* The log file.  A message has a scope, the set of its bits, and a text;   *)
(* it is logged if the mask has all the bits.                              *)
(***************************************************************************)
LogMask == {"NOHEADER", "ERROR", "WARN", "INFO", "CDT_IN", "CDT_OUT", "PROG_IN", "PROG_OUT",
            "EVENTS", "ARGS", "VARS", "UNUSED", "STDERR", "DEBUG", "TRACE", "RAW"}
LOG_ALL == LogMask \ {"TRACE", "RAW"}
LOG_DEV == LogMask \ {"RAW"}

\* The header a message of one scope gets; other scopes have a blank one.
Headers(raw) ==
    "NOHEADER" :> "" @@ "ERROR" :> "***" @@ "WARN" :> "!!!" @@ "INFO" :> "---"
    @@ "CDT_IN" :> (IF raw THEN ">==" ELSE CDT_IN) @@ "CDT_OUT" :> "<<="
    @@ "PROG_IN" :> "<<<" @@ "PROG_OUT" :> ">>>" @@ "EVENTS" :> "###" @@ "ARGS" :> "@@@"
    @@ "VARS" :> "===" @@ "STDERR" :> "+++" @@ "DEBUG" :> "$$$" @@ "TRACE" :> ":::"

getheader(scope) ==
    LET bits == scope \ {"RAW"}
    IN  IF \E h \in DOMAIN Headers(FALSE) : bits = {h}
        THEN Headers("RAW" \in scope)[CHOOSE h \in bits : TRUE] ELSE "   "

Printed(record, mask) == record.scope # {} /\ record.scope \subseteq mask

\* The time of day, of which only the first digit is ever looked at
gettimestamp == <<Digit>>

logprintf(record) == gettimestamp \o <<getheader(record.scope)>> \o record.text

Escaped(token) == IF token = Tab THEN <<"\\", "t">> ELSE <<token>>

logdata(record) ==
    logprintf([record EXCEPT !.text =
        <<Bar>> \o FlattenSeq([i \in DOMAIN record.text |->
                                  Escaped(record.text[i])]) \o <<Bar>>])

\* The log file of a session: MI text goes through logdata.
LogFile(session, mask) ==
    LET printed == SelectSeq(session, LAMBDA record : Printed(record, mask))
    IN  [i \in DOMAIN printed |->
            IF printed[i].scope \cap {"CDT_IN", "CDT_OUT"} # {}
            THEN logdata(printed[i]) ELSE logprintf(printed[i])]

-----------------------------------------------------------------------------
(***************************************************************************)
(* getTestScriptCommand.  fps is what is left of the file, id the number   *)
(* of the command before; the result has the command (none if text is      *)
(* empty), and fps and id afterwards.                                      *)
(***************************************************************************)
Position(token, line) == SelectInSeq(line, LAMBDA t : t = token)
From(i, s) == SubSeq(s, i, Len(s))

Nothing(fps, id) == [text |-> <<>>, seq |-> 0, fps |-> fps, id |-> id]

\* What is between the first two bars of a line
Body(line) ==
    LET ps == Position(Bar, line)
        pe == Position(Bar, From(ps + 1, line))
    IN  IF ps = 0 \/ pe = 0 THEN <<>> ELSE SubSeq(line, ps + 1, ps + pe - 1)

\* A line that starts with a digit is one of a log file: the next command
\* received from the client is searched, from this line on.
LogCommand(fps, id) ==
    LET n == SelectInSeq(fps, LAMBDA line : Position(CDT_IN, line) # 0)
    IN  IF n = 0 THEN Nothing(<<>>, id)
        ELSE [text |-> Body(fps[n]), seq |-> 0, fps |-> From(n + 1, fps),
              id |-> id]

\* The length of line up to last, without the spaces at its end
Trimmed(line, last) ==
    LET words == {i \in 1 .. last : line[i] \notin {Space, Tab}}
    IN  CHOOSE i \in 0 .. last : i \in words \cup {0} /\ \A j \in words : j <= i

\* A line of a script file: leading spaces are skipped, a comment is cut off,
\* and with it the spaces in front of it.
Skipped(line) ==
    LET first == SelectInSeq(line, LAMBDA t : t \notin {Space, Tab})
    IN  IF first = 0 THEN <<>> ELSE From(first, line)

\* Mutant: only a line that starts with one is rid of its comment.
CommandWithComment(line) ==
    IF Position(Slashes, Skipped(line)) = 1 THEN <<>> ELSE Skipped(line)

Command(line) ==
    LET pe == Position(Slashes, Skipped(line))
    IN  IF pe = 0 THEN Skipped(line)
        ELSE SubSeq(Skipped(line), 1, Trimmed(Skipped(line), pe - 1))

ScriptCommand(fps, id) ==
    IF Command(Head(fps)) = <<>> THEN Nothing(Tail(fps), id)
    ELSE [text |-> Command(Head(fps)), seq |-> id + 1, fps |-> Tail(fps),
          id |-> id + 1]

getTestScriptCommand(fps, id) ==
    IF fps = <<>> THEN Nothing(<<>>, id)
    ELSE IF Head(fps) # <<>> /\ Head(Head(fps)) = Digit THEN LogCommand(fps, id)
    ELSE ScriptCommand(fps, id)

getTestSequenceCommand(testCommands, id) ==
    IF id < Len(testCommands)
    THEN [text |-> <<testCommands[id + 1]>>, seq |-> 0, fps |-> <<>>, id |-> id + 1]
    ELSE Nothing(<<>>, id)
=============================================================================
