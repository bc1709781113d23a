------------------------------ MODULE Startup ------------------------------
(***************************************************************************)
(* main (lldbmi2.cpp) from its first line: the log file, the program's     *)
(* arguments, the copy of the environment, the decision whether to serve   *)
(* MI at all, and the loop.  In test mode (--test, --script) the loop's    *)
(* commands come from TestScripts and the console's input is not read;     *)
(* otherwise they come from the client, who changes the environment of     *)
(* the debuggee as in Environment.                                         *)
(*                                                                         *)
(* A command is one step here; what the main thread and the listener do to *)
(* each other inside one is the subject of DebugSession.                   *)
(***************************************************************************)
EXTENDS Environment, TestScripts

CONSTANTS
    Argvs,     \* the argument lists; the first argument is the program's name
    Scripts,   \* the files --script can open: their lines
    Meant,     \* the commands those files hold
    Outputs,   \* texts that commands print with srlprintf
    Environs,  \* what may be set: "ProjDirPath", "CWD"; and what getcwd returns
    Directories \* the directories that exist; <<>> is where the program was started

ASSUME ArgsAssumption == Argvs \subseteq Seq(STRING)

Quote == "\""
Newline == "NL"

VARIABLES
    argv, narg,                \* the arguments, and the one looked at
    isVersion, isInterpreter,
    limits,                    \* the numbers of LIMITS
    istest,                    \* limits.istest
    cdtpty,                    \* a pty for the client has been opened
    opened, logbuffer,         \* the log file is open; what addlog collects
    argsRecord,                \* the record with scope LOG_ARGS
    phase                      \* how far main is
startup == <<argv, narg, isVersion, isInterpreter, limits, istest, cdtpty,
             opened, logbuffer, argsRecord>>

VARIABLES
    testCommands,              \* the sequence; empty for NULL
    testScript,                \* the name of the script file, or "none"
    fps, idTestCommand,
    eof, isrunning, wanttokill,
    program,                   \* the debuggee: GetState()
    handling,                  \* the listener is in onStopped
    executed,                  \* the commands of the script so far
    command,                   \* the kind of the test command executed last
    stepped,                   \* a step command has resumed the program
    asked, said, records       \* the number of the last command that printed,
                               \* its text, and the records it was sent as
script == <<testCommands, testScript, fps, idTestCommand>>
session == <<eof, isrunning, wanttokill, program, handling>>
history == <<executed, command, stepped, asked, said, records>>

startVars == <<vars, startup, phase, script, session, history>>

Limits == [frames_max |-> 75, children_max |-> 150, walk_depth_max |-> 9,
           change_depth_max |-> 3]

\* setlogfile: the directory of the log file, the project's if Eclipse names it
setlogfile(environ) ==
    IF "ProjDirPath" \in DOMAIN environ THEN <<environ["ProjDirPath"], "logs">>
    ELSE IF "CWD" \in DOMAIN environ THEN <<environ["CWD"], "logs">>
    ELSE IF "getcwd" \in DOMAIN environ THEN <<environ["getcwd"]>>
    ELSE <<>>

\* A log file in a directory that does not exist stays closed.
openlogfile(directory) == directory \in Directories

\* set before --logmask is read, and not again
log_mask == LOG_DEV

StartInit ==
    /\ Init
    /\ argv \in Argvs /\ narg = 1
    /\ isVersion = FALSE /\ isInterpreter = FALSE /\ istest = FALSE
    /\ limits = Limits
    /\ cdtpty = FALSE
    /\ \E environ \in Environs : opened = openlogfile(setlogfile(environ))
    /\ logbuffer = <<>> /\ argsRecord = <<>>
    /\ phase = "args"
    /\ testCommands = <<>> /\ testScript = "none" /\ fps = <<>>
    /\ idTestCommand = 0
    /\ eof = FALSE /\ isrunning = FALSE /\ wanttokill = FALSE
    /\ program = "none" /\ handling = FALSE
    /\ executed = <<>> /\ command = "none" /\ stepped = FALSE
    /\ asked = "0" /\ said = <<>> /\ records = <<>>

-----------------------------------------------------------------------------
(***************************************************************************)
(* The arguments.                                                          *)
(***************************************************************************)
Arg == argv[narg]
Valued == {"--interpreter", "--arch", "--test", "--script", "--logmask",
           "--frames", "--children", "--walkdepth", "--changedepth"}
HasValue == narg < Len(argv)
Value == argv[narg + 1]

\* sscanf "%d": a text that is no number leaves the variable alone.
Scanned(text, old) ==
    LET values == {n \in 0 .. 99 : ToString(n) = text}
    IN  IF values = {} THEN old ELSE CHOOSE n \in values : TRUE

LimitOf == [frames_max |-> "--frames", children_max |-> "--children",
            walk_depth_max |-> "--walkdepth", change_depth_max |-> "--changedepth"]

Consumed == IF Arg \in Valued \cup {"-ex"} /\ HasValue THEN 2 ELSE 1

\* Mutant: the values of the options that are numbers are not logged.
LoggedNotNumbers ==
    IF Arg \in Valued \ {"--frames", "--children", "--walkdepth", "--changedepth"}
       /\ HasValue
    THEN <<Arg, Value>> ELSE <<Arg>>

\* logarg: the value of an option that takes one is logged as well.
Logged == IF Arg \in Valued /\ HasValue THEN <<Arg, Value>> ELSE <<Arg>>

\* -ex: the command is executed if it is new-ui, and is not logged; when the
\* pty can be opened its settings are logged too.  logprintf formats into the
\* buffer in which the arguments are collected.
NewUI == Arg = "-ex" /\ HasValue /\ Value = "new-ui"

addlog(text) == logbuffer' = logbuffer \o text

AddLog ==
    IF NewUI
    THEN \E pty \in {<<FALSE, "pty">>, <<TRUE, "pty">>, <<TRUE, "setting pty">>} :
            /\ cdtpty' = pty[1]
            /\ IF opened THEN logbuffer' = <<pty[2]>> ELSE addlog(Logged)
    ELSE cdtpty' = cdtpty /\ addlog(Logged)

\* What can be read of the file, which is opened once
setTestScript(ts) == IF ts \in DOMAIN Scripts THEN Scripts[ts] ELSE <<>>

\* A --test without a number, or with 0, leaves the sequence as it is.  A
\* script that cannot be opened gives no command, like one at its end.
SetTest ==
    LET n == IF HasValue THEN Scanned(Value, 0) ELSE 0
    IN  /\ testCommands' = IF Arg = "--test" /\ n # 0 THEN setTestSequence(n)
                           ELSE testCommands
        /\ testScript' = IF Arg = "--script" /\ HasValue THEN Value ELSE testScript
        /\ fps' = setTestScript(testScript')

\* argv[narg+1] is compared without a look at argc: -i as the last argument
\* makes strcmp read a NULL.
ParseCrashes == Arg = "-i" /\ ~HasValue

ParseArg ==
    /\ phase = "args" /\ narg <= Len(argv)
    /\ isVersion' = (isVersion \/ Arg = "--version")
    /\ isInterpreter' = (\/ isInterpreter
                         \/ Arg \in {"--interpreter", "--interpreter=mi2"}
                         \/ Arg = "-i" /\ HasValue /\ Value = "mi")
    /\ istest' = (istest \/ Arg \in {"--test", "--script"})
    /\ limits' = [l \in DOMAIN limits |->
                     IF Arg = LimitOf[l] /\ HasValue THEN Scanned(Value, limits[l])
                     ELSE limits[l]]
    /\ AddLog /\ SetTest
    /\ narg' = narg + Consumed
    /\ phase' = IF ParseCrashes THEN "crash" ELSE phase
    /\ UNCHANGED <<argv, opened, argsRecord, idTestCommand, vars, session, history>>

\* The ARGS record; then the entries of main's own environment are copied.
LogArgs ==
    /\ phase = "args" /\ narg > Len(argv)
    /\ phase' = "environ"
    /\ argsRecord' = IF opened /\ Printed([scope |-> {"ARGS"}], log_mask) THEN logbuffer ELSE <<>>
    /\ UNCHANGED <<argv, narg, isVersion, isInterpreter, limits, istest, cdtpty,
                   opened, logbuffer, vars, script, session, history>>

CopyEnviron ==
    /\ phase = "environ"
    /\ \E text \in Texts : CopyEnvironment(text)
    /\ UNCHANGED <<startup, phase, script, session, history>>

\* --version prints the versions; without an interpreter help is printed.
Decide ==
    /\ phase = "environ"
    /\ IF isVersion \/ ~isInterpreter
       THEN /\ phase' = IF isVersion THEN "success" ELSE "failure"
            /\ UNCHANGED vars
       ELSE phase' = "loop" /\ EnterLoop
    /\ UNCHANGED <<startup, script, session, history>>

-----------------------------------------------------------------------------
(***************************************************************************)
(* Console records: strrecprintf quotes a text and starts a new record     *)
(* after each of its line feeds.                                           *)
(***************************************************************************)
\* Mutant: the rest of the text gets no record's beginning.
AddTokenBare(type, r, token) ==
    CASE token = Quote -> [r EXCEPT !.line = @ \o <<"\\", Quote>>]
      [] token = Newline ->
            [line |-> <<>>, out |-> Append(r.out, r.line \o <<"\\", "n", Quote, Newline>>)]
      [] OTHER -> [r EXCEPT !.line = Append(@, token)]

AddToken(type, r, token) ==
    CASE token = Quote -> [r EXCEPT !.line = @ \o <<"\\", Quote>>]
      [] token = Newline ->
            [line |-> <<type, Quote>>,
             out |-> Append(r.out, r.line \o <<"\\", "n", Quote, Newline>>)]
      [] OTHER -> [r EXCEPT !.line = Append(@, token)]

\* A text that does not end in a line feed leaves a record that has the line
\* feed and the closing quote the wrong way round.
strrecprintf(type, text) ==
    LET r == FoldLeft(LAMBDA acc, token : AddToken(type, acc, token),
                      [line |-> <<type, Quote>>, out |-> <<>>], text)
    IN  IF Len(r.line) > 2 THEN Append(r.out, r.line \o <<Newline, Quote>>)
        ELSE r.out

\* writetocdt: a line goes to the client's pty if one is open.
writetocdt(text) == [fd |-> IF cdtpty THEN "cdtptyfd" ELSE "stdout", text |-> text]

\* The number 0, which a command without one has, is taken off its answer.
cdtprintf(text) ==
    writetocdt(IF Len(text) > 1 /\ text[1] = "0" /\ text[2] = "^" THEN Tail(text) ELSE text)

\* the answer to a command that prints text: console records and the result
Answer(number, text) ==
    LET console == strrecprintf("~", text)
    IN  [i \in DOMAIN console |-> writetocdt(console[i])]
        \o <<cdtprintf(<<number, "^", "done", Newline>>)>>

-----------------------------------------------------------------------------
(***************************************************************************)
(* The loop.                                                               *)
(***************************************************************************)
Looping == phase = "loop" /\ ~eof

\* Commands from the client arrive on the pty that new-ui has opened; in test
\* mode they are not read.
FromCDT(action) ==
    /\ Looping /\ cdtpty /\ ~istest
    /\ action
    /\ UNCHANGED <<startup, phase, script, session, history>>

ClientSetsEnv == \E args \in Arguments : FromCDT(GdbSetEnv(args))
ClientUnsetsEnv == FromCDT(UnsetEnv)
ClientRuns == FromCDT(ExecRun)

\* An empty line on the terminal
StdinEmptyLine ==
    /\ Looping /\ eof' = TRUE
    /\ UNCHANGED <<isrunning, wanttokill, program, handling, vars, startup, phase,
                   script, history>>

Stays == UNCHANGED session
Moves(to) ==
    /\ program' = to /\ isrunning' = TRUE
    /\ UNCHANGED <<eof, wanttokill, handling>>
Alive == program \in {"running", "stopped"}

TestRun ==    \* target.Launch may fail, and does when there is a live process
    \/ ~Alive /\ ExecRun /\ Moves("running")
    \/ Stays /\ UNCHANGED vars

TestAttach ==   \* the program is stopped, and the stop is yet to be handled
    \/ /\ program' = "stopped" /\ isrunning' = TRUE /\ handling' = TRUE
       /\ UNCHANGED <<eof, wanttokill>>
    \/ Stays

TestContinue == IF program = "stopped" THEN Moves("running") ELSE Stays

TestStep ==   \* the steps do not set isrunning
    /\ program' = IF program = "stopped" THEN "running" ELSE program
    /\ UNCHANGED <<eof, isrunning, wanttokill, handling>>

\* Console kill: a stopped program is resumed and killed by the listener.
TestKill ==
    CASE program = "stopped" ->
            /\ program' = "running" /\ isrunning' = TRUE /\ wanttokill' = TRUE
            /\ UNCHANGED <<eof, handling>>
      [] program # "stopped" /\ program # "none" /\ ~wanttokill ->
            /\ program' = "exited" /\ eof' = TRUE
            /\ UNCHANGED <<isrunning, wanttokill, handling>>
      [] OTHER -> Stays

TestExit ==
    /\ program' = IF Alive THEN "exited" ELSE program
    /\ eof' = TRUE
    /\ UNCHANGED <<isrunning, wanttokill, handling>>

TestSetEnv ==
    \E args \in [1 .. 3 -> Texts] : GdbSetEnv(args)

Execute(kind, number) ==
    /\ CASE kind = "run" -> TestRun
         [] kind = "attach" -> TestAttach /\ UNCHANGED vars
         [] kind = "continue" -> TestContinue /\ UNCHANGED vars
         [] kind = "step" -> TestStep /\ UNCHANGED vars
         [] kind = "kill" -> TestKill /\ UNCHANGED vars
         [] kind = "exit" -> TestExit /\ UNCHANGED vars
         [] kind = "setenv" -> TestSetEnv /\ Stays
         [] OTHER -> Stays /\ UNCHANGED vars
    /\ command' = kind
    /\ stepped' = (stepped \/ (kind = "step" /\ program = "stopped"))
    /\ IF kind = "ask"
       THEN asked' = number /\ said' \in Outputs /\ records' = Answer(number, said')
       ELSE UNCHANGED <<asked, said, records>>

KindOf(text) ==
    LET n == SelectInSeq(text, LAMBDA t : t \in Kinds)
    IN  IF n = 0 THEN "ask" ELSE text[n]

\* A command of a script gets its place for a number; those of a sequence and of a log
\* file have one, a command that has none counts as 0.
NumberOf(next) == IF next.seq # 0 THEN ToString(next.seq)
                  ELSE IF testScript = "none" THEN "n" ELSE "0"

\* A script file takes precedence over a sequence.
getTestCommand ==
    IF testScript = "none" THEN getTestSequenceCommand(testCommands, idTestCommand)
    ELSE getTestScriptCommand(fps, idTestCommand)

\* Test mode without a sequence or a script reads testCommands[0] of a NULL.
TestCrashes ==
    /\ Looping /\ istest /\ ~isrunning
    /\ testScript = "none" /\ testCommands = <<>>
    /\ phase' = "crash"
    /\ UNCHANGED <<vars, startup, script, session, history>>

\* Mutant: the loop does not ask whether the program runs.
TestReadyAlways ==
    Looping /\ istest /\ (testScript # "none" \/ testCommands # <<>>)

TestReady ==
    Looping /\ istest /\ ~isrunning /\ (testScript # "none" \/ testCommands # <<>>)

\* One turn in test mode: a command, or none (a comment, the end).
TestTurn ==
    /\ TestReady
    /\ LET next == getTestCommand
       IN  /\ fps' = next.fps /\ idTestCommand' = next.id
           /\ IF next.text = <<>>
              THEN UNCHANGED <<vars, session, history>>
              ELSE /\ Execute(KindOf(next.text), NumberOf(next))
                   /\ executed' = IF testScript = "none" THEN executed
                                  ELSE Append(executed, [seq |-> next.seq, text |-> next.text])
    /\ UNCHANGED <<startup, phase, testCommands, testScript>>

\* The listener: a stop is seen by everybody first and handled then, which
\* ends with isrunning = false; an exit leaves isrunning alone.
ProgramStops ==
    /\ Looping /\ program = "running" /\ ~handling
    /\ program' = "stopped" /\ handling' = TRUE
    /\ UNCHANGED <<eof, isrunning, wanttokill, vars, startup, phase, script, history>>

OnStopped ==
    /\ Looping /\ handling
    /\ handling' = FALSE /\ isrunning' = FALSE
    /\ UNCHANGED <<eof, wanttokill, program, vars, startup, phase, script, history>>

ProgramExits ==
    /\ Looping /\ program = "running" /\ ~handling
    /\ program' = "exited"
    /\ UNCHANGED <<eof, isrunning, wanttokill, handling, vars, startup, phase,
                   script, history>>

\* The listener kills a program that a console kill has resumed.
ListenerKills ==
    /\ Looping /\ wanttokill /\ program = "running" /\ ~handling
    /\ program' = "exited" /\ eof' = TRUE
    /\ UNCHANGED <<isrunning, wanttokill, handling, vars, startup, phase, script,
                   history>>

closelogfile == opened' = FALSE

\* End of the loop: the log file is closed.
LeaveLoop ==
    /\ phase = "loop" /\ eof
    /\ phase' = "success" /\ closelogfile
    /\ UNCHANGED <<argv, narg, isVersion, isInterpreter, limits, istest, cdtpty, logbuffer,
                   argsRecord, vars, script, session, history>>

StartNext ==
    \/ ParseArg \/ LogArgs \/ CopyEnviron \/ Decide
    \/ ClientSetsEnv \/ ClientUnsetsEnv \/ ClientRuns
    \/ StdinEmptyLine \/ TestCrashes \/ TestTurn
    \/ ProgramStops \/ OnStopped \/ ProgramExits \/ ListenerKills
    \/ LeaveLoop

StartSpec == StartInit /\ [][StartNext]_startVars

-----------------------------------------------------------------------------
\* The record with scope ARGS ("log program args") tells how the program was
\* started: every argument is in its place but the values of -ex, if the log is
\* open, -ex new-ui has not formatted its own messages into the same buffer and
\* no -ex is the value of an option.
NotCommand(i) == i = 1 \/ argv[i - 1] # "-ex"
GivenUpTo(n) == {i \in 1 .. n : NotCommand(i)}
AllInPlace(log, n) ==
    /\ Len(log) = Cardinality(GivenUpTo(n))
    /\ \A i \in GivenUpTo(n) : log[Cardinality(GivenUpTo(i))] = argv[i]
CommandsApart ==
    \A i \in DOMAIN argv :
        /\ argv[i] # "new-ui"
        /\ argv[i] = "-ex" /\ i > 1 => argv[i - 1] \notin Valued \cup {"-ex"}
ArgsLogged ==
    phase \in {"environ", "loop"} /\ opened /\ CommandsApart
    => AllInPlace(argsRecord, Len(argv))

\* A script, with its comments and empty lines, and the log file of an earlier
\* session execute what they hold: the commands in their order, none twice
\* and none left out, those of a script numbered from 1.
ScriptExecuted ==
    testScript \in DOMAIN Meant =>
        LET meant == Meant[testScript]
            texts == [i \in DOMAIN executed |-> executed[i].text]
        IN  /\ IsPrefix(texts, meant)
            /\ phase = "loop" /\ fps = <<>> => texts = meant
            /\ \A i \in DOMAIN executed : executed[i].seq \in {0, i}

\* test.cpp: "test commands will pause after a exec-run, exec-continue or
\* target-attach".  A command about a stopped program, or one that resumes it,
\* is never executed while the program runs, in any of the sequences, as long
\* as none of the step commands, which do not pause, has resumed it.
CommandsPause ==
    [][TestTurn /\ command' \in {"look", "continue", "step", "kill"}
           => stepped \/ program # "running"]_startVars

\* What a console record says is what was printed: when a text consists of
\* whole lines without backslashes, each record is one line with one quoted
\* string, and the strings unquoted give the text.  Behind them is one result,
\* with the number of the command if it had one, and all go to one place.
ReadToken(r, token) ==
    IF r.escape THEN [text |-> Append(r.text, IF token = "n" THEN Newline ELSE token),
                      escape |-> FALSE]
    ELSE IF token = "\\" THEN [r EXCEPT !.escape = TRUE]
    ELSE [r EXCEPT !.text = Append(@, token)]
Unquoted(record) ==
    FoldLeft(ReadToken, [text |-> <<>>, escape |-> FALSE],
             SubSeq(record, 3, Len(record) - 2)).text
WholeLines(text) ==
    /\ text # <<>> /\ text[Len(text)] = Newline
    /\ \A i \in DOMAIN text : text[i] # "\\"
StreamsReadBack ==
    WholeLines(said) =>
        LET console == [i \in 1 .. Len(records) - 1 |-> records[i].text]
            result == Last(records).text
        IN  /\ FlattenSeq([i \in DOMAIN console |-> Unquoted(console[i])]) = said
            /\ \A i \in DOMAIN console :
                  LET r == console[i]
                      last == Len(r)
                  IN  /\ r[1] = "~" /\ r[2] = Quote
                      /\ r[last - 1] = Quote /\ r[last] = Newline
                      /\ \A k \in 3 .. last - 2 :
                            /\ r[k] # Newline
                            /\ r[k] = Quote => r[k - 1] = "\\"
            /\ LET number == SubSeq(result, 1, SelectInSeq(result, LAMBDA t : t = "^") - 1)
               IN  number = IF asked = "0" THEN <<>> ELSE <<asked>>
            /\ \A i \in DOMAIN records : records[i].fd = records[1].fd
=============================================================================
