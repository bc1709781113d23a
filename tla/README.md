# A verification project for lldbmi2

lldbmi2 lets an IDE that speaks GDB's machine interface (MI) debug with LLDB: it
reads MI commands, carries them out through LLDB's C++ API and prints MI records.
This directory models its control in TLA+, checks small instances with TLC and
proves some of the results for all instances with TLAPS. Source paths below are
relative to the repository's `src` directory (`engine.cpp` is `src/engine.cpp`).

## Inventory

| part | source | state | operations |
|---|---|---|---|
| session | `lldbmi2.cpp` main, `engine.cpp` fromCDT, `events.cpp` | `eof`, `procstop`, `isrunning`, `wanttokill`, `process`, the global `target`, `sbTID` | main loop; run, attach, continue, step, kill, abort, detach, exit; listener loop; `terminateProcess`; teardown |
| command engine | `engine.cpp` fromCDT, evalCDTCommand, scanArgs; `events.cpp` onStopped, updateSelectedThread | LLDB's selected thread and frame, the pending command | cut into arguments; `--thread`, `--frame`; some sixty handlers |
| thread table | `events.cpp` checkThreadsLife | `threadids[THREADS_MAX]` | look up, insert, sweep |
| breakpoints, watchpoints | `engine.cpp`, `frames.cpp`, `events.cpp` onStopped | LLDB's, one table per target | insert, delete, enable, watch, catch; deletion of one-shot breakpoints |
| variable objects | `engine.cpp`, `variables.cpp` | `sessionVariables`, LLDB's change marks | create, list children, evaluate, update, set format |
| descriptions | `variables.cpp`, `frames.cpp` | none | values, structures, variables, frames, threads |
| queries | `engine.cpp`, `variables.cpp`, `names.cpp` | none | lines of a file, address of a line, type of a name, expression, stack, language |
| start-up | `lldbmi2.cpp` main | `limits`, the log file, `envs` | options, argument record, copy of the environment, choice of the mode, loop |
| environment | `engine.cpp` addEnvironment, unset, -gdb-set env | `envs`, `envp`, `envpentries`, `envspointer` | add, unset, launch |
| command input | `lldbmi2.cpp` main, `engine.cpp` fromCDT | `cdtbufferB` | read a chunk, cut off a line, execute stacked commands |
| test scripts | `test.cpp` | position in a sequence or file | next command |
| log | `log.cpp` | mask, file | headers, escapes; read back by test scripts |
| text buffers | `stringb.cpp` | capacity, size, bytes | grow, copyat, append, vosprintf, clear |
| MI output | `lldbmi2.cpp` cdtprintf, srlprintf, strrecprintf | a static buffer | format, cut into records, write |
| program output | `events.cpp` processListener | `iobuffer`, LLDB's texts | fetch, remove `\r`, relay |
| line editor | `linenoise.c`, `lldbmi2.cpp` main | line, cursor, history, raw mode, screen | keys, history, completion, hints, mask, multi-line, hiding |

Two kinds of threads run: the main thread (reads and executes commands) and one
listener thread per launched or attached process (`processListener`). They share
the `STATE` record, the thread table, the output buffer and LLDB's own state
(selected thread, event queue) without a lock. That is where the hard behaviour
is: orders of steps between a resume and the stop that follows it, a kill that
waits for an event, the thread table updated from two sides, a selection moved
by two sides, listeners of earlier runs that still run. The rest of the hard
behaviour is in sequential code: buffers and arrays at their limits, chunked
input, long sequences of commands over state of LLDB's that comes and goes
(targets, frames), and hand-written searches in trees of variables and files.

What makes each part correct:

* session: leaving kills the debuggee and ends the program; nothing uses LLDB
  after its teardown; stops reach the client, after the *running they follow;
* command engine: one result per command, about the thread it named; the client
  is never left waiting; stops are reported whichever thread was selected;
* thread table: the client's list of threads is the table, and converges to the
  debuggee's threads; announcements are true and not repeated;
* breakpoints: the client's table is LLDB's, but for what a replaced target took
  with it; nothing is deleted that was not to be;
* variables: the variable found is the one the expression means, its values are
  its own, the changes of an expression are reported in full, an object stays
  with its variable;
* queries and descriptions: the answer is about the file, type or stack that was
  named, and shows all of it, once, within the limits;
* start-up and scripts: what was typed is what is logged; a script's commands are
  executed in order, each when the program is ready for it;
* buffers: no byte written out of bounds, no text lost;
* input: lines executed once, in order, and none left while the program sleeps;
* environment: the launched program gets the list that was built;
* line editor: bytes, history and cursor in range, the terminal restored, the
  screen true.

PROJECT.json lists the hazards behind these with their source lines.

## Modules

**DebugSession** models the session. Program counters `pc` say where the main
thread and each listener are; a step ends at every access to a shared field that
another thread can observe, so `-exec-run` is launch, `Publish` (isrunning and
pstate->process), `StartProcessListener`, `Announce`; a console kill is
`ConsoleKill`, `ResumeProcess`, `MarkRunning`, `WantToKill`, `AnswerKill`; and
`terminateProcess` is `SetProcstop`, `DestroyProcess`, `PrintGroup`, `SetEof`,
for whichever thread calls it. A listener is `ListenerStart`, `LoopTest`,
`WaitForEvent`/`WaitTimeout`, then the case of `GetState()`. LLDB is external: a
private process state that follows the debuggee, a public one that changes when
a listener takes the event, a queue of events, and a resume that works only when
both states are stopped and nothing is queued. `pthread_create` may fail. SIGINT
(`SignalHandler`, the IDE's pause) and the terminal (`StdinEmptyLine`,
`StdinClosed`) are actions too. A signal that the main thread takes in its select
leaves all descriptors set, and since select's result is not looked at it goes on
to a read of the terminal and then of the client's pty: labels `stdin` and `pty`,
left by `StdinInput`, a command, or `PtyHungUp`, if anything comes. A command
that follows in the same chunk is executed without a look at eof, hence label
`more`. *MCDebugSession* gives the scripts of test mode.

**CommandEngine** models what `evalCDTCommand` and the handlers of `fromCDT` do with
LLDB's selection and how many result records they print. A command is a record of its
kind (handlers that are answered alike share a kind), its `--thread` and `--frame`
options and an argument (for `-exec-until` the shape of its location). The resuming
commands are `ExecContinue`, `ExecStep` and `ExecUntil`, each with its ways out that
print an error or nothing. Three steps execute a command (`EvalThread`, `EvalFrame`,
a handler), since the listener's `OnStopped`, `UpdateSelectedThread`, `Report` may
come between them. The client is the one the program is written for: it waits for the
result of every command, though it may give up when the engine has nothing to say
(`GiveUp`), and sends commands about a thread while the last thing it was told is
*stopped, or before there is a process. Without that assumption nothing orders a
command and the next stop. What handlers print is abstracted to the thread and the
frame it is about.

**Breakpoints** has one table of breakpoints per target, as LLDB does, the global
`target` of the command thread and the process's own, and the client's table of
what it was told. `-break-insert` is four steps (create, `SetEnabled`,
`SetOneShot` and its options, answer or take back), since the process runs and
can hit the breakpoint in between. `Hit` is LLDB's, `OnStopped` makes the record
of the breakpoint that was hit, and `OnStoppedTell` prints it and deletes "bpid"
after a one-shot breakpoint; the main thread may act between the two. The client's
table holds what the records say, not what is so: `Formatted` is formatBreakpoint,
which prints `enabled="y"` always. `FileExec`, `Attach` and `ClearTarget` replace
the target. Watchpoints have numbers of their own.

**Variables** has the debuggee's stack of frames with the values of their variables
as a forest of paths (*MCVariables*), each declared in some blocks of its function,
so that a name may be declared more than once; a frame is at a site, a function and a
block. Variable objects have the frame and path they were bound to. `getVariable` is
the search of variables.cpp in the order of its attempts: the pseudo array;
`getStandardPathVariable` with the list of the variables of all blocks (`ByName`: the
first one with the name, which may be shadowed or out of its scope, as long as it can
be read), LLDB's variable path and its expressions; and the direct path, with the
separators it cuts at and its limits (what its loops compute is stated as what they
find: the longest root, the path whose every part the loop accepts);
`formatChangedList`, `formatExpressionPath` and `formatValue` are its walks. `Call`,
`Step`, `Return` and `Assign` are the debuggee; LLDB's path and expression evaluation
(`Denoted`, with the innermost declaration that is visible) is external, and also the
definition of what an expression means. The declarations are assumed to form trees
(`VariablesAssumption`).

**Queries** cuts a line into arguments (`scanArgs`, `strlcpy`, `strlcat`) and answers
it: each handler is one action, which stores the arguments and the answer.
**Descriptions** writes out structures, class descriptions, lists of variables and
frames as sequences of marks; **Names** are the three tables of names.cpp, as they
stand there (eight of the basic types with a blank behind), next to the enumerations
they follow. Files are matched as findCUForFile does, with LLDB's resolving of paths
(`SBFileSpec`) and `realpath` over a small disk. `info address` goes through LLDB's
symbol contexts and is answered from `InfoAddress`. **ApiVersions** is
lldb-versioning.h, the macros with which a program asks LLDB's headers for an API
version: it is the one header with logic of its own, and lldbmi2's build leaves its
macros off, so nothing else depends on it; it is stated for its own promise, an
ASSUME over all small sets of macros that the run of *MCQueries* evaluates.
*MCQueries* has the programs and lines; it uses files with equal names in two
directories, one whose path ends in another's whole path, types that share a name,
classes with and without a base, quoted, escaped and over-long words.

**Startup** is main: one turn of the argument loop per step (`ParseArg`), the
log's record of the arguments (`AddLog`, `LogArgs`), the copy of the environment
into the arrays of **Environment**, the choice of the mode (`Decide`), and turns of
the loop, in which the client changes the environment or a script's commands are
executed (`TestTurn`) while the listener handles stops and exits (`OnStopped`,
`ProgramExits`). **TestScripts** has all built-in sequences, the reader of script
files, and the log as far as that reader understands it. A command there is its
kind; session steps inside a command are DebugSession's. **EnvironmentList** is
the list that the arrays implement.

**LineEditor** is linenoise and the part of main that feeds it. The state of a
line `l` is the C structure, with the row where the terminal's cursor really is
next to the row the editor believes in. A key is a step, and with it every
redraw; completion, hints, mask and multi-line mode are settings that change
between lines only. A history file is read line by line, and the program that
shows key codes (`linenoisePrintKeyCodes`) is one more way to be in raw mode.
An offer of the completion may be longer than the buffer: `FeedTooLong` takes it
as completeLine does, with the length of the whole offer, and ends in `overrun`,
since what follows reads and writes outside the buffer.
**TextField** is what it implements: a text of bounded length
with a cursor. *MCLineEditor* has terminals that answer or do not answer the
question for the cursor's position.

**ThreadTable** models checkThreadsLife turn by turn of its loops for a set of
callers. A thread stands there for its position in LLDB's list: the code goes by
positions, and a stop finds the list as it is for the length of one call;
**ThreadRegistry** is what it promises, in terms of live, finished and
announced threads only. **StringB** counts bytes: capacity, size, length of the
text, highest byte written. **CommandBuffer** is the main loop's handling of
input, with chunks of characters. **ProgramOutput** is the listener's relay with
its buffer, byte by byte.

`*_proofs` modules hold the theorems. Modules compose by EXTENDS (Startup over
Environment and TestScripts, Queries over Descriptions over Names) and by
refinement (ThreadTable to ThreadRegistry, Environment to EnvironmentList,
LineEditor to TextField).

## Runs

| run | question | bounds | states |
|---|---|---|---|
| session | does the session end, kill and report as it should in every interleaving? | 2 processes, 3 commands, pthread_create may fail | 939,000 |
| session_kill | *violated*: does a console kill always kill? | 1 process, 2 commands | |
| thread_table | does the client's thread list follow the debuggee? | 4 threads, 2 slots, 1 caller | 125,000 |
| command_engine | right thread, one result, always answered? | 2 threads, 2 frames each | 104,000 |
| breakpoints | does the client's table stay true, is only deleted what was meant? | 2 targets, 2 breakpoints, 1 watchpoint each | 11,200,000 |
| variables | found, shown, marked and kept as meant? | 2 functions with blocks, 2 frames, 1 object and its children, limits 3 | 95,000 |
| queries | is the answer about what was asked, and whole? | NAME_MAX 8, MAX_ARGS 8, FRAMES_MAX 2 | 11,600 |
| startup | from the arguments to the end of the loop: log, scripts, records, environment | 5 pointers, 8 bytes for texts; five script files and all built-in sequences | 136,000 |
| command_buffer | are lines executed once, in order, without waiting? | 8 bytes of input in chunks up to 4 | 10,100 |
| string_buffer | is every write in bounds, every text whole? | limit 40, sizes 1..5, lengths 0..9 | 520 |
| line_editor | bytes, history, terminal and screen over every key, mode and way out | buffer of 3, 3 terminals, history limits 1 and 2 | 2,250,000 |
| program_output | *violated*: is all output passed on? | buffer of 7, texts up to 6 | |

Why the bounds are enough to be interesting. Three commands hold a launch, a
resume and an exit, a file command in front, or a second launch; every race in
the session is between two threads and needs one process, and the ones between
two listeners need two. Two slots for four threads fill the table, overflow it,
free and reuse slots. Two targets are one replaced by another with the process
still in the first; two breakpoints are one hit while the other is inserted, and
one watchpoint suffices for a number that both kinds have. Two functions with a
local of the same name and two frames let a name change its meaning and a frame
die; the limits of 3 are exceeded by one child and by one level. Buffers of one
byte with texts up to nine grow several times and reach the limit. Eight bytes
hold a line cut in two, two lines in one chunk, and `-gdb-exit` with a command
behind it. Three entries fill `envp` (its size is 5, two pointers are kept back)
and two or three fill `envs`, and unset and refilling leaves stale pointers and
text. Words of eight and more characters are cut by NAME_MAX. An editor buffer of
three bytes is full after two keys, and holds the empty line, its two ends and
the full line; history limits of 1 and 2 drop entries.

Deadlock is checked where the system never stops (thread table, buffers, engine).
A session, an input loop and a line end, a query's program goes away, and the
bounded numbers of breakpoints and objects run out, so those runs switch it off.

Fairness. Both threads are scheduled by the operating system, so each has weak
fairness on its own steps; a chunk that was read is worked off without further
input. A read that a signal sent the main thread into has no fairness: nothing need
come in. Neither the client nor the debuggee is forced to act, except in test mode,
where the script's commands are there and the debuggee is assumed to stop or exit
some day. `ClientConverges` assumes that the debuggee goes on stopping, since
checkThreadsLife is called on stops.

### Disagreements found

Two are runs that end in a violation:

* A console kill of a stopped process sets `wanttokill` after `Continue()`; the
  listener may have handled the running event by then and nothing is killed
  (`session_kill`).
* The loop that removes `\r` from the program's output runs over the end of the
  text into what an earlier, longer output left, and cuts as many characters off
  the new one (`program_output`).

Four more configurations end in a violation and are kept beside the runs:
*LineEditorLong.cfg* (a completion as long as the editor's buffer or longer is cut
by snprintf, while `len` and `pos` become its whole length, linenoise.c:421-423,
against linenoise.c:889, which promises a place for the terminator;
main sets no completion callback, another host of the editor may),
*SessionTest.cfg* (`isrunning` is reset by stops only; a test script whose program
exits without a stop never goes on to its `-gdb-exit`), *ThreadRace.cfg*
(checkThreadsLife called from two threads announces live threads as exited) and
*StringBLimit.cfg* (the limit of a text buffer stops the growth and not the
writing).

Others were met while modelling. Each is modelled as the code has it, and the
properties are stated around it:

* after a signal that interrupts the main thread's select, the IDE's pause among
  them, it may sit in a read on the terminal or the client's pty and see neither
  the other's input nor eof (lldbmi2.cpp:261-265);
* `-exec-until` with a location without ":", or for a thread without a frame, prints
  no record (engine.cpp:430-441);
* `-exec-run` prints *running after its listener was started, which may have printed
  *stopped before; an error in `--frame` is printed and the command answered all the
  same;
* a breakpoint's record says `enabled="y"` also after `-break-insert -d` and at hits
  (frames.cpp:58); the listener prints the record after the main thread may have
  deleted or changed the breakpoint, and the listener of an earlier target's process
  describes its own breakpoint under a number the new target uses too; the
  one-shot breakpoint that was hit is not the one deleted ("bpid" is hidden,
  events.cpp:197);
* the first attempt of the search for a variable takes the first variable of that
  name, in scope or not (variables.cpp:75-80): a shadowed one, or one whose block
  has ended, is shown for another;
* a file is matched by a suffix of characters (variables.cpp:353-354): `/b/a/f` is
  answered for `/a/f`;
* a terminal narrower than the prompt makes the editor's window underflow
  (linenoise.c:549);
* `-thread-info N` uses an index id, which starts at 1, as an index;
* `--logmask` is stored after `setlogmask` was called and has no effect; a message
  that is logged while the arguments are parsed clears those collected so far;
  `-i` as the last argument and test mode without a sequence read a NULL;
* where variables.cpp cuts a path at its separators, an operator in front binds
  to the first name only; `*a.b` is looked for as `(*a).b`;
* `-var-update` of an object looks its generated name up as a variable, finds none
  and never reports a change; `-var-list-children` crashes on a child without
  a name;
* `-symbol-list-lines` prints a comma before its first entry when an earlier line
  entry was skipped, and reads an uninitialized buffer without an argument;
* a class without a base class is described without its members;
* the type class `Other` is never named, and two languages have a synonym's name;
* step commands do not set `isrunning`, so a script does not wait after them;
* an event for stderr fetches stdout only;
* console text without a last line feed leaves a record that is not closed;
* recalling a line that fills the buffer loses its last character; at the end of
  the terminal's input, main applies strlen to the NULL it gets for a line.

Properties were narrowed where the code does less than one might wish, and say so
in their comments: `SafeTeardown` exempts listeners of replaced runs (only the
last one is joined), `ViewSettles` is about resuming commands and not about a
launch (where *running is printed after the listener was started), `OneResult`
exempts an exited process (`--frame` and the handler both print an error),
`StopShown` exempts stops whose selected thread has a reason onStopped ignores,
`EofEnds` and SessionTest's `TestScriptEnds` a main thread that sits for ever in a
read, `Responded` the commands without an answer (another interpreter, another
thread group, an empty line, `-exec-until` without a location of file and line).
`ClientKnows` and `ToldExist` are about numbers and dispositions and not about an
`enabled="y"` that is too much, and exempt targets that were replaced and records
made before a change (the ghost `late`); `DeletedWhenAsked` exempts the
breakpoints deleted in place of a watchpoint with their number.
`FoundIsMeant`, `ShowsItsOwn` and `ChangesComplete` leave out expressions with an
operator before a path and names that are `Shadowed`, `ChangesComplete` moreover
what `-var-update` says of objects (nothing), `AnswersTheQuestion` the files that
look alike, `StreamsReadBack` text without a last line feed, `CommandsPause` the
steps, `ShownWhole` classes without a base, `ArgsLogged` command lines with "new-ui"
and those where an -ex is itself the value of an option, `ScreenShowsLine` the hint
for a line that is empty (one that begins shows its prompt only). The properties of
the line editor end where an overlong completion begins, and its prompt is shorter
than a row (`EditorAssumption`).

## Proofs

* **DebugSession_proofs**, for any number of runs and commands, with or without
  failing pthread_create: `TypeCorrect`, `TeardownSafe`, `MainExitKills`; of
  sessions with one run: `ExitKills`, `StopSettles`. The
  inductive invariant adds to the types: runs are born in order and listeners
  belong to born runs; between launch and start of its listener the target is the
  youngest run (`FreshTarget`); a listener is the one to be joined or its run was
  replaced (`OneToJoin`), and has ended when the main thread is done (`Joined`);
  processes LLDB forgot are dead; and after DestroyProcess the main thread's
  process stays dead (`Destroyed`), for which it is needed that only runs are
  resumed. SafeTeardown alone is not inductive: it says nothing before the join.
  A second invariant (`VInv`) is about one run: its listener listens to the
  session's process, and what that has destroyed stays dead (`Births`); the last
  event in the queue tells the process's state, and an empty queue the public one
  (`EventsTell`); a stop the client has not been told of is in the queue or being
  handled (`ToldOfStop`). Without EventsTell an old stop could be the last word
  about a process that was resumed since.
* **ThreadTable_proofs**, for every table size and finite set of threads, when
  calls do not overlap (`Serial`): `TableIsCorrect`, `ExitedAreFinished`,
  `TableImplementsRegistry`. The invariant ties the marks of the current call to
  slots that hold live threads it saw; that no duplicate arises needs that the
  thread about to be inserted is in no slot. The last theorem needs a counting
  argument (a table without a free slot holds THREADS_MAX threads). `ThreadRace.cfg`
  shows that the assumption cannot be dropped.
* **Buffers_proofs**. Text buffers, for all sizes, lengths and limits, when texts
  stay below the limit (`RespectLimit`): `BufferSafe`, `TextStaysWhole`. The
  invariant is types, MemorySafe and WholeText together; growing by the larger of
  what is needed and what there is makes room for any one text. Command input, for
  all characters, chunks and amounts of input: `TypeCorrect`, `LinesInOrder`,
  `NoCommandWaits`. The n-th line ends where n newlines are counted; a chunk
  appended changes no earlier count (`EndStays`), and the first line of the rest is
  the next line of the whole (`NextEnd`). The invariant adds to InOrder what the
  main loop is about to do: it sleeps only when the rest has no newline.
* **Startup_proofs**, for arrays of any size, any texts, arguments and scripts. Of
  the arrays alone: `ArraysTyped`, `ReadsStayInside`, `ArraysImplementList`. The
  invariant says that the pointers in use, and the NULs that end their texts, lie
  below `envspointer`; a new text is written above it, so the older ones read the
  same afterwards, and what `unset env` leaves behind is above it too. EntriesEnd
  alone is not inductive: a text whose NUL lies above `envspointer` would be
  overwritten. Every step of main, of the client and of a script is a step of the
  arrays or leaves them alone (`StartIsEnvironment`), hence `StartImplementsList`
  and `StartReadsInside` for the program as a whole. `ScriptsPause` needs the
  invariant that a program that runs, or whose stop is being handled, has
  `isrunning` set unless a step command resumed it (`Waiting`). `ArgumentsAreLogged`
  follows the record through the loop over the arguments (`LogInv`): its n-th entry
  is the n-th argument that is not the value of an -ex, which is counted, so that
  no induction over the arguments is needed; an option's value adds an entry and
  a place at once (`PlacedNext`), an -ex leaves a place out (`PlacedPast`).
* **LineEditor_proofs**, for every buffer, terminal, history limit and completion;
  one that is too long ends in `Overrun`, which is the invariant's other case, and
  all others keep: `TypeCorrect`, `TextInBuffer`, `HistoryKept`, `NeverEndsRaw`,
  `RowAlwaysKnown`, `FieldImplemented`, `ScreenIsTrue`. The invariant adds to the
  four properties that the prompt is shorter than a row (`Wide`), that the rows
  the next redrawing cleans include the cursor's (`Placed`), that a line edited in
  raw mode has an entry in the history (`Entries`), and that raw mode is on only
  at terminals whose restoring at exit was registered (`Raw`). That the cursor's
  row is one of the rows the text takes (`RowsReachCursor`) is a lemma about
  quotients by the width. FieldImplemented compares, key by key, the bytes memmove
  leaves with the text of TextField: erasing, inserting and exchanging are three
  lemmas (`ErasedText`, `InsertedText`, `TransposedText`), and every key is one of
  them or a move. ScreenIsTrue holds because a step of a line either redraws it as
  the buffer has it (`RedrawnShows`), changes nothing, or echoes a character where
  the whole line fits, and there the echo and a redrawing agree (`WindowIsLine`,
  `EchoShows`).
* **CommandEngine_proofs**, for any number of threads and frames: `TypeCorrect`,
  `OneResultEach`, `AnswersItsThread`, `StopsAreShown`. The invariant says why the
  two threads do not spoil each other's selection: while the client thinks that
  the program is stopped, the listener sleeps (`InStep`), and a command about a
  thread is on its way only then, with its thread and frame selected by the time
  its handler runs (`Executing`). A second result needs an exit between --frame
  and the handler (`Results`), and what the listener is about to report has a
  reason if any thread has one that it looks for (`Chosen`). What is needed of
  the handlers is one lemma: each prints at most one record, and resumes, kills or
  leaves the process alone.
* **Breakpoints_proofs**, for any number of targets and breakpoints:
  `TypeCorrect`, `ClientKnowsThem`, `ToldOnesExist`, `NoneDeletedUnasked`. The
  invariant adds that a target's numbers are given out in order (`Numbered`), one
  to a breakpoint (`OneEach`), and that the one being inserted exists and is not
  yet told to the client (`Inserting`); without it a deletion by number could take
  two breakpoints, or the one that is being inserted. A record the listener is
  about to print says enabled (`DescEnabled`), so that it cannot hide a breakpoint
  that stops the program.

* **Variables_proofs**, for any forest of declarations, any expressions and limits:
  `NamesTellTheirObjects`, `SearchIsRight`, `NamesKeepTheirVariables`,
  `ValuesAreTheObjects`, `WalksAreWhole`. The invariant says that an object was
  found for the question its number was given to, or is the child its name tells of
  one that was (`ObjectsComeFromQuestions`); since the declarations do not change,
  neither do names and variables, and what is shown belongs to the frame of the
  question. FoundIsMeant is about the search alone: the list of all blocks' variables
  gives, for a name that is not shadowed, the visible one or none (`FirstByNameIs`,
  `StandardIs`); LLDB's strict search finds
  nothing else than the loose one (`StrictIsLoose`), of a cut expression it finds
  what the whole one passes through (`UpToReached`), and the walk from the root
  follows LLDB's children as far as the limits let it, or gives nothing
  (`WalkDenotes`). The walks of updateVarState and formatChangedList are proved to
  reach just what lies below (`WalkedIsDeep`, `WalksReachAll`). The library's
  induction cannot be instantiated here, so induction is done with least elements
  (`UpTheNumbers`), from which also follows that the recursive functions of the
  model are functions at all (`StepByStep`).

Only model-checked, and why:

* liveness (`EofEnds`, `StopReported`, `LinesAreExecuted`, `Responded`,
  `ClientConverges` and the others under fairness), which needs reasoning about
  fairness and ENABLED that the prover does not do;
* Startup's `ScriptExecuted` compares the commands of given files with lists given
  next to them (`Meant`), which no assumption ties together but the reader itself;
  `StreamsReadBack` folds over records that are folded from texts;
* the last part of Variables' `ChangesComplete`, that a path's text is found again
  (`TextsLeadBack`): the text is cleaned by recursion over sequences, read back and
  searched for; the other two parts are `WalksAreWhole`;
* Queries and Descriptions, which follow structures of any depth with RECURSIVE
  operators, about which nothing can be proved here.

The type invariants of all modules with proofs, the client's list of threads
(`ClientAgrees`) and `NothingWaits` of the input are proved and need no run. The
assumptions are the named ASSUMEs of the modules, which every run evaluates, and
the hypotheses named above (`Serial`, `RespectLimit`).

## Not modelled

* LLDB: its headers, but for lldb-versioning.h and the enumerations that are named,
  are an interface; what it does is modelled as external, from
  how the code uses it. They make up more than half of the repository's lines of
  code.
* Records are printed atomically in the models, although the static buffers of
  cdtprintf, formatFrame and formatValue are shared by both threads.
* What LLDB's own commands do that are typed at the terminal (`HandleCommand`,
  lldbmi2.cpp:276-283): they are input that ends a read. The debuggee's terminal
  (`-inferior-tty-set`), which main relays from and reads in the same way.
* Contents of registers, memory and disassembly, casts of variables
  (castexpression), the rendering of single values, and saving the history.
* Code nothing calls: formatChildrenList, lognumbers, assertStrings,
  ReplaceString, strup.
* Output of the program that fills the relay's buffer: the loop that follows is
  undefined. Changes of the editor's modes inside a line.

## Plan

1. Output: cdtprintf's static buffer with two writers.
2. Thread table over several runs; the launch's order of *running and *stopped.
3. Proofs: that a path's text leads back to it (`TextsLeadBack`), with the cleaning
   stated as what it yields; that a script without log lines is executed in order.
