--------------------------- MODULE CommandEngine ---------------------------
(***************************************************************************)
(* The command engine of lldbmi2: how a command's --thread and --frame     *)
(* options choose a thread and a frame, how many result records each       *)
(* handler of fromCDT prints, and how the listener thread chooses the      *)
(* thread of a *stopped record.  The two threads meet in LLDB's selected   *)
(* thread, which both of them set and which nearly every handler uses.     *)
(*                                                                         *)
(* The session has no process, or one that has been launched.  Launching,  *)
(* killing and leaving are the subject of DebugSession; a resume is one    *)
(* step here.  The client is the one the program is written for: it waits  *)
(* for a command's result, or gives it up, before it sends the next, and   *)
(* it sends commands about a thread, and resuming ones, while the last it  *)
(* was told is *stopped, or before there is a process.                     *)
(***************************************************************************)
EXTENDS Integers, FiniteSets

CONSTANTS
    MaxThread,   \* bound: thread index ids 1 .. MaxThread
    MaxFrame     \* bound: every thread has the frames 0 .. MaxFrame

ASSUME BoundsAssumption == MaxThread \in Nat \ {0} /\ MaxFrame \in Nat

Threads == 1 .. MaxThread
Frames == 0 .. MaxFrame
NoThread == 0
NoFrame == -1

\* Stop reasons.  "plan" is PlanComplete; "event" stands for Breakpoint,
\* Watchpoint, Signal and Exception; "none" for None and Invalid; "exec" for
\* Exec and the later ones, which neither updateSelectedThread nor onStopped
\* knows.
Reasons == {"none", "plan", "event", "trace", "exec"}

\* Kinds of commands, told apart by how they are answered.  thread and frame
\* are the options, arg is the argument of -thread-info, of
\* -stack-select-frame or of -exec-until, where it says whether there is a
\* location (0: no argument at all) and whether it has a ":".
Plain == {"settings", "show", "stack", "data", "evaluate", "breakpoint",
          "insert", "groups", "continue", "step", "abort", "console", "silent", "unknown"}
NoLocation == 0
NoColon == 1
FileAndLine == 2
Command == [kind : Plain, thread : Threads \cup {NoThread},
            frame : Frames \cup {NoFrame}, arg : {0}]
           \cup [kind : {"select-frame"}, thread : Threads \cup {NoThread},
                 frame : {NoFrame}, arg : 0 .. MaxFrame + 1]
           \cup [kind : {"thread-info"}, thread : {NoThread}, frame : {NoFrame},
                 arg : Threads]
           \cup [kind : {"until"}, thread : Threads \cup {NoThread}, frame : {NoFrame},
                 arg : {NoLocation, NoColon, FileAndLine}]
None == [kind |-> "none", thread |-> NoThread, frame |-> NoFrame, arg |-> 0]

VARIABLES
    proc,      \* the debuggee
    alive,     \* its threads, as LLDB lists them
    reason,    \* why each of them is stopped
    sel,       \* the selected thread
    frame,     \* the selected frame of each thread
    event,     \* the state event the listener has not taken yet
    lpc,       \* where the listener thread is
    view,      \* what the client was told last of the process
    known,     \* the threads the client knows
    cmd, mpc,  \* the command, and where the main thread is in it
    ans, bare, \* result records printed for it, with and without its number
    ran,       \* the thread and the frame its answer describes
    waiting    \* the client waits for its result

lldb == <<proc, alive, reason, sel, frame, event>>
client == <<view, known>>
main == <<cmd, mpc, ans, bare, ran, waiting>>
vars == <<lldb, client, main, lpc>>

TypeOK ==
    /\ proc \in {"none", "running", "stopped", "exited"}
    /\ alive \subseteq Threads /\ reason \in [Threads -> Reasons]
    /\ sel \in Threads \cup {NoThread} /\ frame \in [Threads -> Frames]
    /\ event \in {"none", "stopped", "exited"}
    /\ lpc \in {"wait", "select", "report", "done"}
    /\ view \in {"none", "running", "stopped", "exited"} /\ known \subseteq Threads
    /\ cmd \in Command \cup {None} /\ mpc \in {"idle", "thread", "frame", "execute"}
    /\ ans \in 0 .. 2 /\ bare \in 0 .. 1 /\ waiting \in BOOLEAN
    /\ ran \in [thread : Threads \cup {NoThread}, frame : Frames \cup {NoFrame}]

Nothing == [thread |-> NoThread, frame |-> NoFrame]
AllNone == [t \in Threads |-> "none"]
Bottom == [t \in Threads |-> 0]

Init ==
    /\ \/ proc = "none" /\ alive = {} /\ lpc = "done"
       \/ proc = "running" /\ alive = {1} /\ lpc = "wait"
    /\ view = proc /\ known = alive
    /\ reason = AllNone /\ sel = NoThread /\ frame = Bottom /\ event = "none"
    /\ cmd = None /\ mpc = "idle" /\ ans = 0 /\ bare = 0 /\ ran = Nothing
    /\ waiting = FALSE

-----------------------------------------------------------------------------
(***************************************************************************)
(* LLDB and the debuggee.                                                  *)
(***************************************************************************)
Least(S) == CHOOSE t \in S : \A u \in S : t <= u

\* SBProcess::GetSelectedThread falls back on the first thread of the list.
GetSelectedThread ==
    IF sel \in alive THEN sel ELSE IF alive = {} THEN NoThread ELSE Least(alive)

\* Frames can be looked at only while the process is stopped.
GetSelectedFrame ==
    IF proc = "stopped" /\ GetSelectedThread # NoThread
    THEN frame[GetSelectedThread] ELSE NoFrame

\* SBProcess::GetThreadAtIndex, base 0; the list is ordered by index id.
GetThreadAtIndex(i) ==
    IF \E t \in alive : Cardinality({u \in alive : u < t}) = i
    THEN CHOOSE t \in alive : Cardinality({u \in alive : u < t}) = i
    ELSE NoThread

\* Some thread stops the process; others may have been born or have ended.
DebuggeeStops ==
    /\ proc = "running"
    /\ proc' = "stopped" /\ event' = "stopped"
    /\ alive' \in SUBSET Threads \ {{}}
    /\ \E r \in [alive' -> Reasons] :
          /\ \E t \in alive' : r[t] # "none"
          /\ reason' = [t \in Threads |-> IF t \in alive' THEN r[t] ELSE "none"]
    /\ UNCHANGED <<sel, frame, client, main, lpc>>

\* The debuggee exits, or is killed from outside while it is stopped.  An
\* exit also ends the handling of a stop that is still queued.
DebuggeeExits ==
    /\ proc \in {"running", "stopped"}
    /\ proc' = "exited" /\ event' = "exited" /\ alive' = {}
    /\ reason' = AllNone
    /\ UNCHANGED <<sel, frame, client, main, lpc>>

-----------------------------------------------------------------------------
(***************************************************************************)
(* The listener thread.                                                    *)
(***************************************************************************)
\* onStopped starts with checkThreadsLife: the client is told the threads.
OnStopped ==
    /\ lpc = "wait" /\ event = "stopped"
    /\ event' = "none" /\ lpc' = "select"
    /\ known' = IF alive = {} THEN known ELSE alive
    /\ UNCHANGED <<proc, alive, reason, sel, frame, view, main>>

\* Mutant: stops of another thread at a breakpoint, watchpoint, signal or
\* exception are no candidates.
UpdateSelectedThreadPlanOnly ==
    /\ lpc = "select" /\ lpc' = "report"
    /\ LET plan == {t \in alive : reason[t] = "plan"}
       IN  sel' = IF plan # {} THEN Least(plan) ELSE GetSelectedThread
    /\ UNCHANGED <<proc, alive, reason, frame, event, client, main>>

\* updateSelectedThread: unless the selected thread has a stop reason itself,
\* the first thread that has completed its plan, or else the first one with
\* another known reason, becomes the selected one.
UpdateSelectedThread ==
    /\ lpc = "select" /\ lpc' = "report"
    /\ LET current == GetSelectedThread
           plan == {t \in alive : reason[t] = "plan"}
           other == {t \in alive : reason[t] \in {"trace", "event"}}
       IN  sel' = IF current # NoThread /\ reason[current] # "none" THEN current
                  ELSE IF plan # {} THEN Least(plan)
                  ELSE IF other # {} THEN Least(other)
                  ELSE current
    /\ UNCHANGED <<proc, alive, reason, frame, event, client, main>>

\* The rest of onStopped: *stopped is printed for the selected thread if its
\* reason is one that onStopped knows.
Report ==
    /\ lpc = "report" /\ lpc' = "wait"
    /\ view' = IF GetSelectedThread # NoThread
                  /\ reason[GetSelectedThread] \in {"plan", "event"}
               THEN "stopped" ELSE view
    /\ UNCHANGED <<lldb, known, main>>

\* terminateProcess prints =thread-group-exited, and the listener ends.
OnExited ==
    /\ lpc = "wait" /\ event = "exited"
    /\ event' = "none" /\ lpc' = "done"
    /\ view' = "exited"
    /\ waiting' = FALSE
    /\ UNCHANGED <<proc, alive, reason, sel, frame, known, cmd, mpc, ans, bare, ran>>

Listener == OnStopped \/ UpdateSelectedThread \/ Report \/ OnExited

-----------------------------------------------------------------------------
(***************************************************************************)
(* The main thread: evalCDTCommand, then the handler.                      *)
(***************************************************************************)
Resuming == {"continue", "step", "until"}
AboutThread(c) == c.thread # NoThread \/ c.kind \in Resuming \cup {"thread-info"}

\* The client sends c.  A thread or a frame it names is one it knows, and a
\* frame comes with its thread.
Send(c) ==
    /\ mpc = "idle" /\ ~waiting
    /\ AboutThread(c) => view = "stopped" \/ proc = "none"
    /\ c.thread # NoThread => c.thread \in known
    /\ c.kind = "thread-info" => c.arg \in known
    /\ c.frame # NoFrame => c.thread # NoThread
    /\ cmd' = c /\ mpc' = "thread" /\ ans' = 0 /\ bare' = 0 /\ ran' = Nothing
    /\ waiting' = TRUE
    /\ UNCHANGED <<lldb, client, lpc>>

\* A client that got no result for its command may give up waiting.
GiveUp ==
    /\ mpc = "idle" /\ waiting
    /\ waiting' = FALSE
    /\ UNCHANGED <<lldb, client, lpc, cmd, mpc, ans, bare, ran>>

\* Mutant: only a thread with a stop reason can be selected.
EvalThreadStopped ==
    /\ mpc = "thread" /\ mpc' = "frame"
    /\ sel' = IF cmd.thread \in alive /\ reason[cmd.thread] # "none"
              THEN cmd.thread ELSE sel
    /\ UNCHANGED <<proc, alive, reason, frame, event, client, lpc, cmd, ans, bare, ran,
                   waiting>>

\* --thread: an index id that names no thread leaves the selection alone.
EvalThread ==
    /\ mpc = "thread" /\ mpc' = "frame"
    /\ sel' = IF cmd.thread \in alive THEN cmd.thread ELSE sel
    /\ UNCHANGED <<proc, alive, reason, frame, event, client, lpc, cmd, ans, bare, ran,
                   waiting>>

\* --frame: without a thread an ^error is printed, and the command executed
\* all the same.
EvalFrame ==
    /\ mpc = "frame" /\ mpc' = "execute"
    /\ LET t == GetSelectedThread
       IN  /\ frame' = IF cmd.frame \in Frames /\ t # NoThread /\ proc = "stopped"
                       THEN [frame EXCEPT ![t] = cmd.frame] ELSE frame
           /\ ans' = IF cmd.frame \in Frames /\ t = NoThread THEN 1 ELSE ans
           /\ waiting' = (waiting /\ ans' = ans)
    /\ UNCHANGED <<proc, alive, reason, sel, event, client, lpc, cmd, bare, ran>>

\* A handler: it prints numbered records with the command's number and other
\* ones without.
Handle(kind, numbered, other, about) ==
    /\ mpc = "execute" /\ cmd.kind = kind /\ mpc' = "idle"
    /\ ans' = ans + numbered /\ bare' = bare + other
    /\ ran' = about
    /\ waiting' = (waiting /\ numbered + other = 0)
    /\ UNCHANGED <<lpc, known, cmd>>

Selected == [thread |-> GetSelectedThread, frame |-> GetSelectedFrame]

\* A handler that prints one numbered record on every path and looks at no
\* thread.
Fixed(kind) == Handle(kind, 1, 0, Nothing) /\ UNCHANGED <<lldb, view>>

\* -gdb-version, -list-features, -environment-cd, unset and -gdb-set
Settings == Fixed("settings")
\* -enable-pretty-printing, source and -inferior-tty-set
Terminal == Fixed("settings")
\* -exec-arguments
ExecArguments == Fixed("settings")
\* -break-delete, -break-enable and -break-disable
BreakByNumber == Fixed("breakpoint")
\* catch catch and catch throw
Catch == Fixed("breakpoint")
\* -list-thread-groups of all groups, or of the one that is debugged
ListThreadGroups == Fixed("groups")
\* -interpreter-exec console, but for its kill (see DebugSession)
Console == Fixed("console")
\* -var-list-children finds a variable object by its name.
VarListChildren == Fixed("evaluate")
\* -data-evaluate-expression
DataEvaluateExpression == Fixed("evaluate")
Ptype == Fixed("evaluate")
\* -file-list-exec-sections
ListSections == Fixed("evaluate")
\* info sharedlibrary, functions, address and line
Info == Fixed("evaluate")
\* -symbol-list-lines
SymbolListLines == Fixed("evaluate")
\* -data-disassemble
DataDisassemble == Fixed("evaluate")
\* -data-read-memory and -data-read-memory-bytes
DataReadMemory == Fixed("evaluate")
Unimplemented == Fixed("unknown")

\* Another interpreter than console, another thread group and an empty line
\* get no result.
NoAnswer == Handle("silent", 0, 0, Nothing) /\ UNCHANGED <<lldb, view>>

\* -break-insert and -break-watch print their errors without the number.
BreakInsert ==
    /\ \/ Handle("insert", 1, 0, Nothing)
       \/ Handle("insert", 0, 1, Nothing)
    /\ UNCHANGED <<lldb, view>>

\* Mutant: no result when the selected thread has no frame.
GdbShowSilent ==
    /\ \/ /\ GetSelectedThread # NoThread /\ GetSelectedFrame = NoFrame
          /\ Handle("show", 0, 0, Nothing)
       \/ /\ GetSelectedThread = NoThread \/ GetSelectedFrame # NoFrame
          /\ Handle("show", 1, 0, Nothing)
    /\ UNCHANGED <<lldb, view>>

\* -gdb-show: the language of the selected frame, auto without a thread.
GdbShow ==
    /\ Handle("show", 1, 0, IF GetSelectedFrame = NoFrame THEN Nothing ELSE Selected)
    /\ UNCHANGED <<lldb, view>>

\* A handler about the selected thread, or about its selected frame.
OfThread == Handle("stack", 1, 0, Selected) /\ UNCHANGED <<lldb, view>>
OfFrame ==
    /\ Handle("data", 1, 0, IF GetSelectedFrame = NoFrame THEN Nothing ELSE Selected)
    /\ UNCHANGED <<lldb, view>>

\* -stack-info-depth, -stack-list-frames and -stack-list-arguments
StackOfThread == OfThread
CurrentThread == OfThread
\* -data-list-register-names and -data-list-register-values
DataListRegisters == OfThread
StackListLocals == OfFrame
\* info program: where the selected frame of a stopped program is and why, or
\* the state of another one; the result is ^done, even without a process.
InfoProgram == OfFrame
\* -var-create and -var-update
VarCreate == OfFrame
\* -var-info-path-expression and -var-evaluate-expression
VarEvaluateExpression == OfFrame
VarSetFormat == OfFrame

SelectFrame(numbered, selects) ==
    /\ Handle("select-frame", numbered, 0, Nothing)
    /\ frame' = IF selects THEN [frame EXCEPT ![GetSelectedThread] = cmd.arg] ELSE frame
    /\ UNCHANGED <<proc, alive, reason, sel, event, view>>

HasFrame == GetSelectedThread # NoThread /\ proc = "stopped" /\ cmd.arg \in Frames

\* Mutant: the else of "No such frame." is missing.
StackSelectFrameNoElse ==
    SelectFrame(IF GetSelectedThread # NoThread /\ ~HasFrame THEN 2 ELSE 1, HasFrame)

\* -stack-select-frame: ^done, "No such frame." or "Invalid Thread."
StackSelectFrame == SelectFrame(1, HasFrame)

\* formatThreadInfo takes a number for an index into the list of threads.
formatThreadInfo(threadindexid) ==
    IF proc = "stopped" THEN GetThreadAtIndex(threadindexid) ELSE NoThread

\* -thread-info with an index id: the thread, or an error if there is none.
ThreadInfo ==
    /\ Handle("thread-info", 1, 0,
              [thread |-> formatThreadInfo(cmd.arg), frame |-> NoFrame])
    /\ UNCHANGED <<lldb, view>>

\* The debuggee goes on, when its process is really stopped.
Resumes ==
    /\ proc = "stopped"
    /\ view' = "running"
    /\ proc' = "running" /\ reason' = AllNone /\ frame' = Bottom
    /\ UNCHANGED <<alive, sel, event>>

\* LLDB calls a process stopped that has exited since, as long as the listener
\* has not taken the exit: ^running is printed for it, or, for want of a
\* thread, ^error.
SaidStopped == proc = "exited" /\ event = "exited"

\* a handler that resumes, and its answer when it does not
Resume(kind) == Handle(kind, 1, 0, Nothing) /\ Resumes
Unresumed(kind, numbered) == Handle(kind, numbered, 0, Nothing) /\ UNCHANGED <<lldb, view>>

\* Without a process there is an ^error, and nothing at all for one that is
\* not stopped.
NotStopped(kind) ==
    \/ proc = "none" /\ Unresumed(kind, 1)
    \/ proc \in {"running", "exited"} /\ Unresumed(kind, 0)

\* -exec-continue
ExecContinue ==
    \/ Resume("continue") \/ NotStopped("continue")
    \/ SaidStopped /\ Unresumed("continue", 1)

\* -exec-step, -exec-next, their instruction variants and -exec-finish
ExecStep ==
    \/ Resume("step") \/ NotStopped("step")
    \/ SaidStopped /\ Unresumed("step", 1)

\* -exec-until: a location without ":" and a thread without a frame are not
\* answered.  Without an argument the location is whatever the array held.
ExecUntil ==
    \/ /\ cmd.arg # NoColon /\ GetSelectedFrame # NoFrame
       /\ Resume("until")
    \/ /\ proc = "stopped"
       /\ cmd.arg # FileAndLine \/ GetSelectedFrame = NoFrame
       /\ Unresumed("until", 0)
    \/ NotStopped("until")
    \/ SaidStopped /\ Unresumed("until", 1)

\* kill and -exec-abort
ExecAbort ==
    /\ Handle("abort", 1, 0, Nothing)
    /\ IF proc \in {"running", "stopped"}
       THEN /\ proc' = "exited" /\ event' = "exited" /\ alive' = {}
            /\ reason' = AllNone
            /\ UNCHANGED <<sel, frame>>
       ELSE UNCHANGED lldb
    /\ UNCHANGED view

Execute ==
    \/ Settings \/ Terminal \/ ExecArguments \/ BreakByNumber \/ Catch
    \/ ListThreadGroups \/ Console \/ VarListChildren \/ DataEvaluateExpression
    \/ Ptype \/ ListSections \/ Info \/ SymbolListLines \/ DataDisassemble
    \/ DataReadMemory \/ Unimplemented \/ NoAnswer \/ BreakInsert \/ GdbShow
    \/ StackOfThread \/ InfoProgram \/ CurrentThread \/ DataListRegisters \/ StackListLocals
    \/ VarCreate \/ VarEvaluateExpression \/ VarSetFormat
    \/ StackSelectFrame \/ ThreadInfo \/ ExecContinue \/ ExecStep \/ ExecUntil
    \/ ExecAbort

Main == EvalThread \/ EvalFrame \/ Execute

Next ==
    \/ (\E c \in Command : Send(c)) \/ GiveUp
    \/ Main \/ Listener \/ DebuggeeStops \/ DebuggeeExits

Spec == Init /\ [][Next]_vars

\* Both threads are scheduled; the client and the debuggee need do nothing.
FairSpec == Spec /\ WF_vars(Main) /\ WF_vars(Listener)

-----------------------------------------------------------------------------
\* A command gets at most one result record, numbered or not, as long as the
\* debuggee lives.  (Once it has ended, --frame and the handler both print
\* an error.)
OneResult == ans + bare <= 1 \/ proc = "exited"

\* An answer describes the thread and the frame the command named, although
\* the listener thread moves the selection too: it does so before it prints
\* *stopped, and not again before the client has resumed the process.
RightThread ==
    cmd.kind \in {"show", "stack", "data"} /\ ran # Nothing /\ proc = "stopped" =>
        /\ cmd.thread # NoThread => ran.thread = cmd.thread
        /\ cmd.frame # NoFrame => ran.frame = cmd.frame

\* A stop is reported whenever some thread has a reason that onStopped knows,
\* whichever thread was selected before; the stops that are not reported are
\* those where the selected thread itself has a reason that is not known.
StopShown ==
    lpc = "wait" /\ event = "none" /\ proc = "stopped" /\ view # "stopped" =>
        reason[GetSelectedThread] \in {"trace", "exec"} \/
        \A t \in alive : reason[t] \in {"none", "exec"}

\* The client is not left waiting: it gets the result of its command or is
\* told that the debuggee has ended.  Left out are the commands that the
\* engine does not answer: another interpreter than console, another thread
\* group, an empty line (NoAnswer), and -exec-until without a location or with
\* one that has no ":" (engine.cpp:430-441).
Answerable(c) == c.kind # "silent" /\ (c.kind = "until" => c.arg = FileAndLine)

Responded == waiting /\ Answerable(cmd) ~> ~waiting
=============================================================================
