---------------------------- MODULE DebugSession ----------------------------
(***************************************************************************)
(* One debugging session of lldbmi2: the main thread, which reads MI       *)
(* commands and executes them (main in lldbmi2.cpp, fromCDT in             *)
(* engine.cpp), and the listener threads, one started by each -exec-run    *)
(* and -target-attach, which turn LLDB's process events into MI records    *)
(* (events.cpp).  The threads share the STATE record without a lock, so    *)
(* every access to a shared field that another thread can observe is a     *)
(* step of its own; what a thread does between two such accesses is one    *)
(* step.                                                                   *)
(*                                                                         *)
(* LLDB and the debuggee are external.  LLDB keeps two states per process: *)
(* the private one, which follows the debuggee, and the public one, which  *)
(* SBProcess::GetState returns and which changes only when a listener      *)
(* takes the state event out of its queue.                                 *)
(***************************************************************************)
EXTENDS Naturals, Sequences, FiniteSets

CONSTANTS
    MaxRuns,      \* bound: processes launched or attached in a session
    MaxCommands,  \* bound: commands the client sends
    CreateMayFail,\* whether pthread_create can fail in startProcessListener
    Istest,       \* limits.istest: commands come from a built-in script
    Script        \* that script, a sequence of commands

ASSUME ConstantsAssumption ==
    /\ MaxRuns \in Nat /\ MaxCommands \in Nat
    /\ CreateMayFail \in BOOLEAN /\ Istest \in BOOLEAN

Main == 0
Runs == 1 .. MaxRuns
Threads == {Main} \cup Runs      \* listener r is the one started for run r
NoRun == 0                       \* an SBProcess that IsValid() refuses

Commands == {"file-exec", "file-clear", "run", "attach", "continue", "step", "bad-step",
             "console-kill", "abort", "detach", "gdb-exit"}
How == {"THREAD", "GROUP", "EXIT"}   \* the flags of terminateProcess

\* StateType, as far as the code acts on it; "running" is also launching,
\* attaching and stepping.  The listener only logs crashed and detached
\* (events.cpp:122-124), which no process of this model comes to be.
ProcessState == {"unborn", "running", "stopped", "exited"}
Event == [run : Runs, state : {"running", "stopped", "exited"}]

Reads == {"stdin", "pty"}   \* reads without input that main may sit in
MainLabels == Reads \cup
              {"poll", "more", "publish", "listen", "announce", "resume",
               "mark", "want", "answer", "join", "done", "dead"}
ListenerLabels == {"unborn", "start", "loop", "wait", "running", "stopped",
                   "idle", "done"}
TerminateLabels == {"procstop", "destroy", "group", "exit"}

VARIABLES
    eof, procstop, isrunning, wanttokill,  \* the flags of STATE
    process,   \* pstate->process
    target,    \* the process of the global target, target.GetProcess()
    sbTID,     \* the listener waitProcessListener joins
    private, public, valid, events,        \* LLDB
    pc, how,   \* where a thread is, and its argument of terminateProcess
    own,       \* the copy of pstate->process a listener takes as it starts
    cmd,       \* the command the main thread executes
    ncmd,      \* how many commands it has read
    view       \* the client's view: the last exec or group record printed

flags == <<eof, procstop, isrunning, wanttokill>>
lldb == <<private, public, valid, events>>
input == <<cmd, ncmd>>
vars == <<flags, process, target, sbTID, lldb, pc, how, own, input, view>>

TypeOK ==
    /\ eof \in BOOLEAN /\ procstop \in BOOLEAN
    /\ isrunning \in BOOLEAN /\ wanttokill \in BOOLEAN
    /\ process \in Threads /\ target \in Threads /\ sbTID \in Threads
    /\ private \in [Runs -> ProcessState] /\ public \in [Runs -> ProcessState]
    /\ valid \in SUBSET Runs
    /\ events \in Seq(Event)
    /\ pc \in [Threads -> MainLabels \cup ListenerLabels \cup TerminateLabels]
    /\ pc[Main] \in MainLabels \cup TerminateLabels
    /\ \A l \in Runs : pc[l] \in ListenerLabels \cup TerminateLabels
    /\ how \in [Threads -> SUBSET How]
    /\ own \in [Runs -> Threads]
    /\ cmd \in Commands \cup {"none"} /\ ncmd \in 0 .. MaxCommands
    /\ view \in {"none", "running", "stopped", "exited"}

Init ==
    /\ eof = FALSE /\ procstop = FALSE /\ isrunning = FALSE /\ wanttokill = FALSE
    /\ process = NoRun /\ target = NoRun /\ sbTID = NoRun
    /\ private = [r \in Runs |-> "unborn"] /\ public = [r \in Runs |-> "unborn"]
    /\ valid = {} /\ events = <<>>
    /\ pc = [t \in Threads |-> IF t = Main THEN "poll" ELSE "unborn"]
    /\ how = [t \in Threads |-> {}]
    /\ own = [l \in Runs |-> NoRun]
    /\ cmd = "none" /\ ncmd = 0
    /\ view = "none"

Goto(t, label) == pc' = [pc EXCEPT ![t] = label]

-----------------------------------------------------------------------------
(***************************************************************************)
(* LLDB, as the code uses it.                                              *)
(***************************************************************************)
Alive(r) == r # NoRun /\ private[r] \in {"running", "stopped"}
Pending(r) == \E i \in 1 .. Len(events) : events[i].run = r

\* SBProcess::IsValid and GetState on a (weak) reference to run r.  The queued
\* events of a process that LLDB has forgotten are never delivered.
IsValid(r) == r \in valid
Queued == {i \in 1 .. Len(events) : IsValid(events[i].run)}
GetState(r) == IF IsValid(r) THEN public[r] ELSE "invalid"

\* Resuming works once every state change has been taken from the queue: LLDB
\* holds the public run lock from a resume until the next stop is public.
CanResume(r) == private[r] = "stopped" /\ public[r] = "stopped" /\ ~Pending(r)

Resume(r) ==
    /\ IF CanResume(r)
       THEN /\ private' = [private EXCEPT ![r] = "running"]
            /\ events' = Append(events, [run |-> r, state |-> "running"])
       ELSE UNCHANGED <<private, events>>
    /\ UNCHANGED <<public, valid>>

\* SBProcess::Destroy; a dead or invalid process is left alone.
Destroy(r) ==
    /\ IF IsValid(r) /\ Alive(r)
       THEN /\ private' = [private EXCEPT ![r] = "exited"]
            /\ events' = Append(events, [run |-> r, state |-> "exited"])
       ELSE UNCHANGED <<private, events>>
    /\ UNCHANGED <<public, valid>>

\* A target holds one process: launching replaces a dead one, which LLDB then
\* forgets.
Launch(r) ==
    /\ private' = [private EXCEPT ![r] = "running"]
    /\ public' = public
    /\ valid' = (valid \ {target}) \cup {r}
    /\ events' = Append(events, [run |-> r, state |-> "running"])

\* Attaching goes through a new target; the process is stopped.
Attach(r) ==
    /\ private' = [private EXCEPT ![r] = "stopped"]
    /\ events' = Append(events, [run |-> r, state |-> "stopped"])
    /\ valid' = valid \cup {r}
    /\ public' = public

NewRun(r) == r \in Runs /\ private[r] = "unborn"
             /\ \A q \in Runs : q < r => private[q] # "unborn"

\* The debuggee stops (breakpoint, end of a step, signal) or exits.
Debuggee(r, s) ==
    /\ private[r] = "running"
    /\ private' = [private EXCEPT ![r] = s]
    /\ events' = Append(events, [run |-> r, state |-> s])
    /\ UNCHANGED <<flags, process, target, sbTID, public, valid, pc, how, own,
                   input, view>>

DebuggeeStops(r) == Debuggee(r, "stopped")
DebuggeeExits(r) == Debuggee(r, "exited")

\* The user's SIGINT (the client's pause) makes signalHandler stop the process,
\* if there is one that runs.  When it is main that takes the signal, its
\* select fails and leaves readfds full; main does not look at the result and
\* goes on to read from the terminal, which may have nothing to read.
SignalHandler ==
    /\ IF IsValid(process) /\ private[process] = "running"
       THEN /\ private' = [private EXCEPT ![process] = "stopped"]
            /\ events' = Append(events, [run |-> process, state |-> "stopped"])
       ELSE UNCHANGED <<private, events>>
    /\ \/ pc' = pc
       \/ pc[Main] = "poll" /\ ~eof /\ Goto(Main, "stdin")
    /\ UNCHANGED <<flags, process, target, sbTID, public, valid, how, own, input, view>>

-----------------------------------------------------------------------------
(***************************************************************************)
(* The main thread.  At "poll" it is at the top of main's loop; at "more"  *)
(* fromCDT has answered MORE_DATA, and the next command of the same chunk  *)
(* is executed without another look at eof.  After a select that failed it *)
(* sits in a read: "stdin", then "pty", where the client's commands come.  *)
(* The debuggee's own terminal (-inferior-tty-set), which it would read    *)
(* next in the same way, is left out.                                      *)
(***************************************************************************)
Read(c) ==
    /\ pc[Main] \in {"poll", "pty", "more"}
    /\ pc[Main] = "poll" => ~eof
    /\ ncmd < MaxCommands
    /\ Istest => ~isrunning /\ c = Script[ncmd + 1]
    /\ cmd' = c /\ ncmd' = ncmd + 1

\* End of the n-th command; a test script gives one command per turn.
Finish(n) ==
    \/ Goto(Main, "poll")
    \/ ~Istest /\ n < MaxCommands /\ Goto(Main, "more")

Terminate(t, flagset) ==
    /\ Goto(t, "procstop")
    /\ how' = [how EXCEPT ![t] = flagset]

\* -file-exec-and-symbols with an argument: a new target, without a process
FileExec ==
    /\ Read("file-exec") /\ Finish(ncmd')
    /\ target' = NoRun
    /\ UNCHANGED <<flags, process, sbTID, lldb, how, own, view>>

\* ... without: the process is destroyed and the target deleted, and with it
\* the target's process.
FileClear ==
    /\ Read("file-clear") /\ Finish(ncmd')
    /\ LET killed == {r \in valid : r \in {process, target} /\ Alive(r)}
       IN  /\ private' = [r \in Runs |-> IF r \in killed THEN "exited" ELSE private[r]]
           /\ events' = IF process \in killed
                        THEN Append(events, [run |-> process, state |-> "exited"])
                        ELSE events
    /\ valid' = valid \ {target}
    /\ target' = NoRun
    /\ UNCHANGED <<flags, process, sbTID, public, how, own, view>>

\* -exec-run: target.Launch fails, or gives a new running process.
ExecRunFails ==
    /\ Read("run") /\ Finish(ncmd')
    /\ UNCHANGED <<flags, process, target, sbTID, lldb, how, own, view>>

ExecRun(r) ==
    /\ Read("run") /\ Goto(Main, "publish")
    /\ NewRun(r) /\ ~Alive(target) /\ Launch(r)
    /\ target' = r
    /\ UNCHANGED <<flags, process, sbTID, how, own, view>>

\* -target-attach
TargetAttach(r) ==
    /\ Read("attach") /\ Goto(Main, "publish")
    /\ NewRun(r) /\ Attach(r)
    /\ target' = r
    /\ UNCHANGED <<flags, process, sbTID, how, own, view>>

TargetAttachFails ==
    /\ Read("attach") /\ Finish(ncmd')
    /\ target' = NoRun
    /\ UNCHANGED <<flags, process, sbTID, lldb, how, own, view>>

Publish ==
    /\ pc[Main] = "publish" /\ Goto(Main, "listen")
    /\ isrunning' = TRUE
    /\ process' = target
    /\ UNCHANGED <<eof, procstop, wanttokill, target, sbTID, lldb, how, own,
                   input, view>>

\* pthread_create may fail: nobody reads startProcessListener's result.
StartProcessListener ==
    /\ pc[Main] = "listen"
    /\ procstop' = FALSE
    /\ \/ /\ sbTID' = process
          /\ pc' = [pc EXCEPT ![Main] = "announce", ![process] = "start"]
       \/ /\ CreateMayFail
          /\ sbTID' = NoRun
          /\ Goto(Main, "announce")
    /\ UNCHANGED <<eof, isrunning, wanttokill, process, target, lldb, how, own,
                   input, view>>

\* =thread-group-started; then ^done, or ^running and *running
Announce ==
    /\ pc[Main] = "announce" /\ Finish(ncmd)
    /\ view' = IF cmd = "run" THEN "running" ELSE view
    /\ UNCHANGED <<flags, process, target, sbTID, lldb, how, own, input>>

\* -exec-continue, -exec-step and the like: *running is printed, then the
\* process is resumed.  A process that is not stopped gets no answer at all.
ExecResume(c) ==
    /\ Read(c)
    /\ \/ /\ GetState(process) = "stopped"
          /\ Goto(Main, "resume")
          /\ view' = "running"
       \/ /\ GetState(process) # "stopped"
          /\ Finish(ncmd')
          /\ view' = view
    /\ UNCHANGED <<flags, process, target, sbTID, lldb, how, own>>

ExecContinue == ExecResume("continue")
ExecStep == ExecResume("step")

\* A step of a stopped process whose selected thread is not valid, or an
\* -exec-until without a line or a valid frame, resumes nothing.
ExecStepFails ==
    /\ Read("bad-step") /\ Finish(ncmd')
    /\ GetState(process) = "stopped"
    /\ UNCHANGED <<flags, process, target, sbTID, lldb, how, own, view>>

\* -interpreter-exec console kill: a stopped process is resumed first.
ConsoleKill ==
    /\ Read("console-kill")
    /\ \/ GetState(process) = "stopped" /\ Goto(Main, "resume")
       \/ IsValid(process) /\ GetState(process) # "stopped" /\ Goto(Main, "answer")
       \/ ~IsValid(process) /\ Finish(ncmd')
    /\ UNCHANGED <<flags, process, target, sbTID, lldb, how, own, view>>

ResumeProcess ==
    /\ pc[Main] = "resume"
    /\ Resume(process)
    /\ IF cmd = "step" THEN Finish(ncmd) ELSE Goto(Main, "mark")
    /\ UNCHANGED <<flags, process, target, sbTID, how, own, input, view>>

\* Mutant: *running is printed only after the process has been resumed.
MarkRunningLatePrint ==
    /\ pc[Main] = "mark"
    /\ isrunning' = TRUE
    /\ view' = "running"
    /\ IF cmd = "continue" THEN Finish(ncmd) ELSE Goto(Main, "want")
    /\ UNCHANGED <<eof, procstop, wanttokill, process, target, sbTID, lldb, how,
                   own, input>>

MarkRunning ==
    /\ pc[Main] = "mark"
    /\ isrunning' = TRUE
    /\ IF cmd = "continue" THEN Finish(ncmd) ELSE Goto(Main, "want")
    /\ UNCHANGED <<eof, procstop, wanttokill, process, target, sbTID, lldb, how,
                   own, input, view>>

WantToKill ==
    /\ pc[Main] = "want" /\ Goto(Main, "answer")
    /\ wanttokill' = TRUE
    /\ UNCHANGED <<eof, procstop, isrunning, process, target, sbTID, lldb, how,
                   own, input, view>>

\* ^done; without wanttokill the main thread terminates the process itself.
AnswerKill ==
    /\ pc[Main] = "answer"
    /\ IF wanttokill THEN Finish(ncmd) /\ how' = how
                     ELSE Terminate(Main, {"GROUP", "EXIT"})
    /\ UNCHANGED <<flags, process, target, sbTID, lldb, own, input, view>>

\* kill, -exec-abort: a stopped process is resumed, then destroyed.
ExecAbort ==
    /\ Read("abort") /\ Finish(ncmd')
    /\ IF IsValid(target) /\ Alive(target)
       THEN /\ private' = [private EXCEPT ![target] = "exited"]
            /\ events' = events
                 \o (IF CanResume(target) THEN <<[run |-> target, state |-> "running"]>>
                                          ELSE <<>>)
                 \o <<[run |-> target, state |-> "exited"]>>
       ELSE UNCHANGED <<private, events>>
    /\ UNCHANGED <<flags, process, target, sbTID, public, valid, how, own, view>>

\* -target-detach
TargetDetach ==
    /\ Read("detach")
    /\ IF IsValid(process) THEN Terminate(Main, How)
                           ELSE Finish(ncmd') /\ how' = how
    /\ UNCHANGED <<flags, process, target, sbTID, lldb, own, view>>

GdbExit ==
    /\ Read("gdb-exit") /\ Terminate(Main, {"EXIT"})
    /\ UNCHANGED <<flags, process, target, sbTID, lldb, own, view>>

ReadsStdin ==
    \/ pc[Main] = "stdin"
    \/ pc[Main] = "poll" /\ ~eof

\* An empty line on the terminal ends the session ...
StdinEmptyLine ==
    /\ ReadsStdin /\ Goto(Main, "poll")
    /\ eof' = TRUE
    /\ UNCHANGED <<procstop, isrunning, wanttokill, process, target, sbTID, lldb,
                   how, own, input, view>>

\* ... and end of file (a NULL line) ends the program on the spot.
StdinClosed ==
    /\ ReadsStdin
    /\ Goto(Main, "dead")
    /\ UNCHANGED <<flags, process, target, sbTID, lldb, how, own, input, view>>

\* A key or a line for LLDB itself, whose commands are not modelled, ends the
\* read; the next one looks at eof first, and there is none in test mode.
StdinInput ==
    /\ pc[Main] = "stdin"
    /\ Goto(Main, IF eof \/ Istest THEN "poll" ELSE "pty")
    /\ UNCHANGED <<flags, process, target, sbTID, lldb, how, own, input, view>>

\* The client's terminal has hung up.
PtyHungUp ==
    /\ pc[Main] = "pty" /\ Goto(Main, "poll")
    /\ UNCHANGED <<flags, process, target, sbTID, lldb, how, own, input, view>>

LeaveLoop ==
    /\ pc[Main] = "poll" /\ eof
    /\ Goto(Main, "join")
    /\ UNCHANGED <<flags, process, target, sbTID, lldb, how, own, input, view>>

\* Mutant: terminateSB tears LLDB down without waiting for the listener.
WaitProcessListenerNoJoin ==
    /\ pc[Main] = "join"
    /\ Goto(Main, "done")
    /\ UNCHANGED <<flags, process, target, sbTID, lldb, how, own, input, view>>

\* terminateSB: only the thread started last is joined.
WaitProcessListener ==
    /\ pc[Main] = "join"
    /\ sbTID # NoRun => pc[sbTID] = "done"
    /\ Goto(Main, "done")
    /\ UNCHANGED <<flags, process, target, sbTID, lldb, how, own, input, view>>

MainStep ==
    \/ Publish \/ StartProcessListener \/ Announce
    \/ ResumeProcess \/ MarkRunning \/ WantToKill \/ AnswerKill
    \/ LeaveLoop \/ WaitProcessListener

MainCommand ==
    \/ FileExec \/ FileClear
    \/ ExecRunFails \/ \E r \in Runs : ExecRun(r)
    \/ TargetAttachFails \/ \E r \in Runs : TargetAttach(r)
    \/ ExecContinue \/ ExecStep \/ ExecStepFails \/ ConsoleKill \/ ExecAbort
    \/ TargetDetach \/ GdbExit

-----------------------------------------------------------------------------
(***************************************************************************)
(* terminateProcess, which both kinds of thread call.                      *)
(***************************************************************************)
Return(t) == IF t = Main THEN Finish(ncmd) ELSE Goto(t, "loop")

SetProcstop(t) ==
    /\ pc[t] = "procstop" /\ Goto(t, "destroy")
    /\ procstop' = TRUE
    /\ UNCHANGED <<eof, isrunning, wanttokill, process, target, sbTID, lldb, how,
                   own, input, view>>

\* Mutant: only a process that is known to be stopped is destroyed.
DestroyIfStopped(t) ==
    /\ pc[t] = "destroy" /\ Goto(t, "group")
    /\ IF GetState(process) = "stopped" THEN Destroy(process) ELSE UNCHANGED lldb
    /\ UNCHANGED <<flags, process, target, sbTID, how, own, input, view>>

DestroyProcess(t) ==
    /\ pc[t] = "destroy" /\ Goto(t, "group")
    /\ IF IsValid(process) THEN Destroy(process) ELSE UNCHANGED lldb
    /\ UNCHANGED <<flags, process, target, sbTID, how, own, input, view>>

\* =thread-group-exited
PrintGroup(t) ==
    /\ pc[t] = "group" /\ Goto(t, "exit")
    /\ view' = IF "GROUP" \in how[t] THEN "exited" ELSE view
    /\ UNCHANGED <<flags, process, target, sbTID, lldb, how, own, input>>

SetEof(t) ==
    /\ pc[t] = "exit" /\ Return(t)
    /\ eof' = (eof \/ "EXIT" \in how[t])
    /\ UNCHANGED <<procstop, isrunning, wanttokill, process, target, sbTID, lldb,
                   how, own, input, view>>

TerminateProcess(t) ==
    SetProcstop(t) \/ DestroyProcess(t) \/ PrintGroup(t) \/ SetEof(t)

-----------------------------------------------------------------------------
(***************************************************************************)
(* The listener threads.                                                   *)
(***************************************************************************)
ListenerStart(l) ==
    /\ pc[l] = "start"
    /\ own' = [own EXCEPT ![l] = process]
    /\ Goto(l, IF IsValid(process) THEN "loop" ELSE "done")
    /\ UNCHANGED <<flags, process, target, sbTID, lldb, how, input, view>>

\* Mutant: the listener's loop looks at procstop only.
LoopTestProcstop(l) ==
    /\ pc[l] = "loop"
    /\ Goto(l, IF procstop THEN "done" ELSE "wait")
    /\ UNCHANGED <<flags, process, target, sbTID, lldb, how, own, input, view>>

LoopTest(l) ==
    /\ pc[l] = "loop"
    /\ Goto(l, IF eof \/ procstop THEN "done" ELSE "wait")
    /\ UNCHANGED <<flags, process, target, sbTID, lldb, how, own, input, view>>

WaitTimeout(l) ==
    /\ pc[l] = "wait" /\ Queued = {} /\ Goto(l, "loop")
    /\ UNCHANGED <<flags, process, target, sbTID, lldb, how, own, input, view>>

\* The event is only a signal that something changed: the state handled is the
\* one the listener's own process has once the event is out of the queue.
WaitForEvent(l) ==
    /\ pc[l] = "wait"
    /\ \E i \in Queued :
          /\ \A j \in Queued : i <= j
          /\ public' = [public EXCEPT ![events[i].run] = events[i].state]
          /\ events' = SubSeq(events, i + 1, Len(events))
    /\ LET s == IF IsValid(own[l]) THEN public'[own[l]] ELSE "invalid"
       IN  \/ s = "running" /\ Goto(l, "running") /\ how' = how
           \/ s = "stopped" /\ Goto(l, "stopped") /\ how' = how
           \/ s = "exited" /\ Terminate(l, {"GROUP"})
           \/ s \in {"unborn", "invalid"} /\ Goto(l, "loop") /\ how' = how
    /\ UNCHANGED <<flags, process, target, sbTID, private, valid, own, input, view>>

OnRunning(l) ==
    /\ pc[l] = "running"
    /\ IF wanttokill THEN Terminate(l, {"GROUP", "EXIT"})
                     ELSE Goto(l, "loop") /\ how' = how
    /\ UNCHANGED <<flags, process, target, sbTID, lldb, own, input, view>>

\* Mutant: a stop that arrives while isrunning is false is taken for spurious.
OnStoppedIfRunning(l) ==
    /\ pc[l] = "stopped"
    /\ IF isrunning THEN view' = "stopped" /\ Goto(l, "idle")
                    ELSE view' = view /\ Goto(l, "loop")
    /\ UNCHANGED <<flags, process, target, sbTID, lldb, how, own, input>>

\* onStopped prints *stopped.  A process that has meanwhile been resumed or
\* killed may show no thread or frame (an early return) or no stop reason.
\* The reason of a stop is taken to be one that onStopped knows; the choice
\* of the thread and its reason are the subject of CommandEngine.
OnStopped(l) ==
    /\ pc[l] = "stopped"
    /\ \/ view' = "stopped" /\ Goto(l, "idle")
       \/ /\ private[own[l]] # "stopped" \/ ~IsValid(own[l])
          /\ view' = view
          /\ Goto(l, "idle") \/ Goto(l, "loop")
    /\ UNCHANGED <<flags, process, target, sbTID, lldb, how, own, input>>

ClearRunning(l) ==
    /\ pc[l] = "idle" /\ Goto(l, "loop")
    /\ isrunning' = FALSE
    /\ UNCHANGED <<eof, procstop, wanttokill, process, target, sbTID, lldb, how,
                   own, input, view>>

Listener(l) ==
    \/ ListenerStart(l) \/ LoopTest(l) \/ WaitTimeout(l) \/ WaitForEvent(l)
    \/ OnRunning(l) \/ OnStopped(l) \/ ClearRunning(l) \/ TerminateProcess(l)

-----------------------------------------------------------------------------
Ended == pc[Main] \in {"done", "dead"}   \* the program has exited

Next ==
    /\ ~Ended
    /\ \/ MainStep \/ MainCommand \/ TerminateProcess(Main)
       \/ StdinEmptyLine \/ StdinClosed \/ StdinInput \/ PtyHungUp
       \/ \E l \in Runs : Listener(l)
       \/ \E r \in Runs : DebuggeeStops(r) \/ DebuggeeExits(r)
       \/ SignalHandler

\* Both threads are scheduled, and a chunk that has been read holds the rest
\* of its commands.  Neither the client nor the debuggee has to do anything.
Fairness ==
    /\ WF_vars(~Ended /\ (MainStep \/ TerminateProcess(Main)))
    /\ WF_vars(~Ended /\ pc[Main] = "more" /\ MainCommand)
    /\ \A l \in Runs : WF_vars(~Ended /\ Listener(l))

Spec == Init /\ [][Next]_vars
FairSpec == Spec /\ Fairness

\* In test mode the script's commands are always there to be read, and a
\* debuggee that runs stops or exits some day.
TestSpec ==
    /\ FairSpec
    /\ WF_vars(~Ended /\ MainCommand)
    /\ \A r \in Runs : WF_vars(~Ended /\ (DebuggeeStops(r) \/ DebuggeeExits(r)))

-----------------------------------------------------------------------------
(***************************************************************************)
(* Safety.                                                                 *)
(***************************************************************************)

\* terminateSB joins only the listener started last and then tears LLDB down
\* (SBDebugger::Terminate).  A listener that is still inside LLDB at that time
\* belongs to a run that a later one has replaced; in a session with one run
\* there is none, also when pthread_create failed or the process died early.
Born(r) == private[r] # "unborn"
Replaced(l) == \E r \in Runs : r > l /\ Born(r)
OneRun == \A l \in Runs : ~Replaced(l)
SafeTeardown ==
    pc[Main] = "done" =>
        \A l \in Runs : pc[l] \in {"unborn", "done"} \/ Replaced(l)

\* When terminateProcess ends the session (AND_EXIT), the process the session
\* debugs is dead: -gdb-exit, -target-detach and a console kill leave no
\* debuggee behind, whichever thread executes them, as long as there is one
\* run; a second one can be published while the first one's listener ends.
ExitDestroys ==
    [][\A t \in Threads :
          OneRun /\ pc[t] = "exit" /\ "EXIT" \in how[t] /\ pc'[t] # "exit" =>
             ~Alive(process)]_vars

\* The same for the main thread and any number of runs: when it is about to
\* set eof, the process published in pstate->process has been destroyed, and
\* no step of a listener or of LLDB has brought a live one into its place.
MainExitDestroys == pc[Main] = "exit" => ~Alive(process)

\* *running is printed before the process is resumed, so the *stopped of the
\* listener thread never gets in front of it: once a resuming command is over
\* and all events are handled, the client of a stopped process has been told
\* last that it is stopped.  With a second run this fails: the first run's
\* listener may take the second one's event.
ViewSettles ==
    /\ OneRun /\ cmd \in {"continue", "step"} /\ pc[Main] = "poll"
    /\ Queued = {}
    /\ IsValid(process) /\ private[process] = "stopped"
    /\ pc[process] \in {"loop", "wait"}
    => view = "stopped"

(***************************************************************************)
(* Liveness.                                                               *)
(***************************************************************************)

\* Once eof is set, by whichever thread, the program exits: the main loop
\* ends, the listener thread notices eof within one WaitForEvent timeout, and
\* the join returns; unless main sits in a read that gets no input, since a
\* signal interrupted its select (lldbmi2.cpp:261-265).
SitsInRead == pc[Main] \in Reads
EofEnds == eof ~> Ended \/ []SitsInRead

\* A stop of the debuggee is reported by *stopped, unless the debuggee does
\* not stay stopped, a later run replaces it, the session ends, or no listener
\* could be started.
StopReported ==
    \A r \in Runs :
        private[r] = "stopped" /\ Pending(r) ~>
            \/ view = "stopped" \/ private[r] # "stopped" \/ ~OneRun
            \/ eof \/ Ended \/ sbTID = NoRun

\* engine.cpp on console kill: "wait for process running to kill it".  After
\* the answer to a console kill of a stopped process, the process dies.
WantedKillHappens ==
    pc[Main] = "answer" /\ wanttokill ~> ~Alive(process) \/ Ended

\* test.cpp: "test commands will pause after a exec-run, exec-continue or
\* target-attach".  They only pause: the script's last command, -gdb-exit, is
\* reached and the program exits, unless a signal has sent main into a read.
TestScriptEnds == <>Ended \/ <>[]SitsInRead
=============================================================================
