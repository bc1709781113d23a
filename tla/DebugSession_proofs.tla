------------------------ MODULE DebugSession_proofs ------------------------
(***************************************************************************)
(* Proofs about DebugSession, for any number of runs and commands.         *)
(***************************************************************************)
EXTENDS DebugSession, TLAPS

-----------------------------------------------------------------------------
(***************************************************************************)
(* The inductive invariant.                                                *)
(***************************************************************************)

\* Runs are numbered in the order of their births, and a listener thread
\* exists only for a run that was born.
BornInOrder == \A q, r \in Runs : q < r /\ Born(r) => Born(q)
ListenersBorn == \A l \in Runs : pc[l] # "unborn" => Born(l)

\* Between the launch and the start of its listener, the target's process is
\* the youngest run and has no listener yet.
FreshTarget ==
    pc[Main] \in {"publish", "listen"} =>
        /\ target \in Runs /\ Born(target) /\ pc[target] = "unborn"
        /\ \A r \in Runs : Born(r) => r <= target
        /\ pc[Main] = "listen" => process = target

\* A listener is the one that will be joined, or its run has been replaced.
OneToJoin == \A l \in Runs : pc[l] # "unborn" => l = sbTID \/ Replaced(l)
Joined == pc[Main] = "done" /\ sbTID # NoRun => pc[sbTID] = "done"

\* Only a process LLDB knows is resumed; one that LLDB forgot is dead.
ResumesRun == pc[Main] = "resume" => process \in Runs
ForgottenIsDead == \A r \in Runs \ valid : ~Alive(r)

\* After DestroyProcess the main thread's process is and stays dead.
Destroyed == pc[Main] \in {"group", "exit"} => ~Alive(process)

Core == /\ BornInOrder /\ ListenersBorn /\ FreshTarget /\ OneToJoin /\ Joined
        /\ ResumesRun /\ ForgottenIsDead /\ Destroyed

IInv == TypeOK /\ Core

-----------------------------------------------------------------------------
\* Main is not a run.
LEMMA MainIsNoRun == Main \notin Runs /\ NoRun \notin Runs /\ Runs \subseteq Nat
    BY ConstantsAssumption DEF Main, NoRun, Runs

LEMMA InitIInv == Init => IInv
<1> SUFFICES ASSUME Init PROVE IInv
    OBVIOUS
<1>1. TypeOK
    <2>1. NoRun \in Threads /\ ncmd \in 0 .. MaxCommands
        BY ConstantsAssumption DEF Init, Threads, NoRun, Main
    <2>2. /\ pc \in [Threads -> MainLabels \cup ListenerLabels \cup TerminateLabels]
          /\ pc[Main] \in MainLabels
          /\ \A l \in Runs : pc[l] \in ListenerLabels
        BY MainIsNoRun DEF Init, Threads, MainLabels, ListenerLabels
    <2>3. events \in Seq(Event) /\ valid \in SUBSET Runs
        BY DEF Init
    <2> QED BY <2>1, <2>2, <2>3 DEF Init, TypeOK, ProcessState
<1>2. Core
    BY MainIsNoRun
    DEF Init, Core, BornInOrder, ListenersBorn, FreshTarget, OneToJoin, Joined,
        ResumesRun, ForgottenIsDead, Destroyed, Born, Alive, Threads
<1> QED BY <1>1, <1>2 DEF IInv

\* Steps that only move one thread: the labels the invariant speaks of are the
\* exceptions.
PlainLabels ==
    (MainLabels \cup TerminateLabels)
        \ {"publish", "listen", "resume", "group", "exit", "done"}

LEMMA MainMoves ==
    ASSUME IInv, UNCHANGED <<private, valid, sbTID>>,
           NEW label \in PlainLabels, Goto(Main, label)
    PROVE  Core'
    BY MainIsNoRun
    DEF IInv, TypeOK, Core, BornInOrder, ListenersBorn, FreshTarget, OneToJoin, Joined,
        ResumesRun, ForgottenIsDead, Destroyed, Born, Replaced, Alive, Threads, Goto,
        PlainLabels

LEMMA ListenerMoves ==
    ASSUME IInv, ~Ended, UNCHANGED <<private, valid, target, process, sbTID>>,
           NEW l \in Runs, pc[l] # "unborn",
           NEW label \in ListenerLabels \cup TerminateLabels, Goto(l, label)
    PROVE  Core'
    BY MainIsNoRun
    DEF IInv, TypeOK, Core, BornInOrder, ListenersBorn, FreshTarget, OneToJoin, Joined,
        ResumesRun, ForgottenIsDead, Destroyed, Born, Replaced, Alive, Threads, Goto,
        Ended

\* The end of a command is such a move.
LEMMA FinishMoves ==
    ASSUME NEW n, Finish(n)
    PROVE  \E label \in {"poll", "more"} : Goto(Main, label)
    BY DEF Finish

LEMMA GotoType ==
    ASSUME TypeOK, NEW t \in Threads, NEW label, Goto(t, label),
           t = Main => label \in MainLabels \cup TerminateLabels,
           t # Main => label \in ListenerLabels \cup TerminateLabels
    PROVE  /\ pc' \in [Threads -> MainLabels \cup ListenerLabels \cup TerminateLabels]
           /\ pc'[Main] \in MainLabels \cup TerminateLabels
           /\ \A l \in Runs : pc'[l] \in ListenerLabels \cup TerminateLabels
    BY MainIsNoRun DEF TypeOK, Goto, Threads

LEMMA ReadType ==
    ASSUME TypeOK, NEW c \in Commands, Read(c)
    PROVE  cmd' \in Commands \cup {"none"} /\ ncmd' \in 0 .. MaxCommands
    BY ConstantsAssumption DEF TypeOK, Read

-----------------------------------------------------------------------------
(***************************************************************************)
(* The commands.                                                           *)
(***************************************************************************)
LEMMA PlainCommandIInv ==
    ASSUME IInv,
           \/ FileExec \/ ExecRunFails \/ ExecStepFails \/ TargetAttachFails
           \/ TargetDetach \/ GdbExit \/ StdinEmptyLine \/ StdinClosed \/ StdinInput
           \/ PtyHungUp \/ LeaveLoop
    PROVE  IInv'
<1>1. PICK label \in {"poll", "more", "pty", "procstop", "dead", "join"} : Goto(Main, label)
    BY FinishMoves
    DEF IInv, TypeOK, Threads, FileExec, ExecRunFails, ExecStepFails, TargetAttachFails,
        TargetDetach,
        GdbExit, StdinEmptyLine, StdinClosed, StdinInput, PtyHungUp, LeaveLoop, Terminate, Goto
<1>2. UNCHANGED <<private, valid, sbTID>>
    BY DEF FileExec, ExecRunFails, ExecStepFails, TargetAttachFails, TargetDetach, GdbExit,
           StdinEmptyLine, StdinClosed, StdinInput, PtyHungUp, LeaveLoop, lldb
<1>3. Core'
    BY <1>1, <1>2, MainMoves DEF PlainLabels, MainLabels, Reads, TerminateLabels
<1>4. TypeOK'
    <2>1. /\ pc' \in [Threads -> MainLabels \cup ListenerLabels \cup TerminateLabels]
          /\ pc'[Main] \in MainLabels \cup TerminateLabels
          /\ \A l \in Runs : pc'[l] \in ListenerLabels \cup TerminateLabels
        BY <1>1, GotoType DEF IInv, Threads, MainLabels, Reads, TerminateLabels
    <2>2. cmd' \in Commands \cup {"none"} /\ ncmd' \in 0 .. MaxCommands
        BY ReadType
        DEF IInv, TypeOK, FileExec, ExecRunFails, ExecStepFails, TargetAttachFails,
        TargetDetach,
            GdbExit, StdinEmptyLine, StdinClosed, StdinInput, PtyHungUp, LeaveLoop, input,
            Commands
    <2>3. how' \in [Threads -> SUBSET How]
        BY DEF IInv, TypeOK, FileExec, ExecRunFails, ExecStepFails, TargetAttachFails,
        TargetDetach,
            GdbExit, StdinEmptyLine, StdinClosed, StdinInput, PtyHungUp, LeaveLoop,
            Terminate, How, Threads
    <2>4. /\ UNCHANGED <<procstop, isrunning, wanttokill, process, public, events, own, view>>
          /\ eof' \in BOOLEAN /\ target' \in Threads
        BY DEF IInv, TypeOK, FileExec, ExecRunFails, ExecStepFails, TargetAttachFails,
        TargetDetach,
            GdbExit, StdinEmptyLine, StdinClosed, StdinInput, PtyHungUp, LeaveLoop,
            lldb, flags, input, Threads, NoRun, Main
    <2> QED BY <1>2, <2>1, <2>2, <2>3, <2>4 DEF IInv, TypeOK
<1> QED BY <1>3, <1>4 DEF IInv

\* Launching or attaching: the new run is the youngest one, and nobody listens
\* to it yet.
LEMMA NewRunIInv ==
    ASSUME IInv, NEW r \in Runs, ExecRun(r) \/ TargetAttach(r)
    PROVE  IInv'
<1>1. /\ private[r] = "unborn" /\ Goto(Main, "publish")
      /\ \A q \in Runs : q < r => Born(q)
      /\ target' = r
      /\ UNCHANGED <<process, sbTID, public, flags, how, own, view>>
    BY DEF ExecRun, TargetAttach, NewRun, Launch, Attach, Born
<1>2. PICK s \in {"running", "stopped"} :
          /\ private' = [private EXCEPT ![r] = s]
          /\ events' = Append(events, [run |-> r, state |-> s])
    BY DEF ExecRun, TargetAttach, Launch, Attach
<1>3. /\ r \in valid' /\ valid' \in SUBSET Runs
      /\ \A q \in valid \ valid' : ~Alive(q)
    BY DEF IInv, TypeOK, ExecRun, TargetAttach, Launch, Attach
<1>4. TypeOK'
    <2>1. cmd' \in Commands \cup {"none"} /\ ncmd' \in 0 .. MaxCommands
        BY ReadType DEF IInv, ExecRun, TargetAttach, Commands
    <2>2. /\ pc' \in [Threads -> MainLabels \cup ListenerLabels \cup TerminateLabels]
          /\ pc'[Main] \in MainLabels \cup TerminateLabels
          /\ \A l \in Runs : pc'[l] \in ListenerLabels \cup TerminateLabels
        BY <1>1, GotoType DEF IInv, Threads, MainLabels
    <2>3. private' \in [Runs -> ProcessState] /\ events' \in Seq(Event)
        <3>1. [run |-> r, state |-> s] \in Event
            BY DEF Event
        <3> QED BY <1>2, <3>1 DEF IInv, TypeOK, ProcessState
    <2> QED BY <1>1, <1>3, <2>1, <2>2, <2>3 DEF IInv, TypeOK, flags, Threads
<1>5. \A q \in Runs : Born(q) => q < r
    BY <1>1, MainIsNoRun DEF IInv, Core, BornInOrder, Born
<1>6. \A q \in Runs : Born(q)' <=> Born(q) \/ q = r
    BY <1>1, <1>2 DEF IInv, TypeOK, Born
<1>7. \A q \in Runs : pc'[q] = pc[q]
    BY <1>1, MainIsNoRun DEF IInv, TypeOK, Goto, Threads
<1>8. pc'[Main] = "publish"
    BY <1>1 DEF IInv, TypeOK, Goto, Threads
<1>9. BornInOrder' /\ ListenersBorn'
    BY <1>1, <1>5, <1>6, <1>7, MainIsNoRun
    DEF IInv, Core, BornInOrder, ListenersBorn
<1>10. FreshTarget'
    BY <1>1, <1>5, <1>6, <1>7, <1>8, MainIsNoRun
    DEF IInv, Core, ListenersBorn, FreshTarget, Born
<1>11. OneToJoin'
    BY <1>1, <1>6, <1>7 DEF IInv, Core, OneToJoin, Replaced
<1>12. Joined' /\ ResumesRun' /\ Destroyed'
    BY <1>8 DEF Joined, ResumesRun, Destroyed
<1>13. ForgottenIsDead'
    BY <1>2, <1>3 DEF IInv, TypeOK, Core, ForgottenIsDead, Alive
<1> QED BY <1>4, <1>9, <1>10, <1>11, <1>12, <1>13 DEF IInv, Core

LEMMA PublishIInv ==
    ASSUME IInv, Publish
    PROVE  IInv'
<1>1. pc'[Main] = "listen" /\ \A q \in Runs : pc'[q] = pc[q]
    BY MainIsNoRun DEF IInv, TypeOK, Goto, Threads, Publish
<1>2. TypeOK'
    BY GotoType DEF IInv, TypeOK, Publish, Threads, MainLabels, lldb, input
<1>3. Core'
    BY <1>1 DEF IInv, Core, BornInOrder, ListenersBorn, FreshTarget, OneToJoin, Joined,
        ResumesRun, ForgottenIsDead, Destroyed, Born, Replaced, Alive, Publish, lldb
<1> QED BY <1>2, <1>3 DEF IInv

LEMMA StartProcessListenerIInv ==
    ASSUME IInv, StartProcessListener
    PROVE  IInv'
<1>1. /\ process \in Runs /\ process = target /\ Born(process)
      /\ pc[process] = "unborn" /\ process # Main
      /\ \A r \in Runs : Born(r) => r <= process
    BY MainIsNoRun DEF IInv, Core, FreshTarget, StartProcessListener
<1>2. /\ pc'[Main] = "announce"
      /\ \A q \in Runs : q # process => pc'[q] = pc[q]
      /\ pc'[process] = "unborn" \/ (pc'[process] = "start" /\ sbTID' = process)
    BY <1>1, MainIsNoRun DEF IInv, TypeOK, StartProcessListener, Goto, Threads
<1>3. TypeOK'
    <2>1. /\ pc' \in [Threads -> MainLabels \cup ListenerLabels \cup TerminateLabels]
          /\ pc'[Main] \in MainLabels \cup TerminateLabels
          /\ \A l \in Runs : pc'[l] \in ListenerLabels \cup TerminateLabels
        BY <1>1, MainIsNoRun
        DEF IInv, TypeOK, StartProcessListener, Goto, Threads, MainLabels, ListenerLabels
    <2>2. sbTID' \in Threads
        BY DEF IInv, TypeOK, StartProcessListener, Threads, NoRun, Main
    <2> QED BY <2>1, <2>2 DEF IInv, TypeOK, StartProcessListener, lldb, input
<1>4. UNCHANGED <<private, valid, process, target>>
    BY DEF StartProcessListener, lldb
<1>5. BornInOrder' /\ ListenersBorn' /\ ForgottenIsDead'
    BY <1>1, <1>2, <1>4
    DEF IInv, Core, BornInOrder, ListenersBorn, ForgottenIsDead, Born, Alive
<1>6. OneToJoin'
    <2> SUFFICES ASSUME NEW l \in Runs, pc'[l] # "unborn", l # sbTID'
                 PROVE  Replaced(l)'
        BY DEF OneToJoin
    <2>1. l # process /\ pc[l] # "unborn"
        BY <1>2
    <2>2. l < process
        BY <1>1, <2>1, MainIsNoRun DEF IInv, Core, ListenersBorn
    <2> QED BY <1>1, <1>4, <2>2 DEF Replaced, Born
<1>7. FreshTarget' /\ Joined' /\ ResumesRun' /\ Destroyed'
    BY <1>2 DEF FreshTarget, Joined, ResumesRun, Destroyed
<1> QED BY <1>3, <1>5, <1>6, <1>7 DEF IInv, Core

LEMMA PlainStepIInv ==
    ASSUME IInv, Announce \/ MarkRunning \/ WantToKill \/ AnswerKill
    PROVE  IInv'
<1>1. PICK label \in {"poll", "more", "want", "answer", "procstop"} : Goto(Main, label)
    BY FinishMoves DEF Announce, MarkRunning, WantToKill, AnswerKill, Terminate
<1>2. UNCHANGED <<private, valid, sbTID>>
    BY DEF Announce, MarkRunning, WantToKill, AnswerKill, lldb
<1>3. Core'
    BY <1>1, <1>2, MainMoves DEF PlainLabels, MainLabels, TerminateLabels
<1>4. TypeOK'
    <2>1. /\ pc' \in [Threads -> MainLabels \cup ListenerLabels \cup TerminateLabels]
          /\ pc'[Main] \in MainLabels \cup TerminateLabels
          /\ \A l \in Runs : pc'[l] \in ListenerLabels \cup TerminateLabels
        BY <1>1, GotoType DEF IInv, Threads, MainLabels, TerminateLabels
    <2>2. how' \in [Threads -> SUBSET How]
        BY DEF IInv, TypeOK, Announce, MarkRunning, WantToKill, AnswerKill, Terminate,
               How, Threads
    <2>3. /\ isrunning' \in BOOLEAN /\ wanttokill' \in BOOLEAN
          /\ view' \in {"none", "running", "stopped", "exited"}
          /\ UNCHANGED <<eof, procstop, process, target, public, events, own, cmd, ncmd>>
        BY DEF IInv, TypeOK, Announce, MarkRunning, WantToKill, AnswerKill, flags, lldb, input
    <2> QED BY <1>2, <2>1, <2>2, <2>3 DEF IInv, TypeOK
<1> QED BY <1>3, <1>4 DEF IInv

\* -exec-continue and the like, and the console's kill: the process that is
\* going to be resumed is one LLDB knows.
LEMMA ResumingCommandIInv ==
    ASSUME IInv, ExecContinue \/ ExecStep \/ ConsoleKill
    PROVE  IInv'
<1>1. /\ UNCHANGED <<flags, process, target, sbTID, lldb, how, own>>
      /\ view' \in {"none", "running", "stopped", "exited"}
    BY DEF IInv, TypeOK, ExecContinue, ExecStep, ExecResume, ConsoleKill
<1>2. \/ Goto(Main, "resume") /\ process \in valid
      \/ \E label \in {"poll", "more", "answer"} : Goto(Main, label)
    BY FinishMoves DEF ExecContinue, ExecStep, ExecResume, ConsoleKill, GetState, IsValid
<1>3. TypeOK'
    <2>1. cmd' \in Commands \cup {"none"} /\ ncmd' \in 0 .. MaxCommands
        BY ReadType DEF IInv, ExecContinue, ExecStep, ExecResume, ConsoleKill, Commands
    <2>2. /\ pc' \in [Threads -> MainLabels \cup ListenerLabels \cup TerminateLabels]
          /\ pc'[Main] \in MainLabels \cup TerminateLabels
          /\ \A l \in Runs : pc'[l] \in ListenerLabels \cup TerminateLabels
        BY <1>2, GotoType DEF IInv, Threads, MainLabels
    <2> QED BY <1>1, <2>1, <2>2 DEF IInv, TypeOK, flags, lldb
<1>4. CASE Goto(Main, "resume") /\ process \in valid
    <2>1. pc'[Main] = "resume" /\ \A q \in Runs : pc'[q] = pc[q]
        BY <1>4, MainIsNoRun DEF IInv, TypeOK, Goto, Threads
    <2>2. Core'
        BY <1>1, <1>4, <2>1
        DEF IInv, TypeOK, Core, BornInOrder, ListenersBorn, FreshTarget, OneToJoin,
            Joined, ResumesRun, ForgottenIsDead, Destroyed, Born, Replaced, Alive, lldb
    <2> QED BY <1>3, <2>2 DEF IInv
<1>5. CASE \E label \in {"poll", "more", "answer"} : Goto(Main, label)
    BY <1>1, <1>3, <1>5, MainMoves DEF IInv, PlainLabels, MainLabels, lldb
<1> QED BY <1>2, <1>4, <1>5

\* The states of processes change: nobody is born or brought back to life.
\* Resume is a step of an already living process.
LEMMA StatesChange ==
    ASSUME IInv, UNCHANGED <<process, sbTID>>, private' \in [Runs -> ProcessState],
           \A r \in Runs : (Born(r)' <=> Born(r)) /\ (Alive(r)' => Alive(r)),
           \A r \in valid \ valid' : ~Alive(r)',
           \/ pc' = pc /\ target' = target
           \/ \E label \in PlainLabels : Goto(Main, label)
    PROVE  Core'
<1>1. CASE pc' = pc /\ target' = target
    <2>1. BornInOrder' /\ ListenersBorn' /\ FreshTarget' /\ OneToJoin'
        BY <1>1 DEF IInv, Core, BornInOrder, ListenersBorn, FreshTarget, OneToJoin, Replaced
    <2>2. Joined' /\ ResumesRun' /\ ForgottenIsDead'
        BY <1>1 DEF IInv, Core, Joined, ResumesRun, ForgottenIsDead
    <2>3. ~Alive(process) => ~Alive(process)'
        <3>1. CASE process = NoRun
            BY <3>1 DEF Alive
        <3>2. CASE process \in Runs
            BY <3>2 DEF Alive
        <3> QED BY <3>1, <3>2 DEF IInv, TypeOK, Threads, NoRun, Main
    <2>4. Destroyed'
        BY <1>1, <2>3 DEF IInv, Core, Destroyed
    <2> QED BY <2>1, <2>2, <2>4 DEF Core
<1>2. CASE \E label \in PlainLabels : Goto(Main, label)
    <2>1. /\ pc'[Main] \in PlainLabels /\ \A q \in Runs : pc'[q] = pc[q]
        BY <1>2, MainIsNoRun DEF IInv, TypeOK, Goto, Threads
    <2> QED BY <2>1
        DEF IInv, TypeOK, Core, BornInOrder, ListenersBorn, FreshTarget, OneToJoin,
            Joined, ResumesRun, ForgottenIsDead, Destroyed, Born, Replaced, Alive,
            PlainLabels
<1> QED BY <1>1, <1>2

LEMMA AppendType ==
    ASSUME TypeOK, NEW r \in Runs, NEW s \in {"running", "stopped", "exited"}
    PROVE  Append(events, [run |-> r, state |-> s]) \in Seq(Event)
<1>1. [run |-> r, state |-> s] \in Event
    BY DEF Event
<1> QED BY <1>1 DEF TypeOK

LEMMA ResumeProcessIInv ==
    ASSUME IInv, ResumeProcess
    PROVE  IInv'
<1>1. process \in Runs
    BY DEF IInv, Core, ResumesRun, ResumeProcess
<1>2. /\ private' \in [Runs -> ProcessState] /\ events' \in Seq(Event)
      /\ \A r \in Runs : (Born(r)' <=> Born(r)) /\ (Alive(r)' => Alive(r))
      /\ UNCHANGED <<public, valid>>
    <2>1. UNCHANGED <<public, valid>>
        BY DEF ResumeProcess, Resume
    <2>2. CASE CanResume(process)
        <3>1. /\ private[process] = "stopped"
              /\ private' = [private EXCEPT ![process] = "running"]
              /\ events' = Append(events, [run |-> process, state |-> "running"])
            BY <2>2 DEF ResumeProcess, Resume, CanResume
        <3>2. events' \in Seq(Event)
            BY <1>1, <3>1, AppendType DEF IInv
        <3> QED BY <1>1, <2>1, <3>1, <3>2 DEF IInv, TypeOK, Born, Alive, ProcessState
    <2>3. CASE ~CanResume(process)
        BY <2>1, <2>3 DEF IInv, TypeOK, ResumeProcess, Resume, Born, Alive
    <2> QED BY <2>2, <2>3
<1>3. PICK label \in {"poll", "more", "mark"} : Goto(Main, label)
    BY FinishMoves DEF ResumeProcess
<1>4. TypeOK'
    BY <1>2, <1>3, GotoType
    DEF IInv, TypeOK, ResumeProcess, Threads, MainLabels, flags, input
<1>5. Core'
    BY <1>2, <1>3, StatesChange DEF ResumeProcess, PlainLabels, MainLabels
<1> QED BY <1>4, <1>5 DEF IInv

LEMMA FileClearIInv ==
    ASSUME IInv, FileClear
    PROVE  IInv'
<1> DEFINE killed == {r \in valid : r \in {process, target} /\ Alive(r)}
<1>1. /\ private' = [r \in Runs |-> IF r \in killed THEN "exited" ELSE private[r]]
      /\ events' = IF process \in killed
                   THEN Append(events, [run |-> process, state |-> "exited"])
                   ELSE events
      /\ valid' = valid \ {target}
      /\ target' = NoRun
      /\ UNCHANGED <<flags, process, sbTID, public, how, own, view>>
    BY DEF FileClear
<1>2. PICK label \in {"poll", "more"} : Goto(Main, label)
    BY FinishMoves DEF FileClear
<1>3. private' \in [Runs -> ProcessState]
    BY <1>1 DEF IInv, TypeOK, ProcessState
<1>4. \A r \in Runs : (Born(r)' <=> Born(r)) /\ (Alive(r)' => Alive(r))
    BY <1>1 DEF Born, Alive
<1>5. \A r \in valid \ valid' : ~Alive(r)'
    BY <1>1 DEF IInv, TypeOK, Alive
<1>6. Core'
    BY <1>1, <1>2, <1>3, <1>4, <1>5, StatesChange DEF PlainLabels, MainLabels
<1>7. TypeOK'
    <2>1. cmd' \in Commands \cup {"none"} /\ ncmd' \in 0 .. MaxCommands
        BY ReadType DEF IInv, FileClear, Commands
    <2>2. events' \in Seq(Event)
        BY <1>1, AppendType DEF IInv, TypeOK
    <2>3. target' \in Threads
        BY <1>1 DEF Threads, NoRun, Main
    <2>4. /\ pc' \in [Threads -> MainLabels \cup ListenerLabels \cup TerminateLabels]
          /\ pc'[Main] \in MainLabels \cup TerminateLabels
          /\ \A l \in Runs : pc'[l] \in ListenerLabels \cup TerminateLabels
        BY <1>2, GotoType DEF IInv, Threads, MainLabels
    <2> HIDE DEF killed
    <2> QED BY <1>1, <1>3, <2>1, <2>2, <2>3, <2>4 DEF IInv, TypeOK, flags
<1> QED BY <1>6, <1>7 DEF IInv

LEMMA ExecAbortIInv ==
    ASSUME IInv, ExecAbort
    PROVE  IInv'
<1>1. UNCHANGED <<flags, process, target, sbTID, public, valid, how, own, view>>
    BY DEF ExecAbort
<1>2. PICK label \in {"poll", "more"} : Goto(Main, label)
    BY FinishMoves DEF ExecAbort
<1>3. /\ private' \in [Runs -> ProcessState] /\ events' \in Seq(Event)
      /\ \A r \in Runs : (Born(r)' <=> Born(r)) /\ (Alive(r)' => Alive(r))
    <2>1. CASE IsValid(target) /\ Alive(target)
        <3>1. target \in Runs
            BY <2>1 DEF IInv, TypeOK, IsValid
        <3>2. private' = [private EXCEPT ![target] = "exited"]
            BY <2>1 DEF ExecAbort
        <3>3. /\ private' \in [Runs -> ProcessState]
              /\ \A r \in Runs : (Born(r)' <=> Born(r)) /\ (Alive(r)' => Alive(r))
            BY <2>1, <3>1, <3>2 DEF IInv, TypeOK, ProcessState, Born, Alive
        <3>4. /\ [run |-> target, state |-> "running"] \in Event
              /\ [run |-> target, state |-> "exited"] \in Event
            BY <3>1 DEF Event
        <3>5. events' \in Seq(Event)
            <4> DEFINE head == IF CanResume(target)
                               THEN <<[run |-> target, state |-> "running"]>> ELSE <<>>
                       last == <<[run |-> target, state |-> "exited"]>>
            <4>1. events' = (events \o head) \o last
                BY <2>1 DEF ExecAbort
            <4>2. head \in Seq(Event) /\ last \in Seq(Event)
                BY <3>4
            <4> HIDE DEF head, last
            <4> QED BY <4>1, <4>2 DEF IInv, TypeOK
        <3> QED BY <3>3, <3>5
    <2>2. CASE ~(IsValid(target) /\ Alive(target))
        <3>1. UNCHANGED <<private, events>>
            BY <2>2 DEF ExecAbort
        <3> QED BY <3>1 DEF IInv, TypeOK, Born, Alive
    <2> QED BY <2>1, <2>2
<1>4. Core'
    BY <1>1, <1>2, <1>3, StatesChange DEF PlainLabels, MainLabels
<1>5. TypeOK'
    <2>1. cmd' \in Commands \cup {"none"} /\ ncmd' \in 0 .. MaxCommands
        BY ReadType DEF IInv, ExecAbort, Commands
    <2>2. /\ pc' \in [Threads -> MainLabels \cup ListenerLabels \cup TerminateLabels]
          /\ pc'[Main] \in MainLabels \cup TerminateLabels
          /\ \A l \in Runs : pc'[l] \in ListenerLabels \cup TerminateLabels
        BY <1>2, GotoType DEF IInv, Threads, MainLabels
    <2> QED BY <1>1, <1>3, <2>1, <2>2 DEF IInv, TypeOK, flags
<1> QED BY <1>4, <1>5 DEF IInv

\* A signal may send the main thread from its select into a read ...
Interrupted == pc' = pc \/ (pc[Main] = "poll" /\ Goto(Main, "stdin"))

\* ... and, as the debuggee itself, may end a process's running.
StateChanges(r, s) ==
    /\ private[r] = "running"
    /\ private' = [private EXCEPT ![r] = s]
    /\ events' = Append(events, [run |-> r, state |-> s])
    /\ Interrupted
    /\ UNCHANGED <<flags, process, target, sbTID, public, valid, how, own, input, view>>

LEMMA InterruptedType ==
    ASSUME TypeOK, Interrupted
    PROVE  /\ pc' \in [Threads -> MainLabels \cup ListenerLabels \cup TerminateLabels]
           /\ pc'[Main] \in MainLabels \cup TerminateLabels
           /\ \A l \in Runs : pc'[l] \in ListenerLabels \cup TerminateLabels
    BY GotoType DEF TypeOK, Interrupted, Threads, MainLabels, Reads

\* The debuggee stops or exits, also because of a SIGINT.
LEMMA DebuggeeIInv ==
    ASSUME IInv, NEW r \in Runs, NEW s \in {"stopped", "exited"}, StateChanges(r, s)
    PROVE  IInv'
<1>1. /\ private' \in [Runs -> ProcessState]
      /\ \A q \in Runs : (Born(q)' <=> Born(q)) /\ (Alive(q)' => Alive(q))
    BY DEF IInv, TypeOK, ProcessState, StateChanges, Born, Alive
<1>2. events' \in Seq(Event)
    BY AppendType DEF IInv, StateChanges
<1>3. Core'
    BY <1>1, StatesChange DEF StateChanges, Interrupted, PlainLabels, MainLabels, Reads
<1>4. TypeOK'
    BY <1>1, <1>2, InterruptedType DEF IInv, TypeOK, StateChanges, flags, input
<1> QED BY <1>3, <1>4 DEF IInv

LEMMA InterruptedIInv ==
    ASSUME IInv, Interrupted, UNCHANGED <<private, events>>,
           UNCHANGED <<flags, process, target, sbTID, public, valid, how, own, input, view>>
    PROVE  IInv'
<1>1. Core'
    BY StatesChange DEF IInv, TypeOK, Interrupted, PlainLabels, MainLabels, Reads, Born, Alive
<1>2. TypeOK'
    BY InterruptedType DEF IInv, TypeOK, flags, input
<1> QED BY <1>1, <1>2 DEF IInv

\* The join: the listener started last has ended.
LEMMA WaitProcessListenerIInv ==
    ASSUME IInv, WaitProcessListener
    PROVE  IInv'
<1>1. pc'[Main] = "done" /\ \A q \in Runs : pc'[q] = pc[q]
    BY MainIsNoRun DEF IInv, TypeOK, Goto, Threads, WaitProcessListener
<1>2. TypeOK'
    BY GotoType
    DEF IInv, TypeOK, WaitProcessListener, Threads, MainLabels, lldb, flags, input
<1>3. sbTID # NoRun => sbTID \in Runs
    BY DEF IInv, TypeOK, Threads, NoRun, Main
<1>4. Core'
    BY <1>1, <1>3
    DEF IInv, Core, BornInOrder, ListenersBorn, FreshTarget, OneToJoin, Joined,
        ResumesRun, ForgottenIsDead, Destroyed, Born, Replaced, Alive, lldb,
        WaitProcessListener
<1> QED BY <1>2, <1>4 DEF IInv

-----------------------------------------------------------------------------
(***************************************************************************)
(* terminateProcess and the listener threads.                              *)
(***************************************************************************)
LEMMA ReturnMoves ==
    ASSUME NEW t \in Threads, Return(t)
    PROVE  \/ t = Main /\ \E label \in {"poll", "more"} : Goto(Main, label)
           \/ t \in Runs /\ Goto(t, "loop")
    BY FinishMoves DEF Return, Threads

LEMMA SetProcstopIInv ==
    ASSUME IInv, ~Ended, NEW t \in Threads, SetProcstop(t) \/ SetEof(t)
    PROVE  IInv'
<1>1. UNCHANGED <<isrunning, wanttokill, process, target, sbTID, lldb, how, own, input, view>>
    BY DEF SetProcstop, SetEof
<1>2. pc[t] \in {"procstop", "exit"}
    BY DEF SetProcstop, SetEof
<1>3. eof' \in BOOLEAN /\ procstop' \in BOOLEAN
    BY DEF IInv, TypeOK, SetProcstop, SetEof
<1>4. \/ t = Main /\ \E label \in {"destroy", "poll", "more"} : Goto(Main, label)
      \/ t \in Runs /\ \E label \in {"destroy", "loop"} : Goto(t, label)
    BY ReturnMoves DEF SetProcstop, SetEof, Threads
<1>5. CASE t = Main /\ \E label \in {"destroy", "poll", "more"} : Goto(Main, label)
    <2>1. Core'
        BY <1>1, <1>5, MainMoves DEF lldb, PlainLabels, MainLabels, TerminateLabels
    <2>2. TypeOK'
        BY <1>1, <1>3, <1>5, GotoType
        DEF IInv, TypeOK, lldb, input, Threads, MainLabels, TerminateLabels
    <2> QED BY <2>1, <2>2 DEF IInv
<1>6. CASE t \in Runs /\ \E label \in {"destroy", "loop"} : Goto(t, label)
    <2>1. Core'
        BY <1>1, <1>2, <1>6, ListenerMoves DEF lldb, ListenerLabels, TerminateLabels
    <2>2. TypeOK'
        BY <1>1, <1>3, <1>6, GotoType, MainIsNoRun
        DEF IInv, TypeOK, lldb, input, Threads, ListenerLabels, TerminateLabels
    <2> QED BY <2>1, <2>2 DEF IInv
<1> QED BY <1>4, <1>5, <1>6

\* Destroy kills a process LLDB knows; one it forgot is dead already.
LEMMA DestroyProcessIInv ==
    ASSUME IInv, ~Ended, NEW t \in Threads, DestroyProcess(t)
    PROVE  IInv'
<1>1. UNCHANGED <<flags, process, target, sbTID, public, valid, how, own, input, view>>
    BY DEF DestroyProcess, Destroy, lldb
<1>2. /\ private' \in [Runs -> ProcessState] /\ events' \in Seq(Event)
      /\ \A r \in Runs : (Born(r)' <=> Born(r)) /\ (Alive(r)' => Alive(r))
      /\ ~Alive(process)'
    <2>1. CASE IsValid(process) /\ Alive(process)
        <3>1. process \in Runs
            BY <2>1 DEF IInv, TypeOK, IsValid
        <3>2. /\ private' = [private EXCEPT ![process] = "exited"]
              /\ events' = Append(events, [run |-> process, state |-> "exited"])
            BY <2>1 DEF DestroyProcess, Destroy
        <3>3. events' \in Seq(Event)
            BY <3>1, <3>2, AppendType DEF IInv
        <3>4. ~Alive(process)'
            BY <1>1, <3>1, <3>2 DEF IInv, TypeOK, Alive
        <3> QED BY <2>1, <3>1, <3>2, <3>3, <3>4
                DEF IInv, TypeOK, ProcessState, Born, Alive
    <2>2. CASE ~(IsValid(process) /\ Alive(process))
        <3>1. UNCHANGED <<private, events>>
            BY <2>2 DEF DestroyProcess, Destroy, lldb
        <3>2. ~Alive(process)
            BY <2>2 DEF IInv, TypeOK, Core, ForgottenIsDead, IsValid, Alive, Threads,
                        NoRun, Main
        <3> QED BY <1>1, <3>1, <3>2 DEF IInv, TypeOK, Born, Alive
    <2> QED BY <2>1, <2>2
<1>3. pc[t] = "destroy" /\ Goto(t, "group")
    BY DEF DestroyProcess
<1>4. TypeOK'
    <2>1. /\ pc' \in [Threads -> MainLabels \cup ListenerLabels \cup TerminateLabels]
          /\ pc'[Main] \in MainLabels \cup TerminateLabels
          /\ \A l \in Runs : pc'[l] \in ListenerLabels \cup TerminateLabels
        BY <1>3, GotoType DEF IInv, TerminateLabels
    <2> QED BY <1>1, <1>2, <2>1 DEF IInv, TypeOK, flags, input
<1>5. /\ \A q \in Runs : pc'[q] # "unborn" <=> pc[q] # "unborn"
      /\ pc'[Main] \in {pc[Main], "group"}
      /\ pc'[Main] # "done"
    BY <1>3 DEF IInv, TypeOK, Goto, Threads, Ended
<1>6. BornInOrder' /\ ListenersBorn' /\ FreshTarget' /\ OneToJoin'
    BY <1>1, <1>2, <1>5
    DEF IInv, Core, BornInOrder, ListenersBorn, FreshTarget, OneToJoin, Replaced
<1>7. Joined' /\ ResumesRun' /\ ForgottenIsDead' /\ Destroyed'
    BY <1>1, <1>2, <1>5 DEF IInv, Core, Joined, ResumesRun, ForgottenIsDead, Destroyed
<1> QED BY <1>4, <1>6, <1>7 DEF IInv, Core

LEMMA PrintGroupIInv ==
    ASSUME IInv, ~Ended, NEW t \in Threads, PrintGroup(t)
    PROVE  IInv'
<1>1. /\ UNCHANGED <<flags, process, target, sbTID, lldb, how, own, input>>
      /\ pc[t] = "group" /\ Goto(t, "exit")
      /\ view' \in {"none", "running", "stopped", "exited"}
    BY DEF IInv, TypeOK, PrintGroup
<1>2. TypeOK'
    <2>1. /\ pc' \in [Threads -> MainLabels \cup ListenerLabels \cup TerminateLabels]
          /\ pc'[Main] \in MainLabels \cup TerminateLabels
          /\ \A l \in Runs : pc'[l] \in ListenerLabels \cup TerminateLabels
        BY <1>1, GotoType DEF IInv, TerminateLabels
    <2> QED BY <1>1, <2>1 DEF IInv, TypeOK, flags, input, lldb
<1>3. /\ \A q \in Runs : pc'[q] # "unborn" <=> pc[q] # "unborn"
      /\ pc'[Main] = pc[Main] \/ (pc[Main] = "group" /\ pc'[Main] = "exit")
      /\ pc'[Main] # "done"
    BY <1>1 DEF IInv, TypeOK, Goto, Threads, Ended
<1>4. Core'
    BY <1>1, <1>3
    DEF IInv, Core, BornInOrder, ListenersBorn, FreshTarget, OneToJoin, Joined,
        ResumesRun, ForgottenIsDead, Destroyed, Born, Replaced, Alive, lldb
<1> QED BY <1>2, <1>4 DEF IInv

LEMMA PlainListenerIInv ==
    ASSUME IInv, ~Ended, NEW l \in Runs,
           \/ ListenerStart(l) \/ LoopTest(l) \/ WaitTimeout(l) \/ OnRunning(l)
           \/ OnStopped(l) \/ ClearRunning(l)
    PROVE  IInv'
<1>1. /\ UNCHANGED <<eof, procstop, wanttokill, process, target, sbTID, lldb, input>>
      /\ pc[l] # "unborn"
    BY DEF ListenerStart, LoopTest, WaitTimeout, OnRunning, OnStopped, ClearRunning, flags
<1>2. PICK label \in {"loop", "done", "wait", "idle", "procstop"} : Goto(l, label)
    BY DEF ListenerStart, LoopTest, WaitTimeout, OnRunning, OnStopped, ClearRunning, Terminate
<1>3. /\ isrunning' \in BOOLEAN /\ view' \in {"none", "running", "stopped", "exited"}
      /\ how' \in [Threads -> SUBSET How] /\ own' \in [Runs -> Threads]
    <2>1. isrunning' \in BOOLEAN
        BY DEF IInv, TypeOK, ListenerStart, LoopTest, WaitTimeout, OnRunning, OnStopped,
               ClearRunning, flags
    <2>2. view' \in {"none", "running", "stopped", "exited"}
        BY DEF IInv, TypeOK, ListenerStart, LoopTest, WaitTimeout, OnRunning, OnStopped,
               ClearRunning
    <2>3. how' \in [Threads -> SUBSET How]
        <3>1. how' = how \/ how' = [how EXCEPT ![l] = {"GROUP", "EXIT"}]
            BY DEF ListenerStart, LoopTest, WaitTimeout, OnRunning, OnStopped,
                   ClearRunning, Terminate
        <3> QED BY <3>1 DEF IInv, TypeOK, How
    <2>4. own' \in [Runs -> Threads]
        <3>1. own' = own \/ own' = [own EXCEPT ![l] = process]
            BY DEF ListenerStart, LoopTest, WaitTimeout, OnRunning, OnStopped, ClearRunning
        <3> QED BY <3>1 DEF IInv, TypeOK
    <2> QED BY <2>1, <2>2, <2>3, <2>4
<1>4. /\ pc' \in [Threads -> MainLabels \cup ListenerLabels \cup TerminateLabels]
      /\ pc'[Main] \in MainLabels \cup TerminateLabels
      /\ \A q \in Runs : pc'[q] \in ListenerLabels \cup TerminateLabels
    BY <1>2, GotoType, MainIsNoRun DEF IInv, Threads, ListenerLabels, TerminateLabels
<1>5. TypeOK'
    BY <1>1, <1>3, <1>4 DEF IInv, TypeOK, lldb, input
<1>6. Core'
    BY <1>1, <1>2, ListenerMoves DEF lldb, ListenerLabels, TerminateLabels
<1> QED BY <1>5, <1>6 DEF IInv

LEMMA WaitForEventIInv ==
    ASSUME IInv, ~Ended, NEW l \in Runs, WaitForEvent(l)
    PROVE  IInv'
<1>1. /\ UNCHANGED <<flags, process, target, sbTID, private, valid, own, input, view>>
      /\ pc[l] # "unborn"
    BY DEF WaitForEvent
<1>2. PICK label \in {"running", "stopped", "loop", "procstop"} : Goto(l, label)
    BY DEF WaitForEvent, Terminate
<1>3. how' \in [Threads -> SUBSET How]
    BY DEF IInv, TypeOK, WaitForEvent, Terminate, How, Threads
<1>4. public' \in [Runs -> ProcessState] /\ events' \in Seq(Event)
    <2>1. PICK i \in Queued :
             /\ public' = [public EXCEPT ![events[i].run] = events[i].state]
             /\ events' = SubSeq(events, i + 1, Len(events))
        BY DEF WaitForEvent
    <2>2. i \in 1 .. Len(events) /\ events \in Seq(Event)
        BY DEF IInv, TypeOK, Queued
    <2>3. events[i] \in Event
        BY <2>2
    <2>4. events[i].run \in Runs /\ events[i].state \in ProcessState
        BY <2>3 DEF Event, ProcessState
    <2>5. SubSeq(events, i + 1, Len(events)) \in Seq(Event)
        BY <2>2
    <2> QED BY <2>1, <2>4, <2>5 DEF IInv, TypeOK
<1>5. /\ pc' \in [Threads -> MainLabels \cup ListenerLabels \cup TerminateLabels]
      /\ pc'[Main] \in MainLabels \cup TerminateLabels
      /\ \A q \in Runs : pc'[q] \in ListenerLabels \cup TerminateLabels
    BY <1>2, GotoType, MainIsNoRun DEF IInv, Threads, ListenerLabels, TerminateLabels
<1>6. TypeOK'
    BY <1>1, <1>3, <1>4, <1>5 DEF IInv, TypeOK, flags, input
<1>7. Core'
    BY <1>1, <1>2, ListenerMoves DEF ListenerLabels, TerminateLabels
<1> QED BY <1>6, <1>7 DEF IInv

-----------------------------------------------------------------------------
\* The invariant is inductive.
LEMMA NextIInv ==
    ASSUME IInv, [Next]_vars
    PROVE  IInv'
<1>1. CASE UNCHANGED vars
    BY <1>1
    DEF IInv, TypeOK, Core, BornInOrder, ListenersBorn, FreshTarget, OneToJoin, Joined,
        ResumesRun, ForgottenIsDead, Destroyed, Born, Replaced, Alive, vars, flags, lldb,
        input
<1>2. CASE Next
    <2>1. ~Ended
        BY <1>2 DEF Next
    <2>2. CASE MainStep
        BY <2>2, PublishIInv, StartProcessListenerIInv, PlainStepIInv, ResumeProcessIInv,
           PlainCommandIInv, WaitProcessListenerIInv DEF MainStep
    <2>3. CASE \/ MainCommand \/ StdinEmptyLine \/ StdinClosed \/ StdinInput
               \/ PtyHungUp
        BY <2>3, PlainCommandIInv, FileClearIInv, NewRunIInv, ResumingCommandIInv,
           ExecAbortIInv DEF MainCommand
    <2>4. ASSUME NEW t \in Threads, TerminateProcess(t) PROVE IInv'
        BY <2>1, <2>4, SetProcstopIInv, DestroyProcessIInv, PrintGroupIInv
        DEF TerminateProcess
    <2>5. ASSUME NEW l \in Runs, Listener(l) PROVE IInv'
        BY <2>1, <2>4, <2>5, PlainListenerIInv, WaitForEventIInv DEF Listener, Threads
    <2>6. ASSUME NEW r \in Runs, DebuggeeStops(r) \/ DebuggeeExits(r) PROVE IInv'
        BY <2>6, DebuggeeIInv
        DEF DebuggeeStops, DebuggeeExits, Debuggee, StateChanges, Interrupted
    <2>7. CASE SignalHandler
        <3>1. CASE IsValid(process) /\ private[process] = "running"
            BY <2>7, <3>1, DebuggeeIInv
            DEF SignalHandler, StateChanges, Interrupted, IsValid, IInv, TypeOK
        <3>2. CASE ~(IsValid(process) /\ private[process] = "running")
            BY <2>7, <3>2, InterruptedIInv DEF SignalHandler, Interrupted
        <3> QED BY <3>1, <3>2
    <2> QED BY <1>2, <2>2, <2>3, <2>4, <2>5, <2>6, <2>7 DEF Next, Threads
<1> QED BY <1>1, <1>2

\* The variables keep their types in every session.
THEOREM TypeCorrect == Spec => []TypeOK
    BY InitIInv, NextIInv, PTL DEF Spec, IInv

\* A listener that is inside LLDB when terminateSB tears it down belongs to a
\* replaced run: for any number of runs and commands, failed pthread_creates
\* included.
THEOREM TeardownSafe == Spec => []SafeTeardown
<1>1. IInv => SafeTeardown
    BY MainIsNoRun DEF IInv, Core, OneToJoin, Joined, SafeTeardown
<1> QED BY InitIInv, NextIInv, <1>1, PTL DEF Spec

\* When the main thread has executed -gdb-exit, -target-detach or a console
\* kill up to setting eof, the session's process is dead.
THEOREM MainExitKills == Spec => []MainExitDestroys
<1>1. IInv => MainExitDestroys
    BY DEF IInv, Core, Destroyed, MainExitDestroys
<1> QED BY InitIInv, NextIInv, <1>1, PTL DEF Spec

-----------------------------------------------------------------------------
(***************************************************************************)
(* What the client is told: the invariant of sessions with one run.        *)
(***************************************************************************)
Last(ev, r, s) ==
    \E i \in 1 .. Len(ev) : /\ ev[i] = [run |-> r, state |-> s]
                            /\ \A j \in i + 1 .. Len(ev) : ev[j].run # r
None(ev, r) == \A i \in 1 .. Len(ev) : ev[i].run # r

\* The last event of a run tells its state; without one, the public state does.
Tells(ev, r, s, p) == Last(ev, r, s) \/ (None(ev, r) /\ p = s)
EventsTell == \A r \in valid : Tells(events, r, private[r], public[r])

\* LLDB knows born processes only, and so does STATE.
ValidBorn == \A r \in valid : Born(r)
ProcessBorn == process # NoRun => Born(process)

\* As long as there is one run, its listener listens to the session's process,
\* and what it has destroyed stays dead.
OwnProcess ==
    \A l \in Runs :
        OneRun /\ pc[l] # "unborn" => process = l /\ (pc[l] # "start" => own[l] = l)
ListenerDestroys ==
    \A l \in Runs : OneRun /\ pc[l] \in {"group", "exit"} => ~Alive(process)

FreshCommand == pc[Main] = "publish" => cmd \in {"run", "attach"}

Births == ValidBorn /\ ProcessBorn /\ OwnProcess /\ ListenerDestroys /\ FreshCommand

\* A stop the client has not been told of is in the queue or being handled.
Resuming == {"continue", "step"}
Untold == /\ OneRun /\ process \in valid /\ private[process] = "stopped"
          /\ cmd \in Resuming /\ pc[Main] # "resume"
ToldOfStop == Untold => \/ view = "stopped" \/ ~None(events, process)
                        \/ pc[process] = "stopped"

VInv == Births /\ EventsTell /\ ToldOfStop

-----------------------------------------------------------------------------
(* Events *)

LEMMA AppendTells ==
    ASSUME NEW ev \in Seq(Event), NEW e \in Event
    PROVE  /\ Last(Append(ev, e), e.run, e.state)
           /\ ~None(Append(ev, e), e.run)
           /\ \A q : ~None(ev, q) => ~None(Append(ev, e), q)
           /\ \A q, s, p : q # e.run /\ Tells(ev, q, s, p) => Tells(Append(ev, e), q, s, p)
<1>1. PICK w : w = Append(ev, e)
    OBVIOUS
<1>2. /\ Len(ev) \in Nat /\ Len(w) = Len(ev) + 1 /\ w[Len(w)] = e
      /\ \A i \in 1 .. Len(ev) : w[i] = ev[i]
    BY <1>1
<1>3. e = [run |-> e.run, state |-> e.state]
    BY DEF Event
<1>4. Last(w, e.run, e.state) /\ ~None(w, e.run)
    BY <1>2, <1>3 DEF Last, None
<1>5. ASSUME NEW q, ~None(ev, q) PROVE ~None(w, q)
    BY <1>2, <1>5 DEF None
<1>6. ASSUME NEW q, NEW s, NEW p, q # e.run, Tells(ev, q, s, p) PROVE Tells(w, q, s, p)
    <2>1. CASE Last(ev, q, s)
        <3>1. PICK i \in 1 .. Len(ev) :
                  ev[i] = [run |-> q, state |-> s] /\ \A j \in i + 1 .. Len(ev) : ev[j].run # q
            BY <2>1 DEF Last
        <3>2. i \in 1 .. Len(w) /\ w[i] = [run |-> q, state |-> s]
            BY <1>2, <3>1
        <3>3. \A j \in i + 1 .. Len(w) : j \in i + 1 .. Len(ev) \/ j = Len(w)
            BY <1>2
        <3>4. \A j \in i + 1 .. Len(w) : w[j].run # q
            BY <1>2, <1>6, <3>1, <3>3
        <3> QED BY <3>2, <3>4 DEF Tells, Last
    <2>2. CASE None(ev, q) /\ p = s
        <3>1. \A j \in 1 .. Len(w) : j \in 1 .. Len(ev) \/ j = Len(w)
            BY <1>2
        <3> QED BY <1>2, <1>6, <2>2, <3>1 DEF Tells, None
    <2> QED BY <1>6, <2>1, <2>2 DEF Tells
<1> QED BY <1>1, <1>4, <1>5, <1>6

\* The first i events are taken out of the queue.
LEMMA TakenTells ==
    ASSUME NEW ev \in Seq(Event), NEW i \in 1 .. Len(ev), NEW r, NEW s, NEW p,
           Tells(ev, r, s, p), \A j \in 1 .. i - 1 : ev[j].run # r
    PROVE  /\ Tells(SubSeq(ev, i + 1, Len(ev)), r, s, IF r = ev[i].run THEN ev[i].state ELSE p)
           /\ r # ev[i].run /\ ~None(ev, r) => ~None(SubSeq(ev, i + 1, Len(ev)), r)
<1>1. PICK w : w = SubSeq(ev, i + 1, Len(ev))
    OBVIOUS
<1>2. /\ Len(ev) \in Nat /\ Len(w) = Len(ev) - i
      /\ \A k \in 1 .. Len(w) : w[k] = ev[i + k]
    BY <1>1
<1>3. ASSUME NEW k \in i + 1 .. Len(ev) PROVE k - i \in 1 .. Len(w) /\ w[k - i] = ev[k]
    <2>1. k - i \in 1 .. Len(w) /\ i + (k - i) = k
        BY <1>2
    <2> QED BY <1>2, <2>1
<1>4. ASSUME NEW k \in i + 1 .. Len(ev), ev[k] = [run |-> r, state |-> s],
             \A j \in k + 1 .. Len(ev) : ev[j].run # r
      PROVE  Last(w, r, s)
    <2>1. k - i \in 1 .. Len(w) /\ w[k - i] = [run |-> r, state |-> s]
        BY <1>3, <1>4
    <2>2. \A j \in (k - i) + 1 .. Len(w) : i + j \in k + 1 .. Len(ev) /\ j \in 1 .. Len(w)
        BY <1>2
    <2>3. \A j \in (k - i) + 1 .. Len(w) : w[j].run # r
        BY <1>2, <1>4, <2>2
    <2> QED BY <2>1, <2>3 DEF Last
<1>5. CASE Last(ev, r, s)
    <2>1. PICK k \in 1 .. Len(ev) :
              ev[k] = [run |-> r, state |-> s] /\ \A j \in k + 1 .. Len(ev) : ev[j].run # r
        BY <1>5 DEF Last
    <2>2. CASE k \in i + 1 .. Len(ev)
        <3>1. Last(w, r, s)
            BY <1>4, <2>1, <2>2
        <3>2. ~None(w, r)
            BY <3>1 DEF Last, None
        <3> QED BY <1>1, <3>1, <3>2 DEF Tells
    <2>3. CASE k = i
        <3>1. \A j \in 1 .. Len(w) : i + j \in k + 1 .. Len(ev)
            BY <1>2, <2>3
        <3>2. None(w, r)
            BY <1>2, <2>1, <3>1 DEF None
        <3> QED BY <1>1, <2>1, <2>3, <3>2 DEF Tells
    <2>4. k \in 1 .. i - 1 \/ k = i \/ k \in i + 1 .. Len(ev)
        BY <1>2
    <2> QED BY <2>1, <2>2, <2>3, <2>4
<1>6. CASE None(ev, r) /\ p = s
    <2>1. \A j \in 1 .. Len(w) : i + j \in 1 .. Len(ev)
        BY <1>2
    <2>2. None(w, r) /\ r # ev[i].run
        BY <1>2, <1>6, <2>1 DEF None
    <2> QED BY <1>1, <1>6, <2>2 DEF Tells
<1> QED BY <1>5, <1>6 DEF Tells

-----------------------------------------------------------------------------
(* One run *)

LEMMA OnlyOne ==
    ASSUME OneRun, NEW q \in Runs, NEW r \in Runs, Born(q), Born(r)
    PROVE  q = r
<1>1. q \in Nat /\ r \in Nat
    BY MainIsNoRun
<1>2. ~(q < r) /\ ~(r < q)
    BY <1>1, MainIsNoRun DEF OneRun, Replaced
<1> QED BY <1>1, <1>2

\* The run whose listener exists is the session's, and LLDB's.
LEMMA ItsListener ==
    ASSUME IInv, VInv, OneRun, NEW l \in Runs, pc[l] # "unborn"
    PROVE  process = l /\ (pc[l] # "start" => own[l] = l) /\ \A r \in valid : r = l
<1>1. Born(l) /\ \A r \in valid : r \in Runs /\ Born(r)
    BY DEF IInv, TypeOK, Core, ListenersBorn, VInv, Births, ValidBorn
<1>2. process = l /\ (pc[l] # "start" => own[l] = l)
    BY DEF VInv, Births, OwnProcess
<1> QED BY <1>1, <1>2, OnlyOne

\* Nobody is born and no process comes back to life.
SameRuns ==
    /\ process' = process /\ valid' \subseteq valid
    /\ \A r \in Runs : (Born(r)' <=> Born(r)) /\ (Alive(r)' => Alive(r))

\* Listener l does not move, or keeps to what OwnProcess and ListenerDestroys say.
KeepsOwn(l) ==
    \/ pc'[l] = pc[l] /\ own'[l] = own[l]
    \/ /\ pc[l] # "unborn" /\ pc'[l] \notin {"unborn", "start"}
       /\ own'[l] = process \/ (pc[l] # "start" /\ own'[l] = own[l])
       /\ pc'[l] \in {"group", "exit"} => pc[l] = "group" \/ ~Alive(process)'

LEMMA SameRunsOne ==
    ASSUME SameRuns
    PROVE  (OneRun' <=> OneRun) /\ (process \in Threads => (Alive(process)' => Alive(process)))
<1>1. OneRun' <=> OneRun
    BY DEF SameRuns, OneRun, Replaced
<1>2. ASSUME process \in Threads, Alive(process)' PROVE Alive(process)
    <2>1. process \in Runs
        BY <1>2 DEF SameRuns, Alive, Threads, NoRun, Main
    <2> QED BY <1>2, <2>1 DEF SameRuns, Alive
<1> QED BY <1>1, <1>2

LEMMA BirthsKept ==
    ASSUME IInv, VInv, SameRuns, \A l \in Runs : KeepsOwn(l),
           pc'[Main] = "publish" => pc[Main] = "publish" /\ cmd' = cmd
    PROVE  Births'
<1> USE DEF VInv, Births
<1>1. ValidBorn'
    BY DEF SameRuns, ValidBorn, IInv, TypeOK
<1>2. ProcessBorn'
    BY DEF SameRuns, ProcessBorn, IInv, TypeOK, Threads, NoRun, Main
<1>3. (OneRun' <=> OneRun) /\ (Alive(process)' => Alive(process)) /\ process' = process
    BY SameRunsOne DEF IInv, TypeOK, SameRuns
<1>4. OwnProcess'
    <2> SUFFICES ASSUME NEW l \in Runs, OneRun', pc'[l] # "unborn"
                 PROVE  process' = l /\ (pc'[l] # "start" => own'[l] = l)
        BY DEF OwnProcess
    <2>1. pc[l] # "unborn"
        BY DEF KeepsOwn
    <2>2. process = l /\ (pc[l] # "start" => own[l] = l)
        BY <1>3, <2>1 DEF OwnProcess
    <2> QED BY <1>3, <2>2 DEF KeepsOwn
<1>5. ListenerDestroys'
    <2> SUFFICES ASSUME NEW l \in Runs, OneRun', pc'[l] \in {"group", "exit"}
                 PROVE  ~Alive(process)'
        BY DEF ListenerDestroys
    <2>1. pc[l] \in {"group", "exit"} \/ ~Alive(process)'
        BY DEF KeepsOwn
    <2> QED BY <1>3, <2>1 DEF ListenerDestroys
<1>6. FreshCommand'
    BY DEF FreshCommand
<1> QED BY <1>1, <1>2, <1>4, <1>5, <1>6

\* The main thread moves.
LEMMA MainBirths ==
    ASSUME IInv, VInv, SameRuns, own' = own, NEW label, label # "publish", Goto(Main, label)
    PROVE  Births'
<1>1. pc'[Main] = label /\ \A l \in Runs : pc'[l] = pc[l]
    BY MainIsNoRun DEF IInv, TypeOK, Goto, Threads
<1> QED BY <1>1, BirthsKept DEF KeepsOwn

\* A listener moves.
LEMMA ListenerBirths ==
    ASSUME IInv, VInv, SameRuns, UNCHANGED cmd, NEW l \in Runs, pc[l] # "unborn",
           NEW label, label \notin {"unborn", "start"}, Goto(l, label),
           \/ own' = own /\ pc[l] # "start"
           \/ own' = [own EXCEPT ![l] = process],
           label \in {"group", "exit"} => pc[l] = "group" \/ ~Alive(process)'
    PROVE  Births'
<1>1. pc'[l] = label /\ pc'[Main] = pc[Main] /\ \A q \in Runs : q # l => pc'[q] = pc[q]
    BY MainIsNoRun DEF IInv, TypeOK, Goto, Threads
<1>2. ASSUME NEW q \in Runs PROVE KeepsOwn(q)
    BY <1>1 DEF IInv, TypeOK, KeepsOwn
<1> QED BY <1>1, <1>2, BirthsKept

\* Steps that change neither the view nor what is known of a stop.
LEMMA ToldKept ==
    ASSUME VInv, SameRuns, UNCHANGED view,
           process \in valid =>
               /\ private'[process] = "stopped" => private[process] = "stopped"
               /\ pc[process] = "stopped" => pc'[process] = "stopped",
           ~None(events, process) => ~None(events', process),
           \/ cmd' \notin Resuming
           \/ cmd' = cmd /\ (pc[Main] = "resume" => pc'[Main] = "resume")
    PROVE  ToldOfStop'
<1>1. process' = process /\ (OneRun' <=> OneRun)
    BY SameRunsOne DEF SameRuns
<1>2. Untold' => Untold
    BY <1>1 DEF Untold, SameRuns
<1> SUFFICES ASSUME Untold'
             PROVE  view' = "stopped" \/ ~None(events', process') \/ pc'[process'] = "stopped"
    BY DEF ToldOfStop
<1>3. view = "stopped" \/ ~None(events, process) \/ pc[process] = "stopped"
    BY <1>2 DEF ToldOfStop, VInv
<1>4. process \in valid
    BY <1>1 DEF Untold, SameRuns
<1> QED BY <1>1, <1>3, <1>4

LEMMA LldbSame ==
    ASSUME VInv, UNCHANGED <<lldb, process>>
    PROVE  SameRuns /\ EventsTell'
    BY DEF VInv, SameRuns, EventsTell, Born, Alive, lldb

\* The main thread moves and nothing else happens that the client may be told.
LEMMA MainMovesVInv ==
    ASSUME IInv, VInv, UNCHANGED <<lldb, process, own, view>>,
           NEW label, label # "publish", Goto(Main, label),
           cmd' \notin Resuming \/ (cmd' = cmd /\ pc[Main] # "resume")
    PROVE  VInv'
<1>1. SameRuns /\ EventsTell'
    BY LldbSame
<1>2. Births'
    BY <1>1, MainBirths
<1>3. process \in valid => pc'[process] = pc[process] /\ private' = private
    BY MainIsNoRun DEF IInv, TypeOK, Goto, Threads, lldb
<1>4. events' = events
    BY DEF lldb
<1>5. ToldOfStop'
    BY <1>1, <1>3, <1>4, ToldKept
<1> QED BY <1>1, <1>2, <1>5 DEF VInv

LEMMA PlainMainVInv ==
    ASSUME IInv, VInv,
           \/ FileExec \/ ExecRunFails \/ ExecStepFails \/ TargetAttachFails
           \/ TargetDetach \/ GdbExit \/ StdinClosed \/ StdinInput \/ PtyHungUp
           \/ LeaveLoop \/ ConsoleKill
           \/ MarkRunning \/ WantToKill \/ AnswerKill \/ WaitProcessListener
           \/ SetProcstop(Main) \/ SetEof(Main)
    PROVE  VInv'
<1>1. UNCHANGED <<lldb, process, own, view>>
    BY DEF FileExec, ExecRunFails, ExecStepFails, TargetAttachFails, TargetDetach, GdbExit,
           StdinClosed, StdinInput, PtyHungUp, LeaveLoop, ConsoleKill, MarkRunning,
           WantToKill, AnswerKill,
           WaitProcessListener, SetProcstop, SetEof
<1>2. PICK label \in {"poll", "more", "procstop", "dead", "join", "resume", "answer", "want",
                      "done", "destroy", "pty"} : Goto(Main, label)
    BY FinishMoves
    DEF FileExec, ExecRunFails, ExecStepFails, TargetAttachFails, TargetDetach, GdbExit,
        StdinClosed, StdinInput, PtyHungUp, LeaveLoop, ConsoleKill, MarkRunning,
        WantToKill, AnswerKill,
        WaitProcessListener, SetProcstop, SetEof, Return, Terminate
<1>3. cmd' \notin Resuming \/ (cmd' = cmd /\ pc[Main] # "resume")
    BY DEF FileExec, ExecRunFails, ExecStepFails, TargetAttachFails, TargetDetach, GdbExit,
           StdinClosed, StdinInput, PtyHungUp, LeaveLoop, ConsoleKill, MarkRunning,
           WantToKill, AnswerKill,
           WaitProcessListener, SetProcstop, SetEof, Read, ReadsStdin, Resuming, input
<1> QED BY <1>1, <1>2, <1>3, MainMovesVInv

LEMMA StdinEmptyLineVInv ==
    ASSUME IInv, VInv, StdinEmptyLine
    PROVE  VInv'
<1>1. UNCHANGED <<lldb, process, own, view, input>> /\ Goto(Main, "poll")
    BY DEF StdinEmptyLine
<1>2. pc[Main] # "resume"
    BY DEF StdinEmptyLine, ReadsStdin
<1> QED BY <1>1, <1>2, MainMovesVInv DEF input

\* A stop that is still in the queue or already public: the facts about the
\* session's process that the main thread's steps need.
LEMMA StopKnown ==
    ASSUME VInv, process \in valid, private[process] = "stopped"
    PROVE  ~None(events, process) \/ public[process] = "stopped"
<1>1. ASSUME Last(events, process, "stopped") PROVE ~None(events, process)
    <2>1. PICK i \in 1 .. Len(events) : events[i] = [run |-> process, state |-> "stopped"]
        BY <1>1 DEF Last
    <2>2. events[i].run = process
        BY <2>1
    <2> QED BY <2>2 DEF None
<1>2. Tells(events, process, "stopped", public[process])
    BY DEF VInv, EventsTell
<1> QED BY <1>1, <1>2 DEF Tells

\* =thread-group-started and *running of -exec-run
LEMMA AnnounceVInv ==
    ASSUME IInv, VInv, Announce
    PROVE  VInv'
<1>1. UNCHANGED <<lldb, process, own, cmd>> /\ pc[Main] = "announce"
    BY DEF Announce, input
<1>2. PICK label \in {"poll", "more"} : Goto(Main, label)
    BY FinishMoves DEF Announce
<1>3. SameRuns /\ EventsTell'
    BY <1>1, LldbSame
<1>4. Births'
    BY <1>1, <1>2, <1>3, MainBirths
<1>5. ToldOfStop'
    <2>1. CASE cmd = "run"
        BY <1>1, <2>1 DEF ToldOfStop, Untold, Resuming
    <2>2. CASE cmd # "run"
        <3>1. view' = view
            BY <2>2 DEF Announce
        <3>2. process \in valid => pc'[process] = pc[process]
            BY <1>2, MainIsNoRun DEF IInv, TypeOK, Goto, Threads
        <3> QED BY <1>1, <1>3, <3>1, <3>2, ToldKept DEF lldb
    <2> QED BY <2>1, <2>2
<1> QED BY <1>3, <1>4, <1>5 DEF VInv

\* *running of -exec-continue and the like: only before the process is resumed.
LEMMA ExecResumeVInv ==
    ASSUME IInv, VInv, NEW c \in Resuming, ExecResume(c)
    PROVE  VInv'
<1>1. UNCHANGED <<lldb, process, own>>
    BY DEF ExecResume
<1>2. PICK label \in {"poll", "more", "resume"} : Goto(Main, label)
    BY FinishMoves DEF ExecResume
<1>3. SameRuns /\ EventsTell'
    BY <1>1, LldbSame
<1>4. Births'
    BY <1>1, <1>2, <1>3, MainBirths
<1>5. ToldOfStop'
    <2> SUFFICES ASSUME Untold'
                 PROVE  ~None(events, process)
        BY <1>1 DEF ToldOfStop, lldb
    <2>1. process \in valid /\ private[process] = "stopped" /\ pc'[Main] # "resume"
        BY <1>1 DEF Untold, lldb
    <2>2. ~Goto(Main, "resume")
        BY <2>1 DEF Goto, IInv, TypeOK, Threads
    <2>3. public[process] # "stopped"
        BY <2>1, <2>2 DEF ExecResume, GetState, IsValid
    <2> QED BY <2>1, <2>3, StopKnown
<1> QED BY <1>3, <1>4, <1>5 DEF VInv

-----------------------------------------------------------------------------
(* LLDB's part: a process changes its state, and an event tells so. *)

LEMMA EventType ==
    ASSUME NEW r \in Runs, NEW s \in {"running", "stopped", "exited"}
    PROVE  [run |-> r, state |-> s] \in Event
    BY DEF Event

LEMMA Shown ==
    ASSUME TypeOK, EventsTell, NEW r \in Runs, NEW s \in {"running", "stopped", "exited"},
           private' = [private EXCEPT ![r] = s], UNCHANGED public,
           events' = Append(events, [run |-> r, state |-> s]),
           valid' \subseteq valid \cup {r}
    PROVE  /\ EventsTell'
           /\ ~None(events', r) /\ \A q : ~None(events, q) => ~None(events', q)
<1>1. PICK e \in Event : e = [run |-> r, state |-> s]
    BY EventType
<1>2. e.run = r /\ e.state = s /\ events' = Append(events, e) /\ events \in Seq(Event)
    BY <1>1 DEF TypeOK
<1>3. /\ Last(events', r, s)
      /\ ~None(events', r) /\ \A q : ~None(events, q) => ~None(events', q)
      /\ \A q, t, p : q # r /\ Tells(events, q, t, p) => Tells(events', q, t, p)
    BY <1>2, AppendTells
<1>4. ASSUME NEW q \in valid' PROVE Tells(events', q, private'[q], public'[q])
    <2>1. CASE q = r
        <3>1. private'[q] = s
            BY <2>1 DEF TypeOK
        <3> QED BY <1>3, <2>1, <3>1 DEF Tells
    <2>2. CASE q # r
        <3>1. q \in valid /\ private'[q] = private[q] /\ public'[q] = public[q]
            BY <2>2 DEF TypeOK
        <3>2. Tells(events, q, private[q], public[q])
            BY <3>1 DEF EventsTell
        <3> QED BY <1>3, <2>2, <3>1, <3>2
    <2> QED BY <2>1, <2>2
<1> QED BY <1>3, <1>4 DEF EventsTell

LEMMA DebuggeeVInv ==
    ASSUME IInv, VInv, NEW r \in Runs, NEW s \in {"stopped", "exited"}, StateChanges(r, s)
    PROVE  VInv'
<1>1. /\ private[r] = "running"
      /\ private' = [private EXCEPT ![r] = s]
      /\ events' = Append(events, [run |-> r, state |-> s])
      /\ UNCHANGED <<process, public, valid, own, cmd, view>>
    BY DEF StateChanges, input
<1>2. /\ EventsTell'
      /\ ~None(events', r) /\ \A q : ~None(events, q) => ~None(events', q)
    BY <1>1, Shown DEF IInv, VInv
<1>3. SameRuns
    BY <1>1 DEF IInv, TypeOK, SameRuns, Born, Alive
<1>4. /\ \A q \in Runs : pc'[q] = pc[q]
      /\ pc'[Main] = pc[Main] \/ (pc[Main] = "poll" /\ pc'[Main] = "stdin")
    BY MainIsNoRun DEF IInv, TypeOK, StateChanges, Interrupted, Goto, Threads
<1>5. Births'
    BY <1>1, <1>3, <1>4, BirthsKept DEF KeepsOwn
<1>6. ToldOfStop'
    <2>1. CASE process = r
        BY <1>1, <1>2, <2>1 DEF ToldOfStop
    <2>2. CASE process # r
        <3>1. process \in valid => /\ private'[process] = private[process]
                                   /\ pc'[process] = pc[process]
            BY <1>1, <1>4, <2>2 DEF IInv, TypeOK
        <3> QED BY <1>1, <1>2, <1>3, <1>4, <3>1, ToldKept
    <2> QED BY <2>1, <2>2
<1> QED BY <1>2, <1>5, <1>6 DEF VInv

LEMMA InterruptedVInv ==
    ASSUME IInv, VInv, Interrupted, UNCHANGED <<lldb, process, own, view, input>>
    PROVE  VInv'
<1>1. CASE pc' = pc
    <2>1. SameRuns /\ EventsTell'
        BY LldbSame
    <2>2. Births'
        BY <1>1, <2>1, BirthsKept DEF KeepsOwn, input
    <2>3. ToldOfStop'
        BY <1>1, <2>1, ToldKept DEF lldb, input
    <2> QED BY <2>1, <2>2, <2>3 DEF VInv
<1>2. CASE pc[Main] = "poll" /\ Goto(Main, "stdin")
    BY <1>2, MainMovesVInv DEF input
<1> QED BY <1>1, <1>2 DEF Interrupted

LEMMA ResumeProcessVInv ==
    ASSUME IInv, VInv, ResumeProcess
    PROVE  VInv'
<1>1. /\ UNCHANGED <<process, public, valid, own, view>>
      /\ process \in Runs
    BY DEF ResumeProcess, Resume, IInv, Core, ResumesRun
<1>2. PICK label \in {"poll", "more", "mark"} : Goto(Main, label)
    BY FinishMoves DEF ResumeProcess
<1>3. CASE CanResume(process)
    <2>1. /\ private' = [private EXCEPT ![process] = "running"]
          /\ events' = Append(events, [run |-> process, state |-> "running"])
          /\ private[process] = "stopped"
        BY <1>3 DEF ResumeProcess, Resume, CanResume
    <2>2. EventsTell'
        BY <1>1, <2>1, Shown DEF IInv, VInv
    <2>3. SameRuns
        BY <1>1, <2>1 DEF IInv, TypeOK, SameRuns, Born, Alive
    <2>4. Births'
        BY <1>1, <1>2, <2>3, MainBirths
    <2>5. ToldOfStop'
        BY <1>1, <2>1 DEF ToldOfStop, Untold, IInv, TypeOK
    <2> QED BY <2>2, <2>4, <2>5 DEF VInv
<1>4. CASE ~CanResume(process)
    <2>1. UNCHANGED lldb
        BY <1>1, <1>4 DEF ResumeProcess, Resume, lldb
    <2>2. SameRuns /\ EventsTell'
        BY <1>1, <2>1, LldbSame
    <2>3. Births'
        BY <1>1, <1>2, <2>2, MainBirths
    <2>4. ToldOfStop'
        <3> SUFFICES ASSUME Untold' PROVE ~None(events, process)
            BY <1>1, <2>1 DEF ToldOfStop, lldb
        <3>1. process \in valid /\ private[process] = "stopped"
            BY <1>1, <2>1 DEF Untold, lldb
        <3>2. public[process] # "stopped" \/ ~None(events, process)
            BY <1>4, <3>1 DEF CanResume, Pending, None
        <3> QED BY <3>1, <3>2, StopKnown
    <2> QED BY <2>2, <2>3, <2>4 DEF VInv
<1> QED BY <1>3, <1>4

LEMMA FileClearVInv ==
    ASSUME IInv, VInv, FileClear
    PROVE  VInv'
<1> DEFINE killed == {r \in valid : r \in {process, target} /\ Alive(r)}
<1>1. /\ private' = [r \in Runs |-> IF r \in killed THEN "exited" ELSE private[r]]
      /\ events' = IF process \in killed
                   THEN Append(events, [run |-> process, state |-> "exited"])
                   ELSE events
      /\ valid' = valid \ {target}
      /\ UNCHANGED <<process, public, own>>
      /\ cmd' \notin Resuming
    BY DEF FileClear, Read, Resuming
<1>2. PICK label \in {"poll", "more"} : Goto(Main, label)
    BY FinishMoves DEF FileClear
<1>3. \A r \in Runs : (Born(r)' <=> Born(r)) /\ (Alive(r)' => Alive(r))
    BY <1>1 DEF Born, Alive
<1>4. SameRuns
    BY <1>1, <1>3 DEF SameRuns
<1>5. Births'
    BY <1>1, <1>2, <1>4, MainBirths
<1>6. ToldOfStop'
    BY <1>1 DEF ToldOfStop, Untold
<1>7. ASSUME NEW q \in valid' PROVE Tells(events', q, private'[q], public'[q])
    <2>1. q \in valid /\ q \in Runs /\ q # target
        BY <1>1 DEF IInv, TypeOK
    <2>2. Tells(events, q, private[q], public[q])
        BY <2>1 DEF VInv, EventsTell
    <2>3. CASE process \notin killed
        <3>1. q \notin killed
            BY <2>1, <2>3
        <3> QED BY <1>1, <2>1, <2>2, <2>3, <3>1
    <2>4. CASE process \in killed
        <3>1. process \in Runs
            BY <2>4 DEF IInv, TypeOK
        <3>2. PICK e \in Event : e = [run |-> process, state |-> "exited"]
            BY <3>1, EventType
        <3>3. e.run = process /\ e.state = "exited" /\ events' = Append(events, e)
              /\ events \in Seq(Event)
            BY <1>1, <2>4, <3>2 DEF IInv, TypeOK
        <3>4. /\ Last(events', process, "exited")
              /\ \A r, t, p : r # process /\ Tells(events, r, t, p) => Tells(events', r, t, p)
            BY <3>3, AppendTells
        <3>5. CASE q = process
            <4>1. private'[q] = "exited"
                BY <1>1, <2>1, <2>4, <3>5
            <4> QED BY <3>4, <3>5, <4>1 DEF Tells
        <3>6. CASE q # process
            <4>1. private'[q] = private[q] /\ public'[q] = public[q]
                BY <1>1, <2>1, <3>6
            <4> QED BY <2>2, <3>4, <3>6, <4>1
        <3> QED BY <3>5, <3>6
    <2> QED BY <2>3, <2>4
<1>8. EventsTell'
    BY <1>7 DEF EventsTell
<1> QED BY <1>5, <1>6, <1>8 DEF VInv

LEMMA ExecAbortVInv ==
    ASSUME IInv, VInv, ExecAbort
    PROVE  VInv'
<1>1. UNCHANGED <<process, target, public, valid, own>> /\ cmd' \notin Resuming
    BY DEF ExecAbort, Read, Resuming
<1>2. PICK label \in {"poll", "more"} : Goto(Main, label)
    BY FinishMoves DEF ExecAbort
<1>3. ToldOfStop'
    BY <1>1 DEF ToldOfStop, Untold
<1>4. CASE IsValid(target) /\ Alive(target)
    <2>1. target \in Runs /\ private' = [private EXCEPT ![target] = "exited"]
        BY <1>4 DEF IInv, TypeOK, IsValid, ExecAbort
    <2>2. SameRuns
        BY <1>1, <1>4, <2>1 DEF IInv, TypeOK, SameRuns, Born, Alive
    <2>3. Births'
        BY <1>1, <1>2, <2>2, MainBirths
    <2>4. PICK e \in Event : e = [run |-> target, state |-> "exited"]
        BY <2>1, EventType
    <2>5. PICK h \in Event : h = [run |-> target, state |-> "running"]
        BY <2>1, EventType
    <2>6. PICK mid : mid = IF CanResume(target) THEN Append(events, h) ELSE events
        OBVIOUS
    <2>7. events \in Seq(Event) /\ mid \in Seq(Event) /\ e.run = target /\ h.run = target
          /\ e.state = "exited"
        BY <2>4, <2>5, <2>6 DEF IInv, TypeOK
    <2>8. events' = Append(mid, e)
        <3>1. events' = events \o (IF CanResume(target) THEN <<h>> ELSE <<>>) \o <<e>>
            BY <1>4, <2>4, <2>5 DEF ExecAbort
        <3>2. events \o <<>> = events /\ events \o <<h>> = Append(events, h)
              /\ mid \o <<e>> = Append(mid, e)
            BY <2>7
        <3> QED BY <2>6, <3>1, <3>2
    <2>9. /\ Last(events', target, "exited")
          /\ \A q, t, p : q # target /\ Tells(mid, q, t, p) => Tells(events', q, t, p)
        BY <2>7, <2>8, AppendTells
    <2>10. \A q, t, p : q # target /\ Tells(events, q, t, p) => Tells(mid, q, t, p)
        BY <2>6, <2>7, AppendTells
    <2>11. ASSUME NEW q \in valid' PROVE Tells(events', q, private'[q], public'[q])
        <3>1. q \in valid /\ q \in Runs /\ Tells(events, q, private[q], public[q])
            BY <1>1 DEF IInv, TypeOK, VInv, EventsTell
        <3>2. CASE q = target
            <4>1. private'[q] = "exited"
                BY <2>1, <3>1, <3>2 DEF IInv, TypeOK
            <4> QED BY <2>9, <3>2, <4>1 DEF Tells
        <3>3. CASE q # target
            <4>1. private'[q] = private[q] /\ public'[q] = public[q]
                BY <1>1, <2>1, <3>1, <3>3 DEF IInv, TypeOK
            <4> QED BY <2>9, <2>10, <3>1, <3>3, <4>1
        <3> QED BY <3>2, <3>3
    <2>12. EventsTell'
        BY <2>11 DEF EventsTell
    <2> QED BY <1>3, <2>3, <2>12 DEF VInv
<1>5. CASE ~(IsValid(target) /\ Alive(target))
    <2>1. UNCHANGED lldb
        BY <1>1, <1>5 DEF ExecAbort, lldb
    <2>2. SameRuns /\ EventsTell'
        BY <1>1, <2>1, LldbSame
    <2> QED BY <1>1, <1>2, <1>3, <2>2, MainBirths DEF VInv
<1> QED BY <1>4, <1>5

\* terminateProcess: the process is dead from here on.
LEMMA DestroyProcessVInv ==
    ASSUME IInv, VInv, NEW t \in Threads, DestroyProcess(t)
    PROVE  VInv'
<1>1. /\ UNCHANGED <<process, public, valid, own, cmd>>
      /\ pc[t] = "destroy" /\ Goto(t, "group")
    BY DEF DestroyProcess, Destroy, lldb, input
<1>2. SameRuns /\ EventsTell' /\ ~Alive(process)'
    <2>1. CASE IsValid(process) /\ Alive(process)
        <3>1. process \in Runs
            BY <2>1 DEF IInv, TypeOK, IsValid
        <3>2. /\ private' = [private EXCEPT ![process] = "exited"]
              /\ events' = Append(events, [run |-> process, state |-> "exited"])
            BY <2>1 DEF DestroyProcess, Destroy
        <3>3. EventsTell'
            BY <1>1, <3>1, <3>2, Shown DEF IInv, VInv
        <3>4. SameRuns
            BY <1>1, <2>1, <3>1, <3>2 DEF IInv, TypeOK, SameRuns, Born, Alive
        <3>5. ~Alive(process)'
            BY <1>1, <3>1, <3>2 DEF IInv, TypeOK, Alive
        <3> QED BY <3>3, <3>4, <3>5
    <2>2. CASE ~(IsValid(process) /\ Alive(process))
        <3>1. UNCHANGED lldb
            BY <1>1, <2>2 DEF DestroyProcess, Destroy, lldb
        <3>2. ~Alive(process)
            BY <2>2 DEF IInv, TypeOK, Core, ForgottenIsDead, IsValid, Alive, Threads,
                        NoRun, Main
        <3>3. ~Alive(process)'
            BY <1>1, <3>1, <3>2 DEF Alive, lldb
        <3> QED BY <1>1, <3>1, <3>3, LldbSame
    <2> QED BY <2>1, <2>2
<1>3. Births'
    <2>1. CASE t = Main
        BY <1>1, <1>2, <2>1, MainBirths
    <2>2. CASE t \in Runs
        BY <1>1, <1>2, <2>2, ListenerBirths
    <2> QED BY <2>1, <2>2 DEF Threads
<1>4. ToldOfStop'
    <2> SUFFICES ASSUME Untold' PROVE FALSE
        BY DEF ToldOfStop
    <2>1. process' \in valid' /\ private'[process'] = "stopped"
        BY DEF Untold
    <2>2. process' # NoRun
        BY <1>1, <2>1, MainIsNoRun DEF IInv, TypeOK
    <2> QED BY <1>2, <2>1, <2>2 DEF Alive
<1> QED BY <1>2, <1>3, <1>4 DEF VInv

\* =thread-group-exited: only a dead process is reported to have exited.
LEMMA PrintGroupVInv ==
    ASSUME IInv, VInv, NEW t \in Threads, PrintGroup(t)
    PROVE  VInv'
<1>1. /\ UNCHANGED <<lldb, process, own, cmd>>
      /\ pc[t] = "group" /\ Goto(t, "exit")
    BY DEF PrintGroup, input
<1>2. SameRuns /\ EventsTell'
    BY <1>1, LldbSame
<1>3. Births'
    <2>1. CASE t = Main
        BY <1>1, <1>2, <2>1, MainBirths
    <2>2. CASE t \in Runs
        BY <1>1, <1>2, <2>2, ListenerBirths
    <2> QED BY <2>1, <2>2 DEF Threads
<1>4. ToldOfStop'
    <2> SUFFICES ASSUME Untold' PROVE FALSE
        BY DEF ToldOfStop
    <2>1. OneRun /\ process \in valid /\ private[process] = "stopped"
        BY <1>1, <1>2, SameRunsOne DEF Untold, lldb
    <2>2. Alive(process)
        BY <2>1, MainIsNoRun DEF IInv, TypeOK, Alive
    <2>3. ~Alive(process)
        BY <1>1, <2>1
        DEF IInv, Core, Destroyed, VInv, Births, ListenerDestroys, Threads
    <2> QED BY <2>2, <2>3
<1> QED BY <1>2, <1>3, <1>4 DEF VInv

-----------------------------------------------------------------------------
(* The listener threads *)

LEMMA ListenerMovesVInv ==
    ASSUME IInv, VInv, NEW l \in Runs,
           \/ ListenerStart(l) \/ LoopTest(l) \/ WaitTimeout(l) \/ OnRunning(l)
           \/ ClearRunning(l) \/ SetProcstop(l) \/ SetEof(l)
    PROVE  VInv'
<1>1. /\ UNCHANGED <<lldb, process, view, cmd>> /\ pc[l] # "unborn" /\ pc[l] # "stopped"
      /\ (own' = own /\ pc[l] # "start") \/ own' = [own EXCEPT ![l] = process]
    BY DEF ListenerStart, LoopTest, WaitTimeout, OnRunning, ClearRunning, SetProcstop,
           SetEof, input
<1>2. PICK label \in {"loop", "done", "wait", "procstop", "destroy"} : Goto(l, label)
    BY MainIsNoRun
    DEF ListenerStart, LoopTest, WaitTimeout, OnRunning, ClearRunning, SetProcstop, SetEof,
        Terminate, Return
<1>3. SameRuns /\ EventsTell'
    BY <1>1, LldbSame
<1>4. Births'
    BY <1>1, <1>2, <1>3, ListenerBirths
<1>5. \A q \in Threads : q # l => pc'[q] = pc[q]
    BY <1>2 DEF IInv, TypeOK, Goto
<1>6. ToldOfStop'
    <2>1. process \in valid => (pc[process] = "stopped" => pc'[process] = "stopped")
        BY <1>1, <1>5 DEF IInv, TypeOK, Threads
    <2>2. pc'[Main] = pc[Main]
        BY <1>5, MainIsNoRun DEF Threads
    <2> QED BY <1>1, <1>3, <2>1, <2>2, ToldKept DEF lldb
<1> QED BY <1>3, <1>4, <1>6 DEF VInv

\* *stopped is printed, or the process is not stopped any more.
LEMMA OnStoppedVInv ==
    ASSUME IInv, VInv, NEW l \in Runs, OnStopped(l)
    PROVE  VInv'
<1>1. /\ UNCHANGED <<lldb, process, own, cmd>> /\ pc[l] = "stopped"
      /\ view' = "stopped" \/ private[own[l]] # "stopped" \/ ~IsValid(own[l])
    BY DEF OnStopped, input
<1>2. PICK label \in {"loop", "idle"} : Goto(l, label)
    BY DEF OnStopped
<1>3. SameRuns /\ EventsTell'
    BY <1>1, LldbSame
<1>4. Births'
    BY <1>1, <1>2, <1>3, ListenerBirths
<1>5. ToldOfStop'
    <2> SUFFICES ASSUME Untold' PROVE view' = "stopped"
        BY DEF ToldOfStop
    <2>1. OneRun /\ process \in valid /\ private[process] = "stopped"
        BY <1>1, <1>3, SameRunsOne DEF Untold, lldb
    <2>2. own[l] = process
        BY <1>1, <2>1, ItsListener
    <2> QED BY <1>1, <2>1, <2>2 DEF IsValid
<1> QED BY <1>3, <1>4, <1>5 DEF VInv

\* The listener takes an event; of the only run's last stop it makes a *stopped.
LEMMA WaitForEventVInv ==
    ASSUME IInv, VInv, NEW l \in Runs, WaitForEvent(l)
    PROVE  VInv'
<1>1. /\ UNCHANGED <<process, private, valid, own, view, cmd>> /\ pc[l] = "wait"
    BY DEF WaitForEvent, input
<1>2. PICK label \in {"running", "stopped", "loop", "procstop"} : Goto(l, label)
    BY DEF WaitForEvent, Terminate
<1>3. PICK i \in Queued :
          /\ \A j \in Queued : i <= j
          /\ public' = [public EXCEPT ![events[i].run] = events[i].state]
          /\ events' = SubSeq(events, i + 1, Len(events))
    BY DEF WaitForEvent
<1>4. /\ i \in 1 .. Len(events) /\ events \in Seq(Event) /\ Len(events) \in Nat
      /\ events[i].run \in valid
    BY DEF IInv, TypeOK, Queued, IsValid
<1>5. ASSUME NEW r \in valid
      PROVE  /\ Tells(events', r, private[r], public'[r])
             /\ r # events[i].run /\ ~None(events, r) => ~None(events', r)
    <2>1. \A j \in 1 .. i - 1 : j \in 1 .. Len(events) /\ ~(i <= j)
        BY <1>4
    <2>2. \A j \in 1 .. i - 1 : events[j].run # r
        BY <1>3, <2>1 DEF Queued, IsValid
    <2>3. Tells(events, r, private[r], public[r])
        BY DEF VInv, EventsTell
    <2>4. public'[r] = IF r = events[i].run THEN events[i].state ELSE public[r]
        BY <1>3 DEF IInv, TypeOK
    <2> QED BY <1>3, <1>4, <2>2, <2>3, <2>4, TakenTells
<1>6. SameRuns
    BY <1>1 DEF SameRuns, Born, Alive
<1>7. EventsTell'
    BY <1>1, <1>5 DEF EventsTell
<1>8. Births'
    BY <1>1, <1>2, <1>6, ListenerBirths
<1>9. ToldOfStop'
    <2> SUFFICES ASSUME Untold', None(events', process), view # "stopped"
                 PROVE  pc'[process] = "stopped"
        BY <1>1 DEF ToldOfStop
    <2>1. OneRun /\ process \in valid /\ private[process] = "stopped"
        BY <1>1, <1>6, SameRunsOne DEF Untold
    <2>2. process = l /\ own[l] = l
        BY <1>1, <2>1, ItsListener
    <2>3. Tells(events', process, "stopped", public'[process])
        BY <1>5, <2>1
    <2>4. ~Last(events', process, "stopped")
        <3> SUFFICES ASSUME Last(events', process, "stopped") PROVE FALSE
            OBVIOUS
        <3>1. PICK k \in 1 .. Len(events') : events'[k] = [run |-> process, state |-> "stopped"]
            BY DEF Last
        <3>2. events'[k].run = process
            BY <3>1
        <3> QED BY <3>2 DEF None
    <2>5. public'[own[l]] = "stopped" /\ IsValid(own[l])
        BY <2>1, <2>2, <2>3, <2>4 DEF Tells, IsValid
    <2>6. Goto(l, "stopped")
        BY <2>5 DEF WaitForEvent
    <2> QED BY <2>2, <2>6 DEF Goto, IInv, TypeOK, Threads
<1> QED BY <1>7, <1>8, <1>9 DEF VInv

-----------------------------------------------------------------------------
(* A new run *)

LEMMA NewRunVInv ==
    ASSUME IInv, VInv, NEW r \in Runs, ExecRun(r) \/ TargetAttach(r)
    PROVE  VInv'
<1>1. /\ private[r] = "unborn" /\ Goto(Main, "publish")
      /\ UNCHANGED <<process, public, own>> /\ cmd' \in {"run", "attach"}
      /\ valid' \subseteq valid \cup {r}
    BY DEF ExecRun, TargetAttach, NewRun, Launch, Attach, Read
<1>2. PICK s \in {"running", "stopped"} :
          /\ private' = [private EXCEPT ![r] = s]
          /\ events' = Append(events, [run |-> r, state |-> s])
    BY DEF ExecRun, TargetAttach, Launch, Attach
<1>3. EventsTell'
    BY <1>1, <1>2, Shown DEF IInv, VInv
<1>4. \A q \in Runs : Born(q) => q # r /\ Born(q)' /\ Born(r)'
    BY <1>1, <1>2 DEF IInv, TypeOK, Born
<1>5. Born(r)'
    BY <1>2 DEF IInv, TypeOK, Born
<1>6. ASSUME NEW q \in Runs, Born(q) PROVE ~OneRun'
    <2>1. q # r /\ Born(q)' /\ Born(r)' /\ q \in Nat /\ r \in Nat
        BY <1>4, <1>6, MainIsNoRun
    <2>2. q < r \/ r < q
        BY <2>1
    <2> QED BY <2>1, <2>2 DEF OneRun, Replaced
<1>7. /\ pc'[Main] = "publish" /\ \A q \in Runs : pc'[q] = pc[q]
    BY <1>1, MainIsNoRun DEF IInv, TypeOK, Goto, Threads
<1>8. \A q \in Runs : pc'[q] # "unborn" => ~OneRun'
    BY <1>6, <1>7 DEF IInv, Core, ListenersBorn
<1>9. Births'
    <2>1. ValidBorn'
        BY <1>1, <1>4, <1>5 DEF VInv, Births, ValidBorn, IInv, TypeOK
    <2>2. ProcessBorn'
        BY <1>1, <1>4 DEF VInv, Births, ProcessBorn, IInv, TypeOK, Threads, NoRun, Main
    <2>3. OwnProcess' /\ ListenerDestroys'
        BY <1>8 DEF OwnProcess, ListenerDestroys
    <2>4. FreshCommand'
        BY <1>1 DEF FreshCommand
    <2> QED BY <2>1, <2>2, <2>3, <2>4 DEF Births
<1>10. ToldOfStop'
    BY <1>1 DEF ToldOfStop, Untold, Resuming
<1> QED BY <1>3, <1>9, <1>10 DEF VInv

\* Publishing a second run while the first one's listener exists makes two runs.
LEMMA PublishVInv ==
    ASSUME IInv, VInv, Publish
    PROVE  VInv'
<1>1. /\ UNCHANGED <<lldb, own, cmd, view>> /\ process' = target
      /\ pc[Main] = "publish" /\ Goto(Main, "listen")
    BY DEF Publish, input
<1>2. target \in Runs /\ Born(target) /\ pc[target] = "unborn"
    BY <1>1 DEF IInv, Core, FreshTarget
<1>3. /\ pc'[Main] = "listen" /\ \A q \in Runs : pc'[q] = pc[q]
    BY <1>1, MainIsNoRun DEF IInv, TypeOK, Goto, Threads
<1>4. \A q \in Runs : (Born(q)' <=> Born(q)) /\ (Alive(q)' <=> Alive(q))
    BY <1>1 DEF Born, Alive, lldb
<1>5. OneRun' => OneRun
    BY <1>4 DEF OneRun, Replaced
<1>6. \A q \in Runs : pc[q] # "unborn" => ~OneRun
    BY <1>2, OnlyOne DEF IInv, Core, ListenersBorn
<1>7. Births'
    <2>1. ValidBorn' /\ ProcessBorn'
        BY <1>1, <1>2, <1>4 DEF VInv, Births, ValidBorn, ProcessBorn, lldb, IInv, TypeOK
    <2>2. OwnProcess' /\ ListenerDestroys'
        BY <1>3, <1>5, <1>6 DEF OwnProcess, ListenerDestroys
    <2>3. FreshCommand'
        BY <1>3 DEF FreshCommand
    <2> QED BY <2>1, <2>2, <2>3 DEF Births
<1>8. EventsTell'
    BY <1>1 DEF VInv, EventsTell, lldb
<1>9. ToldOfStop'
    BY <1>1 DEF VInv, Births, FreshCommand, ToldOfStop, Untold, Resuming
<1> QED BY <1>7, <1>8, <1>9 DEF VInv

LEMMA StartProcessListenerVInv ==
    ASSUME IInv, VInv, StartProcessListener
    PROVE  VInv'
<1>1. /\ UNCHANGED <<lldb, own, cmd, view, process>> /\ pc[Main] = "listen"
    BY DEF StartProcessListener, input
<1>2. /\ process \in Runs /\ process # Main /\ pc[process] = "unborn" /\ Born(process)
    BY <1>1, MainIsNoRun DEF IInv, Core, FreshTarget
<1>3. /\ pc'[Main] = "announce" /\ \A q \in Runs \ {process} : pc'[q] = pc[q]
      /\ pc'[process] \in {"unborn", "start"}
    BY <1>2, MainIsNoRun DEF IInv, TypeOK, StartProcessListener, Goto, Threads
<1>4. SameRuns /\ EventsTell'
    BY <1>1, LldbSame
<1>5. (OneRun' <=> OneRun) /\ (Alive(process)' => Alive(process))
    BY <1>4, SameRunsOne DEF IInv, TypeOK
<1>6. Births'
    <2>1. ValidBorn' /\ ProcessBorn'
        BY <1>1 DEF VInv, Births, ValidBorn, ProcessBorn, Born, lldb
    <2>2. OwnProcess'
        BY <1>1, <1>3, <1>5 DEF VInv, Births, OwnProcess
    <2>3. ListenerDestroys'
        BY <1>1, <1>3, <1>5 DEF VInv, Births, ListenerDestroys
    <2>4. FreshCommand'
        BY <1>3 DEF FreshCommand
    <2> QED BY <2>1, <2>2, <2>3, <2>4 DEF Births
<1>7. ToldOfStop'
    BY <1>1, <1>2, <1>3, <1>4, ToldKept DEF lldb
<1> QED BY <1>4, <1>6, <1>7 DEF VInv

-----------------------------------------------------------------------------
LEMMA InitVInv == Init => VInv
<1> SUFFICES ASSUME Init PROVE VInv
    OBVIOUS
<1>1. Births
    BY MainIsNoRun
    DEF Init, Births, ValidBorn, ProcessBorn, OwnProcess, ListenerDestroys, FreshCommand,
        Threads
<1>2. EventsTell /\ ToldOfStop
    BY DEF Init, EventsTell, ToldOfStop, Untold
<1> QED BY <1>1, <1>2 DEF VInv

LEMMA NextVInv ==
    ASSUME IInv, VInv, [Next]_vars
    PROVE  VInv'
<1>1. CASE UNCHANGED vars
    <2>1. UNCHANGED <<lldb, process, own, view, pc, cmd>>
        BY <1>1 DEF vars, input
    <2>2. SameRuns /\ EventsTell'
        BY <2>1, LldbSame
    <2>3. Births'
        BY <2>1, <2>2, BirthsKept DEF KeepsOwn
    <2>4. ToldOfStop'
        BY <2>1, <2>2, ToldKept DEF lldb
    <2> QED BY <2>2, <2>3, <2>4 DEF VInv
<1>2. CASE Next
    <2>1. CASE MainStep
        BY <2>1, PublishVInv, StartProcessListenerVInv, AnnounceVInv, ResumeProcessVInv,
           PlainMainVInv DEF MainStep
    <2>2. CASE \/ MainCommand \/ StdinEmptyLine \/ StdinClosed \/ StdinInput
               \/ PtyHungUp
        BY <2>2, PlainMainVInv, StdinEmptyLineVInv, FileClearVInv, NewRunVInv,
           ExecResumeVInv, ExecAbortVInv DEF MainCommand, ExecContinue, ExecStep, Resuming
    <2>3. CASE TerminateProcess(Main)
        BY <2>3, PlainMainVInv, DestroyProcessVInv, PrintGroupVInv
        DEF TerminateProcess, Threads
    <2>4. ASSUME NEW l \in Runs, Listener(l) PROVE VInv'
        BY <2>4, ListenerMovesVInv, OnStoppedVInv, WaitForEventVInv, DestroyProcessVInv,
           PrintGroupVInv DEF Listener, TerminateProcess, Threads
    <2>5. ASSUME NEW r \in Runs, DebuggeeStops(r) \/ DebuggeeExits(r) PROVE VInv'
        BY <2>5, DebuggeeVInv
        DEF DebuggeeStops, DebuggeeExits, Debuggee, StateChanges, Interrupted
    <2>6. CASE SignalHandler
        <3>1. CASE IsValid(process) /\ private[process] = "running"
            BY <2>6, <3>1, DebuggeeVInv
            DEF SignalHandler, StateChanges, Interrupted, IsValid, IInv, TypeOK
        <3>2. CASE ~(IsValid(process) /\ private[process] = "running")
            BY <2>6, <3>2, InterruptedVInv DEF SignalHandler, Interrupted, lldb
        <3> QED BY <3>1, <3>2
    <2> QED BY <1>2, <2>1, <2>2, <2>3, <2>4, <2>5, <2>6 DEF Next
<1> QED BY <1>1, <1>2

\* In a session with one run, whichever thread ends it, the debuggee is dead.
THEOREM ExitKills == Spec => ExitDestroys
<1>1. ASSUME IInv, VInv, [Next]_vars
      PROVE  [\A t \in Threads :
                 OneRun /\ pc[t] = "exit" /\ "EXIT" \in how[t] /\ pc'[t] # "exit" =>
                    ~Alive(process)]_vars
    BY <1>1 DEF IInv, Core, Destroyed, VInv, Births, ListenerDestroys, Threads
<1>2. Init => IInv /\ VInv
    BY InitIInv, InitVInv
<1>3. IInv /\ VInv /\ [Next]_vars => (IInv /\ VInv)'
    BY NextIInv, NextVInv
<1> QED BY <1>1, <1>2, <1>3, PTL DEF Spec, ExitDestroys

\* In a session with one run, of any number of commands, the client of a process
\* that stays stopped after a resuming command has been told last that it is.
THEOREM StopSettles == Spec => []ViewSettles
<1>1. ASSUME IInv, VInv PROVE ViewSettles
    <2> SUFFICES ASSUME OneRun, cmd \in {"continue", "step"}, pc[Main] = "poll",
                        Queued = {}, IsValid(process), private[process] = "stopped",
                        pc[process] \in {"loop", "wait"}
                 PROVE  view = "stopped"
        BY DEF ViewSettles
    <2>1. Untold
        BY DEF Untold, IsValid, Resuming
    <2>2. None(events, process)
        BY DEF None, Queued, IsValid
    <2> QED BY <1>1, <2>1, <2>2 DEF VInv, ToldOfStop
<1>2. Init => IInv /\ VInv
    BY InitIInv, InitVInv
<1>3. IInv /\ VInv /\ [Next]_vars => (IInv /\ VInv)'
    BY NextIInv, NextVInv
<1> QED BY <1>1, <1>2, <1>3, PTL DEF Spec
=============================================================================
