------------------------- MODULE CommandEngine_proofs -------------------------
(***************************************************************************)
(* Proofs about CommandEngine, for any number of threads and frames.       *)
(***************************************************************************)
EXTENDS CommandEngine, WellFoundedInduction, NaturalsInduction, TLAPS

-----------------------------------------------------------------------------
(***************************************************************************)
(* The inductive invariant.  While the client thinks that the program is   *)
(* stopped, the listener sleeps: that is what keeps its choice of a thread *)
(* apart from the commands'.                                               *)
(***************************************************************************)
\* the listener, the process and what the client was told
InStep ==
    /\ proc = "none" => lpc = "done" /\ alive = {} /\ known = {} /\ cmd.thread = NoThread
    /\ proc = "running" => event = "none" /\ lpc = "wait" /\ view = "running"
    /\ proc \in {"running", "stopped"} => alive # {} /\ lpc # "done"
    /\ event = "stopped" => proc = "stopped" /\ lpc = "wait"
    /\ event = "exited" => proc = "exited"
    /\ view = "stopped" => proc \in {"stopped", "exited"}
    /\ view = "stopped" /\ proc = "stopped" => lpc = "wait" /\ event = "none"
    /\ view = "exited" => proc = "exited"
    /\ proc = "stopped" /\ event = "none" => known = alive

\* the command that is being executed
Executing ==
    /\ cmd.frame # NoFrame => cmd.thread # NoThread
    /\ mpc # "idle" /\ AboutThread(cmd) => view \in {"stopped", "exited"} \/ proc = "none"
    /\ mpc # "idle" => ran = Nothing
    /\ mpc # "idle" /\ cmd.thread # NoThread /\ proc = "stopped" => cmd.thread \in alive
    /\ mpc \in {"frame", "execute"} /\ cmd.thread # NoThread /\ proc = "stopped" =>
           sel = cmd.thread
    /\ mpc = "execute" /\ cmd.frame # NoFrame /\ proc = "stopped" =>
           frame[cmd.thread] = cmd.frame

\* its results so far
Results ==
    /\ mpc \in {"thread", "frame"} => ans = 0 /\ bare = 0
    /\ mpc = "execute" => bare = 0 /\ (ans = 0 \/ (ans = 1 /\ proc = "exited"))
    /\ OneResult

\* RightThread, and that it does not come to be wrong at the next stop
Right ==
    cmd.kind \in {"show", "stack", "data"} /\ ran # Nothing /\ proc # "exited" =>
        /\ cmd.thread # NoThread => ran.thread = cmd.thread
        /\ cmd.frame # NoFrame => ran.frame = cmd.frame

\* the thread the listener is going to report
Chosen ==
    lpc = "report" /\ proc = "stopped" =>
        \/ reason[GetSelectedThread] # "none"
        \/ \A t \in alive : reason[t] \in {"none", "exec"}

IInv == TypeOK /\ InStep /\ Executing /\ Results /\ Right /\ Chosen /\ StopShown

-----------------------------------------------------------------------------
(***************************************************************************)
(* The selected thread                                                     *)
(***************************************************************************)
\* The least of a set of threads that is not empty is one of them.
LEMMA LeastIsIn ==
    ASSUME NEW S \in SUBSET Threads, S # {}
    PROVE  Least(S) \in S
<1> DEFINE R == {p \in Nat \X Nat : p[1] < p[2]}
<1>1. IsWellFoundedOn(R, Nat)
    BY NatLessThanWellFounded, Zenon DEF OpToRel
<1>2. S \in SUBSET Nat
    BY BoundsAssumption DEF Threads
<1>3. PICK x \in S : TRUE
    OBVIOUS
<1> HIDE DEF R
<1>4. PICK m \in S : \A k \in S : <<k, m>> \notin R
    BY <1>1, <1>2, <1>3, WFMin
<1>5. \A k \in S : ~(k < m)
    BY <1>2, <1>4 DEF R
<1>6. \A k \in S : m <= k
    BY <1>2, <1>5
<1> QED BY <1>6 DEF Least

\* GetSelectedThread is a thread that lives, if there is one.
LEMMA SelectedLives ==
    ASSUME TypeOK
    PROVE  /\ alive # {} => GetSelectedThread \in alive
           /\ alive = {} => GetSelectedThread = NoThread
           /\ sel \in alive => GetSelectedThread = sel
           /\ NoThread \notin Threads /\ alive \subseteq Threads
           /\ GetSelectedThread \in Threads \cup {NoThread}
<1>1. alive \subseteq Threads /\ NoThread \notin Threads
    BY DEF TypeOK, Threads, NoThread
<1>2. alive # {} => Least(alive) \in alive
    BY <1>1, LeastIsIn
<1> QED BY <1>1, <1>2 DEF GetSelectedThread

\* The fields of a command
LEMMA CommandFields ==
    ASSUME NEW c \in Command \cup {None}
    PROVE  /\ c.thread \in Threads \cup {NoThread}
           /\ c.frame \in Frames \cup {NoFrame}
           /\ c.kind = "thread-info" => c.arg \in Threads
           /\ c.kind = "select-frame" => c.arg \in 0 .. MaxFrame + 1
BY DEF Command, None, Plain

\* What formatThreadInfo finds is a thread or none.
LEMMA FoundIsThread ==
    ASSUME TypeOK, NEW i
    PROVE  formatThreadInfo(i) \in Threads \cup {NoThread}
<1>1. alive \subseteq Threads
    BY DEF TypeOK
<1>2. GetThreadAtIndex(i) \in alive \cup {NoThread}
    BY DEF GetThreadAtIndex
<1> QED BY <1>1, <1>2 DEF formatThreadInfo

-----------------------------------------------------------------------------
(***************************************************************************)
(* The handlers.  All that the invariant needs to know of one:             *)
(***************************************************************************)
ResumesIt ==
    /\ cmd.kind \in Resuming /\ proc = "stopped"
    /\ view' = "running" /\ proc' = "running" /\ reason' = AllNone /\ frame' = Bottom
    /\ UNCHANGED <<alive, event>>
KillsIt ==
    /\ proc \in {"running", "stopped"}
    /\ proc' = "exited" /\ event' = "exited" /\ alive' = {} /\ reason' = AllNone
    /\ UNCHANGED <<frame, view>>
LeavesIt ==
    /\ UNCHANGED <<proc, alive, reason, event, view>>
    /\ frame' \in [Threads -> Frames]

Handled ==
    /\ mpc = "execute" /\ mpc' = "idle" /\ UNCHANGED <<lpc, known, cmd, sel>>
    /\ waiting' \in BOOLEAN
    /\ \/ ans' = ans /\ bare' = bare
       \/ ans' = ans + 1 /\ bare' = bare
       \/ ans' = ans /\ bare' = bare + 1
    /\ ran' \in [thread : Threads \cup {NoThread}, frame : Frames \cup {NoFrame}]
    /\ cmd.kind \in {"show", "stack", "data"} => ran' \in {Nothing, Selected}
    /\ ResumesIt \/ KillsIt \/ LeavesIt

LEMMA SelectedType ==
    ASSUME TypeOK
    PROVE  /\ Selected \in [thread : Threads \cup {NoThread}, frame : Frames \cup {NoFrame}]
           /\ Nothing \in [thread : Threads \cup {NoThread}, frame : Frames \cup {NoFrame}]
<1>1. GetSelectedThread \in Threads \cup {NoThread}
    BY SelectedLives
<1>2. frame \in [Threads -> Frames]
    BY DEF TypeOK
<1>3. GetSelectedFrame \in Frames \cup {NoFrame}
    BY <1>1, <1>2 DEF GetSelectedFrame
<1> QED BY <1>1, <1>3 DEF Selected, Nothing

\* the handlers that leave the process alone
LEMMA AnswerStep ==
    ASSUME TypeOK, NEW kind, NEW numbered \in {0, 1}, NEW other \in {0, 1}, numbered + other <= 1,
           NEW about \in [thread : Threads \cup {NoThread}, frame : Frames \cup {NoFrame}],
           kind \in {"show", "stack", "data"} => about \in {Nothing, Selected},
           Handle(kind, numbered, other, about), UNCHANGED <<proc, alive, reason, sel, event, view>>,
           frame' \in [Threads -> Frames]
    PROVE  Handled
<1>1. ans \in Int /\ bare \in Int /\ waiting \in BOOLEAN
    BY DEF TypeOK
<1>2. /\ mpc = "execute" /\ mpc' = "idle" /\ cmd.kind = kind
      /\ UNCHANGED <<lpc, known, cmd>> /\ ran' = about
      /\ ans' = ans + numbered /\ bare' = bare + other
      /\ waiting' = (waiting /\ numbered + other = 0)
    BY DEF Handle
<1>3. waiting' \in BOOLEAN
    BY <1>2
<1>4. \/ ans' = ans /\ bare' = bare
      \/ ans' = ans + 1 /\ bare' = bare
      \/ ans' = ans /\ bare' = bare + 1
    BY <1>1, <1>2
<1>5. LeavesIt
    BY DEF LeavesIt
<1>6. ran' \in [thread : Threads \cup {NoThread}, frame : Frames \cup {NoFrame}]
      /\ (cmd.kind \in {"show", "stack", "data"} => ran' \in {Nothing, Selected})
    BY <1>2
<1> QED BY <1>2, <1>3, <1>4, <1>5, <1>6 DEF Handled

LEMMA ExecuteStep ==
    ASSUME TypeOK, Execute
    PROVE  Handled
<1> DEFINE About == [thread : Threads \cup {NoThread}, frame : Frames \cup {NoFrame}]
<1>1. frame \in [Threads -> Frames] /\ Selected \in About /\ Nothing \in About
    BY SelectedType DEF TypeOK
<1> HIDE DEF About
<1>2. ASSUME NEW kind, Fixed(kind)
      PROVE  Handled
    <2>1. Handle(kind, 1, 0, Nothing) /\ UNCHANGED <<proc, alive, reason, sel, event, view, frame>>
        BY <1>2 DEF Fixed, lldb
    <2> QED BY <1>1, <2>1, AnswerStep DEF About
<1>3. CASE Settings \/ Terminal \/ ExecArguments \/ BreakByNumber \/ Catch
           \/ ListThreadGroups \/ Console \/ VarListChildren \/ DataEvaluateExpression
           \/ Ptype \/ ListSections \/ Info \/ SymbolListLines \/ DataDisassemble
           \/ DataReadMemory \/ Unimplemented
    <2>1. \E kind : Fixed(kind)
        BY <1>3, Zenon
           DEF Settings, Terminal, ExecArguments, BreakByNumber, Catch, ListThreadGroups,
               Console, VarListChildren, DataEvaluateExpression, Ptype, ListSections, Info,
               SymbolListLines, DataDisassemble, DataReadMemory, Unimplemented
    <2> QED BY <1>2, <2>1
<1>4. CASE NoAnswer
    <2>1. Handle("silent", 0, 0, Nothing) /\ UNCHANGED <<proc, alive, reason, sel, event, view, frame>>
        BY <1>4 DEF NoAnswer, lldb
    <2>2. 0 \in {0, 1} /\ 0 + 0 <= 1 /\ "silent" \notin {"show", "stack", "data"}
        OBVIOUS
    <2> QED BY <1>1, <2>1, <2>2, AnswerStep DEF About
<1>5. CASE BreakInsert
    <2>1. (Handle("insert", 1, 0, Nothing) \/ Handle("insert", 0, 1, Nothing))
          /\ UNCHANGED <<proc, alive, reason, sel, event, view, frame>>
        BY <1>5 DEF BreakInsert, lldb
    <2> QED BY <1>1, <2>1, AnswerStep DEF About
<1>6. CASE GdbShow
    <2>1. (Handle("show", 1, 0, Selected) \/ Handle("show", 1, 0, Nothing))
          /\ UNCHANGED <<proc, alive, reason, sel, event, view, frame>>
        BY <1>6 DEF GdbShow, lldb
    <2>2. CASE Handle("show", 1, 0, Selected)
        BY <1>1, <2>1, <2>2, AnswerStep DEF About
    <2>3. CASE Handle("show", 1, 0, Nothing)
        BY <1>1, <2>1, <2>3, AnswerStep DEF About
    <2> QED BY <2>1, <2>2, <2>3
<1>7. CASE StackOfThread \/ CurrentThread \/ DataListRegisters
    <2>1. Handle("stack", 1, 0, Selected)
          /\ UNCHANGED <<proc, alive, reason, sel, event, view, frame>>
        BY <1>7 DEF StackOfThread, CurrentThread, DataListRegisters, OfThread, lldb
    <2> QED BY <1>1, <2>1, AnswerStep DEF About
<1>8. CASE InfoProgram \/ StackListLocals \/ VarCreate \/ VarEvaluateExpression \/ VarSetFormat
    <2>1. (Handle("data", 1, 0, Selected) \/ Handle("data", 1, 0, Nothing))
          /\ UNCHANGED <<proc, alive, reason, sel, event, view, frame>>
        BY <1>8 DEF InfoProgram, StackListLocals, VarCreate, VarEvaluateExpression,
                    VarSetFormat, OfFrame, lldb
    <2>2. CASE Handle("data", 1, 0, Selected)
        BY <1>1, <2>1, <2>2, AnswerStep DEF About
    <2>3. CASE Handle("data", 1, 0, Nothing)
        BY <1>1, <2>1, <2>3, AnswerStep DEF About
    <2> QED BY <2>1, <2>2, <2>3
<1>9. CASE StackSelectFrame
    <2>1. Handle("select-frame", 1, 0, Nothing)
          /\ UNCHANGED <<proc, alive, reason, sel, event, view>>
        BY <1>9 DEF StackSelectFrame, SelectFrame
    <2>2. frame' \in [Threads -> Frames]
        <3>1. HasFrame => cmd.arg \in Frames
            BY DEF HasFrame
        <3> QED BY <1>1, <1>9, <3>1 DEF StackSelectFrame, SelectFrame
    <2> QED BY <1>1, <2>1, <2>2, AnswerStep DEF About
<1>10. CASE ThreadInfo
    <2>1. Handle("thread-info", 1, 0, [thread |-> formatThreadInfo(cmd.arg), frame |-> NoFrame])
          /\ UNCHANGED <<proc, alive, reason, sel, event, view, frame>>
        BY <1>10 DEF ThreadInfo, lldb
    <2>2. [thread |-> formatThreadInfo(cmd.arg), frame |-> NoFrame] \in About
        BY FoundIsThread DEF About
    <2> QED BY <1>1, <2>1, <2>2, AnswerStep DEF About
<1>11. CASE ExecContinue \/ ExecStep \/ ExecUntil
    <2>1. PICK kind \in Resuming :
              Resume(kind) \/ Unresumed(kind, 1) \/ Unresumed(kind, 0)
        BY <1>11, Zenon DEF ExecContinue, ExecStep, ExecUntil, NotStopped, Resuming
    <2>2. kind \notin {"show", "stack", "data"}
        BY DEF Resuming
    <2>3. CASE Unresumed(kind, 1) \/ Unresumed(kind, 0)
        <3>1. (Handle(kind, 1, 0, Nothing) \/ Handle(kind, 0, 0, Nothing))
              /\ UNCHANGED <<proc, alive, reason, sel, event, view, frame>>
            BY <2>3 DEF Unresumed, lldb
        <3>2. frame' \in [Threads -> Frames]
            BY <1>1, <3>1
        <3> QED BY <1>1, <2>2, <3>1, <3>2, AnswerStep DEF About
    <2>4. CASE Resume(kind)
        <3>1. Handle(kind, 1, 0, Nothing) /\ view' = "running" /\ proc = "stopped"
              /\ proc' = "running" /\ reason' = AllNone /\ frame' = Bottom
              /\ UNCHANGED <<alive, sel, event>>
            BY <2>4 DEF Resume, Resumes
        <3>2. ans \in Int /\ bare \in Int /\ waiting \in BOOLEAN
            BY DEF TypeOK
        <3>3. ResumesIt
            BY <3>1 DEF ResumesIt, Handle
        <3> QED BY <1>1, <2>2, <3>1, <3>2, <3>3 DEF Handled, Handle, About
    <2> QED BY <2>1, <2>3, <2>4
<1>12. CASE ExecAbort
    <2>1. CASE proc \in {"running", "stopped"}
        <3>1. Handle("abort", 1, 0, Nothing) /\ UNCHANGED <<sel, frame, view>>
              /\ proc' = "exited" /\ event' = "exited" /\ alive' = {} /\ reason' = AllNone
            BY <1>12, <2>1 DEF ExecAbort
        <3>2. ans \in Int /\ bare \in Int /\ waiting \in BOOLEAN
            BY DEF TypeOK
        <3>3. KillsIt
            BY <2>1, <3>1 DEF KillsIt
        <3> QED BY <1>1, <3>1, <3>2, <3>3 DEF Handled, Handle, About
    <2>2. CASE proc \notin {"running", "stopped"}
        <3>1. Handle("abort", 1, 0, Nothing)
              /\ UNCHANGED <<proc, alive, reason, sel, event, view, frame>>
            BY <1>12, <2>2 DEF ExecAbort, lldb
        <3> QED BY <1>1, <3>1, AnswerStep DEF About
    <2> QED BY <2>1, <2>2
<1> QED
    BY <1>3, <1>4, <1>5, <1>6, <1>7, <1>8, <1>9, <1>10, <1>11, <1>12 DEF Execute

-----------------------------------------------------------------------------
(***************************************************************************)
(* The invariant is kept.                                                  *)
(***************************************************************************)
USE DEF NoThread, NoFrame

\* The client sends a command.
LEMMA SendStep ==
    ASSUME IInv, NEW c \in Command, Send(c)
    PROVE  IInv'
<1>1. /\ mpc = "idle" /\ mpc' = "thread" /\ cmd' = c
      /\ ans' = 0 /\ bare' = 0 /\ ran' = Nothing /\ waiting' \in BOOLEAN
      /\ UNCHANGED <<proc, alive, reason, sel, frame, event, view, known, lpc>>
    BY DEF Send, lldb, client
<1>2. /\ AboutThread(c) => view = "stopped" \/ proc = "none"
      /\ c.thread # NoThread => c.thread \in known
      /\ c.frame # NoFrame => c.thread # NoThread
    BY DEF Send
<1>3. TypeOK'
    BY <1>1, SelectedType DEF IInv, TypeOK
<1>4. InStep'
    BY <1>1, <1>2 DEF IInv, InStep
<1>5. c.thread # NoThread => AboutThread(c)
    BY DEF AboutThread
<1>6. proc = "stopped" /\ view = "stopped" => known = alive
    BY DEF IInv, InStep
<1>7. Executing'
    BY <1>1, <1>2, <1>5, <1>6 DEF Executing, AboutThread
<1>8. Results' /\ Right'
    BY <1>1 DEF Results, OneResult, Right
<1>9. Chosen' /\ StopShown'
    BY <1>1 DEF IInv, Chosen, StopShown, GetSelectedThread
<1> QED BY <1>3, <1>4, <1>7, <1>8, <1>9 DEF IInv

\* --thread
LEMMA EvalThreadStep ==
    ASSUME IInv, EvalThread
    PROVE  IInv'
<1>1. /\ mpc = "thread" /\ mpc' = "frame"
      /\ sel' = IF cmd.thread \in alive THEN cmd.thread ELSE sel
      /\ UNCHANGED <<proc, alive, reason, frame, event, view, known, lpc, cmd, ans, bare, ran,
                     waiting>>
    BY DEF EvalThread, client
<1>2. TypeOK'
    BY <1>1 DEF IInv, TypeOK
<1>3. InStep'
    BY <1>1 DEF IInv, InStep
<1>4. Executing'
    BY <1>1 DEF IInv, Executing, AboutThread
<1>5. Results' /\ Right'
    BY <1>1 DEF IInv, Results, OneResult, Right
<1>6. cmd.thread # NoThread => view \in {"stopped", "exited"}
    BY <1>1 DEF IInv, Executing, AboutThread, InStep
<1>7. NoThread \notin alive
    BY SelectedLives DEF IInv
<1>8. CASE cmd.thread = NoThread
    <2>1. sel' = sel
        BY <1>1, <1>7, <1>8
    <2>2. Chosen' /\ StopShown'
        BY <1>1, <2>1 DEF IInv, Chosen, StopShown, GetSelectedThread
    <2> QED BY <1>2, <1>3, <1>4, <1>5, <2>2 DEF IInv
<1>9. CASE cmd.thread # NoThread
    <2>1. proc = "stopped" => lpc = "wait" /\ view = "stopped"
        BY <1>6, <1>9 DEF IInv, InStep
    <2>2. Chosen' /\ StopShown'
        BY <1>1, <2>1 DEF Chosen, StopShown
    <2> QED BY <1>2, <1>3, <1>4, <1>5, <2>2 DEF IInv
<1> QED BY <1>8, <1>9

\* --frame.  Its error comes when no thread is left, that is, when the
\* process has exited since the command was sent.
LEMMA EvalFrameStep ==
    ASSUME IInv, EvalFrame
    PROVE  IInv'
<1> DEFINE t == GetSelectedThread
<1>1. /\ mpc = "frame" /\ mpc' = "execute"
      /\ frame' = IF cmd.frame \in Frames /\ t # NoThread /\ proc = "stopped"
                  THEN [frame EXCEPT ![t] = cmd.frame] ELSE frame
      /\ ans' = IF cmd.frame \in Frames /\ t = NoThread THEN 1 ELSE ans
      /\ waiting' \in BOOLEAN
      /\ UNCHANGED <<proc, alive, reason, sel, event, view, known, lpc, cmd, bare, ran>>
    BY DEF EvalFrame, client
<1>2. /\ alive # {} => t \in alive
      /\ alive = {} => t = NoThread
      /\ sel \in alive => t = sel
      /\ NoThread \notin Threads /\ alive \subseteq Threads
    BY SelectedLives DEF IInv
<1>3. frame \in [Threads -> Frames] /\ ans \in 0 .. 2 /\ NoFrame \notin Frames
    BY DEF IInv, TypeOK, Frames
<1> HIDE DEF t
<1>4. TypeOK'
    BY <1>1, <1>2, <1>3 DEF IInv, TypeOK
<1>5. InStep'
    BY <1>1 DEF IInv, InStep
<1>6. cmd.frame \in Frames \cup {NoFrame}
    BY CommandFields DEF IInv, TypeOK
<1>7. Executing'
    <2>1. ASSUME cmd.frame # NoFrame, proc = "stopped"
          PROVE  frame'[cmd.thread] = cmd.frame
        <3>1. cmd.thread # NoThread
            BY <2>1 DEF IInv, Executing
        <3>2. sel = cmd.thread /\ cmd.thread \in alive
            BY <1>1, <2>1, <3>1 DEF IInv, Executing
        <3>3. t = cmd.thread /\ t \in Threads /\ t # NoThread
            BY <1>2, <3>1, <3>2
        <3>4. frame' = [frame EXCEPT ![t] = cmd.frame]
            BY <1>1, <1>6, <2>1, <3>3
        <3> QED BY <1>3, <3>3, <3>4
    <2>2. cmd.frame # NoFrame /\ proc = "stopped" => frame'[cmd.thread] = cmd.frame
        BY <2>1
    <2> QED BY <1>1, <2>2 DEF IInv, Executing, AboutThread
<1>8. Results'
    <2>1. ans = 0 /\ bare = 0
        BY <1>1 DEF IInv, Results
    <2>2. ASSUME cmd.frame \in Frames, t = NoThread PROVE proc = "exited"
        <3>1. cmd.frame # NoFrame
            BY <1>3, <2>2
        <3>2. cmd.thread # NoThread
            BY <3>1 DEF IInv, Executing
        <3>3. alive = {}
            BY <1>2, <2>2
        <3>4. proc \in {"none", "running", "stopped", "exited"}
            BY DEF IInv, TypeOK
        <3> QED BY <3>2, <3>3, <3>4 DEF IInv, InStep
    <2> QED BY <1>1, <2>1, <2>2 DEF Results, OneResult
<1>9. Right'
    BY <1>1 DEF IInv, Right
<1>10. Chosen' /\ StopShown'
    BY <1>1 DEF IInv, Chosen, StopShown, GetSelectedThread
<1> QED BY <1>4, <1>5, <1>7, <1>8, <1>9, <1>10 DEF IInv

\* A handler
LEMMA HandlerStep ==
    ASSUME IInv, Execute
    PROVE  IInv'
<1>1. Handled
    BY ExecuteStep DEF IInv
<1>2. /\ mpc = "execute" /\ mpc' = "idle" /\ UNCHANGED <<lpc, known, cmd, sel>>
      /\ \/ ans' = ans /\ bare' = bare
         \/ ans' = ans + 1 /\ bare' = bare
         \/ ans' = ans /\ bare' = bare + 1
      /\ cmd.kind \in {"show", "stack", "data"} => ran' \in {Nothing, Selected}
    BY <1>1 DEF Handled
<1>3. bare = 0 /\ (ans = 0 \/ (ans = 1 /\ proc = "exited"))
    BY <1>2 DEF IInv, Results
<1>4. AllNone \in [Threads -> Reasons] /\ Bottom \in [Threads -> Frames]
    BY BoundsAssumption DEF AllNone, Bottom, Reasons, Frames
<1>5. proc \in {"none", "running", "stopped", "exited"}
    BY DEF IInv, TypeOK
<1>6. TypeOK'
    <2>1. /\ waiting' \in BOOLEAN
          /\ ran' \in [thread : Threads \cup {NoThread}, frame : Frames \cup {NoFrame}]
        BY <1>1 DEF Handled
    <2>2. ans' \in 0 .. 2 /\ bare' \in 0 .. 1
        BY <1>2, <1>3
    <2>3. CASE ResumesIt
        BY <1>2, <1>4, <2>1, <2>2, <2>3 DEF IInv, TypeOK, ResumesIt
    <2>4. CASE KillsIt
        BY <1>2, <1>4, <2>1, <2>2, <2>4 DEF IInv, TypeOK, KillsIt
    <2>5. CASE LeavesIt
        BY <1>2, <2>1, <2>2, <2>5 DEF IInv, TypeOK, LeavesIt
    <2> QED BY <1>1, <2>3, <2>4, <2>5 DEF Handled
<1>7. Executing'
    BY <1>2 DEF IInv, Executing
<1>8. proc = "exited" => proc' = "exited"
    BY <1>1 DEF Handled, ResumesIt, KillsIt, LeavesIt
<1>9. Results'
    BY <1>2, <1>3, <1>8 DEF Results, OneResult
<1>10. Right'
    <2> SUFFICES ASSUME cmd.kind \in {"show", "stack", "data"}, ran' # Nothing, proc # "exited",
                        cmd.thread # NoThread
                 PROVE  /\ ran'.thread = cmd.thread
                        /\ cmd.frame # NoFrame => ran'.frame = cmd.frame
        <3>1. cmd.frame # NoFrame => cmd.thread # NoThread
            BY DEF IInv, Executing
        <3> QED BY <1>2, <1>8, <3>1 DEF Right
    <2>1. proc = "stopped"
        BY <1>2, <1>5 DEF IInv, Executing, AboutThread, InStep
    <2>2. sel = cmd.thread /\ sel \in alive
        BY <1>2, <2>1 DEF IInv, Executing
    <2>3. GetSelectedThread = cmd.thread
        BY <2>2, SelectedLives DEF IInv
    <2>4. cmd.frame # NoFrame => GetSelectedFrame = cmd.frame
        BY <1>2, <2>1, <2>3 DEF IInv, Executing, GetSelectedFrame
    <2> QED BY <1>2, <2>3, <2>4 DEF Selected
<1>11. (InStep /\ Chosen /\ StopShown)'
    <2>1. CASE ResumesIt
        <3>1. view = "stopped" /\ lpc = "wait" /\ event = "none"
            BY <1>2, <2>1 DEF IInv, Executing, AboutThread, InStep, ResumesIt
        <3> QED BY <1>2, <2>1, <3>1 DEF IInv, InStep, Chosen, StopShown, ResumesIt
    <2>2. CASE KillsIt
        BY <1>2, <2>2 DEF IInv, InStep, Chosen, StopShown, KillsIt
    <2>3. CASE LeavesIt
        BY <1>2, <2>3 DEF IInv, InStep, Chosen, StopShown, LeavesIt, GetSelectedThread
    <2> QED BY <1>1, <2>1, <2>2, <2>3 DEF Handled
<1> QED BY <1>6, <1>7, <1>9, <1>10, <1>11 DEF IInv

\* The listener
LEMMA OnStoppedStep ==
    ASSUME IInv, OnStopped
    PROVE  IInv'
<1>1. /\ lpc = "wait" /\ event = "stopped" /\ event' = "none" /\ lpc' = "select"
      /\ known' = IF alive = {} THEN known ELSE alive
      /\ UNCHANGED <<proc, alive, reason, sel, frame, view, cmd, mpc, ans, bare, ran, waiting>>
    BY DEF OnStopped, main
<1>2. proc = "stopped" /\ alive # {} /\ view # "stopped"
    BY <1>1 DEF IInv, InStep
<1>3. TypeOK'
    BY <1>1 DEF IInv, TypeOK
<1>4. InStep'
    BY <1>1, <1>2 DEF IInv, InStep
<1>5. Executing' /\ Results' /\ Right'
    BY <1>1 DEF IInv, Executing, AboutThread, Results, OneResult, Right
<1>6. Chosen' /\ StopShown'
    BY <1>1 DEF Chosen, StopShown
<1> QED BY <1>3, <1>4, <1>5, <1>6 DEF IInv

\* updateSelectedThread chooses a thread with a reason, if there is one that
\* it knows, and does so while no command about a thread is on its way.
LEMMA UpdateStep ==
    ASSUME IInv, UpdateSelectedThread
    PROVE  IInv'
<1> DEFINE current == GetSelectedThread
           plan == {t \in alive : reason[t] = "plan"}
           other == {t \in alive : reason[t] \in {"trace", "event"}}
<1>1. /\ lpc = "select" /\ lpc' = "report"
      /\ sel' = IF current # NoThread /\ reason[current] # "none" THEN current
                ELSE IF plan # {} THEN Least(plan)
                ELSE IF other # {} THEN Least(other)
                ELSE current
      /\ UNCHANGED <<proc, alive, reason, frame, event, view, known, cmd, mpc, ans, bare, ran,
                     waiting>>
    BY DEF UpdateSelectedThread, client, main
<1>2. plan \in SUBSET Threads /\ other \in SUBSET Threads
      /\ plan \subseteq alive /\ other \subseteq alive
    BY DEF IInv, TypeOK
<1>3. (plan # {} => Least(plan) \in plan) /\ (other # {} => Least(other) \in other)
    BY <1>2, LeastIsIn
<1>4. /\ alive # {} => current \in alive
      /\ alive = {} => current = NoThread
      /\ current \in Threads \cup {NoThread}
      /\ NoThread \notin alive
    BY SelectedLives DEF IInv
<1>5. proc = "stopped" => view \notin {"stopped", "exited"} /\ alive # {}
    BY <1>1 DEF IInv, InStep
<1>6. TypeOK'
    <2>1. sel' \in Threads \cup {NoThread}
        BY <1>1, <1>2, <1>3, <1>4
    <2> QED BY <1>1, <2>1 DEF IInv, TypeOK
<1>7. InStep'
    BY <1>1 DEF IInv, InStep
<1>8. Executing'
    <2>1. mpc # "idle" /\ proc = "stopped" => cmd.thread = NoThread
        BY <1>5 DEF IInv, Executing, AboutThread
    <2>2. mpc = "execute" => mpc # "idle"
        OBVIOUS
    <2>3. mpc \in {"frame", "execute"} => mpc # "idle"
        OBVIOUS
    <2> QED BY <1>1, <2>1, <2>2, <2>3 DEF IInv, Executing, AboutThread
<1>9. Results' /\ Right'
    BY <1>1 DEF IInv, Results, OneResult, Right
<1>10. Chosen'
    <2> SUFFICES ASSUME proc = "stopped"
                 PROVE  \/ reason[GetSelectedThread'] # "none"
                        \/ \A t \in alive : reason[t] \in {"none", "exec"}
        BY <1>1 DEF Chosen
    <2>1. current \in alive
        BY <1>4, <1>5
    <2>2. sel' \in alive
        BY <1>1, <1>2, <1>3, <2>1
    <2>3. GetSelectedThread' = sel'
        BY <1>1, <2>2 DEF GetSelectedThread
    <2>4. CASE reason[current] # "none"
        BY <1>1, <1>4, <2>1, <2>3, <2>4
    <2>5. CASE reason[current] = "none" /\ plan # {}
        <3>1. sel' = Least(plan)
            BY <1>1, <2>5
        <3>2. reason[sel'] = "plan"
            BY <1>3, <2>5, <3>1
        <3> QED BY <2>3, <3>2
    <2>6. CASE reason[current] = "none" /\ plan = {} /\ other # {}
        <3>1. sel' = Least(other)
            BY <1>1, <2>6
        <3>2. reason[sel'] \in {"trace", "event"}
            BY <1>3, <2>6, <3>1
        <3> QED BY <2>3, <3>2
    <2>7. CASE plan = {} /\ other = {}
        <3> SUFFICES ASSUME NEW t \in alive PROVE reason[t] \in {"none", "exec"}
            OBVIOUS
        <3>1. reason[t] \in Reasons
            BY DEF IInv, TypeOK
        <3>2. reason[t] # "plan" /\ reason[t] \notin {"trace", "event"}
            BY <2>7
        <3> QED BY <3>1, <3>2 DEF Reasons
    <2> QED BY <2>4, <2>5, <2>6, <2>7
<1>11. StopShown'
    BY <1>1 DEF StopShown
<1> QED BY <1>6, <1>7, <1>8, <1>9, <1>10, <1>11 DEF IInv

LEMMA ReportStep ==
    ASSUME IInv, Report
    PROVE  IInv'
<1> DEFINE t == GetSelectedThread
<1>1. /\ lpc = "report" /\ lpc' = "wait"
      /\ view' = IF t # NoThread /\ reason[t] \in {"plan", "event"} THEN "stopped" ELSE view
      /\ UNCHANGED <<proc, alive, reason, sel, frame, event, known, cmd, mpc, ans, bare, ran,
                     waiting>>
    BY DEF Report, lldb, main
<1>2. proc \in {"stopped", "exited"}
    BY <1>1 DEF IInv, TypeOK, InStep
<1>3. event = "none" \/ proc = "exited"
    BY <1>1 DEF IInv, TypeOK, InStep
<1>4. t # NoThread => t \in alive
    BY SelectedLives DEF IInv
<1>5. t' = t
    BY <1>1 DEF GetSelectedThread
<1>6. proc = "stopped" =>
          \/ reason[t] # "none"
          \/ \A u \in alive : reason[u] \in {"none", "exec"}
    BY <1>1 DEF IInv, Chosen
<1>7. proc = "stopped" => t \in Threads /\ t # NoThread
    BY SelectedLives DEF IInv, InStep
<1>8. t \in Threads => reason[t] \in Reasons
    BY DEF IInv, TypeOK
<1>9. view # "exited" \/ proc = "exited"
    BY DEF IInv, InStep
<1> HIDE DEF t
<1>10. TypeOK'
    BY <1>1 DEF IInv, TypeOK
<1>11. InStep'
    BY <1>1, <1>2, <1>3 DEF IInv, InStep
<1>12. Executing' /\ Results' /\ Right'
    BY <1>1 DEF IInv, Executing, AboutThread, Results, OneResult, Right
<1>13. Chosen'
    BY <1>1 DEF Chosen
<1>14. StopShown'
    BY <1>1, <1>5, <1>6, <1>7, <1>8 DEF StopShown, Reasons, t
<1> QED BY <1>10, <1>11, <1>12, <1>13, <1>14 DEF IInv

LEMMA OnExitedStep ==
    ASSUME IInv, OnExited
    PROVE  IInv'
<1>1. /\ lpc = "wait" /\ event = "exited" /\ event' = "none" /\ lpc' = "done"
      /\ view' = "exited" /\ waiting' = FALSE
      /\ UNCHANGED <<proc, alive, reason, sel, frame, known, cmd, mpc, ans, bare, ran>>
    BY DEF OnExited
<1>2. proc = "exited"
    BY <1>1 DEF IInv, InStep
<1>3. TypeOK'
    BY <1>1 DEF IInv, TypeOK
<1>4. InStep'
    BY <1>1, <1>2 DEF IInv, InStep
<1>5. Executing' /\ Results' /\ Right'
    BY <1>1, <1>2 DEF IInv, Executing, AboutThread, Results, OneResult, Right
<1>6. Chosen' /\ StopShown'
    BY <1>1, <1>2 DEF Chosen, StopShown
<1> QED BY <1>3, <1>4, <1>5, <1>6 DEF IInv

\* The debuggee.  It stops only while the client has no command about a
\* thread on its way.
LEMMA DebuggeeStopsStep ==
    ASSUME IInv, DebuggeeStops
    PROVE  IInv'
<1>1. /\ proc = "running" /\ proc' = "stopped" /\ event' = "stopped"
      /\ alive' \subseteq Threads /\ alive' # {}
      /\ UNCHANGED <<sel, frame, view, known, cmd, mpc, ans, bare, ran, waiting, lpc>>
    BY DEF DebuggeeStops, client, main
<1>2. reason' \in [Threads -> Reasons]
    <2>1. PICK r \in [alive' -> Reasons] :
              reason' = [t \in Threads |-> IF t \in alive' THEN r[t] ELSE "none"]
        BY DEF DebuggeeStops
    <2> QED BY <2>1 DEF Reasons
<1>3. lpc = "wait" /\ view = "running"
    BY <1>1 DEF IInv, InStep
<1>4. TypeOK'
    BY <1>1, <1>2 DEF IInv, TypeOK
<1>5. InStep'
    BY <1>1, <1>3 DEF IInv, InStep
<1>6. mpc # "idle" => cmd.thread = NoThread /\ cmd.frame = NoFrame
    BY <1>3 DEF IInv, Executing, AboutThread, InStep
<1>7. Executing'
    <2>1. mpc \in {"frame", "execute"} => mpc # "idle"
        OBVIOUS
    <2> QED BY <1>1, <1>3, <1>6, <2>1 DEF IInv, Executing, AboutThread
<1>8. Results' /\ Right'
    BY <1>1 DEF IInv, Results, OneResult, Right
<1>9. Chosen' /\ StopShown'
    BY <1>1, <1>3 DEF Chosen, StopShown
<1> QED BY <1>4, <1>5, <1>7, <1>8, <1>9 DEF IInv

\* The client gives up waiting.
LEMMA GiveUpStep ==
    ASSUME IInv, GiveUp
    PROVE  IInv'
<1>1. /\ waiting' = FALSE
      /\ UNCHANGED <<proc, alive, reason, sel, frame, event, view, known, lpc, cmd, mpc, ans,
                     bare, ran>>
    BY DEF GiveUp, lldb, client
<1>2. waiting' \in BOOLEAN
    BY <1>1
<1>3. TypeOK'
    BY <1>1, <1>2 DEF IInv, TypeOK
<1>4. InStep'
    BY <1>1 DEF IInv, InStep
<1>5. Executing' /\ Results' /\ Right'
    BY <1>1 DEF IInv, Executing, AboutThread, Results, OneResult, Right
<1>6. Chosen' /\ StopShown'
    BY <1>1 DEF IInv, Chosen, StopShown, GetSelectedThread
<1> QED BY <1>3, <1>4, <1>5, <1>6 DEF IInv

LEMMA DebuggeeExitsStep ==
    ASSUME IInv, DebuggeeExits
    PROVE  IInv'
<1>1. /\ proc # "none" /\ proc' = "exited" /\ event' = "exited" /\ alive' = {} /\ reason' = AllNone
      /\ UNCHANGED <<sel, frame, view, known, cmd, mpc, ans, bare, ran, waiting, lpc>>
    BY DEF DebuggeeExits, client, main
<1>2. AllNone \in [Threads -> Reasons]
    BY DEF AllNone, Reasons
<1>3. TypeOK'
    BY <1>1, <1>2 DEF IInv, TypeOK
<1>4. InStep'
    BY <1>1 DEF IInv, InStep
<1>5. Executing' /\ Results' /\ Right'
    BY <1>1 DEF IInv, Executing, AboutThread, Results, OneResult, Right
<1>6. Chosen' /\ StopShown'
    BY <1>1 DEF Chosen, StopShown
<1> QED BY <1>3, <1>4, <1>5, <1>6 DEF IInv

LEMMA InvariantStep ==
    ASSUME IInv, [Next]_vars
    PROVE  IInv'
<1>1. CASE UNCHANGED vars
    <2>1. UNCHANGED <<proc, alive, reason, sel, frame, event, lpc, view, known, cmd, mpc, ans,
                      bare, ran, waiting>>
        BY <1>1 DEF vars, lldb, client, main
    <2>2. TypeOK' /\ InStep'
        BY <2>1 DEF IInv, TypeOK, InStep
    <2>3. Executing' /\ Results' /\ Right'
        BY <2>1 DEF IInv, Executing, AboutThread, Results, OneResult, Right
    <2>4. Chosen' /\ StopShown'
        BY <2>1 DEF IInv, Chosen, StopShown, GetSelectedThread
    <2> QED BY <2>2, <2>3, <2>4 DEF IInv
<1>2. CASE (\E c \in Command : Send(c)) \/ GiveUp
    BY <1>2, SendStep, GiveUpStep
<1>3. CASE Main
    BY <1>3, EvalThreadStep, EvalFrameStep, HandlerStep DEF Main
<1>4. CASE Listener
    BY <1>4, OnStoppedStep, UpdateStep, ReportStep, OnExitedStep DEF Listener
<1>5. CASE DebuggeeStops \/ DebuggeeExits
    BY <1>5, DebuggeeStopsStep, DebuggeeExitsStep
<1> QED BY <1>1, <1>2, <1>3, <1>4, <1>5 DEF Next

LEMMA Initially == ASSUME Init PROVE IInv
<1>1. 1 \in Threads /\ 0 \in Frames
    BY BoundsAssumption DEF Threads, Frames
<1>2. AllNone \in [Threads -> Reasons] /\ Bottom \in [Threads -> Frames]
    BY <1>1 DEF AllNone, Bottom, Reasons
<1>3. /\ reason = AllNone /\ sel = NoThread /\ frame = Bottom /\ event = "none"
      /\ cmd = None /\ mpc = "idle" /\ ans = 0 /\ bare = 0 /\ ran = Nothing
      /\ waiting = FALSE /\ view = proc /\ known = alive
      /\ \/ proc = "none" /\ alive = {} /\ lpc = "done"
         \/ proc = "running" /\ alive = {1} /\ lpc = "wait"
    BY DEF Init
<1>4. None.thread = NoThread /\ None.frame = NoFrame
    BY DEF None
<1>5. Nothing \in [thread : Threads \cup {NoThread}, frame : Frames \cup {NoFrame}]
    BY DEF Nothing
<1>6. TypeOK
    <2>1. reason \in [Threads -> Reasons] /\ frame \in [Threads -> Frames]
        BY <1>2, <1>3
    <2>2. ran \in [thread : Threads \cup {NoThread}, frame : Frames \cup {NoFrame}]
        BY <1>3, <1>5
    <2>3. cmd \in Command \cup {None}
        BY <1>3
    <2>4. alive \subseteq Threads /\ known \subseteq Threads
        BY <1>1, <1>3
    <2>5. /\ proc \in {"none", "running", "stopped", "exited"}
          /\ view \in {"none", "running", "stopped", "exited"}
          /\ lpc \in {"wait", "select", "report", "done"}
        BY <1>3
    <2>6. ans \in 0 .. 2 /\ bare \in 0 .. 1 /\ waiting \in BOOLEAN
        <3>1. ans = 0 /\ bare = 0 /\ waiting = FALSE
            BY <1>3
        <3>2. ans \in 0 .. 2 /\ bare \in 0 .. 1
            BY <3>1
        <3>3. waiting \in BOOLEAN
            BY <3>1
        <3> QED BY <3>2, <3>3
    <2>7. /\ sel \in Threads \cup {NoThread}
          /\ event \in {"none", "stopped", "exited"}
          /\ mpc \in {"idle", "thread", "frame", "execute"}
        BY <1>3
    <2> QED BY <2>1, <2>2, <2>3, <2>4, <2>5, <2>6, <2>7 DEF TypeOK
<1>7. InStep /\ Executing
    BY <1>3, <1>4 DEF InStep, Executing
<1>8. Results /\ Right /\ Chosen /\ StopShown
    BY <1>3 DEF Results, OneResult, Right, Chosen, StopShown
<1> QED BY <1>6, <1>7, <1>8 DEF IInv

-----------------------------------------------------------------------------
(***************************************************************************)
(* Results                                                                 *)
(***************************************************************************)
LEMMA Invariant == Spec => []IInv
    BY Initially, InvariantStep, PTL DEF Spec

\* The variables keep their types, whatever the client sends and the debuggee
\* does.
THEOREM TypeCorrect == Spec => []TypeOK
<1>1. IInv => TypeOK
    BY DEF IInv
<1> QED BY <1>1, Invariant, PTL

\* fromCDT prints at most one result record for a command while the debuggee
\* lives, in whichever handler it ends.
THEOREM OneResultEach == Spec => []OneResult
<1>1. IInv => OneResult
    BY DEF IInv, Results
<1> QED BY <1>1, Invariant, PTL

\* A command that names a thread is answered about that thread and its frame,
\* although the listener thread selects threads too.
THEOREM AnswersItsThread == Spec => []RightThread
<1>1. IInv => RightThread
    BY DEF IInv, Right, RightThread
<1> QED BY <1>1, Invariant, PTL

\* onStopped reports every stop of a thread it knows the reason of, unless the
\* selected thread has an unknown one.
THEOREM StopsAreShown == Spec => []StopShown
<1>1. IInv => StopShown
    BY DEF IInv
<1> QED BY <1>1, Invariant, PTL
=============================================================================
