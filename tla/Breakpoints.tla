---------------------------- MODULE Breakpoints ----------------------------
(***************************************************************************)
(* Breakpoints and watchpoints: the -break commands and "catch"            *)
(* (engine.cpp), the reports of them (frames.cpp, events.cpp), LLDB's      *)
(* tables of them, one per target, and the client's, which knows a         *)
(* breakpoint by the number it was told.  The command thread works on the  *)
(* global target, the listener on the target of its process; a new         *)
(* program or an attempt to attach puts a new target in the global one.    *)
(***************************************************************************)
EXTENDS Naturals, FiniteSets

CONSTANTS
    MaxTargets,   \* bound: targets created in a session
    MaxBreaks,    \* bound: breakpoints created in a session
    MaxWatches    \* bound: watchpoints created in a target

ASSUME BreakpointsAssumption ==
    MaxTargets \in Nat /\ MaxBreaks \in Nat /\ MaxWatches \in Nat

NoTarget == 0           \* an SBTarget that is not valid
Targets == 1 .. MaxTargets
NoNumber == 0           \* LLDB_INVALID_BREAK_ID

Breakpoint == [target : Targets, id : 1 .. MaxBreaks, enabled : BOOLEAN, oneshot : BOOLEAN]
\* a record that describes a breakpoint to the client, or "breakpoint 0"
Record == [target : {NoTarget} \cup Targets, id : 0 .. MaxBreaks, enabled : BOOLEAN, oneshot : BOOLEAN]
Request == [id : 0 .. MaxBreaks, enabled : BOOLEAN, oneshot : BOOLEAN,
            kept : BOOLEAN]
NoRequest == [id |-> NoNumber, enabled |-> FALSE, oneshot |-> FALSE,
              kept |-> FALSE]

VARIABLES
    target,       \* the global target
    ntargets,     \* targets created so far
    breaks,       \* LLDB's breakpoints, of all targets
    nextid,       \* the number of a target's next breakpoint
    nwatches,     \* watchpoints created in each target; none is ever deleted
    pc, request,  \* how far the command thread is with a -break-insert
    ptarget,      \* the process's target
    pstate,       \* the process: "none", "running", "hit" (the listener has the
                  \* event), "stopped" (it has handled it)
    hit,          \* number of the breakpoint that stopped the process
    desc,         \* the record onStopped is about to print, if any
    told,         \* the client's table of breakpoints
    toldwatches,  \* the client's table of watchpoints: their numbers
    misdeleted,   \* numbers the client deleted for the watchpoint they denote
    late          \* breakpoints that were changed or gone when the listener
                  \* printed the record it had made of them

commands == <<pc, request>>
process == <<ptarget, pstate, hit>>
client == <<told, toldwatches, misdeleted>>
listener == <<desc, late>>
lldb == <<breaks, nextid, nwatches>>
vars == <<target, ntargets, lldb, commands, process, client, listener>>

-----------------------------------------------------------------------------
(* LLDB *)

\* BreakpointDelete(n)
Without(t, n) == {b \in breaks : ~(b.target = t /\ b.id = n)}

\* SetEnabled of what FindBreakpointByID (n) finds
Enabling(set, n, e) ==
    {IF b.target = target /\ b.id = n THEN [b EXCEPT !.enabled = e] ELSE b : b \in set}

Created == {x \in Targets \X (1 .. MaxBreaks) : x[2] < nextid[x[1]]}

\* BreakpointCreateBy... in the global target: the new breakpoint is enabled
Create ==
    /\ target # NoTarget => Cardinality(Created) < MaxBreaks
    /\ IF target = NoTarget
       THEN UNCHANGED <<breaks, nextid>>
       ELSE /\ breaks' = breaks \cup {[target |-> target, id |-> nextid[target],
                                       enabled |-> TRUE, oneshot |-> FALSE]}
            /\ nextid' = [nextid EXCEPT ![target] = @ + 1]

NewNumber == IF target = NoTarget THEN NoNumber ELSE nextid[target]

CreateTarget ==
    /\ ntargets < MaxTargets
    /\ ntargets' = ntargets + 1 /\ target' = ntargets + 1

\* formatBreakpoint: whatever its state, a breakpoint is printed as enabled.
Formatted(t, n, once) == [target |-> t, id |-> n, enabled |-> TRUE, oneshot |-> once]

\* The client's table with the record r in it, in the place of an older one
\* of the same number, whatever target that was about.  A record of number 0
\* is about no breakpoint and is left out of the table.
Telling(r) == {s \in told : s.id # r.id} \cup {s \in {r} : s.id # NoNumber}

Init ==
    /\ target = NoTarget /\ ntargets = 0
    /\ breaks = {} /\ nextid = [t \in Targets |-> 1] /\ nwatches = [t \in Targets |-> 0]
    /\ pc = "idle" /\ request = NoRequest
    /\ ptarget = NoTarget /\ pstate = "none" /\ hit = NoNumber
    /\ told = {} /\ toldwatches = {} /\ misdeleted = {} /\ desc = {} /\ late = {}

-----------------------------------------------------------------------------
(* The commands *)

\* -file-exec-and-symbols with a program that can be loaded or cannot
FileExec ==
    /\ pc = "idle"
    /\ CreateTarget \/ (target' = NoTarget /\ UNCHANGED ntargets)
    /\ UNCHANGED <<lldb, commands, process, client, listener>>

\* -file-exec-and-symbols without one: the process is destroyed, and the
\* target with its breakpoints
ClearTarget ==
    /\ pc = "idle" /\ target # NoTarget
    /\ breaks' = {b \in breaks : b.target # target} /\ target' = NoTarget
    /\ pstate' = "none" /\ ptarget' = NoTarget /\ hit' = NoNumber
    /\ UNCHANGED <<ntargets, nextid, nwatches, commands, client, listener>>

\* -target-attach: the new target stays when the attachment fails
Attach ==
    /\ pc = "idle" /\ CreateTarget
    /\ \/ pstate' = "stopped" /\ ptarget' = target' /\ hit' = NoNumber
       \/ UNCHANGED process
    /\ UNCHANGED <<lldb, commands, client, listener>>

\* -exec-run
Launch ==
    /\ pc = "idle" /\ target # NoTarget /\ pstate = "none"
    /\ ptarget' = target /\ pstate' = "running" /\ hit' = NoNumber
    /\ UNCHANGED <<target, ntargets, lldb, commands, client, listener>>

\* -break-insert makes an enabled breakpoint,
BreakInsert == \E e, o, found, pending \in BOOLEAN :
    /\ pc = "idle" /\ Create
    /\ target = NoTarget => ~found      \* no target, no locations
    /\ request' = [id |-> NewNumber, enabled |-> e, oneshot |-> o,
                   kept |-> found \/ pending]
    /\ pc' = "created"
    /\ UNCHANGED <<target, ntargets, nwatches, process, client, listener>>

\* then gives it the state that was asked for,
BreakInsertEnable ==
    /\ pc = "created" /\ pc' = "enabled"
    /\ breaks' = Enabling(breaks, request.id, request.enabled)
    /\ UNCHANGED <<target, ntargets, nextid, nwatches, request, process, client, listener>>

BreakInsertKeep ==
    /\ breaks' = {IF b.target = target /\ b.id = request.id
                  THEN [b EXCEPT !.oneshot = request.oneshot] ELSE b : b \in breaks}
    /\ told' = Telling(Formatted(target, request.id, request.oneshot))

BreakInsertDone ==
    /\ pc = "enabled" /\ pc' = "idle" /\ request' = NoRequest
    /\ UNCHANGED <<target, ntargets, nextid, nwatches, process, toldwatches, misdeleted,
                   listener>>

\* Mutant: the breakpoint that was not found is left to LLDB.
BreakInsertFinishLeaves ==
    /\ BreakInsertDone
    /\ IF request.kept THEN BreakInsertKeep ELSE UNCHANGED <<breaks, told>>

\* Mutant: the deletion is not in the else branch.
BreakInsertFinishNoElse ==
    /\ BreakInsertDone
    /\ breaks' = Without(target, request.id)
    /\ IF request.kept THEN told' = Telling(Formatted(target, request.id, request.oneshot))
       ELSE UNCHANGED told

\* and keeps it, tells it, and makes it one-shot if it has locations or may
\* wait for them, and deletes it otherwise.
BreakInsertFinish ==
    /\ BreakInsertDone
    /\ IF request.kept THEN BreakInsertKeep
       ELSE breaks' = Without(target, request.id) /\ UNCHANGED told

\* catch catch, catch throw
Catch ==
    /\ pc = "idle" /\ Create
    /\ told' = Telling(Formatted(target, NewNumber, FALSE))
    /\ UNCHANGED <<target, ntargets, nwatches, commands, process, toldwatches, misdeleted,
                   listener>>

\* -break-delete n of a breakpoint
BreakDelete == \E r \in told :
    /\ pc = "idle"
    /\ breaks' = Without(target, r.id) /\ told' = told \ {r}
    /\ UNCHANGED <<target, ntargets, nextid, nwatches, commands, process, toldwatches,
                   misdeleted, listener>>

\* -break-delete n of a watchpoint: the command knows only breakpoints
WatchDelete == \E w \in toldwatches :
    /\ pc = "idle"
    /\ breaks' = Without(target, w)
    /\ toldwatches' = toldwatches \ {w}
    /\ misdeleted' = misdeleted \cup {<<target, w>>}
    /\ UNCHANGED <<target, ntargets, nextid, nwatches, commands, process, told, listener>>

\* -break-enable, -break-disable
BreakEnable == \E r \in told, e \in BOOLEAN :
    /\ pc = "idle"
    /\ breaks' = Enabling(breaks, r.id, e)
    /\ told' = (told \ {r}) \cup {[r EXCEPT !.enabled = e]}
    /\ UNCHANGED <<target, ntargets, nextid, nwatches, commands, process, toldwatches,
                   misdeleted, listener>>

\* -break-watch of an expression that has an address LLDB can watch
BreakWatch ==
    /\ pc = "idle" /\ target # NoTarget /\ ptarget = target
    /\ nwatches[target] < MaxWatches
    /\ nwatches' = [nwatches EXCEPT ![target] = @ + 1]
    /\ toldwatches' = toldwatches \cup {nwatches[target] + 1}
    /\ UNCHANGED <<target, ntargets, breaks, nextid, commands, process, told, misdeleted,
                   listener>>

-----------------------------------------------------------------------------
(* The process and the listener *)

\* A breakpoint with locations stops the process.  LLDB may take a one-shot
\* breakpoint away before the listener sees the event.
Hit == \E b \in breaks :
    /\ pstate = "running" /\ b.target = ptarget /\ b.enabled /\ desc = {}
    /\ pc # "idle" /\ b.target = target /\ b.id = request.id => request.kept
    /\ hit' = b.id /\ pstate' = "hit"
    /\ \/ b.oneshot /\ breaks' = breaks \ {b}
       \/ UNCHANGED breaks
    /\ UNCHANGED <<target, ntargets, nextid, nwatches, commands, ptarget, client, listener>>

\* onStopped makes the record of the breakpoint that was hit, of "breakpoint 0"
\* if that one was deleted since LLDB gave its number, or none if LLDB has no
\* number any more.
Described == {Formatted(ptarget, hit, b.oneshot) :
                  b \in {c \in breaks : c.target = ptarget /\ c.id = hit}}

OnStopped ==
    /\ pstate = "hit" /\ pstate' = "stopped" /\ hit' = NoNumber
    /\ \/ desc' = Described
       \/ Described = {} /\ desc' = {Formatted(NoTarget, NoNumber, FALSE)}
    /\ UNCHANGED <<target, ntargets, lldb, commands, ptarget, client, late>>

\* The breakpoint of the global target, if any, for which what the record
\* says is no longer so.
Outdated(r) ==
    IF r.target # target \/ r.target = NoTarget
       \/ \E b \in breaks : b.target = r.target /\ b.id = r.id /\ b.oneshot = r.oneshot
    THEN {} ELSE {<<r.target, r.id>>}

\* Mutant: every breakpoint is deleted when it has been hit.
OnStoppedDeletes == \E r \in desc :
    /\ desc' = {} /\ told' = Telling(r)
    /\ breaks' = Without(r.target, r.id)
    /\ late' = late \cup Outdated(r)
    /\ UNCHANGED <<target, ntargets, nextid, nwatches, commands, process, toldwatches,
                   misdeleted>>

\* It prints the record, as =breakpoint-modified.  After a one-shot breakpoint
\* that LLDB has left, and if there is a frame, it deletes "bpid", which is
\* not the number of the breakpoint but the outer variable of that name, and
\* tells the client so.
OnStoppedTell == \E r \in desc, frame \in BOOLEAN :
    /\ desc' = {}
    /\ LET bpid == NoNumber IN
       IF r.oneshot /\ frame
       THEN /\ breaks' = Without(r.target, bpid)
            /\ told' = {s \in Telling(r) : s.id # bpid}
       ELSE told' = Telling(r) /\ UNCHANGED breaks
    /\ late' = late \cup Outdated(r)
    /\ UNCHANGED <<target, ntargets, nextid, nwatches, commands, process, toldwatches,
                   misdeleted>>

Continue ==
    /\ pc = "idle" /\ pstate = "stopped" /\ pstate' = "running"
    /\ UNCHANGED <<target, ntargets, lldb, commands, ptarget, hit, client, listener>>

Exited ==
    /\ pstate \in {"running", "stopped"}
    /\ pstate' = "none" /\ ptarget' = NoTarget /\ hit' = NoNumber
    /\ UNCHANGED <<target, ntargets, lldb, commands, client, listener>>

Next ==
    \/ FileExec \/ ClearTarget \/ Attach \/ Launch
    \/ BreakInsert \/ BreakInsertEnable \/ BreakInsertFinish \/ Catch
    \/ BreakDelete \/ WatchDelete \/ BreakEnable \/ BreakWatch
    \/ Hit \/ OnStopped \/ OnStoppedTell \/ Continue \/ Exited

Spec == Init /\ [][Next]_vars

-----------------------------------------------------------------------------
(* Properties *)

TypeOK ==
    /\ target \in {NoTarget} \cup Targets /\ ptarget \in {NoTarget} \cup Targets
    /\ ntargets \in 0 .. MaxTargets
    /\ breaks \subseteq Breakpoint
    /\ nextid \in [Targets -> 1 .. MaxBreaks + 1]
    /\ nwatches \in [Targets -> 0 .. MaxWatches]
    /\ pc \in {"idle", "created", "enabled"} /\ request \in Request
    /\ pstate \in {"none", "running", "hit", "stopped"} /\ hit \in 0 .. MaxBreaks
    /\ told \subseteq Record /\ desc \subseteq Record

\* Once a command is answered, every breakpoint of the target has its number
\* in the client's table: an insertion that fails leaves nothing behind.  If
\* the client's record is about this target and not, because the listener of
\* an earlier target's process printed it later, about that one's breakpoint
\* of the same number, it is right about the disposal, unless the listener
\* printed it late, and never shows a breakpoint as disabled that can stop
\* the program.  (It may show one as enabled that cannot: -break-insert -d
\* and a hit are told with enabled="y", whatever the breakpoint's state.)
ClientKnows ==
    \A b \in breaks :
        \/ b.target # target
        \/ pc # "idle" /\ b.id = request.id
        \/ \E r \in told :
              /\ r.id = b.id
              /\ r.target = target =>
                    /\ b.enabled => r.enabled
                    /\ r.oneshot = b.oneshot \/ <<target, b.id>> \in late

\* A breakpoint of this target that the client still has in its table exists
\* and is kept after a hit, unless it was told as a one-shot breakpoint, its
\* number was deleted as a watchpoint's, or the listener printed its record
\* when it had already been changed or deleted.
ToldExist ==
    \A r \in told :
        \/ r.target # target
        \/ r.oneshot
        \/ \E b \in breaks : b.target = target /\ b.id = r.id /\ ~b.oneshot
        \/ <<r.target, r.id>> \in misdeleted \cup late
        \/ pc # "idle"

\* No step takes a breakpoint whose number stays in the client's table away
\* from a target that stays, but the hit of a one-shot breakpoint and the
\* deletion of a watchpoint's number: the listener's deletion after a
\* one-shot breakpoint hits no other one, in its own target or in the global
\* one.
DeletedWhenAsked ==
    [][\A b \in breaks :
          \/ \E c \in breaks' : c.target = b.target /\ c.id = b.id
          \/ b.oneshot
          \/ (\E r \in told : r.id = b.id) /\ (\A s \in told' : s.id # b.id)
          \/ misdeleted' # misdeleted \/ b.id \in toldwatches \ toldwatches'
          \/ pc = "enabled" /\ b.target = target /\ b.id = request.id /\ ~request.kept
          \/ b.target = target /\ target' = NoTarget]_vars
=============================================================================
