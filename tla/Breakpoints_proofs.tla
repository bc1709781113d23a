-------------------------- MODULE Breakpoints_proofs --------------------------
(***************************************************************************)
(* Proofs about Breakpoints, for any number of targets, breakpoints and    *)
(* watchpoints.                                                            *)
(***************************************************************************)
EXTENDS Breakpoints, FiniteSetTheorems, FunctionTheorems, TLAPS

-----------------------------------------------------------------------------
(***************************************************************************)
(* The inductive invariant.  Targets and numbers are given out in order,   *)
(* so that neither a target nor a number within it comes a second time.    *)
(***************************************************************************)
\* what has been created, hit, described and told has been numbered
Numbered ==
    /\ target <= ntargets
    /\ \A b \in breaks : b.target <= ntargets /\ b.id < nextid[b.target]
    /\ \A r \in told : r.target # NoTarget
    /\ \A r \in told \cup desc :
          IF r.target = NoTarget THEN r.id = NoNumber
          ELSE r.target <= ntargets /\ r.id < nextid[r.target]
    /\ pstate = "hit" => ptarget # NoTarget /\ ptarget <= ntargets /\ hit < nextid[ptarget]

\* a number stands for one breakpoint of a target, and for one of the client's
OneEach ==
    /\ \A b, c \in breaks : b.target = c.target /\ b.id = c.id => b = c
    /\ \A r, s \in told : r.id = s.id => r = s

\* no breakpoint of this target with the number n has stopped the program
\* yet, been described or been told
Unseen(n) ==
    /\ \A r \in told \cup desc : ~(r.target = target /\ r.id = n)
    /\ ~(pstate = "hit" /\ ptarget = target /\ hit = n)

\* the breakpoint that is being inserted: it exists, is as far as it has got,
\* and has not been hit if it will be taken back
Inserting ==
    pc # "idle" =>
        IF target = NoTarget THEN request.id = NoNumber
        ELSE /\ [target |-> target, id |-> request.id, oneshot |-> FALSE,
                 enabled |-> IF pc = "enabled" THEN request.enabled ELSE TRUE] \in breaks
             /\ request.kept \/ Unseen(request.id)

\* ToldExist without its exception for an insertion
Exist ==
    \A r \in told :
        \/ r.target # target
        \/ r.oneshot
        \/ \E b \in breaks : b.target = target /\ b.id = r.id /\ ~b.oneshot
        \/ <<r.target, r.id>> \in misdeleted \cup late

\* what onStopped is about to print says "enabled"
DescEnabled == \A r \in desc : r.enabled

IInv == TypeOK /\ DescEnabled /\ Numbered /\ OneEach /\ Inserting /\ ClientKnows /\ Exist

USE DEF NoTarget, NoNumber

-----------------------------------------------------------------------------
(***************************************************************************)
(* Types                                                                   *)
(***************************************************************************)
\* What formatBreakpoint prints is a record.
LEMMA FormattedType ==
    ASSUME NEW t \in {NoTarget} \cup Targets, NEW n \in 0 .. MaxBreaks, NEW e \in BOOLEAN
    PROVE  Formatted(t, n, e) \in Record
BY DEF Formatted, Record

\* A target has given out as many numbers as it has breakpoints created, so
\* there is a number left when fewer than MaxBreaks were.
LEMMA NumberLeft ==
    ASSUME TypeOK, target # NoTarget, Cardinality(Created) < MaxBreaks
    PROVE  nextid[target] \in 1 .. MaxBreaks
<1> USE BreakpointsAssumption
<1>1. target \in Targets /\ nextid[target] \in 1 .. MaxBreaks + 1
    BY DEF TypeOK
<1>2. SUFFICES ASSUME nextid[target] = MaxBreaks + 1 PROVE FALSE
    BY <1>1
<1> DEFINE Pair == [n \in 1 .. MaxBreaks |-> <<target, n>>]
<1>3. IsFiniteSet(1 .. MaxBreaks) /\ Cardinality(1 .. MaxBreaks) = MaxBreaks
    BY FS_Interval
<1>4. IsFiniteSet(Targets)
    BY FS_Interval DEF Targets
<1>5. IsFiniteSet(Created)
    <2>1. IsFiniteSet(Targets \X (1 .. MaxBreaks))
        BY <1>3, <1>4, FS_Product
    <2>2. Created \in SUBSET (Targets \X (1 .. MaxBreaks))
        BY DEF Created
    <2> QED BY <2>1, <2>2, FS_Subset
<1>6. Pair \in Injection(1 .. MaxBreaks, Created)
    <2>1. \A n \in 1 .. MaxBreaks : <<target, n>> \in Created
        BY <1>1, <1>2 DEF Created
    <2>2. Pair \in [1 .. MaxBreaks -> Created]
        BY <2>1
    <2>3. \A m, n \in 1 .. MaxBreaks : Pair[m] = Pair[n] => m = n
        OBVIOUS
    <2> QED BY <2>2, <2>3 DEF Injection, IsInjective
<1>7. Cardinality(1 .. MaxBreaks) <= Cardinality(Created)
    BY <1>5, <1>6, FS_Injection
<1>8. Cardinality(Created) \in Nat
    BY <1>5, FS_CardinalityType
<1> QED BY <1>3, <1>7, <1>8

\* A breakpoint is created by a target, with the target's next number, or,
\* without one, not at all.
LEMMA Creation ==
    ASSUME TypeOK, Create
    PROVE  \/ /\ target = NoTarget /\ breaks' = breaks /\ nextid' = nextid
              /\ NewNumber = NoNumber
           \/ /\ target # NoTarget /\ target \in Targets
              /\ NewNumber = nextid[target] /\ NewNumber \in 1 .. MaxBreaks
              /\ breaks' = breaks \cup {[target |-> target, id |-> NewNumber,
                                         enabled |-> TRUE, oneshot |-> FALSE]}
              /\ nextid' = [nextid EXCEPT ![target] = @ + 1]
              /\ nextid' \in [Targets -> 1 .. MaxBreaks + 1]
<1>1. CASE target = NoTarget
    BY <1>1 DEF Create, NewNumber
<1>2. CASE target # NoTarget
    <2>1. nextid[target] \in 1 .. MaxBreaks
        BY <1>2, NumberLeft DEF Create
    <2>2. target \in Targets /\ nextid \in [Targets -> 1 .. MaxBreaks + 1]
        BY <1>2 DEF TypeOK
    <2>3. nextid' = [nextid EXCEPT ![target] = @ + 1]
        BY <1>2 DEF Create
    <2>4. nextid' \in [Targets -> 1 .. MaxBreaks + 1]
        BY <2>1, <2>2, <2>3, BreakpointsAssumption
    <2> QED BY <1>2, <2>1, <2>2, <2>3, <2>4 DEF Create, NewNumber
<1> QED BY <1>1, <1>2

LEMMA CreationTypes ==
    ASSUME TypeOK, Create
    PROVE  /\ breaks' \subseteq Breakpoint
           /\ nextid' \in [Targets -> 1 .. MaxBreaks + 1]
           /\ NewNumber \in 0 .. MaxBreaks
<1>1. breaks \subseteq Breakpoint /\ nextid \in [Targets -> 1 .. MaxBreaks + 1]
    BY DEF TypeOK
<1>2. CASE target = NoTarget
    BY <1>1, <1>2, Creation, BreakpointsAssumption
<1>3. CASE target # NoTarget
    <2>1. target \in Targets /\ NewNumber \in 1 .. MaxBreaks
          /\ breaks' = breaks \cup {[target |-> target, id |-> NewNumber,
                                     enabled |-> TRUE, oneshot |-> FALSE]}
          /\ nextid' \in [Targets -> 1 .. MaxBreaks + 1]
        BY <1>3, Creation
    <2>2. [target |-> target, id |-> NewNumber, enabled |-> TRUE, oneshot |-> FALSE]
              \in Breakpoint
        BY <2>1 DEF Breakpoint
    <2>3. NewNumber \in 0 .. MaxBreaks
        BY <2>1, BreakpointsAssumption
    <2> QED BY <1>1, <2>1, <2>2, <2>3
<1> QED BY <1>2, <1>3

\* Changing one of its flags leaves a breakpoint, or a record, what it is.
LEMMA Flags ==
    ASSUME NEW b, b \in Breakpoint \/ b \in Record, NEW e \in BOOLEAN
    PROVE  /\ [b EXCEPT !.enabled = e] =
                  [target |-> b.target, id |-> b.id, enabled |-> e, oneshot |-> b.oneshot]
           /\ [b EXCEPT !.oneshot = e] =
                  [target |-> b.target, id |-> b.id, enabled |-> b.enabled, oneshot |-> e]
           /\ b = [target |-> b.target, id |-> b.id, enabled |-> b.enabled,
                   oneshot |-> b.oneshot]
BY DEF Breakpoint, Record

LEMMA FlagsTypes ==
    ASSUME NEW e \in BOOLEAN
    PROVE  /\ \A b \in Breakpoint : /\ [b EXCEPT !.enabled = e] \in Breakpoint
                                    /\ [b EXCEPT !.oneshot = e] \in Breakpoint
           /\ \A r \in Record : [r EXCEPT !.enabled = e] \in Record
<1>1. ASSUME NEW b \in Breakpoint
      PROVE  [b EXCEPT !.enabled = e] \in Breakpoint /\ [b EXCEPT !.oneshot = e] \in Breakpoint
    BY Flags DEF Breakpoint
<1>2. ASSUME NEW r \in Record
      PROVE  [r EXCEPT !.enabled = e] \in Record
    BY Flags DEF Record
<1> QED BY <1>1, <1>2


\* Every step keeps the types.
LEMMA TypesStep ==
    ASSUME TypeOK, Next
    PROVE  TypeOK'
<1> USE DEF lldb, commands, process, client, listener
<1>1. CASE FileExec
    BY <1>1, BreakpointsAssumption DEF FileExec, CreateTarget, TypeOK, Targets
<1>2. CASE ClearTarget
    BY <1>2, BreakpointsAssumption DEF ClearTarget, TypeOK
<1>3. CASE Attach
    BY <1>3, BreakpointsAssumption DEF Attach, CreateTarget, TypeOK, Targets
<1>4. CASE Launch
    BY <1>4, BreakpointsAssumption DEF Launch, TypeOK
<1>5. CASE BreakInsert
    <2>1. PICK e, o, found, pending \in BOOLEAN :
              /\ Create
              /\ request' = [id |-> NewNumber, enabled |-> e, oneshot |-> o,
                             kept |-> found \/ pending]
              /\ pc' = "created"
              /\ UNCHANGED <<target, ntargets, nwatches, process, client, listener>>
        BY <1>5 DEF BreakInsert
    <2>2. breaks' \subseteq Breakpoint /\ nextid' \in [Targets -> 1 .. MaxBreaks + 1]
          /\ NewNumber \in 0 .. MaxBreaks
        BY <2>1, CreationTypes
    <2>3. request' \in Request
        BY <2>1, <2>2 DEF Request
    <2> QED BY <2>1, <2>2, <2>3 DEF TypeOK
<1>6. CASE BreakInsertEnable
    <2>1. request.enabled \in BOOLEAN
        BY DEF TypeOK, Request
    <2>2. breaks' \subseteq Breakpoint
        BY <1>6, <2>1, FlagsTypes DEF BreakInsertEnable, Enabling, TypeOK
    <2> QED BY <1>6, <2>2 DEF BreakInsertEnable, TypeOK
<1>7. CASE BreakInsertFinish
    <2>1. request.enabled \in BOOLEAN /\ request.oneshot \in BOOLEAN
          /\ request.id \in 0 .. MaxBreaks
        BY DEF TypeOK, Request
    <2>2. request' \in Request /\ pc' = "idle"
        BY <1>7, BreakpointsAssumption
           DEF BreakInsertFinish, BreakInsertDone, NoRequest, Request
    <2>3. CASE request.kept
        <3>1. breaks' \subseteq Breakpoint
            <4>1. breaks' = {IF b.target = target /\ b.id = request.id
                             THEN [b EXCEPT !.oneshot = request.oneshot] ELSE b : b \in breaks}
                BY <1>7, <2>3 DEF BreakInsertFinish, BreakInsertKeep
            <4>2. \A b \in breaks : b \in Breakpoint
                                   /\ [b EXCEPT !.oneshot = request.oneshot] \in Breakpoint
                BY <2>1, FlagsTypes DEF TypeOK
            <4> QED BY <4>1, <4>2
        <3>2. Formatted(target, request.id, request.oneshot) \in Record
            BY <2>1, FormattedType DEF TypeOK
        <3>3. told' \subseteq Record
            BY <1>7, <2>3, <3>2 DEF BreakInsertFinish, BreakInsertKeep, Telling, TypeOK
        <3> QED BY <1>7, <2>2, <3>1, <3>3 DEF BreakInsertFinish, BreakInsertDone, TypeOK
    <2>4. CASE ~request.kept
        BY <1>7, <2>2, <2>4 DEF BreakInsertFinish, BreakInsertDone, Without, TypeOK
    <2> QED BY <2>3, <2>4
<1>8. CASE Catch
    <2>1. breaks' \subseteq Breakpoint /\ nextid' \in [Targets -> 1 .. MaxBreaks + 1]
          /\ NewNumber \in 0 .. MaxBreaks
        BY <1>8, CreationTypes DEF Catch
    <2>2. Formatted(target, NewNumber, FALSE) \in Record
        BY <2>1, FormattedType DEF TypeOK
    <2>3. told' \subseteq Record
        BY <1>8, <2>2 DEF Catch, Telling, TypeOK
    <2> QED BY <1>8, <2>1, <2>3 DEF Catch, TypeOK
<1>9. CASE BreakDelete
    BY <1>9 DEF BreakDelete, Without, TypeOK
<1>10. CASE WatchDelete
    BY <1>10 DEF WatchDelete, Without, TypeOK
<1>11. CASE BreakEnable
    <2>1. breaks' \subseteq Breakpoint
        BY <1>11, FlagsTypes DEF BreakEnable, Enabling, TypeOK
    <2>2. told' \subseteq Record
        BY <1>11, FlagsTypes DEF BreakEnable, TypeOK
    <2> QED BY <1>11, <2>1, <2>2 DEF BreakEnable, TypeOK
<1>12. CASE BreakWatch
    BY <1>12, BreakpointsAssumption DEF BreakWatch, TypeOK
<1>13. CASE Hit
    BY <1>13 DEF Hit, Breakpoint, TypeOK
<1>14. CASE OnStopped
    <2>1. \A b \in breaks : Formatted(ptarget, hit, b.oneshot) \in Record
        BY FormattedType DEF TypeOK, Breakpoint
    <2>2. Described \subseteq Record
        BY <2>1 DEF Described
    <2>3. Formatted(NoTarget, NoNumber, FALSE) \in Record
        BY BreakpointsAssumption DEF Formatted, Record
    <2>4. desc' \subseteq Record
        BY <1>14, <2>2, <2>3 DEF OnStopped
    <2> QED BY <1>14, <2>4, BreakpointsAssumption DEF OnStopped, TypeOK
<1>15. CASE Continue
    BY <1>15 DEF Continue, TypeOK
<1>16. CASE Exited
    BY <1>16, BreakpointsAssumption DEF Exited, TypeOK
<1>17. CASE OnStoppedTell
    BY <1>17 DEF OnStoppedTell, Telling, Without, TypeOK
<1> QED
    BY <1>1, <1>2, <1>3, <1>4, <1>5, <1>6, <1>7, <1>8, <1>9, <1>10, <1>11, <1>12, <1>13,
       <1>14, <1>15, <1>16, <1>17 DEF Next

\* The session's variables keep their types.
THEOREM TypeCorrect == Spec => []TypeOK
<1>1. Init => TypeOK
    BY BreakpointsAssumption
       DEF Init, TypeOK, Targets, NoRequest, Request, Breakpoint, Record
<1>2. TypeOK /\ [Next]_vars => TypeOK'
    <2>1. CASE UNCHANGED vars
        BY <2>1 DEF TypeOK, vars, lldb, commands, process, client, listener
    <2> QED BY <2>1, TypesStep
<1> QED BY <1>1, <1>2, PTL DEF Spec

-----------------------------------------------------------------------------
(***************************************************************************)
(* The invariant is kept.  What follows from the types is said once.       *)
(***************************************************************************)
LEMMA Facts ==
    ASSUME TypeOK
    PROVE  /\ ntargets \in Nat /\ target \in Nat
           /\ nextid \in [Targets -> Nat]
           /\ target # NoTarget => target \in Targets
           /\ \A b \in breaks : b.target \in Targets /\ b.target \in Nat \ {0}
                               /\ b.id \in Nat \ {0} /\ nextid[b.target] \in Nat
           /\ \A r \in told \cup desc :
                  /\ r.target \in Nat /\ r.id \in Nat
                  /\ r.target # NoTarget => r.target \in Targets /\ nextid[r.target] \in Nat
           /\ ptarget \in Nat /\ hit \in Nat
           /\ ptarget # NoTarget => ptarget \in Targets /\ nextid[ptarget] \in Nat
<1> USE BreakpointsAssumption
<1>1. ntargets \in Nat /\ target \in Nat /\ (target # NoTarget => target \in Targets)
    BY DEF TypeOK, Targets
<1>2. nextid \in [Targets -> Nat]
    BY DEF TypeOK
<1>3. \A b \in breaks : b.target \in Targets /\ b.target \in Nat \ {0}
                         /\ b.id \in Nat \ {0} /\ nextid[b.target] \in Nat
    <2> SUFFICES ASSUME NEW b \in breaks
                 PROVE  b.target \in Targets /\ b.target \in Nat \ {0}
                        /\ b.id \in Nat \ {0} /\ nextid[b.target] \in Nat
        OBVIOUS
    <2>1. b \in Breakpoint
        BY DEF TypeOK
    <2> QED BY <1>2, <2>1 DEF Breakpoint, Targets
<1>4. \A r \in told \cup desc :
          /\ r.target \in Nat /\ r.id \in Nat
          /\ r.target # NoTarget => r.target \in Targets /\ nextid[r.target] \in Nat
    <2> SUFFICES ASSUME NEW r \in told \cup desc
                 PROVE  /\ r.target \in Nat /\ r.id \in Nat
                        /\ r.target # NoTarget => r.target \in Targets
                                                  /\ nextid[r.target] \in Nat
        OBVIOUS
    <2>1. r \in Record
        BY DEF TypeOK
    <2> QED BY <1>2, <2>1 DEF Record, Targets
<1>5. /\ ptarget \in Nat /\ hit \in Nat
      /\ ptarget # NoTarget => ptarget \in Targets /\ nextid[ptarget] \in Nat
    BY <1>2 DEF TypeOK, Targets
<1> QED BY <1>1, <1>2, <1>3, <1>4, <1>5

\* A target's numbers are used up in their order.
LEMMA NumbersGrow ==
    ASSUME TypeOK, Create, NEW t \in Targets
    PROVE  /\ nextid[t] \in Nat /\ nextid'[t] \in Nat
           /\ nextid[t] <= nextid'[t]
           /\ t = target => nextid'[t] = nextid[t] + 1
<1>1. nextid \in [Targets -> Nat] /\ NoTarget \notin Targets
    BY Facts DEF Targets
<1>2. CASE target = NoTarget
    BY <1>1, <1>2, Creation
<1>3. CASE target # NoTarget
    <2>1. nextid' = [nextid EXCEPT ![target] = @ + 1]
        BY <1>3, Creation
    <2> QED BY <1>1, <2>1
<1> QED BY <1>2, <1>3

\* A new target is one that nothing refers to yet.
LEMMA NewTarget ==
    ASSUME IInv, pc = "idle", (target' = NoTarget /\ ntargets' = ntargets) \/ CreateTarget,
           UNCHANGED <<lldb, commands, client, listener>>,
           UNCHANGED process \/ pstate' # "hit"
    PROVE  (Numbered /\ OneEach /\ Inserting /\ ClientKnows /\ Exist)'
<1> USE DEF lldb, commands, process, client, listener, IInv
<1>1. Numbered'
    <2>1. target' <= ntargets' /\ ntargets <= ntargets' /\ ntargets' \in Nat
        BY Facts DEF CreateTarget
    <2>2. \A b \in breaks : b.target <= ntargets' /\ b.id < nextid[b.target]
        BY <2>1, Facts DEF Numbered
    <2>3. \A r \in told \cup desc : IF r.target = NoTarget THEN r.id = NoNumber
                                    ELSE r.target <= ntargets' /\ r.id < nextid[r.target]
        BY <2>1, Facts DEF Numbered
    <2>4. pstate' = "hit" => ptarget' # NoTarget /\ ptarget' <= ntargets'
                             /\ hit' < nextid[ptarget']
        BY <2>1, Facts DEF Numbered
    <2> QED BY <2>1, <2>2, <2>3, <2>4 DEF Numbered
<1>2. OneEach'
    BY DEF OneEach
<1>3. Inserting'
    BY DEF Inserting
<1>4. \A b \in breaks : b.target # target'
    BY Facts DEF Numbered, CreateTarget
<1>5. ClientKnows'
    BY <1>4 DEF ClientKnows
<1>6. \A r \in told : r.target # target'
    BY Facts DEF Numbered, CreateTarget
<1>7. Exist'
    BY <1>6 DEF Exist
<1> QED BY <1>1, <1>2, <1>3, <1>5, <1>7

\* What a creation leaves of the invariant: the new number is one that
\* nothing has come up with yet.
LEMMA CreateStep ==
    ASSUME IInv, Create, UNCHANGED <<target, ntargets, process, desc>>
    PROVE  /\ \A b \in breaks : ~(b.target = target /\ b.id = NewNumber)
           /\ target # NoTarget => Unseen(NewNumber)
           /\ \A b, c \in breaks' : b.target = c.target /\ b.id = c.id => b = c
           /\ told' = told => Numbered'
<1> USE DEF IInv, process
<1>1. CASE target = NoTarget
    <2>1. breaks' = breaks /\ nextid' = nextid
        BY <1>1, Creation
    <2>2. \A b \in breaks : b.target # target
        BY <1>1, Facts
    <2> QED BY <1>1, <2>1, <2>2 DEF Numbered, OneEach
<1>2. CASE target # NoTarget
    <2> DEFINE new == [target |-> target, id |-> NewNumber, enabled |-> TRUE, oneshot |-> FALSE]
    <2>1. /\ target \in Targets /\ NewNumber = nextid[target] /\ breaks' = breaks \cup {new}
          /\ NewNumber \in Nat
        BY <1>2, Creation, Facts
    <2>2. new.target = target /\ new.id = NewNumber
        OBVIOUS
    <2> HIDE DEF new
    <2>3. \A t \in Targets : /\ nextid[t] \in Nat /\ nextid'[t] \in Nat
                             /\ nextid[t] <= nextid'[t]
                             /\ t = target => nextid'[t] = NewNumber + 1
        BY <2>1, NumbersGrow
    <2>4. \A b \in breaks : ~(b.target = target /\ b.id = NewNumber)
        BY <2>1, Facts DEF Numbered
    <2>5. Unseen(NewNumber)
        <3>1. \A r \in told \cup desc : r.target = target => r.id < nextid[target]
            BY <1>2 DEF Numbered
        <3>2. pstate = "hit" /\ ptarget = target => hit < nextid[target]
            BY DEF Numbered
        <3> QED BY <2>1, <3>1, <3>2, Facts DEF Unseen
    <2>6. \A b, c \in breaks' : b.target = c.target /\ b.id = c.id => b = c
        BY <2>1, <2>2, <2>4 DEF OneEach
    <2>7. ASSUME told' = told PROVE Numbered'
        <3>1. \A b \in breaks' : b.target <= ntargets /\ b.id < nextid'[b.target]
            BY <2>1, <2>2, <2>3, Facts DEF Numbered
        <3>2. \A r \in told \cup desc : IF r.target = NoTarget THEN r.id = NoNumber
                                        ELSE r.target <= ntargets /\ r.id < nextid'[r.target]
            BY <2>3, Facts DEF Numbered
        <3>3. pstate = "hit" => ptarget # NoTarget /\ ptarget <= ntargets /\ hit < nextid'[ptarget]
            BY <2>3, Facts DEF Numbered
        <3> QED BY <2>7, <3>1, <3>2, <3>3 DEF Numbered
    <2> QED BY <2>4, <2>5, <2>6, <2>7
<1> QED BY <1>1, <1>2

\* -break-insert
LEMMA InsertStep ==
    ASSUME IInv, BreakInsert
    PROVE  (Numbered /\ OneEach /\ Inserting /\ ClientKnows /\ Exist)'
<1> DEFINE new == [target |-> target, id |-> NewNumber, enabled |-> TRUE, oneshot |-> FALSE]
<1>1. /\ pc = "idle" /\ pc' = "created" /\ Create
      /\ request'.id = NewNumber
      /\ UNCHANGED <<target, ntargets, process, told, desc, misdeleted, late>>
    BY DEF BreakInsert, client, listener
<1>2. Numbered'
    BY <1>1, CreateStep
<1>3. OneEach'
    BY <1>1, CreateStep DEF IInv, OneEach
<1>4. Inserting'
    <2>1. CASE target = NoTarget
        BY <1>1, <2>1 DEF Inserting, NewNumber
    <2>2. CASE target # NoTarget
        <3>1. new \in breaks'
            BY <1>1, <2>2, Creation DEF IInv
        <3>2. Unseen(NewNumber)
            BY <1>1, <2>2, CreateStep
        <3>3. Unseen(request.id)'
            BY <1>1, <3>2 DEF Unseen, process
        <3> QED BY <1>1, <2>2, <3>1, <3>3 DEF Inserting
    <2> QED BY <2>1, <2>2
<1>5. \A b \in breaks' : b \in breaks \/ b = new
    BY <1>1, Creation DEF IInv
<1>6. ClientKnows'
    BY <1>1, <1>5 DEF IInv, ClientKnows
<1>7. breaks \subseteq breaks'
    BY <1>1, Creation DEF IInv
<1>8. Exist'
    BY <1>1, <1>7 DEF IInv, Exist
<1> QED BY <1>2, <1>3, <1>4, <1>6, <1>8

\* LLDB's operations on the breakpoint of a number are about that one only,
LEMMA OnlyOne ==
    ASSUME TypeOK, OneEach, NEW x \in breaks, x.target = target, NEW e \in BOOLEAN
    PROVE  /\ Without(target, x.id) = breaks \ {x}
           /\ Enabling(breaks, x.id, e) = (breaks \ {x}) \cup {[x EXCEPT !.enabled = e]}
           /\ {IF b.target = target /\ b.id = x.id THEN [b EXCEPT !.oneshot = e] ELSE b :
                    b \in breaks} = (breaks \ {x}) \cup {[x EXCEPT !.oneshot = e]}
<1>1. \A b \in breaks : b.target = target /\ b.id = x.id <=> b = x
    BY DEF OneEach
<1> DEFINE on == [x EXCEPT !.enabled = e]
           once == [x EXCEPT !.oneshot = e]
<1>2. {IF b = x THEN on ELSE b : b \in breaks} = (breaks \ {x}) \cup {on}
    <2> HIDE DEF on
    <2> QED OBVIOUS
<1>3. {IF b = x THEN once ELSE b : b \in breaks} = (breaks \ {x}) \cup {once}
    <2> HIDE DEF once
    <2> QED OBVIOUS
<1>4. Enabling(breaks, x.id, e) = {IF b = x THEN on ELSE b : b \in breaks}
    BY <1>1, Zenon DEF Enabling
<1>5. {IF b.target = target /\ b.id = x.id THEN [b EXCEPT !.oneshot = e] ELSE b :
           b \in breaks} = {IF b = x THEN once ELSE b : b \in breaks}
    BY <1>1, Zenon
<1>6. Without(target, x.id) = breaks \ {x}
    BY <1>1 DEF Without
<1> QED BY <1>2, <1>3, <1>4, <1>5, <1>6

\* and without one of that number they do nothing.
LEMMA NoneSuch ==
    ASSUME NEW n, \A b \in breaks : ~(b.target = target /\ b.id = n), NEW e
    PROVE  /\ Without(target, n) = breaks
           /\ Enabling(breaks, n, e) = breaks
           /\ {IF b.target = target /\ b.id = n THEN [b EXCEPT !.oneshot = e] ELSE b :
                    b \in breaks} = breaks
BY Zenon DEF Without, Enabling

\* the second and the third step of -break-insert
LEMMA EnableStep ==
    ASSUME IInv, BreakInsertEnable
    PROVE  (Numbered /\ OneEach /\ Inserting /\ ClientKnows /\ Exist)'
<1>1. /\ pc = "created" /\ pc' = "enabled" /\ breaks' = Enabling(breaks, request.id, request.enabled)
      /\ UNCHANGED <<target, ntargets, nextid, request, told, misdeleted, desc, late,
                     ptarget, pstate, hit>>
    BY DEF BreakInsertEnable, process, client, listener
<1>2. request.enabled \in BOOLEAN
    BY DEF IInv, TypeOK, Request
<1>3. Unseen(request.id)' <=> Unseen(request.id)
    BY <1>1 DEF Unseen
<1>4. CASE target = NoTarget
    <2>1. \A b \in breaks : b.target # target
        BY <1>4, Facts DEF IInv
    <2>2. breaks' = breaks
        BY <1>1, <2>1, NoneSuch
    <2> QED BY <1>1, <1>4, <2>1, <2>2
            DEF IInv, Numbered, OneEach, Inserting, ClientKnows, Exist
<1>5. CASE target # NoTarget
    <2> DEFINE x == [target |-> target, id |-> request.id, oneshot |-> FALSE, enabled |-> TRUE]
               y == [target |-> target, id |-> request.id, oneshot |-> FALSE,
                     enabled |-> request.enabled]
    <2>1. x \in breaks /\ (request.kept \/ Unseen(request.id))
        BY <1>1, <1>5 DEF IInv, Inserting
    <2>2. x.target = target /\ x.id = request.id /\ y.target = target /\ y.id = request.id
          /\ ~x.oneshot /\ ~y.oneshot /\ [x EXCEPT !.enabled = request.enabled] = y
        <3>1. x \in Breakpoint
            BY <2>1 DEF IInv, TypeOK
        <3>2. [x EXCEPT !.enabled = request.enabled] =
                  [target |-> x.target, id |-> x.id, enabled |-> request.enabled,
                   oneshot |-> x.oneshot]
            BY <1>2, <3>1, Flags
        <3> QED BY <3>2
    <2>3. Inserting' <=> y \in breaks' /\ (request.kept \/ Unseen(request.id))
        BY <1>1, <1>3, <1>5 DEF Inserting
    <2> HIDE DEF x, y
    <2>4. breaks' = (breaks \ {x}) \cup {y}
        BY <1>1, <1>2, <2>1, <2>2, OnlyOne DEF IInv
    <2>5. Inserting'
        BY <2>1, <2>3, <2>4
    <2>6. Numbered'
        BY <1>1, <2>1, <2>2, <2>4 DEF IInv, Numbered
    <2>7. OneEach'
        BY <1>1, <2>1, <2>2, <2>4 DEF IInv, OneEach
    <2>8. ClientKnows'
        BY <1>1, <2>2, <2>4 DEF IInv, ClientKnows
    <2>9. Exist'
        BY <1>1, <2>1, <2>2, <2>4 DEF IInv, Exist
    <2> QED BY <2>5, <2>6, <2>7, <2>8, <2>9
<1> QED BY <1>4, <1>5

LEMMA FinishStep ==
    ASSUME IInv, BreakInsertFinish
    PROVE  (Numbered /\ OneEach /\ Inserting /\ ClientKnows /\ Exist)'
<1> DEFINE x == [target |-> target, id |-> request.id, oneshot |-> FALSE,
                 enabled |-> request.enabled]
           z == [target |-> target, id |-> request.id,
                 enabled |-> request.enabled, oneshot |-> request.oneshot]
           f == Formatted(target, request.id, request.oneshot)
<1>1. /\ pc = "enabled" /\ pc' = "idle"
      /\ UNCHANGED <<target, ntargets, nextid, misdeleted, desc, late, ptarget, pstate, hit>>
      /\ request.kept => /\ told' = {s \in told : s.id # f.id} \cup {s \in {f} : s.id # NoNumber}
                         /\ breaks' = {IF b.target = target /\ b.id = request.id
                                       THEN [b EXCEPT !.oneshot = request.oneshot] ELSE b : b \in breaks}
      /\ ~request.kept => breaks' = Without(target, request.id) /\ told' = told
    BY DEF BreakInsertFinish, BreakInsertDone, BreakInsertKeep, Telling, process, listener
<1>2. request.oneshot \in BOOLEAN
    BY DEF IInv, TypeOK, Request
<1>3. /\ x.target = target /\ x.id = request.id /\ z.target = target /\ z.id = request.id
      /\ z.oneshot = request.oneshot /\ z.enabled = request.enabled /\ ~x.oneshot
      /\ [x EXCEPT !.oneshot = request.oneshot] = z
      /\ f.target = target /\ f.id = request.id /\ f.enabled /\ f.oneshot = request.oneshot
    BY DEF Formatted
<1>4. IF target = NoTarget THEN request.id = NoNumber
      ELSE x \in breaks /\ (request.kept \/ Unseen(request.id))
    BY <1>1 DEF IInv, Inserting
<1> HIDE DEF x, z, f
<1>5. Inserting'
    BY <1>1 DEF Inserting
<1>6. CASE target = NoTarget
    <2>1. \A b \in breaks : b.target # target
        BY <1>6, Facts DEF IInv
    <2>2. breaks' = breaks
        BY <1>1, <2>1, NoneSuch
    <2>3. told' \subseteq told
        BY <1>1, <1>3, <1>4, <1>6
    <2>4. Numbered' /\ OneEach'
        BY <1>1, <2>2, <2>3 DEF IInv, Numbered, OneEach
    <2>5. ClientKnows'
        BY <1>1, <2>1, <2>2 DEF ClientKnows
    <2>6. Exist'
        BY <1>1, <1>6, <2>3 DEF IInv, Numbered, Exist
    <2> QED BY <1>5, <2>4, <2>5, <2>6
<1>7. CASE target # NoTarget /\ request.kept
    <2>1. /\ told' = {s \in told : s.id # f.id} \cup {f}
          /\ breaks' = (breaks \ {x}) \cup {z}
        <3>1. request.id # NoNumber
            BY <1>3, <1>4, <1>7, Facts DEF IInv
        <3>2. breaks' = (breaks \ {x}) \cup {z}
            BY <1>1, <1>2, <1>3, <1>4, <1>7, OnlyOne DEF IInv
        <3> QED BY <1>1, <1>3, <1>7, <3>1, <3>2
    <2>2. \A b \in breaks \ {x} : ~(b.target = target /\ b.id = request.id)
        BY <1>3, <1>4, <1>7 DEF IInv, OneEach
    <2>3. Numbered'
        <3>1. z.target <= ntargets /\ z.id < nextid[z.target]
            BY <1>3, <1>4, <1>7 DEF IInv, Numbered
        <3> QED BY <1>1, <1>3, <1>7, <2>1, <3>1 DEF IInv, Numbered
    <2>4. OneEach'
        <3>1. \A b, c \in breaks' : b.target = c.target /\ b.id = c.id => b = c
            BY <1>3, <2>1, <2>2 DEF IInv, OneEach
        <3>2. \A r, s \in told' : r.id = s.id => r = s
            BY <2>1 DEF IInv, OneEach
        <3> QED BY <3>1, <3>2 DEF OneEach
    <2>5. ClientKnows'
        <3> SUFFICES ASSUME NEW b \in breaks', b.target = target
                     PROVE  \E r \in told' : /\ r.id = b.id
                                             /\ r.target = target =>
                                                  /\ b.enabled => r.enabled
                                                  /\ \/ r.oneshot = b.oneshot
                                                     \/ <<target, b.id>> \in late
            BY <1>1 DEF ClientKnows
        <3>1. CASE b = z
            BY <1>3, <2>1, <3>1
        <3>2. CASE b \in breaks \ {x}
            <4>1. b.id # request.id
                BY <2>2, <3>2
            <4>2. PICK r \in told : /\ r.id = b.id
                                    /\ r.target = target =>
                                         /\ b.enabled => r.enabled
                                         /\ r.oneshot = b.oneshot \/ <<target, b.id>> \in late
                BY <3>2, <4>1 DEF IInv, ClientKnows
            <4>3. r \in told'
                BY <1>3, <2>1, <4>1, <4>2
            <4> QED BY <4>2, <4>3
        <3> QED BY <2>1, <3>1, <3>2
    <2>6. Exist'
        <3> SUFFICES ASSUME NEW r \in told', r.target = target, ~r.oneshot,
                            <<r.target, r.id>> \notin misdeleted \cup late
                     PROVE  \E b \in breaks' : b.target = target /\ b.id = r.id /\ ~b.oneshot
            BY <1>1 DEF Exist
        <3>1. CASE r = f
            BY <1>3, <2>1, <3>1
        <3>2. CASE r \in told /\ r.id # request.id
            <4>1. PICK b \in breaks : b.target = target /\ b.id = r.id /\ ~b.oneshot
                BY <3>2 DEF IInv, Exist
            <4> QED BY <1>3, <2>1, <3>2, <4>1
        <3> QED BY <1>3, <2>1, <3>1, <3>2
    <2> QED BY <1>5, <2>3, <2>4, <2>5, <2>6
<1>8. CASE target # NoTarget /\ ~request.kept
    <2>1. told' = told /\ breaks' = breaks \ {x}
        BY <1>1, <1>2, <1>3, <1>4, <1>8, OnlyOne DEF IInv
    <2>2. \A b \in breaks \ {x} : ~(b.target = target /\ b.id = request.id)
        BY <1>3, <1>4, <1>8 DEF IInv, OneEach
    <2>3. Numbered' /\ OneEach'
        BY <1>1, <2>1 DEF IInv, Numbered, OneEach
    <2>4. ClientKnows'
        BY <1>1, <2>1, <2>2 DEF IInv, ClientKnows
    <2>5. \A r \in told : ~(r.target = target /\ r.id = request.id)
        BY <1>4, <1>8 DEF Unseen
    <2>6. Exist'
        BY <1>1, <1>3, <2>1, <2>5 DEF IInv, Exist
    <2> QED BY <1>5, <2>3, <2>4, <2>6
<1> QED BY <1>6, <1>7, <1>8

\* catch: the same as an insertion, told at once
LEMMA CatchStep ==
    ASSUME IInv, Catch
    PROVE  (Numbered /\ OneEach /\ Inserting /\ ClientKnows /\ Exist)'
<1> DEFINE new == [target |-> target, id |-> NewNumber, enabled |-> TRUE, oneshot |-> FALSE]
<1>1. /\ pc = "idle" /\ pc' = "idle" /\ Create
      /\ UNCHANGED <<target, ntargets, process, misdeleted, desc, late>>
      /\ told' = {s \in told : s.id # new.id} \cup {s \in {new} : s.id # NoNumber}
    BY DEF Catch, commands, Telling, Formatted, listener
<1>2. /\ new.target = target /\ new.id = NewNumber /\ new.enabled /\ ~new.oneshot
      /\ target = NoTarget => NewNumber = NoNumber
    BY DEF NewNumber
<1>3. \/ target = NoTarget /\ breaks' = breaks /\ nextid' = nextid
      \/ /\ target # NoTarget /\ target \in Targets /\ NewNumber = nextid[target]
         /\ NewNumber # NoNumber /\ breaks' = breaks \cup {new}
    BY <1>1, Creation DEF IInv
<1> HIDE DEF new
<1>4. \A t \in Targets : /\ nextid[t] \in Nat /\ nextid'[t] \in Nat
                         /\ nextid[t] <= nextid'[t]
                         /\ t = target => nextid'[t] = nextid[t] + 1
    <2>1. TypeOK /\ Create
        BY <1>1 DEF IInv
    <2> QED BY <2>1, NumbersGrow
<1>5. \A b \in breaks : ~(b.target = target /\ b.id = NewNumber)
    BY <1>1, CreateStep
<1>6. Numbered'
    <2>1. \A b \in breaks : b.target <= ntargets /\ b.id < nextid'[b.target]
        BY <1>4, Facts DEF IInv, Numbered
    <2>2. \A r \in told \cup desc : IF r.target = NoTarget THEN r.id = NoNumber
                                    ELSE r.target <= ntargets /\ r.id < nextid'[r.target]
        BY <1>4, Facts DEF IInv, Numbered
    <2>3. new.target <= ntargets /\ (new.target # NoTarget => new.id < nextid'[new.target])
        BY <1>2, <1>3, <1>4 DEF IInv, Numbered
    <2>4. \A b \in breaks' : b \in breaks \/ (b = new /\ target # NoTarget)
        BY <1>3
    <2>5. \A r \in told' : r \in told \/ (r = new /\ target # NoTarget)
        BY <1>1, <1>2
    <2>6. pstate = "hit" => ptarget # NoTarget /\ ptarget <= ntargets /\ hit < nextid'[ptarget]
        BY <1>4, Facts DEF IInv, Numbered
    <2> QED BY <1>1, <1>2, <2>1, <2>2, <2>3, <2>4, <2>5, <2>6 DEF IInv, Numbered, process
<1>7. OneEach'
    <2>1. \A b, c \in breaks' : b.target = c.target /\ b.id = c.id => b = c
        BY <1>1, CreateStep
    <2>2. \A r, s \in told' : r.id = s.id => r = s
        BY <1>1 DEF IInv, OneEach
    <2> QED BY <2>1, <2>2 DEF OneEach
<1>8. Inserting'
    BY <1>1 DEF Inserting
<1>9. ClientKnows'
    <2> SUFFICES ASSUME NEW b \in breaks', b.target = target
                 PROVE  \E r \in told' : /\ r.id = b.id
                                         /\ r.target = target =>
                                              /\ b.enabled => r.enabled
                                              /\ \/ r.oneshot = b.oneshot
                                                 \/ <<target, b.id>> \in late
        BY <1>1 DEF ClientKnows
    <2>1. CASE b \notin breaks
        BY <1>1, <1>2, <1>3, <2>1
    <2>2. CASE b \in breaks
        <3>1. b.id # NewNumber
            BY <1>5, <2>2
        <3>2. PICK r \in told : /\ r.id = b.id
                                /\ r.target = target =>
                                     /\ b.enabled => r.enabled
                                     /\ r.oneshot = b.oneshot \/ <<target, b.id>> \in late
            BY <1>1, <2>2 DEF IInv, ClientKnows
        <3> QED BY <1>1, <1>2, <3>1, <3>2
    <2> QED BY <2>1, <2>2
<1>10. Exist'
    <2> SUFFICES ASSUME NEW r \in told', r.target = target, ~r.oneshot,
                        <<r.target, r.id>> \notin misdeleted \cup late
                 PROVE  \E b \in breaks' : b.target = target /\ b.id = r.id /\ ~b.oneshot
        BY <1>1 DEF Exist
    <2>1. CASE r \in told
        BY <1>3, <2>1 DEF IInv, Exist
    <2>2. CASE r \notin told
        BY <1>1, <1>2, <1>3, <2>2
    <2> QED BY <2>1, <2>2
<1> QED BY <1>6, <1>7, <1>8, <1>9, <1>10

\* -break-delete of a breakpoint's number, which leaves the others alone,
LEMMA DeleteStep ==
    ASSUME IInv, BreakDelete
    PROVE  (Numbered /\ OneEach /\ Inserting /\ ClientKnows /\ Exist)'
<1>1. PICK r \in told :
          /\ pc = "idle" /\ pc' = "idle"
          /\ breaks' = Without(target, r.id) /\ told' = told \ {r}
          /\ UNCHANGED <<target, ntargets, nextid, misdeleted, late, desc, ptarget, pstate, hit>>
    BY DEF BreakDelete, commands, process, listener
<1>2. \A b \in breaks : b \in breaks' <=> ~(b.target = target /\ b.id = r.id)
    BY <1>1 DEF Without
<1>3. breaks' \subseteq breaks
    BY <1>1 DEF Without
<1>4. Numbered' /\ OneEach'
    BY <1>1, <1>3 DEF IInv, Numbered, OneEach
<1>5. Inserting'
    BY <1>1 DEF Inserting
<1>6. ClientKnows'
    BY <1>1, <1>2, <1>3 DEF IInv, ClientKnows
<1>7. \A s \in told \ {r} : s.id # r.id
    BY <1>1 DEF IInv, OneEach
<1>8. Exist'
    BY <1>1, <1>2, <1>7 DEF IInv, Exist
<1> QED BY <1>4, <1>5, <1>6, <1>8

\* and of a watchpoint's number, which is recorded as what it is.
LEMMA WatchDeleteStep ==
    ASSUME IInv, WatchDelete
    PROVE  (Numbered /\ OneEach /\ Inserting /\ ClientKnows /\ Exist)'
<1>1. PICK w \in toldwatches :
          /\ pc = "idle" /\ pc' = "idle"
          /\ breaks' = Without(target, w) /\ told' = told
          /\ misdeleted' = misdeleted \cup {<<target, w>>}
          /\ UNCHANGED <<target, ntargets, nextid, late, desc, ptarget, pstate, hit>>
    BY DEF WatchDelete, commands, process, listener
<1>2. \A b \in breaks : b \in breaks' <=> ~(b.target = target /\ b.id = w)
    BY <1>1 DEF Without
<1>3. breaks' \subseteq breaks
    BY <1>1 DEF Without
<1>4. Numbered' /\ OneEach'
    BY <1>1, <1>3 DEF IInv, Numbered, OneEach
<1>5. Inserting' /\ ClientKnows'
    BY <1>1, <1>3 DEF IInv, Inserting, ClientKnows
<1>6. Exist'
    BY <1>1, <1>2 DEF IInv, Exist
<1> QED BY <1>4, <1>5, <1>6

\* -break-enable and -break-disable
LEMMA BreakEnableStep ==
    ASSUME IInv, BreakEnable
    PROVE  (Numbered /\ OneEach /\ Inserting /\ ClientKnows /\ Exist)'
<1>1. PICK r \in told, e \in BOOLEAN :
          /\ pc = "idle" /\ pc' = "idle"
          /\ breaks' = Enabling(breaks, r.id, e)
          /\ told' = (told \ {r}) \cup {[r EXCEPT !.enabled = e]}
          /\ UNCHANGED <<target, ntargets, nextid, misdeleted, late, desc, ptarget, pstate, hit>>
    BY DEF BreakEnable, commands, process, listener
<1> DEFINE s == [r EXCEPT !.enabled = e]
<1>2. s.target = r.target /\ s.id = r.id /\ s.oneshot = r.oneshot /\ s.enabled = e
    <2>1. r \in Record
        BY DEF IInv, TypeOK
    <2>2. s = [target |-> r.target, id |-> r.id, enabled |-> e, oneshot |-> r.oneshot]
        BY <2>1, Flags
    <2> QED BY <2>2
<1> HIDE DEF s
<1>3. told' = (told \ {r}) \cup {s}
    BY <1>1 DEF s
<1>4. \A t \in told \ {r} : t.id # r.id
    BY DEF IInv, OneEach
<1>5. Inserting'
    BY <1>1 DEF Inserting
<1>6. \A t, u \in told' : t.id = u.id => t = u
    BY <1>2, <1>3, <1>4 DEF IInv, OneEach
<1>7. /\ \A t \in told' : t.target # NoTarget
      /\ \A t \in told' \cup desc : IF t.target = NoTarget THEN t.id = NoNumber
                                    ELSE t.target <= ntargets /\ t.id < nextid[t.target]
    BY <1>2, <1>3 DEF IInv, Numbered
<1>8. CASE \E b \in breaks : b.target = target /\ b.id = r.id
    <2>1. PICK b \in breaks : b.target = target /\ b.id = r.id
        BY <1>8
    <2> DEFINE c == [b EXCEPT !.enabled = e]
    <2>2. c.target = target /\ c.id = r.id /\ c.oneshot = b.oneshot /\ c.enabled = e
        <3>1. b \in Breakpoint
            BY DEF IInv, TypeOK
        <3>2. c = [target |-> b.target, id |-> b.id, enabled |-> e, oneshot |-> b.oneshot]
            BY <3>1, Flags
        <3> QED BY <2>1, <3>2
    <2>3. breaks' = (breaks \ {b}) \cup {c}
        BY <1>1, <2>1, OnlyOne DEF IInv
    <2> HIDE DEF c
    <2>4. \A d \in breaks \ {b} : ~(d.target = target /\ d.id = r.id)
        BY <2>1 DEF IInv, OneEach
    <2>5. Numbered'
        BY <1>1, <1>7, <2>1, <2>2, <2>3 DEF IInv, Numbered
    <2>6. OneEach'
        BY <1>6, <2>1, <2>2, <2>3, <2>4 DEF IInv, OneEach
    <2>7. ClientKnows'
        <3> SUFFICES ASSUME NEW d \in breaks', d.target = target
                     PROVE  \E t \in told' : /\ t.id = d.id
                                             /\ t.target = target =>
                                                  /\ d.enabled => t.enabled
                                                  /\ \/ t.oneshot = d.oneshot
                                                     \/ <<target, d.id>> \in late
            BY <1>1 DEF ClientKnows
        <3>1. PICK x \in breaks : x.target = target /\ x.id = d.id /\ x.oneshot = d.oneshot
                                  /\ (d.id # r.id => x = d)
            BY <2>1, <2>2, <2>3
        <3>2. PICK t \in told : /\ t.id = x.id
                                /\ t.target = target =>
                                     /\ x.enabled => t.enabled
                                     /\ t.oneshot = x.oneshot \/ <<target, x.id>> \in late
            BY <1>1, <3>1 DEF IInv, ClientKnows
        <3>3. CASE d.id = r.id
            <4>1. t = r /\ d = c
                BY <2>3, <2>4, <3>1, <3>2, <3>3 DEF IInv, OneEach
            <4> QED BY <1>2, <1>3, <2>2, <3>1, <3>2, <4>1
        <3>4. CASE d.id # r.id
            BY <1>3, <3>1, <3>2, <3>4
        <3> QED BY <3>3, <3>4
    <2>8. Exist'
        <3> SUFFICES ASSUME NEW t \in told', t.target = target, ~t.oneshot,
                            <<t.target, t.id>> \notin misdeleted \cup late
                     PROVE  \E d \in breaks' : d.target = target /\ d.id = t.id /\ ~d.oneshot
            BY <1>1 DEF Exist
        <3>1. PICK u \in told : u.target = t.target /\ u.id = t.id /\ u.oneshot = t.oneshot
            BY <1>2, <1>3
        <3>2. PICK d \in breaks : d.target = target /\ d.id = t.id /\ ~d.oneshot
            BY <3>1 DEF IInv, Exist
        <3> QED BY <2>2, <2>3, <2>1, <3>2
    <2> QED BY <1>5, <2>5, <2>6, <2>7, <2>8
<1>9. CASE \A b \in breaks : ~(b.target = target /\ b.id = r.id)
    <2>1. breaks' = breaks
        BY <1>1, <1>9, NoneSuch
    <2>2. Numbered'
        BY <1>1, <1>7, <2>1 DEF IInv, Numbered
    <2>3. OneEach'
        BY <1>6, <2>1 DEF IInv, OneEach
    <2>4. ClientKnows'
        BY <1>1, <1>3, <1>9, <2>1 DEF IInv, ClientKnows
    <2>5. Exist'
        BY <1>1, <1>2, <1>3, <1>9, <2>1 DEF IInv, Exist
    <2> QED BY <1>5, <2>2, <2>3, <2>4, <2>5
<1> QED BY <1>8, <1>9

\* A hit takes away no more than a one-shot breakpoint, and none that is
\* being inserted.
LEMMA HitStep ==
    ASSUME IInv, Hit
    PROVE  (Numbered /\ OneEach /\ Inserting /\ ClientKnows /\ Exist)'
<1>1. PICK x \in breaks :
          /\ x.target = ptarget /\ hit' = x.id
          /\ pc # "idle" /\ x.target = target /\ x.id = request.id => request.kept
          /\ UNCHANGED <<target, ntargets, nextid, pc, request, told, misdeleted, late, desc, ptarget>>
          /\ pstate = "running"
          /\ breaks' \subseteq breaks /\ \A b \in breaks : ~b.oneshot => b \in breaks'
    BY DEF Hit, commands, client, listener
<1>2. Numbered'
    <2>1. ptarget # NoTarget /\ ptarget <= ntargets /\ hit' < nextid[ptarget]
        BY <1>1, Facts DEF IInv, Numbered
    <2> QED BY <1>1, <2>1 DEF IInv, Numbered
<1>3. OneEach' /\ ClientKnows'
    BY <1>1 DEF IInv, OneEach, ClientKnows
<1>4. Inserting'
    <2>1. pc # "idle" /\ Unseen(request.id) /\ ~request.kept => Unseen(request.id)'
        BY <1>1 DEF Unseen
    <2> QED BY <1>1, <2>1 DEF IInv, Inserting
<1>5. Exist'
    BY <1>1 DEF IInv, Exist
<1> QED BY <1>2, <1>3, <1>4, <1>5

\* onStopped describes what was hit.
LEMMA OnStoppedStep ==
    ASSUME IInv, OnStopped
    PROVE  (Numbered /\ OneEach /\ Inserting /\ ClientKnows /\ Exist)'
<1>1. /\ UNCHANGED <<target, ntargets, nextid, pc, request, misdeleted, late, breaks, told>>
      /\ pstate = "hit" /\ pstate' = "stopped"
    BY DEF OnStopped, commands, lldb, client
<1>2. \A r \in desc' : \/ r.target = ptarget /\ r.id = hit
                       \/ r.target = NoTarget /\ r.id = NoNumber
    BY DEF OnStopped, Described, Formatted
<1>3. ptarget # NoTarget /\ ptarget <= ntargets /\ hit < nextid[ptarget]
    BY <1>1 DEF IInv, Numbered
<1>4. Numbered'
    BY <1>1, <1>2, <1>3 DEF IInv, Numbered
<1>5. target # NoTarget /\ Unseen(request.id) => Unseen(request.id)'
    BY <1>1, <1>2 DEF Unseen
<1>6. Inserting'
    BY <1>1, <1>5 DEF IInv, Inserting
<1>7. OneEach' /\ ClientKnows' /\ Exist'
    BY <1>1 DEF IInv, OneEach, ClientKnows, Exist
<1> QED BY <1>4, <1>6, <1>7

\* It prints the record, and deletes breakpoint 0, which does not exist.
LEMMA OnStoppedTellStep ==
    ASSUME IInv, OnStoppedTell
    PROVE  /\ breaks' = breaks
           /\ (Numbered /\ OneEach /\ Inserting /\ ClientKnows /\ Exist)'
<1>1. PICK r \in desc :
          /\ UNCHANGED <<target, ntargets, nextid, pc, request, misdeleted, ptarget, pstate, hit>>
          /\ desc' = {} /\ late' = late \cup Outdated(r)
          /\ \/ breaks' = Without(r.target, NoNumber)
                /\ told' = {s \in Telling(r) : s.id # NoNumber}
             \/ breaks' = breaks /\ told' = Telling(r)
    BY DEF OnStoppedTell, commands, process
<1>2. \A b \in breaks : b.id # NoNumber
    BY Facts DEF IInv
<1>3. breaks' = breaks
    BY <1>1, <1>2 DEF Without
<1>4. /\ \A s \in told' : (s \in told /\ s.id # r.id) \/ (s = r /\ r.id # NoNumber)
      /\ \A s \in told : s.id # NoNumber /\ s.id # r.id => s \in told'
      /\ r.id # NoNumber => r \in told'
    <2>1. \A s : s \in Telling(r) <=> \/ s \in told /\ s.id # r.id
                                      \/ s = r /\ r.id # NoNumber
        BY DEF Telling
    <2>2. CASE told' = Telling(r)
        BY <2>1, <2>2
    <2>3. CASE told' = {s \in Telling(r) : s.id # NoNumber}
        BY <2>1, <2>3
    <2> QED BY <1>1, <2>2, <2>3
<1>5. Numbered'
    BY <1>1, <1>3, <1>4 DEF IInv, Numbered
<1>6. OneEach'
    BY <1>3, <1>4 DEF IInv, OneEach
<1>7. Unseen(request.id) => Unseen(request.id)'
    BY <1>1, <1>4 DEF Unseen
<1>8. Inserting'
    BY <1>1, <1>3, <1>7 DEF IInv, Inserting
<1>9. \/ <<r.target, r.id>> \in late'
      \/ \E b \in breaks : b.target = r.target /\ b.id = r.id /\ b.oneshot = r.oneshot
      \/ r.target # target \/ r.target = NoTarget
    BY <1>1 DEF Outdated
<1>10. ClientKnows'
    <2> SUFFICES ASSUME NEW b \in breaks, b.target = target, ~(pc # "idle" /\ b.id = request.id)
                 PROVE  \E s \in told' : /\ s.id = b.id
                                         /\ s.target = target =>
                                              /\ b.enabled => s.enabled
                                              /\ \/ s.oneshot = b.oneshot
                                                 \/ <<target, b.id>> \in late'
        BY <1>1, <1>3 DEF ClientKnows
    <2>1. CASE b.id = r.id
        <3>1. r \in told'
            BY <1>2, <1>4, <2>1
        <3>2. r.target = target => r.oneshot = b.oneshot \/ <<target, b.id>> \in late'
            BY <1>9, <2>1, Facts DEF IInv, OneEach
        <3>3. r.target = target /\ r.target # NoTarget => r.enabled
            BY <1>1 DEF IInv, DescEnabled
        <3>4. target # NoTarget
            BY Facts DEF IInv
        <3> QED BY <2>1, <3>1, <3>2, <3>3, <3>4
    <2>2. CASE b.id # r.id
        BY <1>1, <1>2, <1>4, <2>2 DEF IInv, ClientKnows
    <2> QED BY <2>1, <2>2
<1>11. Exist'
    <2> SUFFICES ASSUME NEW s \in told', s.target = target, ~s.oneshot,
                        <<s.target, s.id>> \notin misdeleted \cup late'
                 PROVE  \E b \in breaks : b.target = target /\ b.id = s.id /\ ~b.oneshot
        BY <1>1, <1>3 DEF Exist
    <2>1. CASE s = r
        <3>1. s.target # NoTarget
            BY <1>5 DEF Numbered
        <3> QED BY <1>9, <2>1, <3>1
    <2>2. CASE s \in told
        BY <1>1, <2>2 DEF IInv, Exist
    <2> QED BY <1>4, <2>1, <2>2
<1> QED BY <1>3, <1>5, <1>6, <1>8, <1>10, <1>11

\* -file-exec-and-symbols without a program
LEMMA ClearStep ==
    ASSUME IInv, ClearTarget
    PROVE  (Numbered /\ OneEach /\ Inserting /\ ClientKnows /\ Exist)'
<1>1. /\ target' = NoTarget /\ breaks' \subseteq breaks /\ pstate' # "hit"
      /\ pc = "idle" /\ UNCHANGED <<ntargets, nextid, told, misdeleted, desc, late, pc>>
    BY DEF ClearTarget, client, commands, listener
<1>2. \A b \in breaks : b.target # NoTarget
    BY Facts DEF IInv
<1>3. Numbered'
    BY <1>1, Facts DEF IInv, Numbered
<1>4. OneEach' /\ Inserting' /\ ClientKnows'
    BY <1>1, <1>2 DEF IInv, OneEach, Inserting, ClientKnows
<1>5. Exist'
    BY <1>1 DEF IInv, Numbered, Exist
<1> QED BY <1>3, <1>4, <1>5

\* Every step keeps the invariant.
LEMMA InvariantStep ==
    ASSUME IInv, [Next]_vars
    PROVE  IInv'
<1>1. TypeOK'
    <2>1. CASE UNCHANGED vars
        BY <2>1 DEF IInv, TypeOK, vars, lldb, commands, process, client, listener
    <2> QED BY <2>1, TypesStep DEF IInv
<1>2. DescEnabled'
    <2>1. CASE OnStopped
        BY <2>1 DEF OnStopped, Described, Formatted, DescEnabled
    <2>2. CASE OnStoppedTell
        BY <2>2 DEF OnStoppedTell, DescEnabled
    <2>3. CASE UNCHANGED desc
        BY <2>3 DEF IInv, DescEnabled
    <2> QED
        BY <2>1, <2>2, <2>3
           DEF Next, FileExec, ClearTarget, Attach, Launch, BreakInsert, BreakInsertEnable,
               BreakInsertFinish, BreakInsertDone, Catch, BreakDelete, WatchDelete, BreakEnable,
               BreakWatch, Hit, Continue, Exited, listener, vars
<1>3. (Numbered /\ OneEach /\ Inserting /\ ClientKnows /\ Exist)'
    <2>1. CASE FileExec
        BY <2>1, NewTarget DEF FileExec
    <2>2. CASE Attach
        BY <2>2, NewTarget DEF Attach
    <2>3. CASE UNCHANGED vars \/ Launch \/ BreakWatch \/ Continue \/ Exited
        <3>1. /\ UNCHANGED <<target, ntargets, breaks, nextid, pc, request, told, misdeleted,
                             desc, late>>
              /\ pstate' # "hit" \/ UNCHANGED <<pstate, ptarget, hit>>
            BY <2>3 DEF Launch, BreakWatch, Continue, Exited, vars, lldb, commands, process,
                        client, listener
        <3>2. Unseen(request.id) => Unseen(request.id)'
            BY <3>1 DEF Unseen
        <3> QED BY <3>1, <3>2 DEF IInv, Numbered, OneEach, Inserting, ClientKnows, Exist
    <2> QED
        BY <2>1, <2>2, <2>3, ClearStep, InsertStep, EnableStep, FinishStep, CatchStep,
           DeleteStep, WatchDeleteStep, BreakEnableStep, HitStep, OnStoppedStep,
           OnStoppedTellStep DEF Next
<1> QED BY <1>1, <1>2, <1>3 DEF IInv

LEMMA Invariant == Spec => []IInv
<1>1. Init => IInv
    <2>1. Init => TypeOK
        BY BreakpointsAssumption
           DEF Init, TypeOK, Targets, NoRequest, Request, Breakpoint, Record
    <2> QED BY <2>1 DEF Init, IInv, DescEnabled, Numbered, OneEach, Inserting, ClientKnows, Exist
<1> QED BY <1>1, InvariantStep, PTL DEF Spec

-----------------------------------------------------------------------------
(***************************************************************************)
(* Results                                                                 *)
(***************************************************************************)
\* Between two commands every breakpoint of the target has its number in the
\* client's table, and a record there of this target's own is never more
\* disabled than the breakpoint, and right about its disposal unless the
\* listener printed it late.
THEOREM ClientKnowsThem == Spec => []ClientKnows
<1>1. IInv => ClientKnows
    BY DEF IInv
<1> QED BY <1>1, Invariant, PTL

\* A breakpoint of this target that the client has in its table exists and is
\* kept, but for those told as one-shot ones, numbers deleted as a
\* watchpoint's, and records the listener printed late.
THEOREM ToldOnesExist == Spec => []ToldExist
<1>1. IInv => ToldExist
    BY DEF IInv, Exist, ToldExist
<1> QED BY <1>1, Invariant, PTL

\* No step deletes a breakpoint that nobody asked to delete, whatever the
\* listener does after a one-shot breakpoint.
THEOREM NoneDeletedUnasked == Spec => DeletedWhenAsked
<1> DEFINE Asked(b) ==
        \/ \E c \in breaks' : c.target = b.target /\ c.id = b.id
        \/ b.oneshot
        \/ (\E r \in told : r.id = b.id) /\ (\A s \in told' : s.id # b.id)
        \/ misdeleted' # misdeleted \/ b.id \in toldwatches \ toldwatches'
        \/ pc = "enabled" /\ b.target = target /\ b.id = request.id /\ ~request.kept
        \/ b.target = target /\ target' = NoTarget
<1>1. ASSUME IInv, [Next]_vars, NEW b \in breaks
      PROVE  Asked(b)
    <2>1. CASE UNCHANGED breaks
        BY <1>1, <2>1
    <2>2. CASE ClearTarget
        BY <1>1, <2>2 DEF ClearTarget
    <2>3. CASE BreakInsert \/ Catch
        <3>1. Create /\ TypeOK
            BY <1>1, <2>3 DEF BreakInsert, Catch, IInv
        <3>2. b \in breaks'
            BY <1>1, <3>1, Creation
        <3> QED BY <3>2
    <2>4. CASE BreakInsertEnable
        <3>1. CASE b.target = target /\ b.id = request.id
            <4>1. request.enabled \in BOOLEAN /\ b \in Breakpoint
                BY <1>1 DEF IInv, TypeOK, Request
            <4>2. [b EXCEPT !.enabled = request.enabled] \in breaks'
                BY <1>1, <2>4, <3>1, <4>1, OnlyOne DEF IInv, BreakInsertEnable
            <4>3. [b EXCEPT !.enabled = request.enabled].target = b.target
                  /\ [b EXCEPT !.enabled = request.enabled].id = b.id
                BY <4>1 DEF Breakpoint
            <4> QED BY <4>2, <4>3
        <3>2. CASE ~(b.target = target /\ b.id = request.id)
            BY <1>1, <2>4, <3>2 DEF BreakInsertEnable, Enabling
        <3> QED BY <3>1, <3>2
    <2>5. CASE BreakInsertFinish
        <3>1. CASE ~(b.target = target /\ b.id = request.id)
            BY <1>1, <2>5, <3>1 DEF BreakInsertFinish, BreakInsertKeep, Without
        <3>2. CASE b.target = target /\ b.id = request.id /\ request.kept
            <4>1. request.oneshot \in BOOLEAN /\ b \in Breakpoint
                BY <1>1 DEF IInv, TypeOK, Request
            <4>2. [b EXCEPT !.oneshot = request.oneshot] \in breaks'
                BY <1>1, <2>5, <3>2, <4>1, OnlyOne
                   DEF IInv, BreakInsertFinish, BreakInsertKeep
            <4>3. [b EXCEPT !.oneshot = request.oneshot].target = b.target
                  /\ [b EXCEPT !.oneshot = request.oneshot].id = b.id
                BY <4>1 DEF Breakpoint
            <4> QED BY <4>2, <4>3
        <3>3. CASE b.target = target /\ b.id = request.id /\ ~request.kept
            BY <2>5, <3>3 DEF BreakInsertFinish, BreakInsertDone
        <3> QED BY <3>1, <3>2, <3>3
    <2>6. CASE BreakDelete
        <3>1. PICK r \in told : breaks' = Without(target, r.id) /\ told' = told \ {r}
            BY <2>6 DEF BreakDelete
        <3>2. \A s \in told' : s.id # r.id
            BY <1>1, <3>1 DEF IInv, OneEach
        <3> QED BY <1>1, <3>1, <3>2 DEF Without
    <2>7. CASE WatchDelete
        <3>1. PICK w \in toldwatches :
                  breaks' = Without(target, w) /\ toldwatches' = toldwatches \ {w}
            BY <2>7 DEF WatchDelete
        <3> QED BY <1>1, <3>1 DEF Without
    <2>8. CASE BreakEnable
        <3>1. PICK r \in told, e \in BOOLEAN : breaks' = Enabling(breaks, r.id, e)
            BY <2>8 DEF BreakEnable
        <3>2. CASE b.target = target /\ b.id = r.id
            <4>1. b \in Breakpoint
                BY <1>1 DEF IInv, TypeOK
            <4>2. [b EXCEPT !.enabled = e] \in breaks'
                BY <1>1, <3>1, <3>2, OnlyOne DEF IInv
            <4>3. [b EXCEPT !.enabled = e].target = b.target /\ [b EXCEPT !.enabled = e].id = b.id
                BY <4>1 DEF Breakpoint
            <4> QED BY <4>2, <4>3
        <3>3. CASE ~(b.target = target /\ b.id = r.id)
            BY <1>1, <3>1, <3>3 DEF Enabling
        <3> QED BY <3>2, <3>3
    <2>9. CASE Hit
        BY <1>1, <2>9 DEF Hit
    <2>10. CASE OnStoppedTell
        BY <1>1, <2>10, OnStoppedTellStep
    <2>11. CASE OnStopped \/ FileExec \/ Attach \/ Launch \/ BreakWatch \/ Continue \/ Exited \/ UNCHANGED vars
        <3>1. UNCHANGED breaks
            BY <2>11 DEF OnStopped, FileExec, Attach, Launch, BreakWatch, Continue, Exited, vars, lldb
        <3> QED BY <2>1, <3>1
    <2> QED
        BY <1>1, <2>2, <2>3, <2>4, <2>5, <2>6, <2>7, <2>8, <2>9, <2>10, <2>11 DEF Next
<1>2. IInv /\ [Next]_vars => [\A b \in breaks : Asked(b)]_vars
    BY <1>1
<1> QED BY <1>2, Invariant, PTL DEF Spec, DeletedWhenAsked
=============================================================================
