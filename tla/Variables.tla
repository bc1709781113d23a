----------------------------- MODULE Variables -----------------------------
(***************************************************************************)
(* Variable objects: the -var commands (engine.cpp), the search for the    *)
(* variable an expression names and the walks over its children            *)
(* (variables.cpp), while the debuggee calls, returns and assigns.         *)
(*                                                                         *)
(* A variable is known by its path, from the local variable it belongs to  *)
(* over the names of its children; a value is known by the frame and the   *)
(* path it belongs to.  A function may declare one name in several blocks, *)
(* so a local variable and its name are two things.                        *)
(***************************************************************************)
EXTENDS Integers, Sequences, SequencesExt, FiniteSetsExt, Functions

CONSTANTS
    Functions,        \* of the debuggee
    Blocks,           \* of a function
    Locals,           \* the declarations of each, as LLDB lists them: those of a
                      \* block before those of the blocks it contains
    Called,           \* the names of the local variables
    Kept,             \* those that can be read outside the block they belong to
    Kids,             \* for each path, the names of the children LLDB shows
    Pointer, Array,   \* the paths of pointers and of arrays
    Index,            \* the children's names that are an index in brackets
    Anonymous,        \* the name of a child that has none, a null pointer
    Expressions,      \* what the client asks for
    children_max, walk_depth_max, change_depth_max,   \* LIMITS
    MaxFrames,        \* bound: frames on the stack
    MaxObjects        \* bound: variable objects created

\* a child's name as it is compared and shown
getName(n) == IF n = Anonymous THEN "(anonymous)" ELSE n

Paths == DOMAIN Kids
Names == UNION {Range(p) : p \in Paths} \cup Range(Called)
NoPath == <<>>
Ops == {"", "*", "&", "@"}
\* An operator before a name and what follows the name: ".b", "->b", "[0]".
\* "@" stands for *((name)+0)@n, the client's form for a part of an array.
Expression == [op : Ops, root : Names,
               steps : Seq([sep : {".", "->", "["}, name : Names])]

\* The declarations form trees, and no name of theirs is the one that is shown
\* for a missing name.
ASSUME VariablesAssumption ==
    /\ Paths \subseteq Seq(Names) /\ Kids \in [Paths -> Seq(Names)]
    /\ \A p \in Paths : p # NoPath /\ (Len(p) > 1 => Front(p) \in Paths)
    /\ \A p \in Paths, n \in Names : n \in Range(Kids[p]) => Append(p, n) \in Paths
    /\ \A f \in Functions : Locals[f] \in Seq([root : DOMAIN Called, scope : SUBSET Blocks])
    /\ \A root \in DOMAIN Called : <<root>> \in Paths
    /\ getName(Anonymous) \notin Names
    /\ Pointer \subseteq Paths /\ Array \subseteq Paths
    /\ children_max \in Nat /\ walk_depth_max \in Nat /\ change_depth_max \in Nat
    /\ \A e \in Expressions : e \in Expression

VARIABLES
    stack,       \* the sites of the active frames; the last is the innermost
    value,       \* what the variables of each frame hold
    objects,     \* sessionVariables: [name, frame, var], var as found
    asked,       \* for each number given, the frame and the expression asked for
    next,        \* nextSessionVariableId
    reply        \* the last answer

vars == <<stack, value, objects, asked, next, reply>>

\* Where a frame is: in a function and in one of its blocks.
Sites == {s \in [function : Functions, block : Blocks] :
             \E i \in DOMAIN Locals[s.function] : s.block \in Locals[s.function][i].scope}

-----------------------------------------------------------------------------
(* LLDB's own search *)

NoVar == [path |-> NoPath, op |-> ""]

\* a member, also of an unnamed union or structure
Member(p, n) ==
    IF p = NoPath THEN NoPath
    ELSE IF n \in Range(Kids[p]) THEN Append(p, n)
    ELSE IF Append(p, Anonymous) \in Paths /\ n \in Range(Kids[Append(p, Anonymous)])
    THEN p \o <<Anonymous, n>>
    ELSE NoPath

Fits(p, sep) ==
    CASE sep = "."  -> p \notin Pointer
      [] sep = "->" -> p \in Pointer
      [] sep = "["  -> TRUE

\* A name denotes what the innermost block that declares it declares it to be.
Declared(f, n) == {i \in DOMAIN Locals[f] : Called[Locals[f][i].root] = n}
InScope(s, n) == {i \in Declared(s.function, n) : s.block \in Locals[s.function][i].scope}
LocalAt(f, i) == <<Locals[f][i].root>>
Visible(s, n) == IF InScope(s, n) = {} THEN NoPath
                 ELSE LocalAt(s.function, Max(InScope(s, n)))

\* the variable that an expression denotes at a site, or NoVar if it denotes none
Reached(s, e, strict) ==
    LET at[i \in 0 .. Len(e.steps)] ==
            IF i = 0 THEN Visible(s, e.root)
            ELSE IF strict /\ ~Fits(at[i - 1], e.steps[i].sep) THEN NoPath
            ELSE Member(at[i - 1], e.steps[i].name)
    IN at

Denoted(s, e, strict) ==
    LET p == Reached(s, e, strict)[Len(e.steps)]
    IN IF p = NoPath \/ e.op = "@" \/ (e.op = "*" /\ p \notin Pointer) THEN NoVar
       ELSE [path |-> p, op |-> e.op]

\* LLDB's variable paths and its expressions look a name up from the frame's
\* block outward, and mind the difference of "." and "->".
GetValueForVariablePath(s, e) == Denoted(s, e, TRUE)
EvaluateExpression(s, e) == Denoted(s, e, TRUE)

\* GetVariables without bInScopeOnly lists the variables of all blocks, and
\* GetFirstValueByName takes the first one; outside its block it may have no
\* location, and its value is an error.
Readable(s, i) == LET d == Locals[s.function][i] IN s.block \in d.scope \/ d.root \in Kept

GetFirstValueByName(s, n) ==
    LET first == Min(Declared(s.function, n))
    IN IF Declared(s.function, n) = {} \/ ~Readable(s, first) THEN NoPath
       ELSE LocalAt(s.function, first)

-----------------------------------------------------------------------------
(* The search of variables.cpp *)

FirstFound(vs) ==
    IF \E i \in DOMAIN vs : vs[i].path # NoPath
    THEN vs[Min({i \in DOMAIN vs : vs[i].path # NoPath})] ELSE NoVar

\* getStandardPathVariable: the list of variables, where the whole expression
\* must be a name, LLDB's variable path, LLDB's expressions
Listable(e) == e.op = "" /\ e.steps = <<>>

ByName(s, e) ==
    [path |-> IF Listable(e) THEN GetFirstValueByName(s, e.root) ELSE NoPath, op |-> ""]

getStandardPathVariable(s, e) ==
    FirstFound(<<ByName(s, e), GetValueForVariablePath(s, e), EvaluateExpression(s, e)>>)

\* getPseudoArrayVariable: the array's type is cut out of the type of &name;
\* both are evaluated by LLDB
getPseudoArrayVariable(s, e) ==
    IF e.op = "@" /\ Visible(s, e.root) \in Array
    THEN [path |-> Visible(s, e.root), op |-> "@"]
    ELSE NoVar

\* Where strfind cuts the expression, from its end to its beginning: at every
\* "." and "->", and at a "[" when none of them is left.
Cuts(steps) ==
    {i \in DOMAIN steps : steps[i].sep # "[" \/ \A j \in 1 .. i : steps[j].sep = "["}

UpTo(e, i) == [e EXCEPT !.steps = SubSeq(@, 1, i - 1)]

\* The root: the longest of the cut expressions that the standard search
\* finds; 0 if there is none.
RootCut(s, e) ==
    Max({0} \cup {i \in Cuts(e.steps) : getStandardPathVariable(s, UpTo(e, i)) # NoVar})

\* the children that the limit lets the searches see
Seen(p) == {Kids[p][i] : i \in 1 .. Min({Len(Kids[p]), children_max})}

\* Mutant: only as much of the part is compared as the child's name is long.
WalkComparesPrefix(path, steps) ==
    LET below[i \in DOMAIN steps, p \in Paths] ==
            LET n == steps[i].name
                more == Min({k \in i + 1 .. Len(steps) : steps[k].sep # "["} \cup {Len(steps) + 1})
            IN IF n \notin Seen(p) \/ walk_depth_max - i <= 1 THEN NoPath
               ELSE IF more > Len(steps) THEN Append(p, n)
               ELSE below[more, Append(p, n)]
    IN below[1, path]

\* getDirectPathVariable below the root: each part of the expression, up to
\* the next "." or "->", must be the name of a child
Walk(path, steps) ==
    LET found(q) ==
            /\ Len(q) = Len(path) + Len(steps) /\ IsPrefix(path, q)
            /\ \A i \in DOMAIN steps :
                  /\ q[Len(path) + i] \in Seen(SubSeq(q, 1, Len(path) + i - 1))
                  /\ getName(q[Len(path) + i]) = steps[i].name
                  /\ i = Len(steps) \/ steps[i + 1].sep # "["
                  /\ walk_depth_max - i > 1
    IN IF \E q \in Paths : found(q) THEN CHOOSE q \in Paths : found(q) ELSE NoPath

getDirectPathVariable(s, e) ==
    LET i == RootCut(s, e) IN
    IF i = 0 THEN NoVar
    ELSE [path |-> Walk(getStandardPathVariable(s, UpTo(e, i)).path,
                        SubSeq(e.steps, i, Len(e.steps))), op |-> ""]

getVariable(s, e) == FirstFound(<<getPseudoArrayVariable(s, e),
                                  getDirectPathVariable(s, e),
                                  getStandardPathVariable(s, e)>>)

\* the same as a table: the declarations do not change
Found == [s \in Sites |-> [e \in Expressions |-> getVariable(s, e)]]

-----------------------------------------------------------------------------
(* The walks over the children *)

\* The children that are looked at with "depth" levels left.
Below(p, depth) == IF p \in Array \/ depth <= 1 THEN {} ELSE {Append(p, n) : n \in Seen(p)}

\* Mutant: the depth is counted down once a walk, not once a level.
ChangedListOneLevel(var) ==
    {var.path} \cup Below(var.path, change_depth_max)

\* updateVarState: the variable and what is below it are asked for their values,
\* from when on LLDB counts their changes
updateVarState(var) ==
    LET mark[d \in 0 .. change_depth_max] ==
            [p \in Paths |-> {p} \cup UNION {mark[d - 1][q] : q \in Below(p, d)}]
    IN mark[change_depth_max][var.path]

\* formatChangedList: the variable and what is below it are printed, whether
\* they have changed or not
formatChangedList(var) ==
    LET list[d \in 0 .. change_depth_max] ==
            [p \in Paths |-> {p} \cup UNION {list[d - 1][q] : q \in Below(p, d)}]
    IN list[change_depth_max][var.path]

\* LLDB's text for a path.  An unnamed child gives an empty name.
ExpressionPath(p) ==
    LET part(i) == LET n == p[i] parent == SubSeq(p, 1, i - 1) IN
                   CASE n = Anonymous -> <<".">>
                     [] n \in Index /\ parent \in Array -> <<n>>
                     [] OTHER -> <<IF parent \in Pointer THEN "->" ELSE ".", n>>
        text[i \in 1 .. Len(p)] == IF i = 1 THEN <<Called[p[1]]>> ELSE text[i - 1] \o part(i)
    IN text[Len(p)]

\* formatExpressionPath: "->[" and ".[" lose what is before the bracket, ".."
\* loses a point, and a point at the end goes.
formatExpressionPath(p) ==
    LET bad(t) == {i \in 1 .. Len(t) - 1 : \/ t[i] \in {"->", "."} /\ t[i + 1] \in Index
                                           \/ t[i] = "." /\ t[i + 1] = "."}
        clean[t \in Seq(Names \cup {getName(Anonymous), ".", "->"})] ==
            IF bad(t) = {} THEN t ELSE clean[RemoveAt(t, Min(bad(t)))]
        named == ExpressionPath(p) \o IF Last(p) = Anonymous THEN <<getName(Anonymous)>> ELSE <<>>
        c == clean[named]
    IN IF Last(c) = "." THEN Front(c) ELSE c

\* a text read back as an expression
Read(t) ==
    LET seps == {i \in 2 .. Len(t) : t[i] \in {".", "->"} \/ t[i - 1] \notin {".", "->"}}
        ordered == SetToSortSeq(seps, <)
        step(i) == IF t[i] \in {".", "->"} THEN [sep |-> t[i], name |-> t[i + 1]]
                   ELSE [sep |-> "[", name |-> t[i]]
    IN [op |-> "", root |-> t[1], steps |-> [k \in DOMAIN ordered |-> step(ordered[k])]]

\* formatSummary of a structure or an array lists the children, those
\* without a value of their own by the address of the variable itself;
\* formatValue puts it behind the value or the address.
HasValue(p) == Kids[p] = <<>> \/ p \in Pointer

formatSummary(p) == IF HasValue(p) THEN {}
                    ELSE {IF HasValue(Append(p, n)) THEN Append(p, n) ELSE p : n \in Seen(p)}

formatValue(var) == {var.path} \cup formatSummary(var.path)

-----------------------------------------------------------------------------
(* The debuggee, and the client's commands while it is stopped *)

FrameAt(d) == [depth |-> d, function |-> stack[d].function]

\* LLDB finds a frame again by where it is and what function it is of.
Alive(frame) == frame.depth \in DOMAIN stack /\ frame = FrameAt(frame.depth)

\* the names: "var", a number, and the names of children
Object(n) == [number |-> n, kids |-> <<>>]
Child(name, n) == [name EXCEPT !.kids = Append(@, n)]

NoFrame == [depth |-> 0, function |-> ""]
Objects(name) == {o \in objects : o.name = name}

\* sessionVariables[name] = var
Put(set, o) == {x \in set : x.name # o.name} \cup {o}

Nothing == [kind |-> "nothing", name |-> Object(0), shown |-> {}, marked |-> {}]

Init ==
    /\ \E s \in Sites : stack = <<s>>
    /\ value = [d \in {1} |-> 0]
    /\ objects = {} /\ asked = <<>> /\ next = 1 /\ reply = Nothing

Running == reply.kind # "crashed" /\ reply' = Nothing /\ UNCHANGED <<objects, asked, next>>

\* The debuggee stops somewhere in a function it has called ...
Call == \E s \in Sites, v \in {0, 1} :
    /\ Running /\ Len(stack) < MaxFrames
    /\ stack' = Append(stack, s) /\ value' = Append(value, v)

\* ... or elsewhere in the function it is in.
Step == \E s \in Sites :
    /\ Running /\ s.function = Last(stack).function
    /\ stack' = [stack EXCEPT ![Len(stack)] = s] /\ UNCHANGED value

Return ==
    /\ Running /\ Len(stack) > 1
    /\ stack' = Front(stack) /\ value' = Front(value)

Assign == \E d \in DOMAIN stack :
    /\ Running
    /\ value' = [value EXCEPT ![d] = 1 - @] /\ UNCHANGED stack

Command == reply.kind # "crashed" /\ UNCHANGED <<stack, value>>

\* -var-create in the selected frame.  The number is used up and the name
\* entered whether the variable was found or not.
VarCreate == \E d \in DOMAIN stack, e \in Expressions :
    LET var == Found[stack[d]][e]
        name == Object(next)
    IN /\ Command /\ next <= MaxObjects
       /\ objects' = Put(objects, [name |-> name, frame |-> FrameAt(d), var |-> var])
       /\ asked' = Append(asked, [frame |-> FrameAt(d), site |-> stack[d], e |-> e])
       /\ next' = next + 1
       /\ reply' = [kind |-> IF var = NoVar THEN "error" ELSE "created", name |-> name,
                    shown |-> IF var = NoVar THEN {} ELSE formatValue(var),
                    marked |-> IF var = NoVar THEN {} ELSE updateVarState(var)]

\* -var-list-children: all children, however many, become objects of their
\* own.  The name of an unnamed one is a null pointer.
VarListChildren == \E o \in objects :
    LET kids == Kids[o.var.path]
        child(n) == [name |-> Child(o.name, n), frame |-> o.frame,
                     var |-> [path |-> Append(o.var.path, n), op |-> ""]]
        before == {kids[i] : i \in 1 .. Min({i \in DOMAIN kids : kids[i] = Anonymous} \cup {Len(kids) + 1}) - 1}
    IN /\ Command /\ o.var # NoVar /\ Alive(o.frame)
       /\ objects' = {x \in objects : \A n \in before : x.name # Child(o.name, n)}
                         \cup {child(n) : n \in before}
       /\ reply' = [Nothing EXCEPT !.kind = IF Anonymous \in Range(kids) THEN "crashed"
                                            ELSE "children",
                                   !.name = o.name]
       /\ UNCHANGED <<asked, next>>

\* What a stored value shows: nothing once its frame is gone.
Shown(o) == IF ~Alive(o.frame) THEN {}
            ELSE {[frame |-> o.frame, path |-> p, op |-> o.var.op,
                   value |-> value[o.frame.depth]] : p \in formatValue(o.var)}

\* Mutant: the object is shown as the selected frame has it.
VarEvaluateSelected == \E o \in objects, d \in DOMAIN stack :
    /\ Command /\ o.var # NoVar
    /\ reply' = [Nothing EXCEPT !.kind = "value", !.name = o.name,
                                !.shown = Shown([o EXCEPT !.frame = FrameAt(d)])]
    /\ UNCHANGED <<objects, asked, next>>

\* -var-evaluate-expression of an object, whatever frame is selected
VarEvaluate == \E o \in objects :
    /\ Command /\ o.var # NoVar
    /\ reply' = [Nothing EXCEPT !.kind = "value", !.name = o.name, !.shown = Shown(o)]
    /\ UNCHANGED <<objects, asked, next>>

\* The commands read sessionVariables with [], which enters a name it lacks.
Unknown ==
    /\ Command /\ Objects(Object(next)) = {}
    /\ objects' = objects \cup {[name |-> Object(next), frame |-> NoFrame, var |-> NoVar]}
    /\ reply' = [Nothing EXCEPT !.kind = "error"]
    /\ UNCHANGED <<asked, next>>

\* what is printed for an expression; again a table
Changes == [s \in Sites |-> [e \in Expressions |->
    LET var == Found[s][e]
    IN IF var = NoVar THEN {}
       ELSE {[path |-> p, text |-> formatExpressionPath(p)] : p \in formatChangedList(var)}]]

\* -var-update and -var-set-format look an expression up in the selected
\* frame; an object's name is no variable of the debuggee.
VarUpdate == \E d \in DOMAIN stack, e \in Expressions :
    /\ Command
    /\ reply' = [Nothing EXCEPT !.kind = "changes", !.name = [site |-> stack[d], e |-> e],
                                !.shown = Changes[stack[d]][e]]
    /\ UNCHANGED <<objects, asked, next>>

\* Mutant: the object's expression is looked up again and the object renewed.
VarUpdateObjectRenews == \E o \in objects, d \in DOMAIN stack :
    /\ Command /\ o.name.kids = <<>> /\ o.var # NoVar
    /\ objects' = Put(objects, [o EXCEPT !.frame = FrameAt(d),
                         !.var = getVariable(stack[d], asked[o.name.number].e)])
    /\ reply' = [Nothing EXCEPT !.kind = "no changes", !.name = o.name]
    /\ UNCHANGED <<asked, next>>

VarUpdateObject == \E o \in objects :
    /\ Command
    /\ reply' = [Nothing EXCEPT !.kind = "no changes", !.name = o.name]
    /\ UNCHANGED <<objects, asked, next>>

Next ==
    \/ Call \/ Step \/ Return \/ Assign
    \/ VarCreate \/ VarListChildren \/ VarEvaluate \/ Unknown
    \/ VarUpdate \/ VarUpdateObject

Spec == Init /\ [][Next]_vars

-----------------------------------------------------------------------------
(* Properties *)

\* An operator in front of a path binds the whole path in the debuggee's
\* language, but its first part only when variables.cpp cuts the path: the
\* properties below leave it out.
Plain(e) == e.op = "" \/ e.steps = <<>>

\* The name of a variable that is declared again in an inner block, or the one
\* of a variable whose block is not the frame's, may give another variable than
\* it denotes (variables.cpp:75-90): the properties leave out the names that
\* the first readable declaration and the program text understand differently.
Shadowed(s, n) ==
    \E i \in Declared(s.function, n) :
        /\ \A j \in Declared(s.function, n) : i <= j
        /\ Readable(s, i) /\ LocalAt(s.function, i) # Visible(s, n)

\* What is said of the search: a question that it is held to.
Clear(a) == Plain(a.e) /\ ~Shadowed(a.site, a.e.root)

\* What -var-create enters for an expression is the variable the expression
\* denotes where it is asked for, and it enters one if LLDB could find it:
\* neither the limits of children and depth, the way the expression is cut into
\* root and children, nor the list that holds the variables of all blocks give
\* another variable or none, unless the root's name is shadowed.
FoundIsMeant ==
    \A n \in DOMAIN asked : \A o \in Objects(Object(n)) :
        LET a == asked[n] IN
        Clear(a) /\ a.e.op # "@" =>
            /\ o.var \in {NoVar, Denoted(a.site, a.e, FALSE)}
            /\ Denoted(a.site, a.e, TRUE) # NoVar => o.var # NoVar

\* The name of an object or of a child of one denotes the same variable as
\* long as the session lasts, whatever is listed, listed again, updated or
\* asked under a name that does not exist.
NeverRebound ==
    [][\A o \in objects : o.var # NoVar => o \in objects']_vars

\* -var-evaluate-expression shows values of the frame the object was created
\* in, whichever is selected and whatever was called and returned since, and
\* of the path asked for, or its children's, up to the limit.
ShowsItsOwn ==
    reply.kind = "value" =>
        LET a == asked[reply.name.number]
            path == Denoted(a.site, a.e, FALSE).path \o reply.name.kids
        IN \A s \in reply.shown :
              /\ s.frame = a.frame /\ s.value = value[a.frame.depth]
              /\ Clear(a) /\ a.e.op # "@" =>
                    s.path = path \/ \E n \in Seen(path) : s.path = Append(path, n)

\* the variable and all below it within the limits, not into arrays
Within(path) ==
    {p \in Paths :
        \/ p = path
        \/ /\ IsPrefix(path, p) /\ Len(p) - Len(path) < change_depth_max
           /\ \A i \in Len(path) + 1 .. Len(p) :
                 LET q == SubSeq(p, 1, i - 1) IN q \notin Array /\ p[i] \in Seen(q)}

\* the answer to -var-update of an expression of which something is found
Listed ==
    /\ reply.kind = "changes" /\ reply.shown # {}
    /\ Clear(reply.name) /\ reply.name.e.op = ""

\* -var-create has LLDB count changes of the variable and all below it.
MarkedWhole ==
    reply.kind = "created" =>
        \A o \in Objects(reply.name) : reply.marked = Within(o.var.path)

\* -var-update of an expression prints the variable and all below it.
ListedWhole ==
    Listed => {s.path : s \in reply.shown} =
                  Within(Denoted(reply.name.site, reply.name.e, FALSE).path)

\* A path that was printed is found again.
TextsLeadBack ==
    Listed => \A s \in reply.shown :
                 \/ Last(s.path) = Anonymous
                 \/ getVariable(reply.name.site, Read(s.text)).path = s.path

\* What -var-update of an expression prints is the variable and all below it
\* within the limits, the same that -var-create makes LLDB count changes of,
\* and the client can ask for each of the paths it was told.
ChangesComplete == MarkedWhole /\ ListedWhole /\ TextsLeadBack
=============================================================================
