---------------------------- MODULE Descriptions ----------------------------
(***************************************************************************)
(* How values, variables and frames are written out for the client:        *)
(* formatStruct, formatDesc and formatVariables of variables.cpp and       *)
(* formatFrame of frames.cpp.                                              *)
(*                                                                         *)
(* A text is a sequence of marks; the name, the type and the value of a    *)
(* variable are one mark each. A value is a record with its name and type, *)
(* the classes of its type, the number of its fields (base classes are not *)
(* fields), its flags, its children (kids), the direct base classes, and   *)
(* the description (desc) LLDB gives of it.                                *)
(***************************************************************************)
EXTENDS Names, SequencesExt, TLC

TypeFlags == {"HasValue", "IsFuncPrototype"}      \* those a step asks for

FrameDetails == [WITH_LEVEL |-> {"LEVEL"}, WITH_ARGS |-> {"ARGS"},
                 WITH_LEVEL_AND_ARGS |-> {"LEVEL", "ARGS"},
                 JUST_LEVEL_AND_ARGS |-> {"LEVEL", "ARGS", "JUST"}]

-----------------------------------------------------------------------------
(* Structures and classes *)

\* A member with fields is written out; of the others, one whose type has a value
\* shows it, a function the place of the structure, and any other its own place.
RECURSIVE formatStruct(_)
formatStruct(var) ==
    LET Shown(child) ==
            IF child.fields > 0 THEN formatStruct(child)
            ELSE IF {"HasValue", "IsFuncPrototype"} \subseteq child.flags
                 THEN <<"{", child.type, "}", var.location>>
            ELSE IF "HasValue" \in child.flags THEN <<child.value>>
            ELSE <<child.location>>
        Member(n) == (IF n > 1 THEN <<",">> ELSE <<>>) \o <<var.kids[n].name, "=">>
                     \o Shown(var.kids[n])
    IN  <<"{">> \o FlattenSeq([n \in DOMAIN var.kids |-> Member(n)]) \o <<"}">>

\* The description behind the first ") ", all of it if there is none, with braces for
\* parentheses and no line ends.
Trimmed(desc) ==
    LET ends == {i \in 1..(Len(desc) - 1) : desc[i] = ")" /\ desc[i + 1] = " "}
        rest == IF ends = {} THEN desc ELSE SubSeq(desc, Min(ends) + 2, Len(desc))
        Braced == "(" :> "{" @@ ")" :> "}" @@ "\n" :> " "
    IN  [i \in DOMAIN rest |-> IF rest[i] \in DOMAIN Braced THEN Braced[rest[i]] ELSE rest[i]]

\* A class without a base shows nothing; of the bases only the first is looked for,
\* and if it is a child it is taken for the first one.
RECURSIVE formatDesc(_)
formatDesc(var) ==
    LET newn == Head(var.bases)
        index == SelectInSeq(var.kids, LAMBDA child : child.name = newn)
        base == IF index > 0 THEN formatDesc(var.kids[index]) ELSE <<"{", newn, ",", "}", ",">>
        members == SubSeq(var.kids, IF index > 0 THEN 2 ELSE 1, Len(var.kids))
    IN  <<"{", var.type, "=">>
        \o (IF var.bases = <<>> THEN <<>>
            ELSE base \o FlattenSeq([n \in DOMAIN members |-> Trimmed(members[n].desc) \o <<",">>]))
        \o <<"}", ",">>

-----------------------------------------------------------------------------
(* Lists of variables and of frames *)

\* The separator is empty until something was printed.
Listed(items) ==
    [n \in DOMAIN items |-> [separator |-> IF n = 1 THEN "" ELSE ",", item |-> items[n]]]

\* LLDB may list a variable it cannot read; it is left out.
formatVariables(varslist) ==
    LET readable == SelectSeq(varslist, LAMBDA var : var.valid /\ ~var.fails)
    IN  Listed([n \in DOMAIN readable |-> readable[n].name])

\* The fields of a frame: its line is known only if its function is.
formatFrame(frame, details) ==
    LET level == IF "LEVEL" \in details THEN "level" :> frame.id ELSE <<>>
        args == IF "ARGS" \notin details THEN <<>>
                ELSE "args" :> IF frame.function THEN formatVariables(frame.args) ELSE <<>>
        place == IF "JUST" \in details THEN <<>>
                 ELSE "addr" :> frame.pc @@ "func" :> frame.name
                      @@ "file" :> IF frame.function THEN frame.file ELSE frame.module
        source == IF "JUST" \in details \/ ~frame.function THEN <<>>
                  ELSE "fullname" :> <<frame.dir, frame.file>> @@ "line" :> frame.line
    IN  level @@ args @@ place @@ source

\* Variant of FramesFromTo that takes the last frame for the end.
FramesUpTo(start, end, depth, max) ==
    LET stop == IF end < 0 THEN depth ELSE end
    IN  {n \in start..((IF stop - start > max THEN start + max ELSE stop) - 1) : n < depth}

\* The frames of -stack-list-frames and -stack-list-arguments, counted from 0; those
\* the thread does not have are passed over.
FramesFromTo(start, end, depth, max) ==
    LET stop == IF end < 0 THEN depth ELSE end + 1
    IN  {n \in start..((IF stop - start > max THEN start + max ELSE stop) - 1) : n < depth}
=============================================================================
