------------------------------ MODULE Queries ------------------------------
(***************************************************************************)
(* Questions about the program: how a command line is cut into arguments   *)
(* (scanArgs, strlcpy, strlcat), how the compile unit of a file, the line  *)
(* of a file, the type of a name, the value of an expression and the       *)
(* frames of the stack are looked up and answered (engine.cpp,             *)
(* variables.cpp), and how LLDB's enumerations are named (names.cpp).      *)
(*                                                                         *)
(* A text is a sequence of characters; a command word, whose letters no    *)
(* step looks at, is one character.                                        *)
(***************************************************************************)
EXTENDS Descriptions, Functions

CONSTANTS
    Lines,        \* what the client may send, without the sequence number
    Targets,      \* the programs that may be debugged: modules, types, values,
                  \* functions, symbols and stack
    Leftovers,    \* what a local buffer may hold before it is written
    WorkingDir,   \* lldbmi2's working directory
    OnDisk,       \* the files that exist, by their absolute paths
    NAME_MAX,     \* size of the buffers an argument is copied to
    MAX_ARGS,     \* size of argv
    FRAMES_MAX    \* limits.frames_max: how many frames are listed at most

Space == " "
Quote == "\""
Backslash == "\\"
Slash == "/"
Colon == ":"
Period == "."
Caret == "^"
AtSign == "@"

ASSUME QueriesAssumption == NAME_MAX \in Nat \ {0} /\ MAX_ARGS \in Nat \ {0, 1}
                            /\ FRAMES_MAX \in Nat

Languages == 0..(Len(languagetypes_names) + 1)
\* class and basic type of a value: only a builtin type is one of the basic types
ValueTypes == ({eTypeClassInvalid, eTypeClassAny} \cup {{TypeClass[n]} : n \in DOMAIN TypeClass}) \X {0}
              \cup {{TypeClass.Builtin}} \X (0..(Len(BasicType) - 1))

VARIABLES
    target,      \* the program: its modules, types, values, functions and stack
    line,        \* the command line last read
    argv,        \* its arguments
    answer       \* what was answered or, for a type, logged

vars == <<target, line, argv, answer>>

-----------------------------------------------------------------------------
(* The arguments of a command *)

At(s, i) == IF i <= Len(s) THEN s[i] ELSE "NUL"
Position(s, c) == SelectInSeq(s, LAMBDA x : x = c)     \* strchr; 0 if there is none

\* What the loop copies down to ps, pa being at position i.
RECURSIVE Unquoted(_, _)
Unquoted(s, i) ==
    IF i > Len(s) THEN <<>>
    ELSE LET j == IF At(s, i + 1) = Backslash /\ At(s, i + 2) = Quote THEN i + 3 ELSE i + 1
             k == IF At(s, j) = Quote THEN j + 1 ELSE j
         IN  SubSeq(s, k, Min({k, Len(s)})) \o Unquoted(s, k)

\* A quoted argument is the last one: the loop that copies it runs to the NUL.
RECURSIVE scanArgs(_, _)
scanArgs(s, argc) ==
    IF s = <<>> \/ argc >= MAX_ARGS - 2 THEN <<>>
    ELSE LET pa == SelectInSeq(s, LAMBDA c : c # Space)
             word == IF pa = 0 THEN <<>> ELSE SubSeq(s, pa, Len(s))
             end == IF Position(word, Space) = 0 THEN Len(word) + 1 ELSE Position(word, Space)
         IN  IF At(word, 1) = Quote THEN <<Unquoted(word, 1)>>
             ELSE <<SubSeq(word, 1, end - 1)>>
                  \o scanArgs(SubSeq(word, end + 1, Len(word)), argc + 1)

strlcpy(src) == SubSeq(src, 1, Min({Len(src), NAME_MAX - 1}))
\* Variant of strlcat that forgets what is there.
StrlcatOverwrites(dst, src) == strlcpy(src)

strlcat(dst, src) == dst \o SubSeq(src, 1, Min({Len(src), NAME_MAX - 1 - Len(dst)}))

\* A buffer is written only if there is an argument for it.
Buffer(args, n) == IF n <= Len(args) THEN {strlcpy(args[n])} ELSE Leftovers

\* the expression of -var-create: its arguments with a space between them
Expression(args) ==
    FoldLeft(LAMBDA e, a : strlcat(strlcat(e, <<Space>>), a), strlcat(<<>>, Head(args)), Tail(args))

-----------------------------------------------------------------------------
(* The file, the line and the type a text names *)

\* Directory and file name; the directory is empty if the path has no slash.
Parts(path) ==
    LET slash == Max({i \in 1..Len(path) : path[i] = Slash} \cup {0})
    IN  [dir |-> SubSeq(path, 1, Max({slash - 1, Min({slash, 1})})),
         name |-> SubSeq(path, slash + 1, Len(path))]

Absolute(path) == IF At(path, 1) = Slash THEN path ELSE WorkingDir \o <<Slash>> \o path

\* The path is resolved: if there is such a file, a relative one is made absolute.
SBFileSpec(path) == Parts(IF Absolute(path) \in OnDisk THEN Absolute(path) ELSE path)

\* No directory is a link or has "..": one that exists is given back as its absolute
\* path, and SameFile takes one that does not as it is.
realpath(dir) ==
    IF Absolute(dir) \in {Parts(p).dir : p \in OnDisk} THEN Absolute(dir) ELSE dir

\* where find occurs last, 0 if nowhere
strfind(string, find) ==
    Max({i \in 1..(Len(string) - Len(find) + 1) : SubSeq(string, i, i + Len(find) - 1) = find}
        \cup {0})

\* Variant of SameFile that does not compare directories.
SameName(spec, fs) == spec.name = fs.name

SameFile(spec, fs) ==
    /\ spec.name = fs.name
    /\ \/ spec.dir = <<>>
       \/ /\ fs.dir # <<>>
          /\ LET fpath == realpath(fs.dir)
                 spath == realpath(spec.dir)
                 at == strfind(fpath, spath)
             IN  at # 0 /\ Len(SubSeq(fpath, at, Len(fpath))) = Len(spath)

\* The first compile unit that has a file the path stands for, and that file.
findCUForFile(path) ==
    LET units == FlattenSeq(target.modules)
        files == FlattenSeq([u \in DOMAIN units |->
                     [f \in DOMAIN units[u].support |-> <<units[u], units[u].support[f]>>]])
        found == SelectInSeq(files, LAMBDA x : SameFile(SBFileSpec(path), x[2]))
    IN  IF found = 0 THEN <<>> ELSE files[found]

\* -symbol-list-lines; a 0 in the list is a comma
ListLines(path) ==
    LET found == findCUForFile(path)
        entries == found[1].entries
        mine == {n \in DOMAIN entries : entries[n].file.name = SBFileSpec(path).name}
        Printed(n) == IF n \notin mine THEN <<>> ELSE IF n # 1 THEN <<0, n>> ELSE <<n>>
    IN  IF found = <<>> THEN [kind |-> "unknown file", text |-> path]
        ELSE [kind |-> "lines", text |-> path, unit |-> found[1],
              list |-> FlattenSeq([n \in DOMAIN entries |-> Printed(n)])]

\* SBCompileUnit::FindLineEntryIndex: the entry of the line or, if exact is
\* not asked for, of the nearest line behind it
FindLineEntryIndex(unit, iline, file, exact) ==
    LET behind == {n \in DOMAIN unit.entries : unit.entries[n].file = file
                                               /\ unit.entries[n].line >= iline}
        nearest == {n \in behind : \A o \in behind : unit.entries[n].line <= unit.entries[o].line}
        good == {n \in nearest : exact => unit.entries[n].line = iline}
    IN  IF good = {} THEN -1 ELSE Min(good)

Digit == [c \in {"0", "1", "2", "3"} |-> CASE c = "0" -> 0 [] c = "1" -> 1 [] c = "2" -> 2 [] OTHER -> 3]
Number(s) == IF At(s, 1) \in DOMAIN Digit THEN Digit[At(s, 1)] ELSE 0   \* sscanf "%d"

\* info line <file>:<line>
InfoLine(text) ==
    LET colon == Position(text, Colon)
        path == SubSeq(text, 1, colon - 1)
        iline == Number(SubSeq(text, colon + 1, Len(text)))
        found == findCUForFile(path)
        Index(exact) == FindLineEntryIndex(found[1], iline, found[2], exact)
        HasCode == Index(TRUE) >= 0
    IN  IF colon = 0 THEN [kind |-> "not a function", text |-> text]
        ELSE IF found = <<>> THEN [kind |-> "unknown file", text |-> path]
        ELSE [kind |-> IF HasCode THEN "line at" ELSE "no code", text |-> path, unit |-> found[1],
              iline |-> iline, entry |-> Index(HasCode)]

\* The first type of a list that has a bit of the mask; 0 if there is none.
findClassOfType(list, mask) == SelectInSeq(list, LAMBDA t : t \cap mask # {})
ClassOrAny(list) ==
    IF findClassOfType(list, {TypeClass.Class}) # 0 THEN findClassOfType(list, {TypeClass.Class})
    ELSE findClassOfType(list, eTypeClassAny)

FindTypes(name) == IF name \in DOMAIN target.types THEN target.types[name] ELSE <<>>

\* ptype: the types of the name or, if there is none, of the value it has.
Ptype(expression) ==
    LET direct == ClassOrAny(FindTypes(expression))
        period == Position(expression, Period)
        name == IF period = 0 THEN expression ELSE SubSeq(expression, 1, period - 1)
        path == IF period = 0 THEN <<>> ELSE SubSeq(expression, period, Len(expression))
        valid == <<name, path>> \in DOMAIN target.values
        type == <<target.values[<<name, path>>].type>>     \* a type's name is one character
        ofValue == ClassOrAny(FindTypes(type))
    IN  IF direct # 0 THEN [kind |-> "type", text |-> expression, type |-> expression, at |-> direct]
        ELSE IF ~valid THEN [kind |-> "no symbol", text |-> name]
        ELSE IF ofValue # 0 THEN [kind |-> "type", text |-> expression, type |-> type, at |-> ofValue]
        ELSE IF name \in target.functions THEN [kind |-> "function type", text |-> name]
        ELSE [kind |-> "value type", text |-> expression]

\* -data-evaluate-expression: what stands before and behind the first period and, if
\* the end is a caret, a dereference; a client cannot send an ampersand.
Evaluate(text) ==
    LET period == Position(text, Period)
        deref == Last(text) = Caret
        bare == IF deref THEN Front(text) ELSE text
        parent == IF period = 0 THEN bare ELSE SubSeq(text, 1, period - 1)
        path == IF period = 0 THEN <<>> ELSE SubSeq(bare, period, Len(bare))
        operator == Position(parent, AtSign)
        name == IF operator = 0 THEN parent ELSE [parent EXCEPT ![operator] = "&"]
        found == target.values[<<name, path>>]
        val == IF deref THEN Head(found.pointee) ELSE found
        class == IF TypeClass.Typedef \in val.class THEN val.typedefed ELSE val.class
    IN  IF <<name, path>> \notin DOMAIN target.values \/ (deref /\ found.pointee = <<>>)
        THEN [kind |-> "no value", text |-> text]
        ELSE IF val.fails THEN [kind |-> "error", text |-> text]
        ELSE IF deref THEN [kind |-> "class", text |-> text, val |-> val, shown |-> formatDesc(val)]
        ELSE IF TypeClass.Pointer \in class
        THEN [kind |-> "pointer", text |-> text, val |-> val,
              shown |-> IF val.type = "char *" THEN <<val.desc>> ELSE <<val.value>>]
        ELSE IF TypeClass.Struct \in class
        THEN [kind |-> "struct", text |-> text, val |-> val, shown |-> formatStruct(val)]
        ELSE [kind |-> "value", text |-> text, val |-> val, shown |-> <<val.value>>]

\* info address: a symbol of data is asked for as a global variable, any other has an
\* address.  LLDB's list of symbols is valid even if it is empty; then the first symbol
\* is none of them and its kind is Invalid.
InfoAddress(symbol) ==
    LET known == symbol \in DOMAIN target.symbols
        type == IF known THEN target.symbols[symbol].type ELSE "Invalid"
    IN  [kind |-> CASE type = "Data" /\ target.symbols[symbol].global -> "data at"
                    [] type = "Data" /\ ~target.symbols[symbol].global -> "no global"
                    [] type = "Code" -> "function at"
                    [] OTHER -> "symbol at",
         text |-> symbol]

\* the numbers at the start of a list of arguments
Numbers(words) ==
    LET other == SelectInSeq(words, LAMBDA w : At(w, 1) \notin DOMAIN Digit)
    IN  [n \in 1..(IF other = 0 THEN Len(words) ELSE other - 1) |-> Number(words[n])]

\* the frames asked for by a start and an end, in order
StackList(numbers, details) ==
    LET start == IF Len(numbers) > 0 THEN numbers[1] ELSE 0
        end == IF Len(numbers) > 1 THEN numbers[2] ELSE -1
        frames == FramesFromTo(start, end, Len(target.stack), FRAMES_MAX)
        asked == SelectSeq(target.stack, LAMBDA f : f.id \in frames)
    IN  IF target.stack = <<>> THEN [kind |-> "no thread"]
        ELSE [kind |-> "stack", details |-> details, start |-> start, end |-> end,
              list |-> Listed([n \in DOMAIN asked |-> formatFrame(asked[n], details)])]

-----------------------------------------------------------------------------
(* The commands *)

Nothing == [kind |-> "nothing"]

Init ==
    /\ target \in Targets
    /\ line = <<>> /\ argv = <<>> /\ answer = Nothing

Reads(l, words) ==
    /\ answer = Nothing
    /\ line' = l
    /\ argv' = scanArgs(l, 0)
    /\ IsPrefix(words, argv')
    /\ UNCHANGED target

SymbolListLines ==
    \E l \in Lines :
        /\ Reads(l, <<<<"-symbol-list-lines">>>>)
        /\ \E path \in Buffer(argv', 2) : answer' = ListLines(path)

\* Behind "info line" the next argument is copied, present or not: argv ends with NULL.
InfoLineCommand ==
    \E l \in Lines :
        /\ Reads(l, <<<<"info">>, <<"line">>>>)
        /\ answer' = IF Len(argv') < 3 THEN [kind |-> "crash"] ELSE InfoLine(strlcpy(argv'[3]))

InfoAddressCommand ==
    \E l \in Lines :
        /\ Reads(l, <<<<"info">>, <<"address">>>>)
        /\ answer' = IF Len(argv') < 3 THEN [kind |-> "crash"] ELSE InfoAddress(strlcpy(argv'[3]))

PtypeCommand ==
    \E l \in Lines :
        /\ Reads(l, <<<<"ptype">>>>)
        /\ \E expression \in Buffer(argv', 2) : answer' = Ptype(expression)

\* If the expression has a value, its type is logged with the names of its class and
\* its basic type.
VarCreate ==
    \E l \in Lines :
        /\ Reads(l, <<<<"-var-create">>, <<"-">>, <<"*">>>>)
        /\ LET text == IF Len(argv') = 3 THEN <<>> ELSE Expression(SubSeq(argv', 4, Len(argv')))
           IN  IF <<text, <<>>>> \notin DOMAIN target.values
               THEN answer' = [kind |-> "no variable", text |-> text]
               ELSE \E type \in ValueTypes :
                        answer' = [kind |-> "variable", text |-> text,
                                   class |-> type[1], className |-> getNameForTypeClass(type[1]),
                                   basic |-> type[2], basicName |-> getNameForBasicType(type[2])]

GdbShowLanguage ==
    \E l \in Lines, type \in Languages :
        /\ Reads(l, <<<<"-gdb-show">>, <<"language">>>>)
        /\ answer' = [kind |-> "language", language |-> type, name |-> getNameForLanguageType(type)]

DataEvaluateExpression ==
    \E l \in Lines :
        /\ Reads(l, <<<<"-data-evaluate-expression">>>>)
        /\ \E expression \in Buffer(argv', 2) \ {<<>>} : answer' = Evaluate(expression)

StackListFrames ==
    \E l \in Lines :
        /\ Reads(l, <<<<"-stack-list-frames">>>>)
        /\ answer' = StackList(Numbers(Tail(argv')), FrameDetails.WITH_LEVEL)

\* The first number says how values are to be printed and is not used.
StackListArguments ==
    \E l \in Lines :
        /\ Reads(l, <<<<"-stack-list-arguments">>>>)
        /\ LET numbers == Numbers(Tail(argv'))
           IN  answer' = StackList(SubSeq(numbers, 2, Len(numbers)), FrameDetails.JUST_LEVEL_AND_ARGS)

\* The frame selected is any of the stack.
StackListLocals ==
    \E l \in Lines :
        /\ Reads(l, <<<<"-stack-list-locals">>>>)
        /\ \/ /\ \A n \in DOMAIN target.stack : ~target.stack[n].function
              /\ answer' = [kind |-> "no locals"]
           \/ \E n \in DOMAIN target.stack :
                  /\ target.stack[n].function
                  /\ answer' = [kind |-> "locals", frame |-> n,
                                list |-> formatVariables(target.stack[n].locals)]

\* CDT_COMMAND is a local variable of the main loop's turn: nothing of it stays.
Answered ==
    /\ answer.kind \notin {"nothing", "crash"}
    /\ line' = <<>> /\ argv' = <<>> /\ answer' = Nothing
    /\ UNCHANGED target

Next == SymbolListLines \/ InfoLineCommand \/ InfoAddressCommand \/ PtypeCommand \/ VarCreate \/ GdbShowLanguage
        \/ DataEvaluateExpression \/ StackListFrames \/ StackListArguments \/ StackListLocals
        \/ Answered

Spec == Init /\ [][Next]_vars

-----------------------------------------------------------------------------
(* Properties *)

Ascending(s, Test(_)) == SelectSeq([i \in DOMAIN s |-> i], Test)    \* positions
Composite == {TypeClass.Class, TypeClass.Struct, TypeClass.Union}
Words(text) ==
    LET starts == Ascending(text, LAMBDA i : text[i] # Space /\ At(<<Space>> \o text, i) = Space)
        End(i) == Min({j \in i..(Len(text) + 1) : At(text \o <<Space>>, j) = Space})
    IN  [k \in DOMAIN starts |-> SubSeq(text, starts[k], End(starts[k]) - 1)]

Quoteless(text) == Quote \notin Range(text)
Joined(words) == FoldLeft(LAMBDA e, w : IF e = <<>> THEN w ELSE e \o <<Space>> \o w, <<>>, words)

\* scanArgs finds the words of a line and, if the last of them is quoted, what stands
\* between its quotes; -var-create puts the words behind "- *" together again. Not
\* covered: a quote in a quoted word, which is lost, and what follows a quoted word,
\* which becomes part of it.
ArgsAsTyped ==
    /\ \A n \in 0..Len(line) :
           LET before == SubSeq(line, 1, n)
               quoted == SubSeq(line, n + 2, Len(line) - 1)
               inQuotes == /\ n + 2 <= Len(line) /\ At(line, n + 1) = Quote /\ Last(line) = Quote
                           /\ Quoteless(quoted) /\ At(line, Len(line) - 1) # Backslash
                           /\ n > 0 /\ Last(before) = Space
               words == Words(before) \o IF inQuotes THEN <<quoted>> ELSE <<>>
           IN  (Quoteless(before) /\ (inQuotes \/ n = Len(line)) /\ Len(words) <= MAX_ARGS - 2)
               => SelectSeq(argv, LAMBDA a : a # <<>>) = SelectSeq(words, LAMBDA a : a # <<>>)
    /\ LET words == SelectSeq(argv, LAMBDA a : a # <<>>)
           typed == Joined(SubSeq(words, 4, Len(words)))
       IN  (answer.kind \in {"variable", "no variable"} /\ argv = words /\ Len(typed) < NAME_MAX) => answer.text = typed

Argument == IF answer.kind \in {"lines", "unknown file"} /\ argv[1] = <<"-symbol-list-lines">> THEN 2 ELSE 3
AsTyped == Len(argv) >= Argument /\ Len(argv[Argument]) < NAME_MAX

FilesOf(t) == UNION {Range(u.support) : u \in UNION {Range(m) : m \in Range(t.modules)}}

\* A path names a file by its name alone, by its directory, or, if it is relative and
\* there is no such directory here, by the last components of its directory.
IsNamed(path, file) ==
    LET spec == SBFileSpec(path)
        dir == realpath(spec.dir)
    IN  /\ file.name = spec.name
        /\ \/ dir = <<>> \/ file.dir = dir
           \/ dir[1] # Slash /\ IsSuffix(<<Slash>> \o dir, file.dir)

\* A file the path does not name but whose directory ends with the text of the path's,
\* as /b/a/f does for /a/f.
LooksAlike(path, file) ==
    /\ ~IsNamed(path, file) /\ file.name = SBFileSpec(path).name
    /\ IsSuffix(realpath(SBFileSpec(path).dir), file.dir)

\* A list of lines is of a unit that has the file that was named, complete and in
\* order, and well formed if the unit's first line is in the file; a line's address is
\* that line's and in that file, and a line is without code only if such a file has none
\* for it; a file a unit was compiled from is found under every path that names it. Not
\* covered: a program that has a look-alike of the file, which may be answered for in
\* its place.
AboutTheFile ==
    AsTyped =>
    /\ (answer.kind \in {"lines", "line at", "no code"}
        /\ \A file \in FilesOf(target) : ~LooksAlike(answer.text, file)) =>
           LET unit == answer.unit
               named == {file \in Range(unit.support) : IsNamed(answer.text, file)}
           IN  /\ named # {}
               /\ answer.kind = "line at" => unit.entries[answer.entry].file \in named
               /\ answer.kind = "no code" =>
                      \E file \in named : \A n \in DOMAIN unit.entries :
                          unit.entries[n].file = file => unit.entries[n].line # answer.iline
    /\ answer.kind = "lines" =>
           LET entries == answer.unit.entries
               mine == {n \in DOMAIN entries : entries[n].file.name = Parts(answer.text).name}
           IN  /\ SelectSeq(answer.list, LAMBDA n : n # 0) = Ascending(entries, LAMBDA n : n \in mine)
               /\ (mine = {} \/ 1 \in mine) =>
                      \A k \in DOMAIN answer.list : (answer.list[k] = 0) = (k % 2 = 0)
    /\ answer.kind = "line at" => answer.unit.entries[answer.entry].line = answer.iline
    /\ answer.kind = "unknown file" =>
           \A file \in FilesOf(target) : ~IsNamed(answer.text, file)

\* ptype shows a class where the name has one, and knows every type and value.
AboutTheType ==
    /\ answer.kind = "type" =>
           LET list == FindTypes(answer.type)
           IN  (\E n \in DOMAIN list : TypeClass.Class \in list[n]) => TypeClass.Class \in list[answer.at]
    /\ (answer.kind = "no symbol" /\ Len(argv) > 1 /\ Len(argv[2]) < NAME_MAX) =>
           /\ FindTypes(argv[2]) = <<>>
           /\ <<argv[2], <<>>>> \notin DOMAIN target.values

\* A variable is not called a function nor a function a variable, and only what is not
\* known as a variable is reported missing. Not covered: a name of no symbol, for which
\* an address is shown all the same.
AboutTheSymbol ==
    answer.kind \in {"data at", "no global", "function at", "symbol at"} =>
        LET typed == argv[3] \in DOMAIN target.symbols /\ Len(argv[3]) < NAME_MAX
            symbol == target.symbols[argv[3]]
        IN  typed => /\ (answer.kind = "function at") = (symbol.type = "Code")
                     /\ answer.kind = "data at" => symbol.global
                     /\ answer.kind = "no global" => ~symbol.global /\ symbol.type = "Data"

AnswersTheQuestion == AboutTheFile /\ AboutTheType /\ AboutTheSymbol

RECURSIVE MembersOf(_)
\* the members of a value and of the members whose own members are shown, in order
MembersOf(var) ==
    FlattenSeq([n \in DOMAIN var.kids |->
        <<var.kids[n].name>> \o IF var.kids[n].class \cap Composite # {} /\ var.kids[n].bases = <<>>
                                THEN MembersOf(var.kids[n]) ELSE <<>>])

Occurs(shown, names) == SelectSeq(shown, LAMBDA t : t \in Range(names))
Count(shown, mark) == Len(SelectSeq(shown, LAMBDA t : t = mark))
Balanced(shown, opening, closing) ==
    /\ Count(shown, opening) = Count(shown, closing)
    /\ \A n \in DOMAIN shown : Count(SubSeq(shown, 1, n), opening) >= Count(SubSeq(shown, 1, n), closing)

Separated(list) == \A n \in DOMAIN list : (list[n].separator = "") = (n = 1)
Items(list) == [n \in DOMAIN list |-> list[n].item]
Readable(varslist) ==
    LET good == Ascending(varslist, LAMBDA n : varslist[n].valid /\ ~varslist[n].fails)
    IN  [n \in DOMAIN good |-> varslist[good[n]].name]

\* What is shown of a structure, of the class behind a pointer or of a stack is whole:
\* every member, argument, variable and frame asked for, once and in order, in a text
\* whose braces match. Not covered: the members of a class without a base behind a
\* pointer and those of a member whose class has a base, which are not shown, and
\* braces a text of LLDB's has.
ShownWhole ==
    /\ answer.kind = "struct" =>
           /\ Occurs(answer.shown, MembersOf(answer.val)) = MembersOf(answer.val)
           /\ Balanced(answer.shown, "{", "}")
    /\ answer.kind = "class" =>
           LET own == SelectSeq(answer.val.kids, LAMBDA k : k.name \notin Range(answer.val.bases))
               names == [n \in DOMAIN own |-> own[n].name]
           IN  /\ answer.val.bases # <<>> => Occurs(answer.shown, names) = names
               /\ (\A n \in DOMAIN own : Balanced(own[n].desc, "(", ")") /\ Balanced(own[n].desc, "{", "}"))
                  => Balanced(answer.shown, "{", "}")
    /\ answer.kind = "locals" =>
           /\ Items(answer.list) = Readable(target.stack[answer.frame].locals)
           /\ Separated(answer.list)
    /\ answer.kind = "stack" =>
           LET shown == Items(answer.list)
               Level(f) == f.level + 1
               asked == {n \in DOMAIN target.stack :
                            n > answer.start /\ (answer.end < 0 \/ n <= answer.end + 1)}
           IN  /\ Separated(answer.list)
               /\ Len(shown) = Min({Cardinality(asked), FRAMES_MAX})
               /\ \A n \in DOMAIN shown : Level(shown[n]) = answer.start + n
               /\ \A f \in Range(shown) :
                      LET frame == target.stack[Level(f)]
                      IN  /\ "args" \in DOMAIN f =>
                                 /\ Items(f.args) = IF frame.function THEN Readable(frame.args) ELSE <<>>
                                 /\ Separated(f.args)
                          /\ "line" \in DOMAIN f => frame.function /\ f.line = frame.line
                          /\ "JUST" \notin answer.details => f.addr = frame.pc

\* names.cpp: "the first part of this array must follow enum LanguageType exactly":
\* every enumerator is shown under the name its table pairs it with. Not covered: the
\* class Other, whose bit the loop does not reach, and languages the declaration ends
\* before, two of which get the names of the synonyms at the table's end.
NamesFollowEnumerations ==
    /\ (answer.kind = "language" /\ answer.language < Len(LanguageType)) =>
           <<answer.name, LanguageType[answer.language + 1]>> \in Range(languagetypes_names)
    /\ answer.kind = "variable" =>
           /\ <<answer.basicName, BasicType[answer.basic + 1]>> \in Range(basictypes_names)
           /\ \A n \in DOMAIN TypeClass \ {"Other"} :
                  answer.class = {TypeClass[n]} => <<answer.className, n>> \in Range(typeclass_names)
=============================================================================
