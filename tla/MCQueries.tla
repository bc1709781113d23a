----------------------------- MODULE MCQueries -----------------------------
(***************************************************************************)
(* TLC instance of Queries: every text of up to four characters behind     *)
(* -var-create, files of one name in directories one of which ends like    *)
(* the other, a header in one of the units, and a type that is a class     *)
(* and a structure.                                                        *)
(***************************************************************************)
EXTENDS Queries, ApiVersions

Text(n) == UNION {[1..k -> {"v", Space, Quote, Backslash}] : k \in 0..n}
Create == <<"-var-create", Space, "-", Space, "*", Space>>
List == <<"-symbol-list-lines", Space>>
Info == <<"info", Space, "line", Space>>
Address == <<"info", Space, "address", Space>>

P(dir, name) == dir \o <<Slash>> \o name
A == <<Slash, "a">>
CA == <<Slash, "c", "a">>       \* ends like a relative "a"
BA == <<Slash, "b", "/", "a">>
Files == {P(A, <<"f">>), P(CA, <<"f">>), P(BA, <<"f">>), <<"a", "/", "f">>, <<"f">>, P(A, <<"h">>),
          P(A, <<"f", "g">>), P(BA, <<"f", "g">>), P(BA, <<"f", "g", "x">>),
         <<"b", "/", "a", "/", "f", "g">>, <<"h">>, <<"f", "g">>, P(<<>>, <<"f">>)}

MCLines ==
    {Create \o t : t \in Text(4)}
    \cup {Create \o <<"v", "v", "v", Space, "v", "v">> \o t : t \in Text(3)}
    \cup {List \o p : p \in Files} \cup {List \o <<Quote>> \o p \o <<Quote>> : p \in Files}
    \cup {Info \o p \o <<Colon, n>> : p \in Files, n \in {"1", "2", "3"}}
    \cup {Address \o s : s \in {<<>>, <<"v">>, <<"w">>} \cup {<<t>> : t \in SymbolType}}
    \cup {List, Info, Info \o <<"f">>, <<"-gdb-show", Space, "language">>, <<"ptype">>}
    \cup {<<"ptype", Space>> \o e : e \in {<<"T">>, <<"v">>, <<"v", ".", "m">>, <<"v", ".", "n">>,
                                            <<"w">>, <<"x">>, <<"F">>}}
    \cup {<<"-data-evaluate-expression", Space>> \o e :
              e \in {<<>>} \cup UNION {{w, w \o <<Caret>>} : w \in
                  {<<n>> : n \in {"v", "w", "x", "e", "q", "u", "z", "c"}}
                  \cup {<<AtSign, "v">>, <<"v", ".", "p">>, <<"v", ".", "m">>}}}
    \cup {<<"-stack-list-locals">>}
    \cup UNION {{<<c>> \o a : c \in {"-stack-list-frames", "-stack-list-arguments"}} :
                a \in {<<>>} \cup {<<Space, n>> : n \in {"0", "1", "2", "3", "x"}}
                     \cup {<<Space, n, Space, k>> : n, k \in {"0", "1", "2", "3"}}
                     \cup {<<Space, n, Space, k, Space, j>> : n, k, j \in {"0", "1", "2", "3"}}}

File(dir, name) == [dir |-> dir, name |-> name]
Entry(file, l) == [file |-> file, line |-> l]
f1 == File(A, <<"f">>)
f2 == File(CA, <<"f">>)
f3 == File(BA, <<"f", "g">>)
h == File(A, <<"h">>)
U1 == [support |-> <<f1, h>>, entries |-> <<Entry(f1, 1), Entry(h, 2), Entry(f1, 3), Entry(f1, 3)>>]
U2 == [support |-> <<f2>>, entries |-> <<Entry(f2, 2), Entry(f2, 3)>>]
U3 == [support |-> <<h, f3>>, entries |-> <<Entry(h, 1), Entry(f3, 2), Entry(f3, 1)>>]
U4 == [support |-> <<f1, File(A, <<"f", "g">>)>>,
       entries |-> <<Entry(f1, 2), Entry(File(A, <<"f", "g">>), 1)>>]

Types == (<<"T">> :> <<{TypeClass.Struct}, {TypeClass.Class}>>)
         @@ (<<"S">> :> <<{TypeClass.Enumeration}>>)
Value(name, type, class, kids) ==
    [name |-> name, type |-> type, class |-> class, fields |-> Len(kids), kids |-> kids,
     flags |-> IF kids = <<>> THEN {"HasValue"} ELSE {}, value |-> "value of " \o name,
     location |-> "place of " \o name, bases |-> <<>>, pointee |-> <<>>, fails |-> FALSE,
     typedefed |-> {}, desc |-> <<"(", type, ")", " ", name, "=", "1", "\n">>]
Scalar(name) == Value(name, "i", {TypeClass.Builtin}, <<>>)
Structure(name, kids) == Value(name, "S", {TypeClass.Struct}, kids)
\* The base class is the first child and no field.
Derived(name, base, kids) ==
    [Value(name, "D", {TypeClass.Class}, <<base>> \o kids) EXCEPT !.bases = <<base.name>>,
                                                                !.fields = Len(kids)]
Pointer(name, val) == [Value(name, "P", {TypeClass.Pointer}, <<>>) EXCEPT !.pointee = <<val>>]
Array(name) == [Scalar(name) EXCEPT !.class = {TypeClass.Array}, !.flags = {}]
Method(name) == [Scalar(name) EXCEPT !.flags = {"HasValue", "IsFuncPrototype"},
                                  !.desc = <<"(", "(", "i", ")", "f", ")", " ", name, "=", "f", "(", "i", ")">>]
Base == Value("B", "B", {TypeClass.Class}, <<Scalar("b")>>)
Inner == Structure("s1", <<Scalar("s2"), Structure("s3", <<Array("s4"), Method("s5")>>)>>)
Object == Derived("o", Base, <<Scalar("m1"), Method("m2"), [Scalar("m3") EXCEPT !.desc = <<"m3">>]>>)
\* Here the base class has no place of its own among the children.
Empty == [Object EXCEPT !.kids = Tail(@)]
Deeper == Derived("q", [Object EXCEPT !.name = "D"], <<Scalar("m4")>>)

Named(e) == << <<e>>, <<>> >>
Values == Named("v") :> Structure("v", <<Scalar("m"), Inner, Scalar("s6")>>)
          @@ << <<"v">>, <<".", "m">> >> :> [Scalar("m") EXCEPT !.type = "S"]
          @@ Named("w") :> Scalar("w") @@ Named("F") :> Scalar("F")
          @@ << <<"&", "v">>, <<>> >> :> Pointer("&v", Inner)
          @@ << <<"v">>, <<".", "p">> >> :> Pointer("p", Object)
          @@ Named("e") :> Pointer("e", Empty) @@ Named("q") :> Pointer("q", Deeper)
          @@ Named("u") :> [Inner EXCEPT !.class = {TypeClass.Typedef}, !.typedefed = {TypeClass.Struct}]
          @@ Named("z") :> [Scalar("z") EXCEPT !.fails = TRUE]
          @@ Named("c") :> [Pointer("c", Scalar("c")) EXCEPT !.type = "char *"]

Var(name, valid, fails) == [name |-> name, valid |-> valid, fails |-> fails]
\* a symbol of each kind, named by it, and "v", data that no global variable is known for
Symbols == [s \in {<<t>> : t \in SymbolType} |-> [type |-> s[1], global |-> TRUE]]
           @@ <<"v">> :> [type |-> "Data", global |-> FALSE]

Variable3 == <<Var("l1", FALSE, FALSE), Var("l2", TRUE, FALSE), Var("l3", TRUE, TRUE), Var("l4", TRUE, FALSE)>>
Frame(id, function, variables) ==
    [id |-> id, function |-> function, args |-> variables, locals |-> Reverse(variables), pc |-> id,
     name |-> "f", file |-> "f.c", dir |-> "/", module |-> "libc", line |-> id]
Stacks == {<<>>, <<Frame(0, FALSE, <<>>)>>,
           <<Frame(0, TRUE, Variable3), Frame(1, FALSE, <<>>), Frame(2, TRUE, Tail(Variable3)), Frame(3, TRUE, <<>>)>>}
Program(m, stack) ==
    [modules |-> m, types |-> Types, values |-> Values, functions |-> {<<"F">>}, symbols |-> Symbols,
     stack |-> stack]
MCTargets ==
    {Program(m, <<>>) : m \in {<<<<U1, U2>>, <<U3>>>>, <<<<U2, U3>>, <<>>, <<U1>>>>, <<<<U3>>, <<U1>>>>, <<<<U1>>, <<U4>>>>}}
    \cup {Program(<<>>, stack) : stack \in Stacks}
\* The relative a/f is there, a/fg is not, although its directory is.
MCWorkingDir == <<Slash, "c">>
MCOnDisk == {P(A, <<"f">>), P(CA, <<"f">>), P(A, <<"h">>)}
MCLeftovers == {<<>>, P(A, <<"f">>), <<"T">>}
=============================================================================
