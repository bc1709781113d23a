---------------------------- MODULE MCVariables ----------------------------
(***************************************************************************)
(* TLC instance of Variables: two functions that share the name of one     *)
(* variable, and the declarations                                          *)
(*   struct Z { struct N *y; union { int b; }; int a[1]; int w; } z;       *)
(*   struct Z *p; int c[1];                                                *)
(* where an inner block of main declares p again, and an int t.            *)
(***************************************************************************)
EXTENDS Variables

Tree == [x \in {<<"z">>, <<"z", "y">>, <<"z", "y", "n">>, <<"z", "()">>, <<"z", "()", "b">>,
                <<"z", "a">>, <<"z", "a", "[0]">>, <<"z", "w">>, <<"p">>, <<"p", "q">>,
                <<"inner p">>, <<"inner p", "q">>, <<"t">>, <<"c">>, <<"c", "[0]">>} |->
            CASE x = <<"z">> -> <<"y", "()", "a", "w">>
              [] x = <<"z", "y">> -> <<"n">>
              [] x = <<"z", "()">> -> <<"b">>
              [] x \in {<<"z", "a">>, <<"c">>} -> <<"[0]">>
              [] x \in {<<"p">>, <<"inner p">>} -> <<"q">>
              [] OTHER -> <<>>]
Whole(root) == [root |-> root, scope |-> {"body", "inner"}]
Vars == [f \in {"main", "f"} |->
            IF f = "main" THEN <<Whole("z"), Whole("p"), Whole("c"),
                                 [root |-> "t", scope |-> {"inner"}],
                                 [root |-> "inner p", scope |-> {"inner"}]>>
            ELSE <<[root |-> "p", scope |-> {"body"}]>>]
Calls == [r \in {"z", "p", "c", "t", "inner p"} |-> IF r = "inner p" THEN "p" ELSE r]
Pointers == {<<"z", "y">>, <<"p">>, <<"p", "q">>, <<"inner p">>, <<"inner p", "q">>}
Arrays == {<<"z", "a">>, <<"c">>}

Dot(n) == [sep |-> ".", name |-> n]
To(n) == [sep |-> "->", name |-> n]
At(n) == [sep |-> "[", name |-> n]
E(op, root, steps) == [op |-> op, root |-> root, steps |-> steps]

Asked == {E("", "z", <<Dot("y"), To("n")>>), E("", "z", <<To("y"), Dot("n")>>),
          E("", "z", <<Dot("b")>>), E("", "z", <<Dot("a"), At("[0]")>>),
          E("", "p", <<To("q")>>), E("@", "c", <<>>),
          E("", "z", <<>>), E("", "z", <<Dot("w")>>), E("", "p", <<>>), E("", "t", <<>>)}
=============================================================================
