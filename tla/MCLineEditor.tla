---------------------------- MODULE MCLineEditor ----------------------------
(***************************************************************************)
(* TLC instance of LineEditor: a buffer of three bytes, a terminal whose   *)
(* rows a line fills, one that is asked for its width, and one whose       *)
(* answer comes behind a typed key; offers that fit, that fill the buffer  *)
(* and that are longer than it.                                            *)
(***************************************************************************)
EXTENDS LineEditor

Typed == {" ", "TAB"}
Offered == <<<<"TAB">>, <<" ", " ">>, <<" ", "TAB", " ">>>>
Saved == <<<<"TAB", " ">>, <<>>>>
HintFor(t) == IF Len(t) = 0 THEN <<" ">> ELSE IF Len(t) = 1 THEN t \o t ELSE <<>>

Answer(column) == <<"ESC", "[", column, "R">>
MCTerminals ==
    {[name |-> "xterm", ws_col |-> 2, replies |-> <<<<>>, <<>>>>],
     [name |-> "dumb", ws_col |-> 0, replies |-> <<Answer(1), Answer(2)>>],
     [name |-> "xterm", ws_col |-> 0, replies |-> <<<<" ">> \o Answer(1), Answer(3)>>]}
=============================================================================
