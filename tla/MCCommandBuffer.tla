-------------------------- MODULE MCCommandBuffer --------------------------
(***************************************************************************)
(* TLC instance of CommandBuffer: commands of one kind of character, one   *)
(* of which is -gdb-exit, and chunks of up to four bytes.                  *)
(***************************************************************************)
EXTENDS CommandBuffer

MCChars == {"c", "q"}
MCExitLine == <<"q">>
MCChunks == {<<"c">>, <<NL>>, <<CR, NL>>, <<"c", NL>>, <<"q", CR, NL>>,
             <<"c", "c">>, <<NL, "c", NL>>, <<"c", NL, "q", NL>>}
=============================================================================
