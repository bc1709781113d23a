--------------------------- MODULE MCDebugSession ---------------------------
(***************************************************************************)
(* TLC instances of DebugSession.                                          *)
(***************************************************************************)
EXTENDS DebugSession

NoScript == <<>>

\* The commands of testcommands_NONE (test.cpp) that change session state.
ScriptNone == <<"file-exec", "run", "gdb-exit">>
=============================================================================
