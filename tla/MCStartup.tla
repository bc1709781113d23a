----------------------------- MODULE MCStartup -----------------------------
(***************************************************************************)
(* TLC instance of Startup: argument lists as Eclipse and a developer give *)
(* them, each built-in sequence, two script files and the log file of a    *)
(* session; an environment in which three entries fill both arrays.        *)
(***************************************************************************)
EXTENDS Startup

Letters == {"a", "0"}
Words == {<<"a">>}
Missing == <<"0">>

MI == <<"lldbmi2", "--interpreter", "mi2">>
Sequences == {MI \o <<"--test", ToString(n)>> : n \in (0 .. 17) \cup {31}}
MCArgvs ==
    Sequences \cup
    {MI \o <<"--script", file>> : file \in {"commands", "session.log", "raw.log", "mixed", "missing"}}
    \cup
    {<<"lldbmi2">>, <<"lldbmi2", "--version">>, <<"lldbmi2", "-i">>,
     <<"lldbmi2", "--interpreter=mi2", "-ex", "new-ui">>,
     <<"lldbmi2", "-i", "mi", "--nx", "-ex", "set width 0", "--log">>,
     MI \o <<"--logmask", "0xFFF", "--frames", "20", "--arch">>,
     MI \o <<"--children", "x", "--walkdepth", "3", "--changedepth", "5", "--test">>,
     MI \o <<"--test", "2", "--script", "commands", "-ex", "new-ui">>}

Record(scope, text) == [scope |-> {scope}, text |-> text]
Raw(scope, text) == [scope |-> {scope, "RAW"}, text |-> text]
Session ==
    <<Record("ARGS", <<"lldbmi2">>),
      Raw("CDT_IN", <<"run">>), Record("CDT_IN", <<"run">>),
      Record("CDT_OUT", <<"^running">>), Record("EVENTS", <<"stopped">>),
      Raw("CDT_IN", <<"look", Space, "x">>), Record("CDT_IN", <<"look", Space, "x">>),
      Record("CDT_OUT", <<"^done", Bar>>),
      Record("CDT_IN", <<"exit">>), Record("CDT_OUT", <<"^exit">>)>>

Commented ==
    <<<<Slashes, "note">>, <<"run">>, <<>>, <<Space, "look", Space, Slashes, "note">>,
      <<Tab>>, <<"continue", Space, "all">>, <<Space, Slashes>>, <<"exit">>>>
MCScripts ==
    [file \in {"commands", "session.log", "raw.log", "mixed"} |->
        CASE file = "commands" -> Commented
          [] file = "session.log" -> LogFile(Session, log_mask)
          [] file = "raw.log" -> LogFile(Session, LogMask)
          [] OTHER -> <<<<Digit, "run">>, <<"look">>, <<"exit">>>>]
MCMeant ==
    [file \in {"commands", "session.log", "raw.log"} |->
        IF file = "commands" THEN <<<<"run">>, <<"look">>, <<"continue", Space, "all">>, <<"exit">>>>
        ELSE <<<<"run">>, <<"look", Space, "x">>, <<"exit">>>>]

Home == "getcwd" :> "/home"
MCEnvirons == {Home, Home @@ "CWD" :> "/none", Home @@ "CWD" :> "/none" @@ "ProjDirPath" :> "/work",
               <<>>}
MCDirectories == {<<"/home">>, <<"/work", "logs">>, <<>>}

MCOutputs == {<<"Symbols", Quote, "f", Quote, Newline>>, <<"a", Newline, Quote, Newline>>,
              <<"x">>, <<"\\", "n", Newline>>, <<>>}
=============================================================================
