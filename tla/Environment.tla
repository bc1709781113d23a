---------------------------- MODULE Environment ----------------------------
(***************************************************************************)
(* The environment lldbmi2 keeps for the debuggee (STATE.envs and          *)
(* STATE.envp): one array holds the texts of the entries, one after the    *)
(* other, another one points to their first characters and ends with a     *)
(* NULL.  main copies its own environment into them, -gdb-set env adds to  *)
(* them, unset env empties them without erasing anything, and -exec-run    *)
(* hands the array of pointers to LLDB.                                    *)
(***************************************************************************)
EXTENDS Integers, Sequences

CONSTANTS
    ENV_ENTRIES,   \* size of envp
    ENVS_SIZE,     \* size of envs, BIG_LINE_MAX in the code
    Chars, NUL,    \* characters, and the one that ends a text
    Texts,         \* the entries and parts of entries that occur
    NullText       \* how snprintf prints a missing argument

ASSUME SizesAssumption ==
    /\ ENV_ENTRIES \in Nat /\ ENV_ENTRIES >= 2 /\ ENVS_SIZE \in Nat \ {0}
    /\ NUL \notin Chars
    /\ Texts \subseteq Seq(Chars) /\ NullText \in Seq(Chars)

NULL == -1
Offsets == 0 .. ENVS_SIZE - 1

VARIABLES
    envp, envpentries,   \* the pointers, as offsets into envs
    envs, envspointer,   \* the texts, and where the next one goes
    launched,            \* the environment of the program launched last
    serving              \* main has reached its loop

vars == <<envp, envpentries, envs, envspointer, launched, serving>>

TypeOK ==
    /\ envp \in [0 .. ENV_ENTRIES - 1 -> Offsets \cup {NULL}]
    /\ envpentries \in 0 .. ENV_ENTRIES - 2
    /\ envs \in [Offsets -> Chars \cup {NUL}]
    /\ envspointer \in Offsets
    /\ launched \in Seq(Seq(Chars)) /\ serving \in BOOLEAN

\* The STATE record is static, so its bytes are 0.
Init ==
    /\ envp = [i \in 0 .. ENV_ENTRIES - 1 |-> NULL] /\ envpentries = 0
    /\ envs = [q \in Offsets |-> NUL] /\ envspointer = 0
    /\ launched = <<>> /\ serving = FALSE

\* The text that starts at offset p
TextAt(p) ==
    LET end == CHOOSE q \in p .. ENVS_SIZE - 1 :
                  envs[q] = NUL /\ \A r \in p .. q - 1 : envs[r] # NUL
    IN  [i \in 1 .. end - p |-> envs[p + i - 1]]

\* The entries that the code which gets envp finds: up to the first NULL
Entries ==
    LET n == CHOOSE k \in 0 .. ENV_ENTRIES - 1 :
                envp[k] = NULL /\ \A j \in 0 .. k - 1 : envp[j] # NULL
    IN  [i \in 1 .. n |-> TextAt(envp[i - 1])]

\* strcpy
Copied(text, p) ==
    [q \in Offsets |-> IF q \in p .. p + Len(text) - 1 THEN text[q - p + 1]
                       ELSE IF q = p + Len(text) THEN NUL ELSE envs[q]]

Fits(text) ==
    envpentries < ENV_ENTRIES - 2 /\ envspointer + 1 + Len(text) < ENVS_SIZE

Accept(text, width, nulls) ==
    /\ envp' = [i \in 0 .. ENV_ENTRIES - 1 |->
                   IF i = envpentries THEN envspointer
                   ELSE IF i \in nulls THEN NULL ELSE envp[i]]
    /\ envpentries' = envpentries + 1
    /\ envs' = Copied(text, envspointer)
    /\ envspointer' = envspointer + width

\* Mutant: no NULL after the new pointer; the array was zero at the start.
AddEnvironmentNoNull(text) ==
    IF Fits(text) THEN Accept(text, Len(text) + 1, {})
                  ELSE UNCHANGED <<envp, envpentries, envs, envspointer>>

\* An entry that does not fit is refused, and only logged.
AddEnvironment(text) ==
    IF Fits(text) THEN Accept(text, Len(text) + 1, {envpentries + 1})
                  ELSE UNCHANGED <<envp, envpentries, envs, envspointer>>

\* main adds the entries of its own environment before its loop.
CopyEnvironment(text) ==
    ~serving /\ AddEnvironment(text) /\ UNCHANGED <<launched, serving>>

EnterLoop ==
    /\ ~serving /\ serving' = TRUE
    /\ UNCHANGED <<envp, envpentries, envs, envspointer, launched>>

\* -gdb-set env with the given arguments.  With fewer than three of them the
\* code takes the NULL after the last one as well.
EnvEntry(args) ==
    LET given(i) == IF i <= Len(args) THEN args[i] ELSE NullText
    IN  CASE Len(args) = 0 -> given(1)
          [] Len(args) = 1 -> given(1) \o given(2)
          [] OTHER -> given(1) \o given(2) \o given(3)

GdbSetEnv(args) ==
    serving /\ AddEnvironment(EnvEntry(args)) /\ UNCHANGED <<launched, serving>>

\* unset env
UnsetEnv ==
    /\ serving
    /\ envp' = [envp EXCEPT ![0] = NULL]
    /\ envpentries' = 0
    /\ envspointer' = 0
    /\ UNCHANGED <<envs, launched, serving>>

\* -exec-run: SetEnvironmentEntries
ExecRun ==
    /\ serving
    /\ launched' = Entries
    /\ UNCHANGED <<envp, envpentries, envs, envspointer, serving>>

Arguments == UNION {[1 .. n -> Texts] : n \in 0 .. 3}

Next ==
    \/ (\E text \in Texts : CopyEnvironment(text)) \/ EnterLoop
    \/ \E args \in Arguments : GdbSetEnv(args)
    \/ UnsetEnv \/ ExecRun

Spec == Init /\ [][Next]_vars

-----------------------------------------------------------------------------
\* Every text that is pointed to ends inside envs, also after unset env and
\* when the array is full: whoever reads the entries stays inside the array.
EntriesEnd ==
    /\ envp[envpentries] = NULL
    /\ \A i \in 0 .. envpentries - 1 :
          /\ envp[i] \in Offsets
          /\ \E q \in envp[i] .. ENVS_SIZE - 1 : envs[q] = NUL

\* The two arrays implement a list: a launched program gets exactly the
\* entries accepted since the last unset env, in order and unmixed, however
\* much older text and however many older pointers the arrays still hold.
List == INSTANCE EnvironmentList
            WITH env <- Entries,
                 Entries <- Texts \cup {EnvEntry(args) : args \in Arguments}
ImplementsList == List!Spec
=============================================================================
