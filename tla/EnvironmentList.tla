-------------------------- MODULE EnvironmentList --------------------------
(***************************************************************************)
(* What lldbmi2 promises about the environment of the debuggee: a list of  *)
(* entries, extended one by one, emptied as a whole, and handed to every   *)
(* program that is launched.                                               *)
(***************************************************************************)
EXTENDS Sequences

CONSTANT Entries      \* the entries that can be added

VARIABLES
    env,        \* the list
    launched    \* what the program launched last has got

Init == env = <<>> /\ launched = <<>>

Add(e) == env' = Append(env, e) /\ launched' = launched
Unset == env' = <<>> /\ launched' = launched
Run == launched' = env /\ env' = env

Next == (\E e \in Entries : Add(e)) \/ Unset \/ Run

Spec == Init /\ [][Next]_<<env, launched>>
=============================================================================
