---------------------------- MODULE ApiVersions ----------------------------
(***************************************************************************)
(* lldb-versioning.h, the one header of LLDB that computes something: what *)
(* the compiler says when a program that asks for an API version uses a    *)
(* function introduced or deprecated in some minor version.                *)
(*                                                                         *)
(* A build is the set of macros it defines, with the version it wants, and *)
(* whether it is made by clang for macOS.  lldbmi2's own build defines     *)
(* none of the macros.                                                     *)
(***************************************************************************)
EXTENDS Naturals

Macros == {"CHECK_VERSIONING", "CHECK_VERSIONING_WORKS", "IMPL_DEPRECATED",
           "IMPL_TOONEW", "MAJOR_VERSION_WANTED", "MINOR_VERSION_WANTED"}
Version == [major |-> 1, minor |-> 0]
MINOR_VERSION_DOT == [x \in 0 .. 99 |-> x]

Builds == [macros : SUBSET Macros, major : {0, 1, 2}, minor : 0 .. 3, apple : BOOLEAN]

\* the macros that are defined once the compiler has been looked at
Defined(b) == b.macros \cup
    IF b.apple THEN {"IMPL_DEPRECATED", "IMPL_TOONEW", "CHECK_VERSIONING_WORKS"} ELSE {}

Checked(b) ==
    {"CHECK_VERSIONING", "MAJOR_VERSION_WANTED", "MINOR_VERSION_WANTED"} \subseteq Defined(b)

\* the #error lines that are reached
Errors(b) ==
    {e \in {"WillNotWork", "NeedsImpl", "Incompatible"} :
        CASE e = "WillNotWork" -> /\ "CHECK_VERSIONING" \in Defined(b)
                                  /\ "CHECK_VERSIONING_WORKS" \notin Defined(b)
          [] e = "NeedsImpl"   -> /\ "CHECK_VERSIONING_WORKS" \in Defined(b)
                                  /\ ~{"IMPL_DEPRECATED", "IMPL_TOONEW"} \subseteq Defined(b)
          [] OTHER             -> Checked(b) /\ Version.major # b.major}

\* what is put before the declaration of a function new, or deprecated, in .x
NEW_IN(b, x) ==
    IF Checked(b) /\ b.minor < MINOR_VERSION_DOT[x] THEN {"IMPL_TOONEW"} ELSE {}
DEPRECATED_IN(b, x) ==
    IF Checked(b) /\ b.minor >= MINOR_VERSION_DOT[x] THEN {"IMPL_DEPRECATED"} ELSE {}

\* what the compiler says of a use of a function that is both
Says(b, new, deprecated) == NEW_IN(b, new) \cup DEPRECATED_IN(b, deprecated)

\* The promise of the header's comment, over every way to define the macros:
\* a build that is checked and compiles at all is one for this major version
\* on a compiler that can mark functions; a function is refused exactly by
\* those that want an older version than introduced it, warned of by those
\* that want one in which it is deprecated, and never both; a build that is
\* not checked hears nothing.
ASSUME VersionsAsPromised ==
    \A b \in Builds, new \in 0 .. 3 : \A deprecated \in new .. 3 :
        LET said == Says(b, new, deprecated) IN
        /\ Checked(b) /\ Errors(b) = {} =>
              /\ b.major = Version.major /\ said \subseteq Defined(b)
              /\ "IMPL_TOONEW" \in said <=> b.minor < new
              /\ "IMPL_DEPRECATED" \in said <=> deprecated <= b.minor
              /\ said # {"IMPL_TOONEW", "IMPL_DEPRECATED"}
        /\ ~Checked(b) => said = {}
=============================================================================
