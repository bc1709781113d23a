------------------------------ MODULE MCStringB ------------------------------
(***************************************************************************)
(* TLC instances of StringB: a limit of a few doublings of the smallest    *)
(* buffer, and strings from the empty one to one longer than a buffer.     *)
(***************************************************************************)
EXTENDS StringB

SmallSizes == 1 .. 5
SmallLengths == 0 .. 9
=============================================================================
