--------------------------- MODULE MCThreadTable ---------------------------
(***************************************************************************)
(* TLC instances of ThreadTable.                                           *)
(***************************************************************************)
EXTENDS ThreadTable

FourIds == 1 .. 4
TwoIds == 1 .. 2
=============================================================================
