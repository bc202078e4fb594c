----------------------------- MODULE MCWithered -----------------------------
(* Instances of Withered for TLC.                                          *)
EXTENDS Withered

OneMask == {{"D"}}
=============================================================================
