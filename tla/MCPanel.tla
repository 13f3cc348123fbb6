------------------------------ MODULE MCPanel --------------------------------
(* Instances of Panel for TLC: a press of relay 0, and one of relay 3 with *)
(* a bit no relay has.                                                     *)
EXTENDS Panel
MCMasks == {{0}, {3, 5}}
=============================================================================
