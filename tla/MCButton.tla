------------------------------ MODULE MCButton -------------------------------
(* Instance of Button for TLC.                                             *)
EXTENDS Button
=============================================================================
