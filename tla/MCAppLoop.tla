------------------------------ MODULE MCAppLoop ------------------------------
(* Instance of AppLoop for TLC.                                            *)
EXTENDS AppLoop
=============================================================================
