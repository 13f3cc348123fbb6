---------------------------- MODULE MCSerialLink -----------------------------
(* Instances of SerialLink for TLC.                                        *)
EXTENDS SerialLink
=============================================================================
