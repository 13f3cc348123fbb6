------------------------------ MODULE MCKernel -------------------------------
(* Instances of Kernel for TLC: a counter of 6 or 4 ticks, block times of  *)
(* none, 2 and for ever.                                                   *)
EXTENDS Kernel

CONSTANTS a, b

MCValues == {a, b}
MCWaits == {0, 2, portMAX_DELAY}
MCDelays == {1, 3}
MCShortDelays == {2}
=============================================================================
