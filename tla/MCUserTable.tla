---------------------------- MODULE MCUserTable -----------------------------
(* Instances of UserTable for TLC: users and keys are model values.        *)
EXTENDS UserTable

CONSTANTS u1, u2, u3, u4, k1

MCIds == {u1, u2, u3}
FourIds == {u1, u2, u3, u4}
OneKey == {k1}
=============================================================================
