------------------------- MODULE MCDeviceLifecycle --------------------------
(* Instances of DeviceLifecycle for TLC: the factory settings and one      *)
(* other set.                                                              *)
EXTENDS DeviceLifecycle

CONSTANT s1

MCSettings == {Factory, s1}
=============================================================================
