----------------------------- MODULE MCDeviceAuth ----------------------------
(* Model values for TLC: two processes at a time and two roles.             *)
EXTENDS DeviceAuth, TLC

CONSTANTS p1, p2

MCSymmetry == Permutations({p1, p2})
=============================================================================
