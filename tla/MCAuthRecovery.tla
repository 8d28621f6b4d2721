-------------------------- MODULE MCAuthRecovery --------------------------
(* Model-checking instances of AuthRecovery.                               *)
EXTENDS AuthRecovery, TLC

DeviceSymmetry == Permutations(Devices)
===========================================================================
