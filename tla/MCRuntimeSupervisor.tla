----------------------- MODULE MCRuntimeSupervisor -----------------------
(* Model-checking instances of RuntimeSupervisor.                         *)
EXTENDS RuntimeSupervisor, TLC

AnyFault == Fault
Everyone == {"http", "mqtt"}
==========================================================================
