----------------------- MODULE MCAdapterCoordinator -----------------------
(* Model-checking instances of AdapterCoordinator.                         *)
EXTENDS AdapterCoordinator, TLC

\* The supervisor may cancel a task at every await.
CancelAnywhere == Phases \ {"stopped"}
===========================================================================
