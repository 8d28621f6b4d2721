---------------------------- MODULE MCPortPolicy ----------------------------
(* Instance of PortPolicy for TLC: a limit for once on a port with full-off.  *)
EXTENDS PortPolicy

StoredSettings == {[lim |-> "once", perm |-> FALSE, foff |-> "always"]}
=============================================================================
