----------------------------- MODULE MCEventPush -----------------------------
(* Instance of EventPush for TLC: two chargers, the first of them primary.     *)
EXTENDS EventPush
CONSTANTS d1, d2, b1, p1

TwoDevices == <<d1, d2>>
=============================================================================
