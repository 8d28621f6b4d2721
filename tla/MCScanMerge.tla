--------------------------- MODULE MCScanMerge ---------------------------
(* Model-checking instances of ScanMerge.                                 *)
EXTENDS ScanMerge, TLC

CONSTANTS c1, c2, c3, m1, m2

\* Two tasks of one device and one of another.
TwoAndOne == c1 :> m1 @@ c2 :> m1 @@ c3 :> m2

Anywhere == {"follow", "lock", "scan"}
==========================================================================
