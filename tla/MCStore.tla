-------------------------------- MODULE MCStore -------------------------------
(* Instances of Store for TLC: two processes on host a and one on host b,    *)
(* sharing the file.  *)
EXTENDS Store, TLC

CONSTANTS a1, a2, b1, a, b

MCHostOf == (a1 :> a) @@ (a2 :> a) @@ (b1 :> b)
===============================================================================
