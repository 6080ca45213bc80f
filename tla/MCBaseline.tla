------------------------------- MODULE MCBaseline ------------------------------
(* Instances of Baseline for TLC: two processes on one host and one on        *)
(* another that shares its directory.                                        *)
EXTENDS Baseline, TLC

CONSTANTS w1, w2, v1, web, web3

MCHostOf == (w1 :> web) @@ (w2 :> web) @@ (v1 :> web3)
===============================================================================
