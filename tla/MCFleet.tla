-------------------------------- MODULE MCFleet --------------------------------
(* An instance of Fleet for TLC: the first two hosts are two names of one     *)
(* machine, the third is another machine.                                     *)
EXTENDS Fleet, TLC

CONSTANTS shared, single, load

MCMachineOf == 1 :> shared @@ 2 :> shared @@ 3 :> single
Warn == [shape |-> load, level |-> "WARN"]
Crit == [shape |-> load, level |-> "CRIT"]
MCReports == {{}, {Warn}, {Warn, Crit}}
===============================================================================
