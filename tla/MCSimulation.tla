------------------------------ MODULE MCSimulation ------------------------------
(* Small instances of Simulation for TLC.                                  *)
EXTENDS Simulation

MCRun == 1..2
MCRowId == MCRun \X (1..4)
MCStamp == -8..12
MCSpread == [j \in {2} |-> "spread"]
=================================================================================
