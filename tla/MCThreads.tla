----------------------------- MODULE MCThreads ------------------------------
(* The four workers of scape in the orders of src/main.rs. *)
EXTENDS Threads

CONSTANTS config, input, renderer, display

MCWorker == {config, input, renderer, display}

\* run_app spawns config, input, renderer, display ...
MCSpawnRank ==
  [w \in Worker |-> IF w = config THEN 1 ELSE IF w = input THEN 2
                    ELSE IF w = renderer THEN 3 ELSE 4]

\* ... and sends Shutdown to input, display, renderer, config.
MCNotifyRank ==
  [w \in Worker |-> IF w = input THEN 1 ELSE IF w = display THEN 2
                    ELSE IF w = renderer THEN 3 ELSE 4]
=============================================================================
