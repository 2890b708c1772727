----------------------------- MODULE MCWsWorker -----------------------------
(* Small instances of the worker pool for TLC.                             *)
EXTENDS WsWorkerRefinement, WsWorkerInv, TLC

\* Connections 1 and 3 share slot 1 of two; connection 2 has slot 0.
MCConnOf    == <<1, 1, 2, 3>>
MCConnOf3   == <<1, 1, 2>>
MCCollide3  == <<1, 1, 3>>
MCTimed     == {2, 3}
MCWorkers   == Permutations(Workers)
=============================================================================
