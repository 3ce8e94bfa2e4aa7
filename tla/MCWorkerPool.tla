------------------------------ MODULE MCWorkerPool ------------------------------
(* Instance of WorkerPool for TLC.                                          *)
EXTENDS WorkerPool
=============================================================================
