----------------------------- MODULE MCWorkerPool -----------------------------
(***************************************************************************)
(* Small instances of WorkerPool.                                          *)
(***************************************************************************)
EXTENDS WorkerPool

CONSTANTS w1, w2
=============================================================================
