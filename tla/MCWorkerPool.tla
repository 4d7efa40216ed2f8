----------------------------- MODULE MCWorkerPool -----------------------------
(* An instance of WorkerPool: two calls of one plugin.                      *)
EXTENDS WorkerPool, TLC

CONSTANTS p, c1, c2, w1, w2, w3

OfOne == [r \in Calls |-> p]
=============================================================================
