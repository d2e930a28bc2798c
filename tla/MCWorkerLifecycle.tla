-------------------------- MODULE MCWorkerLifecycle --------------------------
(* Two initialize transactions, so that a second one can be refused. *)
EXTENDS WorkerLifecycle
=============================================================================
