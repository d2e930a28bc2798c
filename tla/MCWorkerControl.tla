-------------------------- MODULE MCWorkerControl --------------------------
(* Two daemons, two control connections and two data connections presenting *)
(* one token, which may expire in between: every pair of them can race.     *)
EXTENDS WorkerControl
=============================================================================
