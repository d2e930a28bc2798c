--------------------------- MODULE MCControlInput ---------------------------
(* MCControlInput.cfg: two connections retry two write ids, one outcome     *)
(* being retained.  MCControlInputLocks.cfg: one connection, a stream and   *)
(* the reply task compete for the PTY.                                      *)
EXTENDS ControlInput, TLC

\* Connections are interchangeable.
Symmetry == Permutations(Connections)
=============================================================================
