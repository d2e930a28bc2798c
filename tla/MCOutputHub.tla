---------------------------- MODULE MCOutputHub ----------------------------
(* One consumer: consumers share nothing but the hub state they are given,  *)
(* so each one's stream is that of a hub with it alone.  The history, the   *)
(* queue and one event are smaller than what is produced, and by different  *)
(* amounts, so that eviction, overflow and fragmentation happen separately. *)
EXTENDS OutputHub
=============================================================================
