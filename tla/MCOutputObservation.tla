------------------------ MODULE MCOutputObservation ------------------------
(* One observer (observers share nothing), a history of three bytes and     *)
(* pages of two, so that a page can be cut short and its start evicted.     *)
EXTENDS OutputObservation
=============================================================================
