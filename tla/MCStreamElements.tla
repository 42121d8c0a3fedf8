-------------------------- MODULE MCStreamElements --------------------------
(* The relay on a small instance: one retry per outage, a pipe of one       *)
(* packet, and faults enough for each element to reconnect and for one      *)
(* reconnect to fail half way.                                              *)
EXTENDS StreamElements
=============================================================================
