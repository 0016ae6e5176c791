------------------------------ MODULE MCRelay ------------------------------
(* Relay with two kinds of packet, two packets offered, two callers of Close. *)
EXTENDS Relay
=============================================================================
