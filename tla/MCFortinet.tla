----------------------------- MODULE MCFortinet -----------------------------
(* Fortinet with every address mode. *)
EXTENDS Fortinet
=============================================================================
