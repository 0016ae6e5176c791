--------------------------- MODULE MCIpsecSession ---------------------------
(* IpsecSession with one other caller of Close. *)
EXTENDS IpsecSession
=============================================================================
