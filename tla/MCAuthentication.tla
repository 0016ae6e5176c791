-------------------------- MODULE MCAuthentication --------------------------
(* Authentication with three connections to the callback port, and passwords of *)
(* up to three bytes.                                                           *)
EXTENDS Authentication
=============================================================================
