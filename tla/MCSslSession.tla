---------------------------- MODULE MCSslSession ----------------------------
(* SslSession with another caller of Close and routes over two destinations. *)
EXTENDS SslSession

=============================================================================
