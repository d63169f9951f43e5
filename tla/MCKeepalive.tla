----------------------------- MODULE MCKeepalive -----------------------------
(* A configuration that a client which keeps sending keeps up with; the    *)
(* constants are in the .cfg file.                                         *)
EXTENDS Keepalive
=============================================================================
