------------------------------ MODULE MCClient ------------------------------
(* One client object and its connections; the constants are in the .cfg    *)
(* files.                                                                  *)
EXTENDS Client
=============================================================================
