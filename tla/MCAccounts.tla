----------------------------- MODULE MCAccounts -----------------------------
(* A table of few rows under the handlers of one or two connections; the   *)
(* constants are in the .cfg files.                                        *)
EXTENDS Accounts, TLC

(* Connections are interchangeable. *)
ConnSymmetry == Permutations(Conn)
=============================================================================
