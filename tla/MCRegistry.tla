----------------------------- MODULE MCRegistry -----------------------------
(* Three connections contend for two users, one of them an administrator.  *)
EXTENDS Registry, TLC

(* Connections are interchangeable, users are not (one is an admin). *)
ConnSymmetry == Permutations(Conn)
=============================================================================
