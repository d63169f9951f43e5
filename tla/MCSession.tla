------------------------------ MODULE MCSession ------------------------------
(* One session whose high-water mark holds one frame of each size; its     *)
(* constants are in the .cfg files.                                        *)
EXTENDS Session
=============================================================================
