----------------------------- MODULE MCFileSync -----------------------------
(* TLC instances of FileSync: the bounds are in the .cfg files.            *)
EXTENDS FileSync

CONSTANTS p1
=============================================================================
