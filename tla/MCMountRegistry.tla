-------------------------- MODULE MCMountRegistry --------------------------
(* TLC instance of MountRegistry: the bounds are in the .cfg file.         *)
EXTENDS MountRegistry

CONSTANTS p1, p2, p3, c1, c2
=============================================================================
