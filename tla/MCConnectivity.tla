--------------------------- MODULE MCConnectivity ---------------------------
(* TLC instances of Connectivity: the bounds are in the .cfg files.        *)
EXTENDS Connectivity

CONSTANTS p1, p2
=============================================================================
