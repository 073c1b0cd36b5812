------------------------------- MODULE MCPins -------------------------------
(* TLC instance of Pins: the bounds are in the .cfg file.                  *)
EXTENDS Pins

CONSTANTS f1, f2, t1, t2

Bounds == [user |-> 3, trouble |-> 1]
=============================================================================
