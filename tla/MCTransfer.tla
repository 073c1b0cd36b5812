----------------------------- MODULE MCTransfer -----------------------------
(* TLC instance of Transfer and RangeSet: the bounds are in the .cfg file. *)
EXTENDS Transfer

CONSTANTS s1, s2
=============================================================================
