----------------------------- MODULE MCDownload -----------------------------
(* TLC instances of Download: the bounds are in the .cfg files.            *)
EXTENDS Download

CONSTANTS r1, p1
=============================================================================
