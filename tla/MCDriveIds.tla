----------------------------- MODULE MCDriveIds -----------------------------
(* TLC instance of DriveIds: two top-level names and one name below each.  *)
EXTENDS DriveIds, TLC

CONSTANTS a, b, v1, v2, i1, i2, i3, i4, loop, watch, reader, docs

\* Identifiers and contents are interchangeable.
Symmetry == Permutations(Ids) \cup Permutations(Vers)

MCPaths == {<<a>>, <<b>>, <<a, b>>, <<b, b>>}
=============================================================================
