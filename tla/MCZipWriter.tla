------------------------------ MODULE MCZipWriter ------------------------------
(* Archives for the runs of ZipWriter alone; MCParts has the passing ones. *)
EXTENDS ZipWriter

StoredFile(name, size) ==
  [path |-> <<name>>, dir |-> FALSE, declared |-> size, actual |-> size]

\* Two files, each within ZipMaxFile = 3, that together stay below
\* ZipMaxTotal = 6: scan_archive accepts them.
BelowTheCap == { << StoredFile("c", 2), StoredFile("d", 3) >> }

\* One file of one read.
OneFile == { << StoredFile("c", 2) >> }
===============================================================================
