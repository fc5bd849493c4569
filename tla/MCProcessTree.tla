--------------------------- MODULE MCProcessTree ---------------------------
(* Small instances of ProcessTree. *)
EXTENDS ProcessTree

MCBoth == {"linux", "windows"}
=============================================================================
