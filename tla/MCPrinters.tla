----------------------------- MODULE MCPrinters -----------------------------
(* Small instances of Printers. *)
EXTENDS Printers

MCBoth == {"windows", "linux"}
=============================================================================
