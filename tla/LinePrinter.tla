---------------------------- MODULE LinePrinter ----------------------------
(****************************************************************************)
(* What laboratory works 2 and 4 promise, with processes or with threads:   *)
(* printers are added and removed while others print, and a line that was   *)
(* begun is not interrupted by the line of another printer.                 *)
(****************************************************************************)
CONSTANTS Printer, NoOne

VARIABLES
  printers,   \* the printers there are
  writer      \* the printer whose line is on the screen, not finished yet

vars == <<printers, writer>>

Init == printers = {} /\ writer = NoOne

Add(p) == p \notin printers /\ printers' = printers \cup {p} /\ UNCHANGED writer

\* Printers go away one by one or all together. A line that one of them leaves
\* unfinished stays the last line on the screen.
Leave == printers' \subseteq printers /\ UNCHANGED writer

Begin(p) == p \in printers /\ writer = NoOne /\ writer' = p /\ UNCHANGED printers
End(p) == p \in printers /\ writer = p /\ writer' = NoOne /\ UNCHANGED printers

Next == Leave \/ \E p \in Printer : Add(p) \/ Begin(p) \/ End(p)

Spec == Init /\ [][Next]_vars
=============================================================================
