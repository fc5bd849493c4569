---------------------------- MODULE MCPipeServer ----------------------------
(* Small instances of PipeServer: a buffer of four bytes. *)
EXTENDS PipeServer

MCLine(n) == [size |-> n, dis |-> FALSE]
MCDis == [size |-> 2, dis |-> TRUE]

\* Up to three lines below, at and above the size of the buffer and of the pipe, then
\* "\disconnect/" or nothing.
MCLines == UNION {[1..n -> {MCLine(k) : k \in {0, 1, 3, 4, 5, 9}}] : n \in 0..3}
MCInputs == MCLines \cup {Append(s, MCDis) : s \in MCLines}
=============================================================================
