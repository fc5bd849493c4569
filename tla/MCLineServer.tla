---------------------------- MODULE MCLineServer ----------------------------
(* Small instances of LineServer: a buffer of four bytes. *)
EXTENDS LineServer

MCLine(n) == [size |-> n, dis |-> FALSE]
MCDis == [size |-> 2, dis |-> TRUE]
MCShort == {MCLine(n) : n \in 0..3}

\* Up to three lines that fit into the buffer with their NUL, then "/dis"; lines below,
\* at and above the size of the buffer and of the pipe, with and without "/dis"; no line
\* at all.
MCInputs ==
  {Append(s, MCDis) : s \in UNION {[1..n -> MCShort] : n \in 0..3}}
    \cup {<<MCLine(l), MCLine(m), MCLine(n)>> : l, m, n \in {0, 3, 4, 5, 9}}
    \cup {<<MCLine(5), MCDis>>, <<MCLine(3), MCLine(8), MCDis>>, <<>>}
=============================================================================
