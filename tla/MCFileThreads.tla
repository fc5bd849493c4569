--------------------------- MODULE MCFileThreads ---------------------------
(* Small instances of FileThreads: directories of at most three files.      *)
EXTENDS FileThreads

MCText(n) == [kind |-> "text", size |-> n]
MCOutput == [kind |-> "output", size |-> 1]

\* Sizes around the buffer size (empty, less, equal, more than one chunk), the output of
\* an earlier run among the files, and no file at all.
MCFolders ==
  {<<>>} \cup {<<MCText(n)>> : n \in 0..5}
    \cup {<<MCText(m), MCText(n)>> : m, n \in 0..3}
    \cup {<<MCText(1), MCText(0), MCText(1)>>, <<MCText(3), MCOutput, MCText(1)>>,
          <<MCOutput, MCText(2)>>}
=============================================================================
