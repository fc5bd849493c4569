--------------------------- MODULE MCFileHandler ---------------------------
(* Small instances of FileHandler: directories of at most two files.        *)
EXTENDS FileHandler

MCDot == [kind |-> "dot", size |-> 0]
MCDir == [kind |-> "dir", size |-> 0]
MCFile(n) == [kind |-> "file", size |-> n]

\* Sizes around the buffer size (empty, less, equal, more than one chunk), entries to
\* be skipped, subdirectories, a directory without entries and none at all.
MCFolders ==
  {<<>>, <<MCDot, MCDot>>}
    \cup {<<MCFile(n)>> : n \in {0, 1, 2, 3, 5}}
    \cup {<<MCFile(m), MCDot, MCFile(n)>> : m, n \in {0, 1, 2, 3}}
    \cup {<<MCDot, MCFile(1), MCFile(0), MCFile(1)>>, <<MCFile(1), MCDir>>, <<MCDir, MCFile(1)>>}
=============================================================================
