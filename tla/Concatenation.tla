---------------------------- MODULE Concatenation ----------------------------
(****************************************************************************)
(* What laboratory work 5 promises, whatever the operating system: the text *)
(* files of one directory are joined into one output file, in directory     *)
(* order, every byte of every file exactly once, and then the program says  *)
(* that the operation is complete.                                          *)
(*                                                                          *)
(* File contents are abstracted to their sizes.  The output is the sequence *)
(* of the pieces written to it: a piece is the bytes from .. to-1 of the    *)
(* input file number `file'.                                                *)
(****************************************************************************)
EXTENDS Naturals, Sequences

VARIABLES
  sizes,     \* sizes[f] is the size in bytes of file f, in directory order
  output,    \* the pieces in the output file, in file order
  finished   \* has the program reported completion?

vars == <<sizes, output, finished>>

Piece == [file : Nat, from : Nat, to : Nat]

\* The imaginary empty piece that precedes everything.
Nothing == [file |-> 0, from |-> 0, to |-> 0]

LastPiece(out) == IF out = <<>> THEN Nothing ELSE out[Len(out)]

\* p ends its file and only empty files lie strictly between p's and file f.
NextFileIs(p, f) ==
  /\ p.file < f
  /\ p.file # 0 => p.to = sizes[p.file]
  /\ \A g \in DOMAIN sizes : p.file < g /\ g < f => sizes[g] = 0

\* In the concatenation, the bytes of q come immediately after those of p.
Follows(p, q) ==
  /\ q.file \in DOMAIN sizes
  /\ q.from < q.to /\ q.to <= sizes[q.file]
  /\ \/ q.file = p.file /\ q.from = p.to
     \/ q.from = 0 /\ NextFileIs(p, q.file)

\* out is a gapless prefix of the concatenation: nothing is lost, repeated or
\* out of place.
InOrder(out) ==
  \A i \in 1..Len(out) :
    Follows(IF i = 1 THEN Nothing ELSE out[i - 1], out[i])

\* Nothing is left to write after the last piece of out.
AtEnd(out) == NextFileIs(LastPiece(out), Len(sizes) + 1)

-----------------------------------------------------------------------------

Init ==
  /\ sizes \in Seq(Nat)
  /\ output = <<>>
  /\ finished = FALSE

Write ==
  \E f \in DOMAIN sizes : \E from, to \in 0..sizes[f] :
    LET piece == [file |-> f, from |-> from, to |-> to]
    IN  /\ ~finished
        /\ Follows(LastPiece(output), piece)
        /\ output' = Append(output, piece)
        /\ UNCHANGED <<sizes, finished>>

Finish ==
  /\ AtEnd(output)
  /\ finished' = TRUE
  /\ UNCHANGED <<sizes, output>>

Next == Write \/ Finish

\* What can still be written is written, and completion is reported.
Fairness == WF_vars(Next)

Spec == Init /\ [][Next]_vars /\ Fairness
=============================================================================
