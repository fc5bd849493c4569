------------------------------ MODULE LineEcho ------------------------------
(****************************************************************************)
(* What laboratory work 3 promises, whatever the operating system: the      *)
(* server takes one line at a time from the user, the client prints it, and *)
(* only then does the server take the next one.                             *)
(****************************************************************************)
EXTENDS Naturals, Sequences

VARIABLES
  typed,   \* the lines taken from the user so far
  shown,   \* the lines the client has printed
  ended    \* has the user ended the session?

vars == <<typed, shown, ended>>

Init == typed = <<>> /\ shown = <<>> /\ ended = FALSE

\* The user types a line, any line.
Enter ==
  /\ ~ended /\ shown = typed
  /\ Len(typed') = Len(typed) + 1 /\ SubSeq(typed', 1, Len(typed)) = typed
  /\ UNCHANGED <<shown, ended>>

Show ==
  /\ Len(shown) < Len(typed)
  /\ shown' = Append(shown, typed[Len(shown) + 1])
  /\ UNCHANGED <<typed, ended>>

\* Before the end every line must be shown at last; the one that ends the session may
\* or may not be.
ShowInSession == ~ended /\ Show

End ==
  /\ ended' = TRUE
  /\ UNCHANGED <<typed, shown>>

Next == Enter \/ Show \/ End

Fairness == WF_vars(ShowInSession)

Spec == Init /\ [][Next]_vars /\ Fairness
=============================================================================
