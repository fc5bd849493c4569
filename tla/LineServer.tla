----------------------------- MODULE LineServer -----------------------------
(****************************************************************************)
(* Lab_3/LINUX/src/main.cpp.                                                *)
(*                                                                          *)
(* The parent (the server) takes lines from the user and writes each to a   *)
(* pipe; the child (the client) reads and prints it.  Two System V          *)
(* semaphores give them turns; each operation is a semop of its own, with   *)
(* SEM_UNDO and its result ignored.                                         *)
(*   CLIENT  0: the client may print;   1: it must wait;                    *)
(*   SERVER  0: the server may enter a line;   1: it must wait.             *)
(*                                                                          *)
(* Abstractions.  A line is its length and whether it is "/dis".  A byte is *)
(* known by the line it belongs to and its place in it; the terminating NUL *)
(* is the one after the last.  Nobody else uses the semaphore set.          *)
(****************************************************************************)
EXTENDS Integers, Sequences

CONSTANTS
  Inputs,      \* what may come on standard input: sequences of lines
  BUFSIZE,     \* size of the client's buffer
  PipeSize,    \* bytes the pipe holds
  MaxAdjust    \* SEMAEM, the largest undo value the kernel keeps

TextLine == [size : Nat, dis : BOOLEAN]

ASSUME InputsAssumption == Inputs \subseteq Seq(TextLine)
ASSUME SizesAssumption == BUFSIZE \in Nat \ {0} /\ PipeSize \in Nat \ {0}
ASSUME AdjustAssumption == MaxAdjust \in Nat

VARIABLES
  input,      \* the lines that will come
  terminated, \* does the last of them end with a newline?
  sem,        \* the values of the two semaphores
  adj,        \* semadj of the two processes: what SEM_UNDO has noted
  removed,    \* is the semaphore set gone?
  pipe,       \* the bytes in the pipe
  ppc, user_input, unsent,   \* parent: control point, line, bytes still to write
  cpc, buf, killed,          \* child: control point, buffer; SIGKILL sent?
  typed,      \* history: the lines getline has returned
  shown       \* history: the texts the child has printed

semaphores == <<sem, adj, removed>>
parentVars == <<ppc, user_input, unsent>>
childVars == <<cpc, buf, killed>>
vars == <<input, terminated, semaphores, pipe, parentVars, childVars, typed, shown>>

Empty == [size |-> 0, dis |-> FALSE]

\* A byte the buffer held before anything was read into it, and whatever follows it.
Garbage == [line |-> 0, pos |-> 0]
Past == [line |-> 0, pos |-> 1]

\* The bytes of the i-th line typed, without and with its NUL.
Text(lines, i) == [p \in 1..lines[i].size |-> [line |-> i, pos |-> p]]
Message(lines, i) == Append(Text(lines, i), [line |-> i, pos |-> lines[i].size + 1])
IsNUL(byte) == byte.line # 0 /\ byte.pos = typed[byte.line].size + 1

Texts == [i \in DOMAIN typed |-> Text(typed, i)]
Ending == ppc \in {"kill", "remove", "done"}
Abs == INSTANCE LineEcho
         WITH typed <- Texts, ended <- Ending

-----------------------------------------------------------------------------
(* Initial state and set-up *)

Init ==
  /\ input \in Inputs /\ terminated \in BOOLEAN
  /\ sem = [CLIENT |-> 0, SERVER |-> 0]
  /\ adj = [p \in {"parent", "child"} |-> [CLIENT |-> 0, SERVER |-> 0]]
  /\ removed = FALSE
  /\ pipe = <<>>
  /\ ppc = "setup" /\ user_input = Empty /\ unsent = <<>>
  /\ cpc = "none" /\ buf = [i \in 1..BUFSIZE |-> Garbage] /\ killed = FALSE
  /\ typed = <<>> /\ shown = <<>>

\* The values semctl sets, and a variant with the two exchanged.
FirstValuesExchanged == [CLIENT |-> 0, SERVER |-> 1]
FirstValues == [CLIENT |-> 1, SERVER |-> 0]

\* pipe, semget, semctl and fork; the program exits when one of them fails.
Setup ==
  /\ ppc = "setup"
  /\ \/ ppc' = "wait" /\ cpc' = "wait" /\ sem' = FirstValues
     \/ ppc' = "failed" /\ UNCHANGED <<cpc, sem>>
  /\ UNCHANGED <<input, terminated, adj, removed, pipe, user_input, unsent, buf, killed,
                 typed, shown>>

-----------------------------------------------------------------------------
(* semop with SEM_UNDO *)

\* wait_semaphore: operation 0.
IsZero(s) == ~removed /\ sem[s] = 0

\* increase_semaphore and release_semaphore: add d. The kernel refuses (ERANGE) what it
\* could not undo, and everything when the set is gone (EIDRM, EINVAL).
Undoable(n) == n \in (-MaxAdjust - 1)..MaxAdjust

AddTo(p, s, d) ==
  \/ /\ ~removed /\ sem[s] + d >= 0 /\ Undoable(adj[p][s] - d)
     /\ sem' = [sem EXCEPT ![s] = @ + d]
     /\ adj' = [adj EXCEPT ![p][s] = @ - d]
  \/ /\ removed \/ (sem[s] + d >= 0 /\ ~Undoable(adj[p][s] - d))
     /\ UNCHANGED <<sem, adj>>

-----------------------------------------------------------------------------
(* Parent: the server *)

\* Variant: the server does not wait for its turn.
WaitServerNever ==
  /\ ppc = "wait" /\ ppc' = "raise"
  /\ UNCHANGED <<input, terminated, semaphores, pipe, user_input, unsent, childVars, typed,
                 shown>>

WaitServer == IsZero("SERVER") /\ WaitServerNever

RaiseServer ==
  /\ ppc = "raise"
  /\ AddTo("parent", "SERVER", 1)
  /\ ppc' = "input"
  /\ UNCHANGED <<input, terminated, removed, pipe, user_input, unsent, childVars, typed, shown>>

\* getline at the end of the input: the first call empties the string unless the last
\* line had no newline; the calls after it leave it alone.
LineAfter(n) ==
  IF n < Len(input) THEN input[n + 1]
  ELSE IF n = Len(input) /\ terminated THEN Empty
  ELSE user_input

GetLine ==
  /\ ppc = "input"
  /\ user_input' = LineAfter(Len(typed))
  /\ typed' = Append(typed, user_input')
  /\ unsent' = Message(typed', Len(typed'))
  /\ ppc' = "write"
  /\ UNCHANGED <<input, terminated, semaphores, pipe, childVars, shown>>

\* write puts what fits into the pipe and blocks until the rest does. Variant: it
\* returns after what fits.
PutSome(blocking) ==
  /\ ppc = "write" /\ Len(pipe) < PipeSize
  /\ LET room == PipeSize - Len(pipe)
         n == IF Len(unsent) < room THEN Len(unsent) ELSE room
     IN  /\ pipe' = pipe \o SubSeq(unsent, 1, n)
         /\ unsent' = SubSeq(unsent, n + 1, Len(unsent))
         /\ ppc' = IF blocking /\ n < Len(unsent) THEN "write" ELSE "release"
  /\ UNCHANGED <<input, terminated, semaphores, user_input, childVars, typed, shown>>

WriteOnce == PutSome(FALSE)
Write == PutSome(TRUE)

\* Variant: the semaphore is raised.
ReleaseClientRaising ==
  /\ ppc = "release"
  /\ AddTo("parent", "CLIENT", 1)
  /\ ppc' = IF user_input.dis THEN "kill" ELSE "wait"
  /\ UNCHANGED <<input, terminated, removed, pipe, user_input, unsent, childVars, typed, shown>>

ReleaseClient ==
  /\ ppc = "release"
  /\ AddTo("parent", "CLIENT", -1)
  /\ ppc' = IF user_input.dis THEN "kill" ELSE "wait"
  /\ UNCHANGED <<input, terminated, removed, pipe, user_input, unsent, childVars, typed, shown>>

Kill ==
  /\ ppc = "kill"
  /\ killed' = TRUE
  /\ ppc' = "remove"
  /\ UNCHANGED <<input, terminated, semaphores, pipe, user_input, unsent, cpc, buf, typed, shown>>

\* IPC_RMID; the second one finds no set any more. The pipe's ends are closed before.
RemoveSet ==
  /\ ppc = "remove"
  /\ removed' = TRUE
  /\ ppc' = "done"
  /\ UNCHANGED <<input, terminated, sem, adj, pipe, user_input, unsent, childVars, typed, shown>>

-----------------------------------------------------------------------------
(* Child: the client. A system call that blocks does not return after SIGKILL. *)

\* Variant: the client does not wait for its turn.
WaitClientNever ==
  /\ cpc = "wait" /\ ~killed
  /\ cpc' = "raise"
  /\ UNCHANGED <<input, terminated, semaphores, pipe, parentVars, buf, killed, typed, shown>>

\* memset(buf, BUFSIZE, 0) sets no byte: the buffer keeps what it held.
WaitClient == IsZero("CLIENT") /\ WaitClientNever

RaiseClient ==
  /\ cpc = "raise"
  /\ AddTo("child", "CLIENT", 1)
  /\ cpc' = "read"
  /\ UNCHANGED <<input, terminated, removed, pipe, parentVars, buf, killed, typed, shown>>

Read ==
  /\ cpc = "read" /\ pipe # <<>> /\ ~killed
  /\ LET n == IF Len(pipe) < BUFSIZE THEN Len(pipe) ELSE BUFSIZE
     IN  /\ buf' = SubSeq(pipe, 1, n) \o SubSeq(buf, n + 1, BUFSIZE)
         /\ pipe' = SubSeq(pipe, n + 1, Len(pipe))
  /\ cpc' = "print"
  /\ UNCHANGED <<input, terminated, semaphores, parentVars, killed, typed, shown>>

\* What `cout << buf' prints: up to the first NUL, which may be past the buffer. Variant:
\* everything in the buffer.
WholeBuffer(b) == b
CString(b) ==
  LET ends == {i \in 1..BUFSIZE : IsNUL(b[i])}
  IN  IF ends = {} THEN Append(b, Past)
      ELSE SubSeq(b, 1, (CHOOSE i \in ends : \A j \in ends : i <= j) - 1)

Show ==
  /\ cpc = "print"
  /\ shown' = Append(shown, CString(buf))
  /\ cpc' = "release"
  /\ UNCHANGED <<input, terminated, semaphores, pipe, parentVars, buf, killed, typed>>

ReleaseServer ==
  /\ cpc = "release"
  /\ AddTo("child", "SERVER", -1)
  /\ cpc' = "wait"
  /\ UNCHANGED <<input, terminated, removed, pipe, parentVars, buf, killed, typed, shown>>

\* SIGKILL takes effect, and the kernel undoes the child's operations.
Undone(n) == IF n < 0 THEN 0 ELSE n
Die ==
  /\ killed /\ cpc # "dead"
  /\ cpc' = "dead"
  /\ sem' = IF removed THEN sem
            ELSE [s \in {"CLIENT", "SERVER"} |-> Undone(sem[s] + adj["child"][s])]
  /\ UNCHANGED <<input, terminated, adj, removed, pipe, parentVars, buf, killed, typed, shown>>

-----------------------------------------------------------------------------
(* Specification *)

\* What the parent does without the user.
Parent == Setup \/ WaitServer \/ RaiseServer \/ Write \/ ReleaseClient \/ Kill \/ RemoveSet

Child == WaitClient \/ RaiseClient \/ Read \/ Show \/ ReleaseServer \/ Die

\* Both processes are over.
Ended == ppc \in {"done", "failed"} /\ cpc \in {"none", "dead"} /\ UNCHANGED vars

Next == Parent \/ GetLine \/ Child \/ Ended

\* Both processes are scheduled; nothing makes the user type.
Spec == Init /\ [][Next]_vars /\ WF_vars(Parent) /\ WF_vars(Child)

-----------------------------------------------------------------------------
(* Properties *)

Byte == [line : Nat, pos : Nat]
Values == [CLIENT : 0..1, SERVER : 0..1]
Adjustments == [CLIENT : (-MaxAdjust - 1)..MaxAdjust, SERVER : (-MaxAdjust - 1)..MaxAdjust]

\* Every variable holds a value of its type, and each semaphore is 0 or 1 while both
\* processes live.
TypeOK ==
  /\ input \in Inputs /\ terminated \in BOOLEAN
  /\ sem \in [CLIENT : Nat, SERVER : Nat] /\ (~killed => sem \in Values)
  /\ adj \in [parent : Adjustments, child : Adjustments]
  /\ removed \in BOOLEAN
  /\ pipe \in Seq(Byte) /\ Len(pipe) <= PipeSize
  /\ ppc \in {"setup", "failed", "wait", "raise", "input", "write", "release", "kill",
              "remove", "done"}
  /\ user_input \in TextLine /\ unsent \in Seq(Byte)
  /\ cpc \in {"none", "wait", "raise", "read", "print", "release", "dead"}
  /\ buf \in Seq(Byte) /\ Len(buf) = BUFSIZE /\ killed \in BOOLEAN
  /\ typed \in Seq(TextLine) /\ shown \in Seq(Seq(Byte))

ParentHasTurn == ppc \in {"raise", "input", "write", "release"}
ChildHasTurn == cpc \in {"raise", "read", "print", "release"}

\* A semaphore is tested and raised by two separate operations; still the server never
\* takes or writes a line while the client reads or prints one.
Turns == ~(ParentHasTurn /\ ChildHasTurn)

\* The client, once let through, never has to wait in read: the line is already there.
ReadReady == cpc = "read" /\ ~killed => pipe # <<>>

\* What each process can do without the user.
ParentCanGo ==
  \/ ppc \in {"setup", "raise", "kill", "remove"}
  \/ ppc = "wait" /\ IsZero("SERVER")
  \/ ppc = "write" /\ Len(pipe) < PipeSize
  \/ ppc = "release" /\ (removed \/ sem.CLIENT > 0)

ChildCanGo ==
  \/ cpc \in {"raise", "print"} \/ (killed /\ cpc # "dead")
  \/ cpc = "wait" /\ IsZero("CLIENT")
  \/ cpc = "read" /\ pipe # <<>>
  \/ cpc = "release" /\ (removed \/ sem.SERVER > 0)

\* What is printed at a time is a stretch of one line, from a read in that turn: no
\* remains of an earlier line in the buffer, which is never cleared, and no second line.
\* The last byte may be from behind the buffer, when the line is longer than it.
Unmixed ==
  \A i \in DOMAIN shown :
    LET text == shown[i]
    IN  \A k \in 1..Len(text) :
          \/ k = Len(text) /\ text[k] = Past
          \/ text[k].line # 0 /\ text[k].line = text[1].line
                              /\ text[k].pos = text[1].pos + k - 1

\* Every line taken so far fits into the buffer with its NUL.
Fitting == \A i \in DOMAIN typed : typed[i].size < BUFSIZE

\* The server's next release of the client would exceed the undo range.
Exhausted == ~Undoable(adj["parent"]["CLIENT"] + 1)

\* As long as the lines fit into the buffer, the two processes keep the promise of the
\* laboratory work: one line, printed as typed, before the next is taken.
Echoes == Abs!Init /\ [][Fitting' => [Abs!Next]_(Abs!vars)]_vars

\* And until the undo range is used up, every such line is printed at last.
Answers == <>(~Fitting \/ Exhausted) \/ Abs!Fairness

\* The server is in the middle of a line that, with what earlier long lines left, is more
\* than the pipe holds; the client is only let in when the whole line is written.
PipeFull == ppc = "write" /\ Len(pipe) = PipeSize

\* The two processes never wait for each other: one of them can go on, or the server is
\* with the user, or both are over; unless the undo range is used up or the pipe full.
NoStandstill ==
  \/ ParentCanGo \/ ChildCanGo \/ ppc = "input"
  \/ ppc \in {"done", "failed"} /\ cpc \in {"none", "dead"}
  \/ Exhausted \/ PipeFull

\* What holds of waiting, in read and for the other process.
Waits == ReadReady /\ NoStandstill

\* Whatever the lengths of the lines, every line leads to one output, unless the session
\* is ended, the undo range used up or the pipe full: in no other way are the two
\* processes left waiting for each other; and the lines that fit are printed in any case.
EveryLineShown ==
  /\ Answers
  /\ []<>(Ending \/ ppc = "failed" \/ Exhausted \/ PipeFull \/ Len(shown) = Len(typed))
=============================================================================
