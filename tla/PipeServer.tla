----------------------------- MODULE PipeServer -----------------------------
(****************************************************************************)
(* Lab_3/WIN: server/server.cpp and Lab_3/client.cpp, two programs that the *)
(* user starts one after the other.  The server writes each line to a named *)
(* pipe, the client reads and prints it; two named semaphores give them     *)
(* turns.                                                                   *)
(*                                                                          *)
(* Abstractions.  A line is its length and whether it is "\disconnect/"; a  *)
(* byte is known by its line and its place in it.  No other text is taken   *)
(* for "\disconnect/".  One run of the server; a client that finds no pipe  *)
(* may be started again.                                                    *)
(****************************************************************************)
EXTENDS Integers, Sequences, SequencesExt

CONSTANTS
  Inputs,      \* what the user may type: sequences of lines
  BUFSIZ,      \* size of the client's buffer
  PipeSize     \* bytes the pipe holds

TextLine == [size : Nat, dis : BOOLEAN]

ASSUME InputsAssumption == Inputs \subseteq Seq(TextLine)
ASSUME SizesAssumption == BUFSIZ \in Nat \ {0} /\ PipeSize \in Nat \ {0}

VARIABLES
  input,             \* the lines the user will type
  server_can_enter, client_can_print,   \* the two semaphores: 0 or 1
  pipe,              \* state of the pipe
  data,              \* what is in it
  spc, user_input, unsent,   \* server: control point, line, bytes still to write
  kpc, buf,          \* client: control point, the bytes read
  typed,             \* history: the lines getline has returned
  refused,           \* history: the numbers of the lines WriteFile has refused
  shown              \* history: the texts the client has printed

semaphores == <<server_can_enter, client_can_print>>
serverVars == <<spc, user_input, unsent>>
clientVars == <<kpc, buf>>
vars == <<input, semaphores, pipe, data, serverVars, clientVars, typed, refused, shown>>

Empty == [size |-> 0, dis |-> FALSE]

\* The bytes of the i-th line. WriteFile of an empty line leaves a mark in the pipe.
Text(i) == [p \in 1..typed[i].size |-> [line |-> i, pos |-> p]]
Mark(i) == [line |-> i, pos |-> 0]
Past == [line |-> 0, pos |-> 1]

Ending == spc \in {"close", "return", "done"}
Abs == INSTANCE LineEcho
         WITH typed <- [i \in DOMAIN typed |-> Text(i)], ended <- Ending

Init ==
  /\ input \in Inputs
  /\ server_can_enter = 0 /\ client_can_print = 0
  /\ pipe = "none" /\ data = <<>>
  /\ spc = "start" /\ user_input = Empty /\ unsent = <<>>
  /\ kpc = "start" /\ buf = <<>>
  /\ typed = <<>> /\ refused = {} /\ shown = <<>>

-----------------------------------------------------------------------------
(* Server *)

\* The semaphores with their first counts, then the pipe. Variant: the client may print
\* from the start.
FirstCountsBoth == server_can_enter' = 1 /\ client_can_print' = 1
FirstCounts == server_can_enter' = 1 /\ client_can_print' = 0

StartServer ==
  /\ spc = "start" /\ FirstCounts
  /\ \/ pipe' = "listening" /\ spc' = "wait"
     \/ spc' = "failed" /\ UNCHANGED pipe
  /\ UNCHANGED <<input, data, user_input, unsent, clientVars, typed, refused, shown>>

WaitEnter ==
  /\ spc = "wait" /\ server_can_enter = 1
  /\ server_can_enter' = 0 /\ spc' = "input"
  /\ UNCHANGED <<input, client_can_print, pipe, data, user_input, unsent, clientVars, typed,
                 refused, shown>>

GetLine ==
  /\ spc = "input" /\ Len(typed) < Len(input)
  /\ user_input' = input[Len(typed) + 1]
  /\ typed' = Append(typed, user_input')
  /\ unsent' = [p \in 1..user_input'.size |-> [line |-> Len(typed'), pos |-> p]]
  /\ spc' = "write"
  /\ UNCHANGED <<input, semaphores, pipe, data, clientVars, refused, shown>>

\* WriteFile fails when no client is there yet, or none any more. Only a message follows.
WriteFileFails ==
  /\ spc = "write" /\ pipe # "connected"
  /\ refused' = refused \cup {Len(typed)}
  /\ unsent' = <<>> /\ spc' = "release"
  /\ UNCHANGED <<input, semaphores, pipe, data, user_input, clientVars, typed, shown>>

\* It puts what fits and blocks until the rest does. Variant: it returns after what fits.
Put(blocking) ==
  /\ spc = "write" /\ pipe = "connected" /\ unsent # <<>> /\ Len(data) < PipeSize
  /\ LET n == IF Len(unsent) < PipeSize - Len(data) THEN Len(unsent) ELSE PipeSize - Len(data)
     IN  /\ data' = data \o SubSeq(unsent, 1, n)
         /\ unsent' = IF blocking THEN SubSeq(unsent, n + 1, Len(unsent)) ELSE <<>>
         /\ spc' = IF unsent' = <<>> THEN "release" ELSE "write"
  /\ UNCHANGED <<input, semaphores, pipe, user_input, clientVars, typed, refused, shown>>

WriteOnce == Put(FALSE)
WriteFile == Put(TRUE)

WriteEmpty ==
  /\ spc = "write" /\ pipe = "connected" /\ unsent = <<>>
  /\ data' = Append(data, Mark(Len(typed))) /\ spc' = "release"
  /\ UNCHANGED <<input, semaphores, pipe, user_input, unsent, clientVars, typed, refused, shown>>

\* A count that is 1 already is refused, which is the same here. Variant: an empty line is
\* not announced.
ReleaseClientUnlessEmpty ==
  /\ spc = "release" /\ client_can_print' = (IF user_input = Empty THEN client_can_print ELSE 1)
  /\ spc' = IF user_input.dis THEN "close" ELSE "wait"
  /\ UNCHANGED <<input, server_can_enter, pipe, data, user_input, unsent, clientVars, typed,
                 refused, shown>>

ReleaseClient ==
  /\ spc = "release" /\ client_can_print' = 1
  /\ spc' = IF user_input.dis THEN "close" ELSE "wait"
  /\ UNCHANGED <<input, server_can_enter, pipe, data, user_input, unsent, clientVars, typed,
                 refused, shown>>

\* What is in the pipe can still be read.
CloseServer ==
  /\ spc = "close" /\ spc' = "return" /\ pipe' = "closed"
  /\ UNCHANGED <<input, semaphores, data, user_input, unsent, clientVars, typed, refused, shown>>

\* With the process its handles of the semaphores are gone.
ExitServer ==
  /\ spc = "return" /\ spc' = "done"
  /\ UNCHANGED <<input, semaphores, pipe, data, user_input, unsent, clientVars, typed, refused,
                 shown>>

-----------------------------------------------------------------------------
(* Client *)

\* CreateFile. The pipe is there from CreateNamedPipe on, whether the server waits for a
\* client or not.
Connect ==
  /\ kpc = "start" /\ pipe = "listening"
  /\ pipe' = "connected" /\ kpc' = "open"
  /\ UNCHANGED <<input, semaphores, data, serverVars, buf, typed, refused, shown>>

\* OpenSemaphore, twice. The semaphores are there as long as the server is, which may have
\* written to the client, closed and ended by now: then the client ends as well.
OpenSemaphores ==
  /\ kpc = "open" /\ spc # "done" /\ kpc' = "wait"
  /\ UNCHANGED <<input, semaphores, pipe, data, serverVars, buf, typed, refused, shown>>

OpenFails ==
  /\ kpc = "open" /\ spc = "done" /\ kpc' = "failed"
  /\ UNCHANGED <<input, semaphores, pipe, data, serverVars, buf, typed, refused, shown>>

WaitPrint ==
  /\ kpc = "wait" /\ client_can_print = 1
  /\ client_can_print' = 0 /\ kpc' = "read"
  /\ UNCHANGED <<input, server_can_enter, pipe, data, serverVars, buf, typed, refused, shown>>

\* ReadFile returns at once with nothing for an empty write, else with the bytes that are
\* there, as many as fit; it blocks while the pipe is empty.
FirstMark == IF \E i \in DOMAIN data : data[i].pos = 0
             THEN CHOOSE i \in DOMAIN data : data[i].pos = 0 /\ \A j \in 1..(i - 1) : data[j].pos # 0
             ELSE Len(data) + 1
ReadSize == IF FirstMark - 1 < BUFSIZ THEN FirstMark - 1 ELSE BUFSIZ

ReadFile ==
  /\ kpc = "read" /\ data # <<>>
  /\ buf' = SubSeq(data, 1, ReadSize)
  /\ data' = SubSeq(data, IF FirstMark = 1 THEN 2 ELSE ReadSize + 1, Len(data))
  /\ kpc' = "print"
  /\ UNCHANGED <<input, semaphores, pipe, serverVars, typed, refused, shown>>

\* The server has closed the pipe and nothing is left: an error message, and the empty
\* buffer is used.
ReadFileFails ==
  /\ kpc = "read" /\ data = <<>> /\ pipe = "closed"
  /\ buf' = <<>> /\ kpc' = "print"
  /\ UNCHANGED <<input, semaphores, pipe, data, serverVars, typed, refused, shown>>

IsDisconnect == buf # <<>> /\ typed[buf[1].line].dis /\ buf = Text(buf[1].line)

\* "\disconnect/" ends the client.
Disconnect ==
  /\ kpc = "print" /\ IsDisconnect
  /\ kpc' = "done" /\ pipe' = IF pipe = "closed" THEN pipe ELSE "left"
  /\ UNCHANGED <<input, semaphores, data, serverVars, buf, typed, refused, shown>>

\* Up to the zero that ZeroMemory left behind the bytes read, or what is behind a full
\* buffer. Variant: the buffer is never cleared.
CStringUncleared(b) ==
  IF shown = <<>> THEN b ELSE b \o SubSeq(shown[Len(shown)], Len(b) + 1, Len(shown[Len(shown)]))
CString(b) == IF Len(b) = BUFSIZ THEN Append(b, Past) ELSE b

Show ==
  /\ kpc = "print" /\ ~IsDisconnect
  /\ shown' = Append(shown, CString(buf))
  /\ kpc' = "release"
  /\ UNCHANGED <<input, semaphores, pipe, data, serverVars, buf, typed, refused>>

ReleaseServer ==
  /\ kpc = "release" /\ server_can_enter' = 1 /\ kpc' = "wait"
  /\ UNCHANGED <<input, client_can_print, pipe, data, serverVars, buf, typed, refused, shown>>

-----------------------------------------------------------------------------
(* Specification *)

Server ==
  \/ StartServer \/ WaitEnter \/ WriteFileFails \/ WriteFile \/ WriteEmpty \/ ReleaseClient
  \/ CloseServer \/ ExitServer

Client ==
  \/ Connect \/ OpenSemaphores \/ OpenFails \/ WaitPrint \/ ReadFile \/ ReadFileFails
  \/ Disconnect \/ Show \/ ReleaseServer

Next == Server \/ GetLine \/ Client

\* Both programs are scheduled and the client is started at last; nothing makes the user
\* type.
Spec == Init /\ [][Next]_vars /\ WF_vars(Server) /\ WF_vars(Client)

-----------------------------------------------------------------------------
(* Properties *)

Byte == [line : Nat, pos : Nat]

\* Every variable holds a value of its type; the pipe holds no more than it can.
TypeOK ==
  /\ input \in Inputs
  /\ server_can_enter \in {0, 1} /\ client_can_print \in {0, 1}
  /\ pipe \in {"none", "listening", "connected", "left", "closed"}
  /\ data \in Seq(Byte) /\ (Len(data) > PipeSize => Last(data).pos = 0)
  /\ spc \in {"start", "failed", "wait", "input", "write", "release", "close", "return",
             "done"}
  /\ user_input \in TextLine /\ unsent \in Seq(Byte)
  /\ kpc \in {"start", "open", "failed", "wait", "read", "print", "release", "done"}
  /\ buf \in Seq(Byte) /\ Len(buf) <= BUFSIZ
  /\ typed \in Seq(TextLine) /\ refused \subseteq 1..Len(typed)
  /\ shown \in Seq(Seq(Byte))

ServerHasTurn == spc \in {"input", "write", "release"}
ClientHasTurn == kpc \in {"read", "print", "release"}
Turn(b) == IF b THEN 1 ELSE 0

\* There is one turn: with the server, with the client, or on its way in a semaphore. It
\* is not doubled by a line typed before the client came, nor lost before the end.
OneTurn ==
  LET turns == server_can_enter + client_can_print + Turn(ServerHasTurn) + Turn(ClientHasTurn)
  IN  IF spc = "start" \/ kpc = "done" THEN turns = 0 ELSE turns = 1

\* What each program can do without the user.
ServerCanGo ==
  \/ spc \in {"start", "release", "close", "return"}
  \/ spc = "wait" /\ server_can_enter = 1
  \/ spc = "write" /\ (pipe # "connected" \/ unsent = <<>> \/ Len(data) < PipeSize)

ClientCanGo ==
  \/ kpc \in {"open", "print", "release"}
  \/ kpc = "start" /\ pipe = "listening"
  \/ kpc = "wait" /\ client_can_print = 1
  \/ kpc = "read" /\ (data # <<>> \/ pipe = "closed")

\* The server is in the middle of a line that, with what earlier long lines left, is more
\* than the pipe holds; the client is only let in when the whole line is written.
PipeFull == spc = "write" /\ Len(data) >= PipeSize

\* As long as no line is refused, the programs never wait for each other: one of them can
\* go on, or the server is with the user or over; unless the pipe is full.
NoStandstill ==
  \/ ServerCanGo \/ ClientCanGo \/ spc \in {"input", "done", "failed"}
  \/ refused # {} \/ PipeFull

\* There is one turn, and who has it can use it.
TurnInUse == OneTurn /\ NoStandstill

\* The bytes of the lines that were not refused, in order, up to those still to be written.
Sent(i) == IF i \in refused THEN <<>> ELSE Text(i)
AllSent == FlattenSeq([i \in DOMAIN typed |-> Sent(i)])
Only(b) == IF b.pos > 0 /\ b.line > 0 THEN <<b>> ELSE <<>>
Bytes(s) == FlattenSeq([i \in DOMAIN s |-> Only(s[i])])

\* The screen, the client's buffer, the pipe and what the server still has to write are
\* together the lines that were sent, each byte once and in order, whatever their lengths:
\* what does not fit into the buffer comes with the next line.
Stream ==
  LET unprinted == IF kpc = "print" \/ kpc = "done" THEN buf ELSE <<>>
  IN  Bytes(FlattenSeq(shown)) \o unprinted \o Bytes(data) \o unsent = AllSent

\* What holds of the bytes on their way, and of the types.
Kept == TypeOK /\ Stream

\* Every line so far was shorter than the buffer and found a client.
Ordinary == refused = {} /\ \A i \in DOMAIN typed : typed[i].size < BUFSIZ

\* The server has ended, after its first line, before the client had the semaphores.
MissedServer == kpc = "failed" /\ Len(typed) = 1

\* As long as this is so, the two programs keep the promise of the laboratory work.
Echoes == Abs!Init /\ [][Ordinary' => [Abs!Next]_(Abs!vars)]_vars

\* And no line is forgotten: before the session is ended, every line typed is printed, and
\* the client reads to the end, though the server closes the pipe at once; unless it has
\* come so late that it finds no semaphores, which can be only when the session was
\* "\disconnect/" and nothing else.  (After a refused line it is not so: the client waits in
\* ReadFile, the server for the client.)
Serves ==
  /\ []<>(~Ordinary \/ Ending \/ spc = "failed" \/ Len(shown) = Len(typed))
  /\ spc = "done" ~> (kpc = "done" \/ ~Ordinary \/ MissedServer)
=============================================================================
