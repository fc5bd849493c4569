----------------------------- MODULE FileThreads -----------------------------
(****************************************************************************)
(* Lab_5/WIN: Lab_5/FileThreads.h, Lab_5/Source.cpp and aio/aio.cpp.        *)
(*                                                                          *)
(* The pipeline of FileHandler on Windows: a reading and a writing thread   *)
(* share the buffer and the OVERLAPPED structure of the global `fileInfo'   *)
(* and take turns by events.                                                *)
(*   writerCompleted  set: the buffer may be filled (auto-reset);           *)
(*   readerCompleted  set: the buffer holds a chunk to write (auto-reset);  *)
(*   readerStop       set: there is nothing more to write (manual reset).   *)
(*                                                                          *)
(* Abstractions.  Bytes are known by file and position.  A handle is the    *)
(* number of the directory entry it was opened on, Failed when CreateFile   *)
(* failed.  Every file is opened with share mode 0, so that a file has at   *)
(* most one open handle.  A read of a file returns all that was asked for   *)
(* or all that is left.  InternalHigh, which Windows sets when an operation *)
(* succeeds, is after a failed one zero or what it was.  A write lands at   *)
(* positionOutFile; TailOnly states that this is the end of the file.       *)
(****************************************************************************)
EXTENDS Integers, Sequences

CONSTANTS
  Folders,      \* what the *.txt of the directory may be
  BufferSize,   \* sizeof(fileInfo.buffer)
  Faults,       \* what may go wrong: subset of {"load", "open", "read", "write"}
  MaxFaults     \* bound on how often it does

\* A text file, or the output.txt of an earlier run: the program writes it to the
\* directory it runs in, which may be the one it reads.
Text == [kind : {"text", "output"}, size : Nat]

ASSUME FoldersAssumption == Folders \subseteq Seq(Text)
ASSUME BufferAssumption == BufferSize \in Nat \ {0}
ASSUME FaultsAssumption == MaxFaults \in Nat

VARIABLES
  folder,       \* the entries FindFirstFile and FindNextFile return
  writerCompleted, readerCompleted, readerStop,   \* is the event set?
  fileInfo,     \* the shared struct, without its OVERLAPPED
  overlapped,   \* fileInfo.Overlapped, and what the system made of it
  mpc, linked,  \* main: control point; was aio.dll loaded?
  rpc, found, readFileHandle, readResult,   \* threadReader and its locals
  wpc, outFileHandle,                       \* threadWriter and its local
  opened,       \* entries of which an input handle is open
  output,       \* the pieces in output.txt
  faults        \* how many faults have happened

events == <<writerCompleted, readerCompleted, readerStop>>
mainVars == <<mpc, linked>>
readerVars == <<rpc, found, readFileHandle, readResult>>
writerVars == <<wpc, outFileHandle>>
vars == <<folder, events, fileInfo, overlapped, mainVars, readerVars, writerVars,
          opened, output, faults>>

Failed == -1   \* INVALID_HANDLE_VALUE
Out == 0       \* the handle of output.txt

\* A piece left in output.txt by an earlier run of the program.
Stale == [file |-> 0, from |-> 0, to |-> 1]

Sizes == [f \in DOMAIN folder |-> folder[f].size]

\* What an earlier run left counts from the moment the writer has replaced the file.
Created == wpc \notin {"none", "open", "killed"}
Abs == INSTANCE Concatenation
         WITH sizes <- Sizes,
              output <- IF Created THEN output ELSE <<>>,
              finished <- mpc = "done"

-----------------------------------------------------------------------------
(* Initial state *)

Init ==
  /\ folder \in Folders
  /\ writerCompleted = TRUE /\ readerCompleted = FALSE /\ readerStop = FALSE
  /\ fileInfo = [fileHeader |-> Out, positionInFile |-> 0, positionOutFile |-> 0,
                 buffer |-> Stale]
  /\ overlapped = [op |-> "none", pending |-> FALSE, file |-> Out, offset |-> 0,
                   asked |-> 0, ok |-> TRUE, eof |-> FALSE, internalHigh |-> 0]
  /\ mpc = "load" /\ linked = FALSE
  /\ rpc = "none" /\ found = 0 /\ readFileHandle = Failed /\ readResult = FALSE
  /\ wpc = "none" /\ outFileHandle = Failed
  /\ opened = {}
  /\ output \in {<<>>, <<Stale>>}
  /\ faults = 0

Fault(kind) ==
  /\ kind \in Faults /\ faults < MaxFaults
  /\ faults' = faults + 1

-----------------------------------------------------------------------------
(* main *)

\* LoadLibraryA, whose result is not checked.
Load ==
  /\ mpc = "load"
  /\ \/ linked' = TRUE /\ UNCHANGED faults
     \/ linked' = FALSE /\ Fault("load")
  /\ mpc' = "createWriter"
  /\ UNCHANGED <<folder, events, fileInfo, overlapped, readerVars, writerVars, opened, output>>

CreateWriter ==
  /\ mpc = "createWriter"
  /\ mpc' = "createReader" /\ wpc' = "open"
  /\ UNCHANGED <<folder, events, fileInfo, overlapped, linked, readerVars, outFileHandle,
                 opened, output, faults>>

CreateReader ==
  /\ mpc = "createReader"
  /\ mpc' = "wait" /\ rpc' = "findFirst"
  /\ UNCHANGED <<folder, events, fileInfo, overlapped, linked, found, readFileHandle,
                 readResult, writerVars, opened, output, faults>>

\* WaitForMultipleObjects on both threads, the handles closed, "Operation complete!".
Join ==
  /\ mpc = "wait" /\ rpc = "exited" /\ wpc = "exited"
  /\ mpc' = "done"
  /\ UNCHANGED <<folder, events, fileInfo, overlapped, linked, readerVars, writerVars,
                 opened, output, faults>>

-----------------------------------------------------------------------------
(* threadReader *)

\* FindFirstFile; without a match the thread returns and sets no event.
FindFirst ==
  /\ rpc = "findFirst"
  /\ \/ folder = <<>> /\ rpc' = "exited" /\ UNCHANGED found
     \/ folder # <<>> /\ rpc' = "wait" /\ found' = 1
  /\ UNCHANGED <<folder, events, fileInfo, overlapped, mainVars, readFileHandle, readResult,
                 writerVars, opened, output, faults>>

\* Variant: the event is not reset by the wait.
WaitWriterManualReset ==
  /\ rpc = "wait" /\ writerCompleted
  /\ rpc' = "open"
  /\ UNCHANGED <<folder, events, fileInfo, overlapped, mainVars, found, readFileHandle,
                 readResult, writerVars, opened, output, faults>>

WaitWriter ==
  /\ rpc = "wait" /\ writerCompleted
  /\ writerCompleted' = FALSE
  /\ rpc' = "open"
  /\ UNCHANGED <<folder, readerCompleted, readerStop, fileInfo, overlapped, mainVars, found,
                 readFileHandle, readResult, writerVars, opened, output, faults>>

\* Share mode 0: a file that is open cannot be opened again, by anybody.
Sharable(f) == f \notin opened /\ ~(folder[f].kind = "output" /\ outFileHandle = Out)

\* The position at which a newly opened file is read, and a variant that does not
\* reset it.
KeptPosition == fileInfo.positionInFile
FirstPosition == 0

\* After a read that failed, by the end of the file or otherwise, and at the start the
\* file found is opened, once more if it is the same.
OpenInput ==
  /\ rpc = "open"
  /\ \/ /\ readResult
        /\ fileInfo' = [fileInfo EXCEPT !.fileHeader = readFileHandle]
        /\ UNCHANGED <<readFileHandle, opened, faults>>
     \/ /\ ~readResult
        /\ \/ /\ Sharable(found)
              /\ readFileHandle' = found /\ opened' = opened \cup {found}
              /\ UNCHANGED faults
           \/ /\ ~Sharable(found)
              /\ readFileHandle' = Failed /\ UNCHANGED <<opened, faults>>
           \/ Fault("open") /\ readFileHandle' = Failed /\ UNCHANGED opened
        /\ fileInfo' = [fileInfo EXCEPT !.fileHeader = readFileHandle',
                                        !.positionInFile = FirstPosition]
  /\ rpc' = IF fileInfo'.fileHeader = Failed THEN "stop" ELSE "start"
  /\ UNCHANGED <<folder, events, overlapped, mainVars, found, readResult, writerVars, output>>

\* readFromFile up to ReadFile.
StartRead ==
  /\ rpc = "start" /\ linked
  /\ overlapped' = [overlapped EXCEPT !.op = "read", !.pending = TRUE,
                      !.file = fileInfo.fileHeader, !.offset = fileInfo.positionInFile,
                      !.asked = BufferSize]
  /\ rpc' = "reading"
  /\ UNCHANGED <<folder, events, fileInfo, mainVars, found, readFileHandle, readResult,
                 writerVars, opened, output, faults>>

\* GetProcAddress returned no function: the call ends the process.
Crash ==
  /\ rpc = "start" /\ ~linked
  /\ mpc' = "crashed" /\ rpc' = "killed" /\ wpc' = "killed"
  /\ UNCHANGED <<folder, events, fileInfo, overlapped, linked, found, readFileHandle,
                 readResult, outFileHandle, opened, output, faults>>

\* The end of readFromFile: the position moves when the read succeeded.
FinishRead ==
  /\ rpc = "reading" /\ ~overlapped.pending
  /\ readResult' = overlapped.ok
  /\ fileInfo' = IF overlapped.ok
                 THEN [fileInfo EXCEPT !.positionInFile = @ + overlapped.internalHigh]
                 ELSE fileInfo
  /\ rpc' = IF ~overlapped.ok /\ overlapped.eof THEN "eof" ELSE "signal"
  /\ UNCHANGED <<folder, events, overlapped, mainVars, found, readFileHandle, writerVars,
                 opened, output, faults>>

\* The end of a file: close it and go on with the next one, without the writer.
ToNext(last) ==
  /\ rpc = "eof" /\ found < last
  /\ found' = found + 1
  /\ opened' = opened \ {readFileHandle}
  /\ writerCompleted' = TRUE
  /\ rpc' = "wait"
  /\ UNCHANGED <<folder, readerCompleted, readerStop, fileInfo, overlapped, mainVars,
                 readFileHandle, readResult, writerVars, output, faults>>

\* FindNextFile finds a file.
FindNext == ToNext(Len(folder))

\* Leave the loop: after the last file, or when a file could not be opened. A variant
\* leaves without saying so.
Leave(stop, chunk) ==
  /\ rpc = "stop" \/ (rpc = "eof" /\ found = Len(folder))
  /\ opened' = opened \ {readFileHandle}
  /\ readerStop' = stop /\ readerCompleted' = chunk
  /\ rpc' = "exited"
  /\ UNCHANGED <<folder, writerCompleted, fileInfo, overlapped, mainVars, found,
                 readFileHandle, readResult, writerVars, output, faults>>

StopReadSilent == Leave(readerStop, readerCompleted)
StopRead == Leave(TRUE, readerCompleted)

\* A chunk, or a read that failed otherwise than by the end of the file.
SignalRead ==
  /\ rpc = "signal"
  /\ readerCompleted' = TRUE
  /\ rpc' = "wait"
  /\ UNCHANGED <<folder, writerCompleted, readerStop, fileInfo, overlapped, mainVars, found,
                 readFileHandle, readResult, writerVars, opened, output, faults>>

-----------------------------------------------------------------------------
(* The operating system *)

Succeed(n) ==
  overlapped' = [overlapped EXCEPT !.pending = FALSE, !.ok = TRUE, !.eof = FALSE,
                                   !.internalHigh = n]

Fail(eof) ==
  \E n \in {0, overlapped.internalHigh} :
    overlapped' = [overlapped EXCEPT !.pending = FALSE, !.ok = FALSE, !.eof = eof,
                                     !.internalHigh = n]

Least(m, n) == IF m < n THEN m ELSE n

CompleteRead ==
  /\ overlapped.pending /\ overlapped.op = "read"
  /\ LET left == folder[overlapped.file].size - overlapped.offset
         n == Least(overlapped.asked, left)
     IN  \/ /\ left > 0
            /\ Succeed(n)
            /\ fileInfo' = [fileInfo EXCEPT !.buffer =
                 [file |-> overlapped.file, from |-> overlapped.offset,
                  to |-> overlapped.offset + n]]
            /\ UNCHANGED faults
         \/ left <= 0 /\ Fail(TRUE) /\ UNCHANGED <<fileInfo, faults>>
         \/ Fault("read") /\ Fail(FALSE) /\ UNCHANGED fileInfo
  /\ UNCHANGED <<folder, events, mainVars, readerVars, writerVars, opened, output>>

AppendBytes(n) ==
  output' = IF n = 0 THEN output
            ELSE Append(output, [fileInfo.buffer EXCEPT !.to = fileInfo.buffer.from + n])

CompleteWrite ==
  /\ overlapped.pending /\ overlapped.op = "write"
  /\ \/ /\ overlapped.file # Failed
        /\ Succeed(overlapped.asked) /\ AppendBytes(overlapped.asked)
        /\ UNCHANGED faults
     \/ overlapped.file = Failed /\ Fail(FALSE) /\ UNCHANGED <<output, faults>>
     \/ Fault("write") /\ Fail(FALSE) /\ UNCHANGED output
  /\ UNCHANGED <<folder, events, fileInfo, mainVars, readerVars, writerVars, opened>>

-----------------------------------------------------------------------------
(* threadWriter *)

\* CREATE_ALWAYS; the result of CreateFile is not checked.
OpenOutput ==
  /\ wpc = "open"
  /\ LET held == \E f \in opened : folder[f].kind = "output"
     IN  \/ ~held /\ outFileHandle' = Out /\ output' = <<>> /\ UNCHANGED faults
         \/ held /\ outFileHandle' = Failed /\ UNCHANGED <<output, faults>>
         \/ Fault("open") /\ outFileHandle' = Failed /\ UNCHANGED output
  /\ wpc' = "wait"
  /\ UNCHANGED <<folder, events, fileInfo, overlapped, mainVars, readerVars, opened>>

\* WaitForMultipleObjects: the first of the two that is set.
WaitReader ==
  /\ wpc = "wait" /\ readerCompleted
  /\ readerCompleted' = FALSE
  /\ wpc' = "start"
  /\ UNCHANGED <<folder, writerCompleted, readerStop, fileInfo, overlapped, mainVars,
                 readerVars, outFileHandle, opened, output, faults>>

StopWrite ==
  /\ wpc = "wait" /\ ~readerCompleted /\ readerStop
  /\ wpc' = "exited" /\ outFileHandle' = Failed
  /\ UNCHANGED <<folder, events, fileInfo, overlapped, mainVars, readerVars, opened,
                 output, faults>>

\* writeToFile up to WriteFile: as many bytes as InternalHigh says.
StartWrite ==
  /\ wpc = "start"
  /\ fileInfo' = [fileInfo EXCEPT !.fileHeader = outFileHandle]
  /\ overlapped' = [overlapped EXCEPT !.op = "write", !.pending = TRUE,
                      !.file = outFileHandle, !.offset = fileInfo.positionOutFile,
                      !.asked = overlapped.internalHigh]
  /\ wpc' = "writing"
  /\ UNCHANGED <<folder, events, mainVars, readerVars, outFileHandle, opened, output, faults>>

\* The end of writeToFile. Variant: the position moves even when the write failed.
MoveOut(always) ==
  /\ wpc = "writing" /\ ~overlapped.pending
  /\ LET moved == IF overlapped.ok THEN overlapped.internalHigh
                  ELSE IF always THEN overlapped.asked ELSE 0
     IN  fileInfo' = [fileInfo EXCEPT !.positionOutFile = @ + moved]
  /\ wpc' = "signal"
  /\ UNCHANGED <<folder, events, overlapped, mainVars, readerVars, outFileHandle, opened,
                 output, faults>>

FinishWriteAlways == MoveOut(TRUE)
FinishWrite == MoveOut(FALSE)

SignalWritten ==
  /\ wpc = "signal"
  /\ writerCompleted' = TRUE
  /\ wpc' = "wait"
  /\ UNCHANGED <<folder, readerCompleted, readerStop, fileInfo, overlapped, mainVars,
                 readerVars, outFileHandle, opened, output, faults>>

-----------------------------------------------------------------------------
(* Specification *)

Main == Load \/ CreateWriter \/ CreateReader \/ Join

Reader ==
  \/ FindFirst \/ WaitWriter \/ OpenInput \/ StartRead \/ Crash \/ FinishRead
  \/ FindNext \/ StopRead \/ SignalRead

Writer ==
  OpenOutput \/ WaitReader \/ StopWrite \/ StartWrite \/ FinishWrite \/ SignalWritten

System == CompleteRead \/ CompleteWrite

\* The process has ended.
Ended == mpc \in {"done", "crashed"} /\ UNCHANGED vars

Next == Main \/ Reader \/ Writer \/ System \/ Ended

\* Every thread is scheduled, and every operation submitted completes.
Fairness == WF_vars(Main) /\ WF_vars(Reader) /\ WF_vars(Writer) /\ WF_vars(System)

Spec == Init /\ [][Next]_vars /\ Fairness

-----------------------------------------------------------------------------
(* Properties *)

Handle == {Failed} \cup Nat
FileInfo == [fileHeader : Handle, positionInFile : Nat, positionOutFile : Nat,
             buffer : Abs!Piece]
Overlapped == [op : {"none", "read", "write"}, pending : BOOLEAN, file : Handle,
               offset : Nat, asked : Nat, ok : BOOLEAN, eof : BOOLEAN, internalHigh : Nat]

\* Every variable holds a value of its C++ type, as far as the model keeps it.
TypeOK ==
  /\ folder \in Folders
  /\ writerCompleted \in BOOLEAN /\ readerCompleted \in BOOLEAN /\ readerStop \in BOOLEAN
  /\ fileInfo \in FileInfo /\ overlapped \in Overlapped
  /\ mpc \in {"load", "createWriter", "createReader", "wait", "done", "crashed"}
  /\ linked \in BOOLEAN
  /\ rpc \in {"none", "findFirst", "wait", "open", "start", "reading", "eof", "stop",
              "signal", "exited", "killed"}
  /\ found \in {0} \cup DOMAIN folder
  /\ readFileHandle \in {Failed} \cup DOMAIN folder
  /\ readResult \in BOOLEAN
  /\ wpc \in {"none", "open", "wait", "start", "writing", "signal", "exited", "killed"}
  /\ outFileHandle \in {Failed, Out}
  /\ opened \subseteq DOMAIN folder
  /\ output \in Seq(Abs!Piece)
  /\ faults \in 0..MaxFaults

\* The stretches of the two loops in which the thread uses fileInfo.
ReaderHolds == rpc \in {"open", "start", "reading", "eof", "stop", "signal"}
WriterHolds == wpc \in {"start", "writing", "signal"}

\* The two threads never use the shared struct, its buffer and its OVERLAPPED at the
\* same time (FileThreads.h guards them by events only).
Exclusive ==
  /\ ~(ReaderHolds /\ WriterHolds)
  /\ overlapped.pending => \/ overlapped.op = "read" /\ rpc = "reading"
                           \/ overlapped.op = "write" /\ wpc = "writing"

\* No operation has failed, and the output of an earlier run is not among the files.
Smooth == faults = 0 /\ \A f \in DOMAIN folder : folder[f].kind = "text"

\* As long as nothing fails, output.txt is a gapless prefix of the concatenation and,
\* once the writer has left its loop, all of it: the stop does not overtake the last
\* chunk.
WholeFile ==
  Smooth =>
    /\ Created => Abs!InOrder(output)
    /\ wpc = "exited" => rpc = "exited" /\ Abs!AtEnd(output)

\* As long as nothing fails, the program implements its promise: every step appends the
\* next bytes, or reports completion with nothing left to write, or does neither.
Concatenates == Abs!Init /\ [][Smooth' => Abs!Next]_(Abs!vars)

\* And it goes on to the end if there is a file at all.
Proceeds == <>(~Smooth \/ folder = <<>>) \/ Abs!Fairness

\* The number of bytes in the first n pieces of out, and in all of them.
UpTo(out) ==
  LET bytes[n \in 0..Len(out)] ==
        IF n = 0 THEN 0 ELSE bytes[n - 1] + out[n].to - out[n].from
  IN  bytes

Length(out) == UpTo(out)[Len(out)]

\* Every chunk is written where the file ends, also after a failed write: no chunk
\* overwrites another and no hole is left.
TailOnly ==
  overlapped.pending /\ overlapped.op = "write" /\ outFileHandle = Out =>
    overlapped.offset = Length(output)

\* The writer does not leave while a chunk waits for it, and the stop is announced
\* only when every chunk has been taken.
NoChunkAbandoned ==
  /\ readerStop => ~readerCompleted /\ wpc \in {"none", "open", "wait", "exited"}
  /\ wpc = "exited" => ~readerCompleted /\ rpc = "exited"

\* When reading and writing fail now and then, chunks may be missing or written twice,
\* but the files stay in order, and the pieces of one file too.
FilesInOrder ==
  \A i \in 2..Len(output) :
    \/ output[i - 1].file < output[i].file
    \/ output[i - 1].file = output[i].file /\ output[i - 1].from <= output[i].from

\* What may be said of the chunks, with and without failures, and of the types.
Chunks == TypeOK /\ WholeFile /\ TailOnly /\ NoChunkAbandoned /\ FilesInOrder

\* What the threads and the system can do.
MainCanGo ==
  \/ mpc \in {"load", "createWriter", "createReader"}
  \/ mpc = "wait" /\ rpc = "exited" /\ wpc = "exited"

ReaderCanGo ==
  \/ rpc \in {"findFirst", "open", "start", "eof", "stop", "signal"}
  \/ rpc = "wait" /\ writerCompleted
  \/ rpc = "reading" /\ ~overlapped.pending

WriterCanGo ==
  \/ wpc \in {"open", "start", "signal"}
  \/ wpc = "wait" /\ (readerCompleted \/ readerStop)
  \/ wpc = "writing" /\ ~overlapped.pending

\* Whatever fails, the threads never wait for each other in such a way that none can go
\* on, unless there is no file: then no event is ever set.
NoStandstill ==
  \/ mpc \in {"done", "crashed"} \/ folder = <<>>
  \/ MainCanGo \/ ReaderCanGo \/ WriterCanGo \/ overlapped.pending

\* Whatever fails, the program comes to an end ("Operation complete!", or the crash when
\* the library was not found), unless there is no file: then threadReader returns and
\* sets no event.  And if nothing fails, it ends with all of the promise kept.
Completes == Proceeds /\ <>(mpc \in {"done", "crashed"} \/ folder = <<>>)
=============================================================================
