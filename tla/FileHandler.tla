----------------------------- MODULE FileHandler -----------------------------
(****************************************************************************)
(* Lab_5/LINUX: file_handler.h, a_in_out.cpp and main.cpp.                  *)
(*                                                                          *)
(* A reading thread and a writing thread share the one buffer of the global *)
(* `fileInfo'.  Three mutexes, locked by one thread and unlocked by the     *)
(* other, serve as binary semaphores:                                       *)
(*   writeCompleted  free: the buffer may be filled again;                  *)
(*   readCompleted   free: the buffer holds a chunk to write, or the end;   *)
(*   readStop        free: there is nothing more to write.                  *)
(* Each of the two asynchronous operations has a submission, a completion   *)
(* by the kernel and a collection of the result.                            *)
(*                                                                          *)
(* Abstractions.  Bytes are known by file and position.  A descriptor is    *)
(* the number of the directory entry it was opened on, Failed when open()   *)
(* failed.  The kernel's mutexes are those of glibc: unlocking one does not *)
(* check who locked it.  Negative offsets are all alike (pread and pwrite   *)
(* refuse them) and are kept as -1.                                         *)
(****************************************************************************)
EXTENDS Integers, Sequences

CONSTANTS
  Folders,      \* the directories ./files may be
  BufferSize,   \* sizeof(fileInfo.buffer)
  Faults,       \* what may go wrong: subset of {"dlopen", "open", "read", "write", "short"}
  MaxFaults,    \* bound on how often it does
  SymbolFound   \* what dlsym may answer: subset of BOOLEAN

\* A directory entry: "." or "..", a text file, or a subdirectory (which can be
\* opened but not read).
Entry == [kind : {"file"}, size : Nat] \cup [kind : {"dot", "dir"}, size : {0}]

ASSUME FoldersAssumption == Folders \subseteq Seq(Entry)
ASSUME BufferAssumption == BufferSize \in Nat \ {0}
ASSUME FaultsAssumption == MaxFaults \in Nat
ASSUME SymbolAssumption == SymbolFound \subseteq BOOLEAN

VARIABLES
  folder,          \* ./files as readdir lists it; <<>> when opendir fails
  writeCompleted, readCompleted, readStop,  \* is the mutex locked?
  fileInfo,        \* the shared struct, without its control block
  aio,             \* fileInfo.aiocbStruct, and what the kernel made of it
  mpc, linked,     \* main: control point; did dlsym find runReader?
  rpc, entry, readFileHeader, readResult,   \* readThread and its locals
  wpc, outputFileHeader,                    \* writeThread and its local
  opened,          \* descriptors of input files that are open
  output,          \* the pieces in output.txt
  faults           \* how many faults have happened, and of which kinds

mutexes == <<writeCompleted, readCompleted, readStop>>
mainVars == <<mpc, linked>>
readerVars == <<rpc, entry, readFileHeader, readResult>>
writerVars == <<wpc, outputFileHeader>>
vars == <<folder, mutexes, fileInfo, aio, mainVars, readerVars, writerVars,
          opened, output, faults>>

Failed == -1   \* the descriptor of a failed open()
Out == 0       \* the descriptor of output.txt

\* A piece left in output.txt by an earlier run of the program.
Stale == [file |-> 0, from |-> 0, to |-> 1]

Sizes == [f \in DOMAIN folder |-> folder[f].size]

\* The output as the program's promise sees it: what an earlier run left does not
\* count until the writer has opened (and truncated) the file.
Truncated == wpc \notin {"none", "open", "killed"}
Abs == INSTANCE Concatenation
         WITH sizes <- Sizes,
              output <- IF Truncated THEN output ELSE <<>>,
              finished <- mpc = "done"

-----------------------------------------------------------------------------
(* Initial state *)

Init ==
  /\ folder \in Folders
  /\ writeCompleted = FALSE /\ readCompleted = FALSE /\ readStop = FALSE
  /\ fileInfo = [fileHeader |-> Out, transferred |-> 0, positionInFile |-> 0,
                 positionOutFile |-> 0, buffer |-> Stale]
  /\ aio = [op |-> "none", pending |-> FALSE, fildes |-> Out, offset |-> 0,
            nbytes |-> 0, result |-> 0]
  /\ mpc = "load" /\ linked = FALSE
  /\ rpc = "none" /\ entry = 0 /\ readFileHeader = Failed /\ readResult = 0
  /\ wpc = "none" /\ outputFileHeader = Failed
  /\ opened = {}
  /\ output \in {<<>>, <<Stale>>}
  /\ faults = [count |-> 0, kinds |-> {}]

Fault(kind) ==
  /\ kind \in Faults /\ faults.count < MaxFaults
  /\ faults' = [count |-> faults.count + 1, kinds |-> faults.kinds \cup {kind}]

-----------------------------------------------------------------------------
(* main *)

\* dlopen and the two dlsym calls, whose results are not checked.
Load ==
  /\ mpc = "load"
  /\ \/ Fault("dlopen") /\ mpc' = "failed" /\ UNCHANGED linked
     \/ linked' \in SymbolFound /\ mpc' = "prepare" /\ UNCHANGED faults
  /\ UNCHANGED <<folder, mutexes, fileInfo, aio, readerVars, writerVars, opened, output>>

\* Variant: the writer is not kept waiting for the first chunk.
PrepareStopOnly ==
  /\ mpc = "prepare"
  /\ readStop' = TRUE
  /\ mpc' = "createReader"
  /\ UNCHANGED <<folder, writeCompleted, readCompleted, fileInfo, aio, linked, readerVars,
                 writerVars, opened, output, faults>>

\* Lock readCompleted and readStop before any thread exists.
Prepare ==
  /\ mpc = "prepare"
  /\ ~readCompleted /\ readCompleted' = TRUE
  /\ ~readStop /\ readStop' = TRUE
  /\ fileInfo' = [fileInfo EXCEPT !.positionInFile = 0, !.positionOutFile = 0]
  /\ aio' = [aio EXCEPT !.offset = 0]
  /\ mpc' = "createReader"
  /\ UNCHANGED <<folder, writeCompleted, linked, readerVars, writerVars,
                 opened, output, faults>>

CreateReader ==
  /\ mpc = "createReader"
  /\ mpc' = "createWriter" /\ rpc' = "opendir"
  /\ UNCHANGED <<folder, mutexes, fileInfo, aio, linked, entry, readFileHeader,
                 readResult, writerVars, opened, output, faults>>

CreateWriter ==
  /\ mpc = "createWriter"
  /\ mpc' = "joinReader" /\ wpc' = "open"
  /\ UNCHANGED <<folder, mutexes, fileInfo, aio, linked, readerVars,
                 outputFileHeader, opened, output, faults>>

JoinReader ==
  /\ mpc = "joinReader" /\ rpc = "exited"
  /\ mpc' = "joinWriter"
  /\ UNCHANGED <<folder, mutexes, fileInfo, aio, linked, readerVars, writerVars,
                 opened, output, faults>>

\* "Operation complete!"
JoinWriter ==
  /\ mpc = "joinWriter" /\ wpc = "exited"
  /\ mpc' = "done"
  /\ UNCHANGED <<folder, mutexes, fileInfo, aio, linked, readerVars, writerVars,
                 opened, output, faults>>

-----------------------------------------------------------------------------
(* readThread *)

Clamp(position) == IF position < 0 THEN -1 ELSE position

\* readdir_r, called until it returns an entry other than "." and "..".
NextEntry(i, j) ==
  /\ j \in DOMAIN folder /\ i < j
  /\ folder[j].kind # "dot"
  /\ \A k \in DOMAIN folder : i < k /\ k < j => folder[k].kind = "dot"

NoEntryAfter(i) == \A k \in DOMAIN folder : i < k => folder[k].kind = "dot"

\* opendir and the first entry; without one the thread returns, and unlocks nothing.
OpenFolder ==
  /\ rpc = "opendir"
  /\ \/ NoEntryAfter(0) /\ rpc' = "exited" /\ UNCHANGED entry
     \/ \E j \in DOMAIN folder : NextEntry(0, j) /\ entry' = j /\ rpc' = "lock"
  /\ UNCHANGED <<folder, mutexes, fileInfo, aio, mainVars, readFileHeader, readResult,
                 writerVars, opened, output, faults>>

LockWriteCompleted ==
  /\ rpc = "lock"
  /\ ~writeCompleted /\ writeCompleted' = TRUE
  /\ rpc' = "start"
  /\ UNCHANGED <<folder, readCompleted, readStop, fileInfo, aio, mainVars, entry,
                 readFileHeader, readResult, writerVars, opened, output, faults>>

\* runReader up to aio_read.
SubmitRead(fd, position) ==
  /\ fileInfo' = [fileInfo EXCEPT !.fileHeader = fd, !.positionInFile = position]
  /\ aio' = [op |-> "read", pending |-> TRUE, fildes |-> fd, offset |-> position,
             nbytes |-> BufferSize, result |-> aio.result]

\* The position at which a newly opened file is read, and a variant that does not
\* reset it.
KeptPosition == fileInfo.positionInFile
FirstPosition == 0

\* After a read that returned 0, and at the start, the current entry is opened.
StartRead ==
  /\ rpc = "start" /\ linked
  /\ \/ /\ readResult # 0
        /\ SubmitRead(readFileHeader, fileInfo.positionInFile)
        /\ UNCHANGED <<readFileHeader, opened, faults>>
     \/ /\ readResult = 0
        /\ \/ /\ readFileHeader' = entry /\ opened' = opened \cup {entry}
              /\ UNCHANGED faults
           \/ Fault("open") /\ readFileHeader' = Failed /\ UNCHANGED opened
        /\ SubmitRead(readFileHeader', FirstPosition)
  /\ rpc' = "reading"
  /\ UNCHANGED <<folder, mutexes, mainVars, entry, readResult, writerVars, output>>

\* The call through the null pointer dlsym returned ends the process.
Crash ==
  /\ rpc = "start" /\ ~linked
  /\ mpc' = "crashed" /\ rpc' = "killed" /\ wpc' = "killed"
  /\ UNCHANGED <<folder, mutexes, fileInfo, aio, linked, entry, readFileHeader,
                 readResult, outputFileHeader, opened, output, faults>>

\* The end of runReader: the result kept and the new position.
CollectRead(result, position) ==
  /\ rpc = "reading" /\ ~aio.pending
  /\ readResult' = result
  /\ fileInfo' = [fileInfo EXCEPT !.transferred = aio.result, !.positionInFile = position]
  /\ rpc' = IF aio.result = 0 THEN "eof" ELSE "signal"
  /\ UNCHANGED <<folder, mutexes, aio, mainVars, entry, readFileHeader, writerVars,
                 opened, output, faults>>

\* aio_return: an error is -1, which is not zero and moves the position too.
\* Variant: the position does not move.
FinishReadStill == CollectRead(aio.result, fileInfo.positionInFile)
FinishRead == CollectRead(aio.result, Clamp(fileInfo.positionInFile + aio.result))

\* Entry j is next, writeCompleted is freed.
ToEntry(j, stillOpen, control) ==
  /\ rpc = "eof"
  /\ entry' = j
  /\ opened' = stillOpen
  /\ writeCompleted' = FALSE
  /\ rpc' = control
  /\ UNCHANGED <<folder, readCompleted, readStop, fileInfo, aio, mainVars,
                 readFileHeader, readResult, writerVars, output, faults>>

Advance(stillOpen, control) ==
  \E j \in DOMAIN folder : NextEntry(entry, j) /\ ToEntry(j, stillOpen, control)

\* End of a file: go on with the next entry, without involving the writer.
\* Variants: the file is not closed; the writer is notified all the same.
NextFileLeak == Advance(opened, "lock")
NextFileNotify == Advance(opened \ {readFileHeader}, "signal")
NextFile == Advance(opened \ {readFileHeader}, "lock")

\* Variant: the wrong mutex is freed.
StopReadWrongMutex ==
  /\ rpc = "eof" /\ NoEntryAfter(entry)
  /\ readCompleted' = FALSE
  /\ rpc' = "last"
  /\ UNCHANGED <<folder, writeCompleted, readStop, fileInfo, aio, mainVars, entry,
                 readFileHeader, readResult, writerVars, opened, output, faults>>

\* No further entry: leave the loop, free readStop and only then readCompleted.
StopRead ==
  /\ rpc = "eof" /\ NoEntryAfter(entry)
  /\ readStop' = FALSE
  /\ rpc' = "last"
  /\ UNCHANGED <<folder, writeCompleted, readCompleted, fileInfo, aio, mainVars, entry,
                 readFileHeader, readResult, writerVars, opened, output, faults>>

LastSignal ==
  /\ rpc = "last"
  /\ readCompleted' = FALSE
  /\ opened' = opened \ {readFileHeader}
  /\ rpc' = "exited"
  /\ UNCHANGED <<folder, writeCompleted, readStop, fileInfo, aio, mainVars, entry,
                 readFileHeader, readResult, writerVars, output, faults>>

\* A chunk (or a failed read) is handed to the writer.
SignalRead ==
  /\ rpc = "signal"
  /\ readCompleted' = FALSE
  /\ rpc' = "lock"
  /\ UNCHANGED <<folder, writeCompleted, readStop, fileInfo, aio, mainVars, entry,
                 readFileHeader, readResult, writerVars, opened, output, faults>>

-----------------------------------------------------------------------------
(* The kernel *)

Complete(result) == aio' = [aio EXCEPT !.pending = FALSE, !.result = result]

Readable ==
  /\ aio.fildes # Failed /\ aio.offset >= 0
  /\ folder[aio.fildes].kind = "file"

\* How many bytes a read may return: none at the end of the file only.
ReadCounts(size) ==
  {n \in 0..aio.nbytes : IF aio.offset >= size THEN n = 0
                                               ELSE 0 < n /\ aio.offset + n <= size}

CompleteRead ==
  /\ aio.pending /\ aio.op = "read"
  /\ \/ /\ Readable
        /\ \E n \in ReadCounts(folder[aio.fildes].size) :
             /\ Complete(n)
             /\ fileInfo' = IF n = 0 THEN fileInfo
                            ELSE [fileInfo EXCEPT !.buffer =
                                    [file |-> aio.fildes, from |-> aio.offset,
                                     to |-> aio.offset + n]]
        /\ UNCHANGED faults
     \/ ~Readable /\ Complete(-1) /\ UNCHANGED <<fileInfo, faults>>
     \/ Fault("read") /\ Complete(-1) /\ UNCHANGED fileInfo
  /\ UNCHANGED <<folder, mutexes, mainVars, readerVars, writerVars, opened, output>>

\* output.txt is open with O_APPEND: the offset of a write matters only when it is
\* negative. The size of a failed read, -1, is larger than any write may be.
Writable == aio.fildes # Failed /\ aio.offset >= 0 /\ aio.nbytes >= 0

AppendBytes(n) ==
  output' = IF n = 0 THEN output
            ELSE Append(output, [fileInfo.buffer EXCEPT !.to = fileInfo.buffer.from + n])

CompleteWrite ==
  /\ aio.pending /\ aio.op = "write"
  /\ \/ /\ Writable
        /\ \/ Complete(aio.nbytes) /\ AppendBytes(aio.nbytes) /\ UNCHANGED faults
           \/ \E n \in 1..aio.nbytes - 1 : Fault("short") /\ Complete(n) /\ AppendBytes(n)
     \/ ~Writable /\ Complete(-1) /\ UNCHANGED <<output, faults>>
     \/ Fault("write") /\ Complete(-1) /\ UNCHANGED output
  /\ UNCHANGED <<folder, mutexes, fileInfo, mainVars, readerVars, writerVars, opened>>

-----------------------------------------------------------------------------
(* writeThread *)

\* O_TRUNC; the result of open is not checked.
OpenOutput ==
  /\ wpc = "open"
  /\ \/ outputFileHeader' = Out /\ output' = <<>> /\ UNCHANGED faults
     \/ Fault("open") /\ outputFileHeader' = Failed /\ UNCHANGED output
  /\ wpc' = "lock"
  /\ UNCHANGED <<folder, mutexes, fileInfo, aio, mainVars, readerVars, opened>>

LockReadCompleted ==
  /\ wpc = "lock"
  /\ ~readCompleted /\ readCompleted' = TRUE
  /\ wpc' = "check"
  /\ UNCHANGED <<folder, writeCompleted, readStop, fileInfo, aio, mainVars, readerVars,
                 outputFileHeader, opened, output, faults>>

\* pthread_mutex_trylock(&readStop) succeeds: leave, close the output.
StopWrite ==
  /\ wpc = "check"
  /\ ~readStop /\ readStop' = TRUE
  /\ wpc' = "exited"
  /\ UNCHANGED <<folder, writeCompleted, readCompleted, fileInfo, aio, mainVars, readerVars,
                 outputFileHeader, opened, output, faults>>

\* runWriter up to aio_write: as many bytes as the last read reported.
StartWrite ==
  /\ wpc = "check" /\ readStop
  /\ fileInfo' = [fileInfo EXCEPT !.fileHeader = outputFileHeader]
  /\ aio' = [op |-> "write", pending |-> TRUE, fildes |-> outputFileHeader,
             offset |-> fileInfo.positionOutFile, nbytes |-> fileInfo.transferred,
             result |-> aio.result]
  /\ wpc' = "writing"
  /\ UNCHANGED <<folder, mutexes, mainVars, readerVars, outputFileHeader, opened,
                 output, faults>>

\* aio_return: whatever it says is added to the position, and nothing is retried.
FinishWrite ==
  /\ wpc = "writing" /\ ~aio.pending
  /\ fileInfo' = [fileInfo EXCEPT !.positionOutFile = Clamp(@ + aio.result)]
  /\ wpc' = "signal"
  /\ UNCHANGED <<folder, mutexes, aio, mainVars, readerVars, outputFileHeader, opened,
                 output, faults>>

SignalWritten ==
  /\ wpc = "signal"
  /\ writeCompleted' = FALSE
  /\ wpc' = "lock"
  /\ UNCHANGED <<folder, readCompleted, readStop, fileInfo, aio, mainVars, readerVars,
                 outputFileHeader, opened, output, faults>>

-----------------------------------------------------------------------------
(* Specification *)

Main == Load \/ Prepare \/ CreateReader \/ CreateWriter \/ JoinReader \/ JoinWriter

Reader ==
  \/ OpenFolder \/ LockWriteCompleted \/ StartRead \/ Crash \/ FinishRead
  \/ NextFile \/ StopRead \/ LastSignal \/ SignalRead

Writer ==
  \/ OpenOutput \/ LockReadCompleted \/ StopWrite \/ StartWrite \/ FinishWrite
  \/ SignalWritten

Kernel == CompleteRead \/ CompleteWrite

\* The process has ended.
Ended == mpc \in {"done", "failed", "crashed"} /\ UNCHANGED vars

Next == Main \/ Reader \/ Writer \/ Kernel \/ Ended

\* Every thread is scheduled, and every submitted operation completes.
Fairness == WF_vars(Main) /\ WF_vars(Reader) /\ WF_vars(Writer) /\ WF_vars(Kernel)

Spec == Init /\ [][Next]_vars /\ Fairness

-----------------------------------------------------------------------------
(* Properties *)

Position == {-1} \cup Nat

FileHeader ==
  [fileHeader : Position, transferred : Position, positionInFile : Position,
   positionOutFile : Position, buffer : Abs!Piece]

Aiocb ==
  [op : {"none", "read", "write"}, pending : BOOLEAN, fildes : Position,
   offset : Position, nbytes : Position, result : Position]

FaultRecord == [count : 0..MaxFaults, kinds : SUBSET Faults]

\* Every variable holds a value of its C type, as far as the model keeps it.
TypeOK ==
  /\ folder \in Folders
  /\ writeCompleted \in BOOLEAN /\ readCompleted \in BOOLEAN /\ readStop \in BOOLEAN
  /\ fileInfo \in FileHeader
  /\ aio \in Aiocb
  /\ mpc \in {"load", "prepare", "createReader", "createWriter", "joinReader",
              "joinWriter", "done", "failed", "crashed"}
  /\ linked \in BOOLEAN
  /\ rpc \in {"none", "opendir", "lock", "start", "reading", "eof", "signal", "last",
              "exited", "killed"}
  /\ entry \in {0} \cup DOMAIN folder
  /\ readFileHeader \in {Failed} \cup DOMAIN folder
  /\ readResult \in Position
  /\ wpc \in {"none", "open", "lock", "check", "writing", "signal", "exited", "killed"}
  /\ outputFileHeader \in {Failed, Out}
  /\ opened \subseteq DOMAIN folder
  /\ output \in Seq(Abs!Piece)
  /\ faults \in FaultRecord

\* The stretches of the two loops in which the thread uses fileInfo.
ReaderHolds == rpc \in {"start", "reading", "eof", "signal", "last"}
WriterHolds == wpc \in {"check", "writing", "signal"}

\* The two threads never use the shared struct at the same time, and an operation in
\* progress on its control block is the one of the thread that waits for it
\* (file_handler.h locks and unlocks the mutexes in different threads).
Exclusive ==
  /\ ~(ReaderHolds /\ WriterHolds)
  /\ aio.pending => \/ aio.op = "read" /\ rpc = "reading"
                    \/ aio.op = "write" /\ wpc = "writing"

\* A mutex about to be unlocked is locked: no notification is lost because the one
\* before it was not yet taken.
NoLostSignal ==
  /\ rpc \in {"signal", "last"} => readCompleted
  /\ rpc = "eof" => writeCompleted /\ readStop
  /\ wpc = "signal" => writeCompleted

\* No operation has failed by chance.
Faultless == faults.kinds = {}

\* As long as nothing fails, output.txt is a gapless prefix of the concatenation and,
\* once the writer has left its loop, all of it: the last chunk is not dropped by
\* the stop, and no chunk is written twice.
WholeFile ==
  Faultless =>
    /\ Truncated => Abs!InOrder(output)
    /\ wpc = "exited" => rpc = "exited" /\ Abs!AtEnd(output)

\* When writing fails or is cut short, bytes are missing, but unless a read has failed
\* none appears twice and none out of place.
OnceOnly ==
  "read" \notin faults.kinds =>
    \A i \in 2..Len(output) :
      \/ output[i - 1].file < output[i].file
      \/ output[i - 1].file = output[i].file /\ output[i - 1].to <= output[i].from

\* When only reading fails, now and then, bytes may be written twice, but none is lost:
\* a piece begins no later than where the one before it ended, and a file is left only
\* at its end.
NoByteLost ==
  faults.kinds \subseteq {"read"} =>
    \A i \in 1..Len(output) :
      LET prev == IF i = 1 THEN Abs!Nothing ELSE output[i - 1]
      IN  Truncated =>
            \/ output[i].file = prev.file /\ output[i].from <= prev.to
            \/ output[i].from = 0 /\ Abs!NextFileIs(prev, output[i].file)

\* What failures may do to the output, and what they may not.
AfterFaults == OnceOnly /\ NoByteLost

\* At most one input file is open, and none when the reader has returned.
OneDescriptor ==
  /\ opened \subseteq {readFileHeader}
  /\ rpc = "exited" => opened = {}

\* What holds of the variables one by one, and of the descriptors.
Values == TypeOK /\ OneDescriptor

\* The program has ended, well or badly.
Over == mpc \in {"done", "failed", "crashed"}

\* readThread is at a read that the kernel refuses now and whenever it is repeated: the
\* entry could not be opened, is a directory, or the position has become negative.
ReadRefused == aio.op = "read" /\ aio.pending /\ ~Readable

\* What the threads and the kernel can do.
MainCanGo ==
  \/ mpc \in {"load", "createReader", "createWriter"}
  \/ mpc = "prepare" /\ ~readCompleted /\ ~readStop
  \/ mpc = "joinReader" /\ rpc = "exited"
  \/ mpc = "joinWriter" /\ wpc = "exited"

ReaderCanGo ==
  \/ rpc \in {"opendir", "start", "eof", "last", "signal"}
  \/ rpc = "lock" /\ ~writeCompleted
  \/ rpc = "reading" /\ ~aio.pending

WriterCanGo ==
  \/ wpc \in {"open", "check", "signal"}
  \/ wpc = "lock" /\ ~readCompleted
  \/ wpc = "writing" /\ ~aio.pending

\* Whatever fails, the threads never wait for each other in such a way that none can go
\* on, unless there is no entry: then nothing is ever unlocked.
NoStandstill ==
  Over \/ MainCanGo \/ ReaderCanGo \/ WriterCanGo \/ aio.pending \/ NoEntryAfter(0)

\* What holds of the mutexes used as signals.
HandShakes == NoLostSignal /\ NoStandstill

\* As long as nothing fails, the program implements its promise: every step appends the
\* next bytes, or reports completion with nothing left to write, or does neither.
Concatenates == Abs!Init /\ [][Faultless' => Abs!Next]_(Abs!vars)

\* And it goes on to the end if there is something to read and all of it can be read.
Proceeds ==
  <>(~Faultless \/ ReadRefused \/ NoEntryAfter(0) \/ mpc = "crashed") \/ Abs!Fairness

\* Whatever fails, the program ends, unless the directory is missing or empty (the early
\* returns of readThread unlock nothing) or a read is refused for ever; and if nothing
\* fails, it ends with all of the promise kept.
Completes == Proceeds /\ <>(Over \/ NoEntryAfter(0) \/ ReadRefused)
=============================================================================
