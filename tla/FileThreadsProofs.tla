-------------------------- MODULE FileThreadsProofs --------------------------
(****************************************************************************)
(* Theorems about FileThreads, for any directory, any buffer size and any   *)
(* faults.  The argument: the right to use `fileInfo' is in one place, one  *)
(* of the two events or one of the two loops, until it goes into the event  *)
(* that stops the writer.                                                   *)
(****************************************************************************)
EXTENDS FileThreads, SequenceTheorems, WellFoundedInduction, TLAPS

\* Threads that main has not created yet.
Control ==
  /\ mpc \in {"load", "createWriter", "createReader"} => rpc = "none"
  /\ mpc \in {"load", "createWriter"} => wpc = "none"
  /\ mpc = "done" => rpc = "exited" /\ wpc = "exited"
  /\ wpc \in {"none", "open", "wait", "start", "writing", "signal", "exited", "killed"}

Token ==
  /\ writerCompleted => ~ReaderHolds /\ ~readerCompleted /\ ~WriterHolds /\ ~readerStop
  /\ ReaderHolds => ~readerCompleted /\ ~WriterHolds /\ ~readerStop
  /\ readerCompleted => ~WriterHolds /\ ~readerStop
  /\ readerStop => rpc = "exited" /\ wpc \in {"none", "open", "wait", "exited"}
  /\ wpc = "exited" => readerStop
  /\ rpc = "killed" <=> wpc = "killed"

\* An operation in progress is the one of the thread that waits for it.
Operation ==
  /\ {"op", "pending"} \subseteq DOMAIN overlapped
  /\ overlapped.pending => \/ overlapped.op = "read" /\ rpc = "reading"
                           \/ overlapped.op = "write" /\ wpc = "writing"

IInv == Control /\ Token /\ Operation

LEMMA InitToken == Init => IInv
  BY DEF Init, IInv, Control, Token, Operation, ReaderHolds, WriterHolds

LEMMA MainKeeps ==
  ASSUME IInv, Main PROVE IInv'
<1> USE DEF IInv, Control, Token, Operation, ReaderHolds, WriterHolds, events, readerVars
<1>1. CASE Load
  BY <1>1 DEF Load, writerVars
<1>2. CASE CreateWriter
  BY <1>2 DEF CreateWriter
<1>3. CASE CreateReader
  BY <1>3 DEF CreateReader, writerVars
<1>4. CASE Join
  BY <1>4 DEF Join, writerVars
<1> QED
  BY <1>1, <1>2, <1>3, <1>4 DEF Main

LEMMA ReaderKeeps ==
  ASSUME IInv, Reader PROVE IInv'
<1> USE DEF IInv, Control, Token, Operation, ReaderHolds, WriterHolds, events, mainVars, writerVars
<1>1. CASE FindFirst
  BY <1>1 DEF FindFirst
<1>2. CASE WaitWriter
  BY <1>2 DEF WaitWriter
<1>3. CASE OpenInput
  <2>1. /\ rpc = "open" /\ rpc' \in {"stop", "start"}
        /\ UNCHANGED <<events, overlapped, mpc, wpc>>
    BY <1>3 DEF OpenInput
  <2> QED
    BY <2>1
<1>4. CASE StartRead
  <2>1. /\ rpc = "start" /\ rpc' = "reading" /\ UNCHANGED <<events, mpc, wpc>>
        /\ DOMAIN overlapped' = DOMAIN overlapped /\ overlapped'.op = "read"
    BY <1>4 DEF StartRead
  <2> QED
    BY <2>1
<1>5. CASE Crash
  <2>1. /\ rpc = "start" /\ mpc' = "crashed" /\ rpc' = "killed" /\ wpc' = "killed"
        /\ UNCHANGED <<events, overlapped>>
    BY <1>5 DEF Crash
  <2> QED
    BY <2>1
<1>6. CASE FinishRead
  <2>1. /\ rpc = "reading" /\ rpc' \in {"eof", "signal"} /\ ~overlapped.pending
        /\ UNCHANGED <<events, overlapped, mpc, wpc>>
    BY <1>6 DEF FinishRead
  <2> QED
    BY <2>1
<1>7. CASE FindNext
  <2>1. /\ rpc = "eof" /\ rpc' = "wait" /\ writerCompleted' = TRUE
        /\ UNCHANGED <<readerCompleted, readerStop, overlapped, mpc, wpc>>
    BY <1>7 DEF FindNext, ToNext
  <2> QED
    BY <2>1
<1>8. CASE StopRead
  <2>1. /\ rpc \in {"stop", "eof"} /\ rpc' = "exited" /\ readerStop' = TRUE
        /\ UNCHANGED <<writerCompleted, readerCompleted, overlapped, mpc, wpc>>
    BY <1>8 DEF StopRead, Leave
  <2> QED
    BY <2>1
<1>9. CASE SignalRead
  BY <1>9 DEF SignalRead
<1> QED
  BY <1>1, <1>2, <1>3, <1>4, <1>5, <1>6, <1>7, <1>8, <1>9 DEF Reader

LEMMA WriterKeeps ==
  ASSUME IInv, Writer PROVE IInv'
<1> USE DEF IInv, Control, Token, Operation, ReaderHolds, WriterHolds, events, mainVars, readerVars
<1>1. CASE OpenOutput
  <2>1. wpc = "open" /\ wpc' = "wait" /\ UNCHANGED <<events, overlapped, mpc, rpc>>
    BY <1>1 DEF OpenOutput
  <2> QED
    BY <2>1
<1>2. CASE WaitReader
  BY <1>2 DEF WaitReader
<1>3. CASE StopWrite
  BY <1>3 DEF StopWrite
<1>4. CASE StartWrite
  <2>1. /\ wpc = "start" /\ wpc' = "writing" /\ UNCHANGED <<events, mpc, rpc>>
        /\ DOMAIN overlapped' = DOMAIN overlapped /\ overlapped'.op = "write"
    BY <1>4 DEF StartWrite
  <2> QED
    BY <2>1
<1>5. CASE FinishWrite
  <2>1. wpc = "writing" /\ wpc' = "signal" /\ ~overlapped.pending /\ UNCHANGED <<events, overlapped, mpc, rpc>>
    BY <1>5 DEF FinishWrite, MoveOut
  <2> QED
    BY <2>1
<1>6. CASE SignalWritten
  BY <1>6 DEF SignalWritten
<1> QED
  BY <1>1, <1>2, <1>3, <1>4, <1>5, <1>6 DEF Writer

LEMMA SystemKeeps ==
  ASSUME IInv, System PROVE IInv'
<1>1. /\ UNCHANGED <<events, mpc, rpc, wpc>>
      /\ DOMAIN overlapped' = DOMAIN overlapped /\ ~overlapped'.pending
  BY DEF System, CompleteRead, CompleteWrite, Succeed, Fail, mainVars, readerVars, writerVars,
     IInv, Operation
<1> QED
  BY <1>1 DEF IInv, Control, Token, Operation, ReaderHolds, WriterHolds, events

LEMMA Invariance == Spec => []IInv
<1>1. IInv /\ [Next]_vars => IInv'
  <2>1. IInv /\ (Ended \/ UNCHANGED vars) => IInv'
    BY DEF Ended, vars, IInv, Control, Token, Operation, ReaderHolds, WriterHolds, events, mainVars,
       readerVars, writerVars
  <2> QED
    BY <2>1, MainKeeps, ReaderKeeps, WriterKeeps, SystemKeeps DEF Next
<1> QED
  BY <1>1, InitToken, PTL DEF Spec

\* The reading and the writing thread never use fileInfo at the same time, although only the
\* events of FileThreads.h keep them apart, and nobody touches it while the system does.
THEOREM NeverShared == Spec => []Exclusive
<1>1. IInv => Exclusive
  BY DEF IInv, Token, Operation, Exclusive
<1> QED
  BY <1>1, Invariance, PTL

\* readerStop does not overtake a chunk: the writer leaves when all of them were taken.
THEOREM StopComesLast == Spec => []NoChunkAbandoned
<1>1. IInv => NoChunkAbandoned
  BY DEF IInv, Token, NoChunkAbandoned
<1> QED
  BY <1>1, Invariance, PTL

-----------------------------------------------------------------------------
(****************************************************************************)
(* Types. The reader has an entry from the first one on, and what it reads  *)
(* is an open file.                                                         *)
(****************************************************************************)

\* The reader is in the middle of the file it has found, or at its end.
InFile ==
  \/ rpc \in {"start", "reading", "signal", "eof"}
  \/ rpc \in {"wait", "open"} /\ readResult

HasEntry ==
  /\ rpc \in {"none", "findFirst"} => found = 0 /\ ~readResult
  /\ rpc = "eof" => ~readResult
  /\ rpc \in {"wait", "open", "start", "reading", "eof", "stop", "signal"} =>
       found \in DOMAIN folder
  /\ InFile => readFileHandle = found /\ found \in opened
  /\ rpc = "start" => fileInfo.fileHeader = found
  /\ rpc = "reading" => overlapped.op = "read" /\ overlapped.file = found
                         /\ overlapped.offset = fileInfo.positionInFile
  /\ wpc = "writing" => overlapped.op = "write" /\ overlapped.file = outFileHandle

TypeInv == TypeOK /\ HasEntry

\* What FindFirstFile may find.
LEMMA FolderFacts ==
  ASSUME TypeOK
  PROVE  /\ folder \in Seq(Text) /\ Len(folder) \in Nat /\ DOMAIN folder = 1..Len(folder)
         /\ \A f \in DOMAIN folder : folder[f] \in Text /\ folder[f].size \in Nat
<1>1. folder \in Seq(Text)
  BY FoldersAssumption DEF TypeOK
<1>2. \A f \in DOMAIN folder : folder[f] \in Text
  BY <1>1
<1> QED
  BY <1>1, <1>2 DEF Text

LEMMA InitTypeInv == Init => TypeInv
<1> SUFFICES ASSUME Init PROVE TypeInv
  OBVIOUS
<1>1. <<>> \in Seq(Abs!Piece) /\ <<Stale>> \in Seq(Abs!Piece)
  BY DEF Stale, Abs!Piece
<1>2. fileInfo \in FileInfo /\ overlapped \in Overlapped
  BY DEF Init, FileInfo, Overlapped, Handle, Failed, Out, Stale, Abs!Piece
<1>3. output \in Seq(Abs!Piece) /\ faults \in 0..MaxFaults
  <2>1. output = <<>> \/ output = <<Stale>>
    BY DEF Init
  <2>2. output \in Seq(Abs!Piece)
    BY <1>1, <2>1, Zenon
  <2> QED
    BY <2>2, FaultsAssumption DEF Init
<1>4. TypeOK
  BY <1>2, <1>3 DEF Init, TypeOK
<1> QED
  BY <1>4 DEF Init, TypeInv, HasEntry, InFile

\* What a fault, and the end of an operation, change.
LEMMA FaultTyped ==
  ASSUME TypeOK, NEW kind, Fault(kind) \/ UNCHANGED faults
  PROVE  faults' \in 0..MaxFaults
BY FaultsAssumption DEF TypeOK, Fault

LEMMA Completed ==
  ASSUME TypeOK, (\E n \in Nat : Succeed(n)) \/ (\E eof \in BOOLEAN : Fail(eof))
  PROVE  /\ overlapped' \in Overlapped /\ ~overlapped'.pending
         /\ overlapped'.op = overlapped.op /\ overlapped'.file = overlapped.file
         /\ overlapped'.offset = overlapped.offset /\ overlapped'.asked = overlapped.asked
<1>1. CASE \E n \in Nat : Succeed(n)
  BY <1>1 DEF TypeOK, Overlapped, Succeed
<1>2. ASSUME NEW eof \in BOOLEAN, Fail(eof) PROVE ~(\E n \in Nat : Succeed(n)) =>
        /\ overlapped' \in Overlapped /\ ~overlapped'.pending
        /\ overlapped'.op = overlapped.op /\ overlapped'.file = overlapped.file
        /\ overlapped'.offset = overlapped.offset /\ overlapped'.asked = overlapped.asked
  <2>1. PICK n \in {0, overlapped.internalHigh} :
          overlapped' = [overlapped EXCEPT !.pending = FALSE, !.ok = FALSE, !.eof = eof,
                                           !.internalHigh = n]
    BY <1>2 DEF Fail
  <2>2. n \in Nat
    BY DEF TypeOK, Overlapped
  <2> QED
    BY <2>1, <2>2 DEF TypeOK, Overlapped
<1> QED
  BY <1>1, <1>2

LEMMA MainTyped ==
  ASSUME IInv, TypeInv, Main PROVE TypeInv'
<1> USE DEF TypeInv, TypeOK, HasEntry, InFile, IInv, Control, events, readerVars, writerVars,
        Fault
<1>1. CASE Load
  <2>1. faults' \in 0..MaxFaults
    BY <1>1, FaultTyped DEF Load
  <2> QED
    BY <1>1, <2>1 DEF Load
<1>2. CASE CreateWriter
  BY <1>2 DEF CreateWriter
<1>3. CASE CreateReader
  BY <1>3 DEF CreateReader
<1>4. CASE Join
  BY <1>4 DEF Join
<1> QED
  BY <1>1, <1>2, <1>3, <1>4 DEF Main

LEMMA ReaderTyped ==
  ASSUME IInv, TypeInv, Reader PROVE TypeInv'
<1> USE DEF TypeInv, TypeOK, HasEntry, InFile, IInv, Token, Operation, ReaderHolds,
        WriterHolds, events, mainVars, writerVars, Fault
<1>1. CASE FindFirst
  BY <1>1, FolderFacts DEF FindFirst
<1>2. CASE WaitWriter
  BY <1>2 DEF WaitWriter
<1>3. CASE OpenInput
  <2>1. /\ rpc = "open" /\ rpc' = IF fileInfo'.fileHeader = Failed THEN "stop" ELSE "start"
        /\ UNCHANGED <<folder, events, overlapped, mainVars, found, readResult, writerVars, output>>
    BY <1>3 DEF OpenInput
  <2>2. CASE readResult
    <3>1. /\ fileInfo' = [fileInfo EXCEPT !.fileHeader = found]
          /\ UNCHANGED <<readFileHandle, opened, faults>>
      BY <1>3, <2>1, <2>2 DEF OpenInput
    <3> QED
      BY <2>1, <2>2, <3>1, FolderFacts DEF FileInfo, Handle, Failed
  <2>3. CASE ~readResult
    <3>1. /\ fileInfo' = [fileInfo EXCEPT !.fileHeader = readFileHandle', !.positionInFile = 0]
          /\ \/ readFileHandle' = found /\ opened' = opened \cup {found}
             \/ readFileHandle' = Failed /\ opened' = opened
          /\ faults' \in 0..MaxFaults
      BY <1>3, <2>3, FaultsAssumption DEF OpenInput, FirstPosition
    <3>2. found \in DOMAIN folder /\ found # Failed /\ found \in Handle /\ Failed \in Handle
      BY <2>1, FolderFacts DEF Handle, Failed
    <3>3. fileInfo' \in FileInfo /\ fileInfo'.fileHeader = readFileHandle'
      BY <3>1, <3>2 DEF FileInfo
    <3> QED
      BY <2>1, <2>3, <3>1, <3>2, <3>3
  <2> QED
    BY <2>2, <2>3
<1>4. CASE StartRead
  BY <1>4, BufferAssumption DEF StartRead, FileInfo, Overlapped
<1>5. CASE Crash
  BY <1>5 DEF Crash
<1>6. CASE FinishRead
  <2>1. fileInfo' \in FileInfo
    BY <1>6 DEF FinishRead, FileInfo, Overlapped
  <2>2. overlapped.ok \in BOOLEAN
    BY DEF Overlapped
  <2>3. rpc = "reading" /\ rpc' \in {"eof", "signal"} /\ readResult' = overlapped.ok
        /\ (rpc' = "eof" => ~overlapped.ok)
        /\ UNCHANGED <<folder, events, overlapped, mainVars, found, readFileHandle, writerVars,
                       opened, output, faults>>
    BY <1>6 DEF FinishRead
  <2> QED
    BY <2>1, <2>2, <2>3
<1>7. CASE FindNext
  BY <1>7, FolderFacts DEF FindNext, ToNext
<1>8. CASE StopRead
  BY <1>8 DEF StopRead, Leave
<1>9. CASE SignalRead
  BY <1>9 DEF SignalRead
<1> QED
  BY <1>1, <1>2, <1>3, <1>4, <1>5, <1>6, <1>7, <1>8, <1>9 DEF Reader

LEMMA WriterTyped ==
  ASSUME IInv, TypeInv, Writer PROVE TypeInv'
<1> USE DEF TypeInv, TypeOK, HasEntry, InFile, IInv, Token, Operation, ReaderHolds,
        WriterHolds, events, mainVars, readerVars, Fault
<1>1. CASE OpenOutput
  <2>1. /\ wpc = "open" /\ wpc' = "wait" /\ outFileHandle' \in {Failed, Out}
        /\ output' = <<>> \/ UNCHANGED output
        /\ Fault("open") \/ UNCHANGED faults
        /\ UNCHANGED <<folder, events, fileInfo, overlapped, mainVars, readerVars, opened>>
    BY <1>1 DEF OpenOutput
  <2>2. faults' \in 0..MaxFaults /\ output' \in Seq(Abs!Piece)
    BY <2>1, FaultTyped, EmptySeq
  <2> HIDE DEF Fault
  <2> QED
    BY <2>1, <2>2
<1>2. CASE WaitReader
  BY <1>2 DEF WaitReader
<1>3. CASE StopWrite
  BY <1>3 DEF StopWrite
<1>4. CASE StartWrite
  <2>1. /\ fileInfo' = [fileInfo EXCEPT !.fileHeader = outFileHandle]
        /\ overlapped' = [overlapped EXCEPT !.op = "write", !.pending = TRUE,
                            !.file = outFileHandle, !.offset = fileInfo.positionOutFile,
                            !.asked = overlapped.internalHigh]
        /\ wpc = "start" /\ wpc' = "writing"
        /\ UNCHANGED <<folder, events, mainVars, readerVars, outFileHandle, opened, output, faults>>
    BY <1>4 DEF StartWrite
  <2>2. outFileHandle \in Handle
    BY DEF Handle, Failed, Out
  <2>3. fileInfo' \in FileInfo
    BY <2>1, <2>2 DEF FileInfo
  <2>4. overlapped' \in Overlapped
    BY <2>1, <2>2 DEF FileInfo, Overlapped
  <2>5. overlapped'.op = "write" /\ overlapped'.file = outFileHandle
    BY <2>1 DEF Overlapped
  <2>6. rpc \notin {"start", "reading", "signal", "eof"}
    BY <2>1
  <2> QED
    BY <2>1, <2>3, <2>4, <2>5, <2>6
<1>5. CASE FinishWrite
  BY <1>5 DEF FinishWrite, MoveOut, FileInfo, Overlapped
<1>6. CASE SignalWritten
  BY <1>6 DEF SignalWritten
<1> QED
  BY <1>1, <1>2, <1>3, <1>4, <1>5, <1>6 DEF Writer

LEMMA SystemTyped ==
  ASSUME IInv, TypeInv, System PROVE TypeInv'
<1> USE DEF TypeInv, TypeOK, HasEntry, InFile, IInv, Token, Operation, ReaderHolds,
        WriterHolds, events, mainVars, readerVars, writerVars, Fault, Succeed, Fail
<1>1. CASE CompleteRead
  <2>1. rpc = "reading" /\ found \in Nat /\ overlapped.file = found
    BY <1>1, FolderFacts DEF CompleteRead
  <2>2. /\ folder[overlapped.file].size \in Nat /\ overlapped.offset \in Nat
        /\ overlapped.asked \in Nat
    BY <2>1, FolderFacts DEF Overlapped
  <2> DEFINE n == Least(overlapped.asked, folder[overlapped.file].size - overlapped.offset)
             piece == [file |-> overlapped.file, from |-> overlapped.offset,
                       to |-> overlapped.offset + n]
  <2>3. /\ \/ n \in Nat /\ Succeed(n) /\ fileInfo' = [fileInfo EXCEPT !.buffer = piece]
           \/ (\E eof \in BOOLEAN : Fail(eof)) /\ UNCHANGED fileInfo
        /\ \/ Fault("read")
           \/ UNCHANGED faults
        /\ UNCHANGED <<folder, events, mainVars, readerVars, writerVars, opened, output>>
    <3>1. overlapped.asked >= 0 /\ folder[overlapped.file].size - overlapped.offset > 0 => n \in Nat
      BY <2>2 DEF Least
    <3> HIDE DEF Succeed, Fail, Fault
    <3>2. \/ /\ folder[overlapped.file].size - overlapped.offset > 0 /\ Succeed(n)
             /\ fileInfo' = [fileInfo EXCEPT !.buffer = piece] /\ UNCHANGED faults
          \/ Fail(TRUE) /\ UNCHANGED <<fileInfo, faults>>
          \/ Fault("read") /\ Fail(FALSE) /\ UNCHANGED fileInfo
      BY <1>1 DEF CompleteRead
    <3>3. UNCHANGED <<folder, events, mainVars, readerVars, writerVars, opened, output>>
      BY <1>1 DEF CompleteRead
    <3>4. overlapped.asked >= 0
      BY <2>2
    <3> HIDE DEF n, piece
    <3> QED
      BY <3>1, <3>2, <3>3, <3>4, Zenon
  <2>4. n \in Nat => piece \in Abs!Piece
    BY <2>1, <2>2 DEF Abs!Piece
  <2> HIDE DEF n
  <2>5. /\ fileInfo' \in FileInfo /\ fileInfo'.fileHeader = fileInfo.fileHeader
        /\ fileInfo'.positionInFile = fileInfo.positionInFile
    BY <2>3, <2>4 DEF FileInfo
  <2>6. faults' \in 0..MaxFaults
    BY <2>3, FaultTyped
  <2>7. /\ overlapped' \in Overlapped /\ overlapped'.op = overlapped.op
        /\ overlapped'.file = overlapped.file /\ overlapped'.offset = overlapped.offset
    BY <2>3, Completed
  <2> HIDE DEF Succeed, Fail, Fault
  <2> QED
    BY <2>1, <2>3, <2>5, <2>6, <2>7
<1>2. CASE CompleteWrite
  <2>1. wpc = "writing" /\ rpc # "reading"
    BY <1>2 DEF CompleteWrite
  <2>2. overlapped' \in Overlapped /\ faults' \in 0..MaxFaults
    <3>1. overlapped.asked \in Nat
      BY DEF Overlapped
    <3> HIDE DEF Succeed, Fail
    <3> QED
      <4>1. (\E n \in Nat : Succeed(n)) \/ Fail(FALSE)
        BY <1>2, <3>1 DEF CompleteWrite
      <4>2. Fault("write") \/ UNCHANGED faults
        BY <1>2 DEF CompleteWrite
      <4> HIDE DEF Fault
      <4> QED
        BY <4>1, <4>2, Completed, FaultTyped
  <2>3. output' \in Seq(Abs!Piece)
    <3>1. CASE AppendBytes(overlapped.asked)
      <4>1. overlapped.asked \in Nat /\ fileInfo.buffer \in Abs!Piece
        BY DEF Overlapped, FileInfo
      <4>2. [fileInfo.buffer EXCEPT !.to = fileInfo.buffer.from + overlapped.asked] \in Abs!Piece
        BY <4>1 DEF Abs!Piece
      <4> QED
        BY <3>1, <4>2, AppendProperties DEF AppendBytes
    <3>2. CASE UNCHANGED output
      BY <3>2
    <3> QED
      BY <1>2, <3>1, <3>2 DEF CompleteWrite
  <2>4. overlapped'.op = overlapped.op /\ overlapped'.file = overlapped.file
    BY <1>2 DEF CompleteWrite, Overlapped
  <2> QED
    BY <1>2, <2>1, <2>2, <2>3, <2>4 DEF CompleteWrite
<1> QED
  BY <1>1, <1>2 DEF System

LEMMA TypeInvariance == Spec => []TypeInv
<1>1. IInv /\ TypeInv /\ [Next]_vars => TypeInv'
  <2>1. TypeInv /\ (Ended \/ UNCHANGED vars) => TypeInv'
    BY DEF Ended, vars, TypeInv, TypeOK, HasEntry, InFile, events, mainVars, readerVars, writerVars
  <2> QED
    BY <2>1, MainTyped, ReaderTyped, WriterTyped, SystemTyped DEF Next
<1> QED
  BY <1>1, InitTypeInv, Invariance, PTL DEF Spec

\* Every variable of the pipeline keeps its type, whatever fails; what is read is an entry
\* that was found.
THEOREM TypesKept == Spec => []TypeOK
BY TypeInvariance, PTL DEF TypeInv

-----------------------------------------------------------------------------
(* Nobody waits for ever.  Until the stop is announced the right to use the  *)
(* struct is somewhere, so that one of the threads can go on.                *)

Someone ==
  /\ mpc = "wait" => rpc # "none"
  /\ mpc \in {"createReader", "wait"} => wpc # "none"
  /\ rpc = "killed" => mpc = "crashed"
  /\ folder # <<>> /\ rpc = "exited" => readerStop
  /\ folder # <<>> /\ rpc # "killed" =>
       writerCompleted \/ ReaderHolds \/ readerCompleted \/ WriterHolds \/ readerStop

LEMMA InitSomeone == Init => Someone
  BY DEF Init, Someone

LEMMA MainSomeone ==
  ASSUME IInv, Someone, Main PROVE Someone'
<1> USE DEF IInv, Control, Token, Someone, ReaderHolds, WriterHolds, events, readerVars
<1>1. CASE Load
  BY <1>1 DEF Load, writerVars
<1>2. CASE CreateWriter
  BY <1>2 DEF CreateWriter
<1>3. CASE CreateReader
  <2>1. /\ mpc = "createReader" /\ rpc' = "findFirst" /\ UNCHANGED <<folder, events, wpc>>
    BY <1>3 DEF CreateReader, writerVars
  <2>2. QED
    BY <1>3, <2>1 DEF CreateReader
<1>4. CASE Join
  BY <1>4 DEF Join, writerVars
<1>5. QED
  BY <1>1, <1>2, <1>3, <1>4 DEF Main

\* What the reader leaves it hands on.
LEMMA ReaderSomeone ==
  ASSUME IInv, Someone, Reader PROVE Someone'
<1> USE DEF IInv, Control, Token, Someone, ReaderHolds, WriterHolds, events, mainVars, writerVars
<1>1. CASE FindFirst
  BY <1>1 DEF FindFirst
<1>2. CASE WaitWriter
  BY <1>2 DEF WaitWriter
<1>3. CASE OpenInput \/ StartRead \/ FinishRead
  <2>1. /\ rpc \in {"open", "start", "reading"} /\ rpc' \in {"stop", "start", "reading", "eof", "signal"}
        /\ UNCHANGED <<folder, events, mpc, wpc>>
    BY <1>3 DEF OpenInput, StartRead, FinishRead
  <2>2. QED
    BY <2>1
<1>4. CASE Crash
  <2>1. rpc' = "killed" /\ mpc' = "crashed" /\ wpc' = "killed"
    BY <1>4 DEF Crash
  <2>2. QED
    BY <2>1
<1>5. CASE FindNext
  <2>1. /\ rpc = "eof" /\ rpc' = "wait" /\ writerCompleted' = TRUE /\ UNCHANGED <<mpc, wpc>>
    BY <1>5 DEF FindNext, ToNext
  <2>2. QED
    BY <2>1
<1>6. CASE StopRead
  <2>1. /\ rpc \in {"stop", "eof"} /\ rpc' = "exited" /\ readerStop' = TRUE /\ UNCHANGED <<mpc, wpc>>
    BY <1>6 DEF StopRead, Leave
  <2>2. QED
    BY <2>1
<1>7. CASE SignalRead
  <2>1. rpc = "signal" /\ rpc' = "wait" /\ readerCompleted' = TRUE /\ UNCHANGED <<mpc, wpc>>
    BY <1>7 DEF SignalRead
  <2>2. QED
    BY <2>1
<1>8. QED
  BY <1>1, <1>2, <1>3, <1>4, <1>5, <1>6, <1>7 DEF Reader

LEMMA WriterSomeone ==
  ASSUME IInv, Someone, Writer PROVE Someone'
<1> USE DEF IInv, Control, Token, Someone, ReaderHolds, WriterHolds, events, mainVars, readerVars
<1>1. CASE OpenOutput \/ StartWrite \/ FinishWrite
  <2>1. /\ \/ wpc = "open" /\ wpc' = "wait"
           \/ wpc \in {"start", "writing"} /\ wpc' \in {"writing", "signal"}
        /\ UNCHANGED <<folder, events, mpc, rpc>>
    BY <1>1 DEF OpenOutput, StartWrite, FinishWrite, MoveOut
  <2>2. QED
    BY <2>1
<1>2. CASE WaitReader
  BY <1>2 DEF WaitReader
<1>3. CASE StopWrite
  BY <1>3 DEF StopWrite
<1>4. CASE SignalWritten
  BY <1>4 DEF SignalWritten
<1>5. QED
  BY <1>1, <1>2, <1>3, <1>4 DEF Writer

LEMMA NextSomeone == IInv /\ Someone /\ [Next]_vars => Someone'
<1>1. System => UNCHANGED <<folder, events, mpc, rpc, wpc>>
  BY DEF System, CompleteRead, CompleteWrite, mainVars, readerVars, writerVars
<1>2. Ended \/ UNCHANGED vars => UNCHANGED <<folder, events, mpc, rpc, wpc>>
  BY DEF Ended, vars, mainVars, readerVars, writerVars
<1>3. Someone /\ UNCHANGED <<folder, events, mpc, rpc, wpc>> => Someone'
  BY DEF Someone, ReaderHolds, WriterHolds, events
<1>4. QED
  BY <1>1, <1>2, <1>3, MainSomeone, ReaderSomeone, WriterSomeone DEF Next

\* Who has the right to use the struct can go on, or waits for an operation; and when the
\* stop is announced, the writer and main are let go.
LEMMA SomeoneGoes == IInv /\ TypeInv /\ Someone => NoStandstill
<1> SUFFICES ASSUME IInv, TypeInv, Someone, folder # <<>>, mpc \notin {"done", "crashed"},
                    ~MainCanGo, ~overlapped.pending
             PROVE  ReaderCanGo \/ WriterCanGo
  BY DEF NoStandstill
<1>1. mpc = "wait" /\ rpc \notin {"none", "killed"} /\ wpc \notin {"none", "killed"}
  BY DEF TypeInv, TypeOK, MainCanGo, Someone, IInv, Token
<1>2. CASE rpc = "exited"
  <2>1. readerStop /\ wpc \in {"open", "wait", "exited"} /\ wpc # "exited"
    BY <1>1, <1>2 DEF Someone, IInv, Token, MainCanGo
  <2>2. QED
    BY <2>1 DEF WriterCanGo
<1>3. CASE rpc = "wait" /\ ~writerCompleted
  <2>1. readerCompleted \/ WriterHolds
    BY <1>3 DEF Someone, IInv, Token, ReaderHolds
  <2>2. wpc # "exited"
    BY <1>3 DEF IInv, Token
  <2>3. QED
    BY <1>1, <2>1, <2>2 DEF WriterCanGo, WriterHolds, TypeInv, TypeOK
<1>4. CASE rpc \notin {"exited", "wait"} \/ (rpc = "wait" /\ writerCompleted)
  BY <1>1, <1>4 DEF ReaderCanGo, TypeInv, TypeOK
<1>5. QED
  BY <1>2, <1>3, <1>4

\* Whatever fails, and however the threads follow each other: as long as there is a file
\* and the program is not over, a thread can go on or an operation is in progress.
THEOREM NeverStuck == Spec => []NoStandstill
<1>1. Init => Someone
  BY InitSomeone
<1>2. IInv /\ Someone /\ [Next]_vars => Someone'
  BY NextSomeone
<1>3. IInv /\ TypeInv /\ Someone => NoStandstill
  BY SomeoneGoes
<1>4. QED
  BY <1>1, <1>2, <1>3, Invariance, TypeInvariance, PTL DEF Spec

-----------------------------------------------------------------------------
(****************************************************************************)
(* Where the writer writes.                                                 *)
(****************************************************************************)

\* A nonempty set of natural numbers has a smallest element.
LEMMA SmallestNat ==
  ASSUME NEW P \in SUBSET Nat, P # {}
  PROVE  \E n \in P : \A m \in P : n <= m
<1> DEFINE R == OpToRel(<, Nat)
<1>1. IsWellFoundedOn(R, Nat) /\ \A i, j \in Nat : j < i => <<j, i>> \in R
  BY NatLessThanWellFounded DEF OpToRel
<1> HIDE DEF R
<1>2. PICK n \in P : \A m \in P : ~(<<m, n>> \in R)
  BY <1>1, WFMin
<1>3. ASSUME NEW m \in P PROVE n <= m
  <2>1. m \in Nat /\ n \in Nat /\ ~(m < n)
    BY <1>1, <1>2
  <2> QED
    BY <2>1
<1> QED
  BY <1>3

\* The recursion that counts the bytes of out, up to piece k.
Bytes(out, g, k) ==
  [n \in 0..k |-> IF n = 0 THEN 0 ELSE g[n - 1] + out[n].to - out[n].from]

\* It has a solution: the shortest sequence without one would have one.
LEMMA BytesExists ==
  ASSUME NEW out, NEW k \in Nat
  PROVE  \E g : g = Bytes(out, g, k)
<1> DEFINE P == {n \in Nat : ~ \E g : g = Bytes(out, g, n)}
<1> SUFFICES ASSUME P # {} PROVE FALSE
  OBVIOUS
<1>1. PICK n \in P : \A m \in P : n <= m
  <2>1. P \in SUBSET Nat
    OBVIOUS
  <2> HIDE DEF P
  <2> QED
    BY <2>1, SmallestNat
<1>2. CASE n = 0
  <2> DEFINE g == [m \in 0..0 |-> 0]
  <2>1. g = Bytes(out, g, 0)
    BY DEF Bytes
  <2> QED
    BY <1>2, <2>1
<1>3. CASE n # 0
  <2>1. n - 1 \in Nat /\ n - 1 \notin P
    BY <1>1, <1>3
  <2>2. PICK h : h = Bytes(out, h, n - 1)
    BY <2>1
  <2> DEFINE g == [m \in 0..n |-> IF m = 0 THEN 0 ELSE h[m - 1] + out[m].to - out[m].from]
  <2>3. \A m \in 0..n - 1 : g[m] = h[m]
    BY <2>1, <2>2 DEF Bytes
  <2>4. \A m \in 0..n : m # 0 => g[m - 1] = h[m - 1]
    <3> HIDE DEF g
    <3> QED
      BY <2>1, <2>3
  <2>5. g = Bytes(out, g, n)
    BY <2>4 DEF Bytes
  <2> QED
    BY <2>5
<1> QED
  BY <1>2, <1>3

LEMMA UpToIs ==
  ASSUME NEW out, Len(out) \in Nat
  PROVE  /\ \A n \in 0..Len(out) : UpTo(out)[n] =
              IF n = 0 THEN 0 ELSE UpTo(out)[n - 1] + out[n].to - out[n].from
<1>1. UpTo(out) = Bytes(out, UpTo(out), Len(out))
  BY BytesExists DEF UpTo, Bytes
<1> QED
  BY <1>1 DEF Bytes

LEMMA LengthEmpty == Length(<<>>) = 0
BY UpToIs, EmptySeq DEF Length

\* What a piece adds to the length of the file.
LEMMA LengthAppend ==
  ASSUME NEW out \in Seq(Abs!Piece), NEW p \in Abs!Piece
  PROVE  Length(Append(out, p)) = Length(out) + p.to - p.from
<1> DEFINE new == Append(out, p)
           P == {n \in 0..Len(out) : UpTo(new)[n] # UpTo(out)[n]}
<1>1. /\ Len(out) \in Nat /\ Len(new) = Len(out) + 1 /\ new[Len(out) + 1] = p
      /\ \A i \in 1..Len(out) : new[i] = out[i]
  OBVIOUS
<1> HIDE DEF new
<1>2. /\ \A n \in 0..Len(out) : UpTo(out)[n] =
           IF n = 0 THEN 0 ELSE UpTo(out)[n - 1] + out[n].to - out[n].from
      /\ \A n \in 0..Len(new) : UpTo(new)[n] =
           IF n = 0 THEN 0 ELSE UpTo(new)[n - 1] + new[n].to - new[n].from
  BY <1>1, UpToIs
<1>3. P = {}
  <2> SUFFICES ASSUME P # {} PROVE FALSE
    OBVIOUS
  <2>1. PICK n \in P : \A m \in P : n <= m
    <3>1. P \in SUBSET Nat
      BY <1>1
    <3> HIDE DEF P
    <3> QED
      BY <3>1, SmallestNat
  <2>2. n # 0 /\ n \in 1..Len(out) /\ n \in 0..Len(new)
    BY <1>1, <1>2, <2>1
  <2>3. n - 1 \in 0..Len(out) /\ n - 1 \notin P
    BY <1>1, <2>1, <2>2
  <2>4. UpTo(new)[n - 1] = UpTo(out)[n - 1] /\ new[n] = out[n]
    BY <1>1, <2>2, <2>3
  <2>5. UpTo(new)[n] = UpTo(out)[n]
    BY <1>1, <1>2, <2>2, <2>4
  <2> QED
    BY <2>1, <2>5
<1>4. UpTo(new)[Len(out)] = UpTo(out)[Len(out)]
  BY <1>1, <1>3
<1>5. Len(new) \in 0..Len(new) /\ Len(new) # 0 /\ Len(new) - 1 = Len(out)
  BY <1>1
<1>6. UpTo(new)[Len(new)] = UpTo(new)[Len(out)] + p.to - p.from
  BY <1>1, <1>2, <1>5
<1> QED
  BY <1>4, <1>6 DEF Length, new

\* A write has succeeded and the position has not moved yet.
Unmoved == IF wpc = "writing" /\ ~overlapped.pending /\ overlapped.ok
           THEN overlapped.internalHigh ELSE 0

TailInv ==
  /\ wpc \in {"none", "open"} => fileInfo.positionOutFile = 0 /\ outFileHandle = Failed
  /\ outFileHandle = Out => fileInfo.positionOutFile + Unmoved = Length(output)
  /\ wpc = "writing" /\ overlapped.pending => overlapped.offset = fileInfo.positionOutFile

LEMMA InitTail == Init => TailInv
<1>1. Init => wpc = "none" /\ outFileHandle = Failed /\ fileInfo.positionOutFile = 0
  BY DEF Init
<1> QED
  BY <1>1 DEF TailInv, Failed, Out

LEMMA NextTail == IInv /\ TypeInv /\ TailInv /\ [Next]_vars => TailInv'
<1> SUFFICES ASSUME IInv, TypeInv, TailInv, [Next]_vars PROVE TailInv'
  OBVIOUS
<1> USE DEF TailInv, Unmoved, Failed, Out
<1>1. /\ fileInfo.positionOutFile \in Nat /\ overlapped.internalHigh \in Nat
      /\ overlapped.asked \in Nat
      /\ fileInfo \in FileInfo /\ overlapped \in Overlapped
  BY DEF TypeInv, TypeOK, FileInfo, Overlapped
<1>2. CASE /\ UNCHANGED <<outFileHandle, output, fileInfo.positionOutFile>>
           /\ \/ UNCHANGED <<wpc, overlapped>>
              \/ wpc' \notin {"none", "open", "writing"} /\ wpc # "writing"
              \/ wpc' = wpc /\ wpc # "writing"
              \/ wpc = "none" /\ wpc' = "open"
  BY <1>2
<1>3. CASE Main
  <2>1. /\ UNCHANGED <<outFileHandle, output, fileInfo, overlapped>>
        /\ wpc' = wpc \/ (wpc = "none" /\ wpc' = "open")
    BY <1>3 DEF Main, Load, CreateWriter, CreateReader, Join, writerVars, IInv, Control
  <2> QED
    BY <1>2, <2>1
<1>4. CASE Reader
  <2>1. UNCHANGED <<outFileHandle, output>>
    BY <1>4 DEF Reader, FindFirst, WaitWriter, OpenInput, StartRead, Crash, FinishRead,
         FindNext, ToNext, StopRead, Leave, SignalRead, writerVars
  <2>2. fileInfo'.positionOutFile = fileInfo.positionOutFile
    BY <1>1, <1>4 DEF Reader, FindFirst, WaitWriter, OpenInput, StartRead, Crash, FinishRead,
         FindNext, ToNext, StopRead, Leave, SignalRead, FileInfo
  <2>3. CASE StartRead
    <3>1. wpc # "writing" /\ wpc' = wpc
      BY <2>3 DEF StartRead, writerVars, IInv, Token, ReaderHolds, WriterHolds
    <3> QED
      BY <1>2, <2>1, <2>2, <3>1
  <2>4. CASE Crash
    <3>1. wpc # "writing" /\ wpc' = "killed"
      BY <2>4 DEF Crash, IInv, Token, ReaderHolds, WriterHolds
    <3> QED
      BY <1>2, <2>1, <2>2, <3>1
  <2>5. CASE ~StartRead /\ ~Crash
    <3>1. UNCHANGED <<wpc, overlapped>>
      BY <1>4, <2>5 DEF Reader, FindFirst, WaitWriter, OpenInput, FinishRead,
           FindNext, ToNext, StopRead, Leave, SignalRead, writerVars
    <3> QED
      BY <1>2, <2>1, <2>2, <3>1
  <2> QED
    BY <2>3, <2>4, <2>5
<1>5. CASE OpenOutput
  <2>1. /\ wpc = "open" /\ wpc' = "wait" /\ UNCHANGED fileInfo
        /\ (outFileHandle' = Out => output' = <<>>)
    BY <1>5 DEF OpenOutput
  <2> QED
    BY <2>1, LengthEmpty
<1>6. CASE WaitReader
  BY <1>2, <1>6 DEF WaitReader
<1>7. CASE StopWrite
  <2>1. outFileHandle' = Failed /\ wpc' = "exited"
    BY <1>7 DEF StopWrite
  <2> QED
    BY <2>1
<1>8. CASE StartWrite
  <2>1. /\ wpc = "start" /\ wpc' = "writing" /\ UNCHANGED <<outFileHandle, output>>
        /\ fileInfo'.positionOutFile = fileInfo.positionOutFile
        /\ overlapped'.pending = TRUE /\ overlapped'.offset = fileInfo.positionOutFile
    BY <1>1, <1>8 DEF StartWrite, FileInfo, Overlapped
  <2> QED
    BY <2>1
<1>9. CASE FinishWrite
  <2>1. /\ wpc = "writing" /\ wpc' = "signal" /\ ~overlapped.pending
        /\ UNCHANGED <<outFileHandle, output>>
        /\ fileInfo'.positionOutFile = fileInfo.positionOutFile + Unmoved
    BY <1>1, <1>9 DEF FinishWrite, MoveOut, FileInfo, Overlapped
  <2>2. Unmoved' = 0 /\ Unmoved \in Nat
    BY <1>1, <2>1
  <2> HIDE DEF Unmoved
  <2> QED
    BY <1>1, <2>1, <2>2
<1>10. CASE SignalWritten
  BY <1>2, <1>10 DEF SignalWritten
<1>11. CASE CompleteRead
  <2>1. wpc # "writing" /\ UNCHANGED <<wpc, outFileHandle, output>>
    BY <1>11 DEF CompleteRead, writerVars, IInv, Operation, Token, ReaderHolds, WriterHolds
  <2>2. fileInfo'.positionOutFile = fileInfo.positionOutFile
    BY <1>1, <1>11 DEF CompleteRead, FileInfo
  <2> QED
    BY <1>2, <2>1, <2>2
<1>12. CASE CompleteWrite
  <2>1. /\ wpc = "writing" /\ overlapped.pending /\ overlapped.file = outFileHandle
        /\ UNCHANGED <<wpc, outFileHandle, fileInfo>>
    BY <1>12 DEF CompleteWrite, writerVars, IInv, Operation, TypeInv, HasEntry
  <2>2. CASE Succeed(overlapped.asked) /\ AppendBytes(overlapped.asked)
    <3> DEFINE piece == [fileInfo.buffer EXCEPT !.to = fileInfo.buffer.from + overlapped.asked]
    <3>1. overlapped'.internalHigh = overlapped.asked /\ overlapped'.ok /\ ~overlapped'.pending
      BY <1>1, <2>2 DEF Succeed, Overlapped
    <3>2. /\ piece \in Abs!Piece /\ piece.to = fileInfo.buffer.from + overlapped.asked
          /\ piece.from = fileInfo.buffer.from /\ fileInfo.buffer.from \in Nat
      BY <1>1 DEF FileInfo, Abs!Piece
    <3>3. output \in Seq(Abs!Piece)
      BY DEF TypeInv, TypeOK
    <3>4. CASE overlapped.asked = 0
      BY <1>1, <2>1, <2>2, <3>1, <3>4 DEF AppendBytes
    <3>5. CASE overlapped.asked # 0
      <4>1. output' = Append(output, piece)
        BY <2>2, <3>5 DEF AppendBytes
      <4> HIDE DEF piece
      <4>2. Length(output') = Length(output) + piece.to - piece.from
        BY <3>2, <3>3, <4>1, LengthAppend
      <4>3. outFileHandle = Out => Length(output) = fileInfo.positionOutFile
        BY <1>1, <2>1
      <4>4. outFileHandle = Out => Length(output') = fileInfo.positionOutFile + overlapped.asked
        BY <1>1, <3>2, <4>2, <4>3
      <4>5. Unmoved' = overlapped.asked
        BY <2>1, <3>1
      <4> HIDE DEF Unmoved
      <4> QED
        BY <2>1, <3>1, <4>4, <4>5
    <3> QED
      BY <3>4, <3>5
  <2>3. CASE Fail(FALSE) /\ UNCHANGED output
    <3>1. ~overlapped'.ok /\ ~overlapped'.pending
      BY <1>1, <2>3 DEF Fail, Overlapped
    <3> QED
      BY <1>1, <2>1, <2>3, <3>1
  <2> QED
    BY <1>12, <2>2, <2>3 DEF CompleteWrite
<1>13. CASE Ended \/ UNCHANGED vars
  BY <1>2, <1>13 DEF Ended, vars, writerVars
<1> QED
  BY <1>3, <1>4, <1>5, <1>6, <1>7, <1>8, <1>9, <1>10, <1>11, <1>12, <1>13
     DEF Next, Writer, System

\* Every chunk is written where output.txt ends, also after failed writes and for any
\* sizes: no chunk overwrites another and no hole is left.
THEOREM WritesAtTheEnd == Spec => []TailOnly
<1>1. IInv /\ TypeInv /\ TailInv => TailOnly
  <2> SUFFICES ASSUME IInv, TypeInv, TailInv,
                      overlapped.pending, overlapped.op = "write", outFileHandle = Out
               PROVE  overlapped.offset = Length(output)
    BY DEF TailOnly
  <2>1. wpc = "writing" /\ fileInfo.positionOutFile \in Nat
    BY DEF IInv, Operation, TypeInv, TypeOK, FileInfo
  <2> QED
    BY <2>1 DEF TailInv, Unmoved
<1> QED
  BY <1>1, InitTail, NextTail, Invariance, TypeInvariance, PTL DEF Spec

-----------------------------------------------------------------------------
(****************************************************************************)
(* The order of the files, whatever fails: what the buffer holds comes      *)
(* after the output, and what is read next comes after that.                *)
(****************************************************************************)

NotAfter(p, q) == p.file < q.file \/ (p.file = q.file /\ p.from <= q.from)

Buffered ==
  /\ output # <<>> => NotAfter(output[Len(output)], fileInfo.buffer)
  /\ fileInfo.buffer.file <= found
  /\ InFile /\ fileInfo.buffer.file = found => fileInfo.buffer.from <= fileInfo.positionInFile
  /\ rpc \in {"wait", "open"} /\ ~readResult => fileInfo.buffer.file < found \/ found \in opened

LEMMA InitBuffered == Init => Buffered /\ FilesInOrder
<1> SUFFICES ASSUME Init PROVE Buffered /\ FilesInOrder
  OBVIOUS
<1>1. /\ fileInfo.buffer = Stale /\ found = 0 /\ rpc = "none"
      /\ output = <<>> \/ output = <<Stale>>
  BY DEF Init
<1>2. Stale.file = 0 /\ Stale.from = 0
  BY DEF Stale
<1>3. Len(output) \in {0, 1} /\ (output # <<>> => output[Len(output)] = Stale)
  BY <1>1
<1> QED
  BY <1>1, <1>2, <1>3 DEF Buffered, FilesInOrder, NotAfter, InFile

\* One step of the reader or of main, or a failed operation, which leave the output and
\* the buffer alone.
LEMMA BufferedFrame ==
  ASSUME UNCHANGED <<output, fileInfo.buffer>>, FilesInOrder, Buffered,
         fileInfo.buffer.file <= found',
         InFile' /\ fileInfo.buffer.file = found' =>
           fileInfo.buffer.from <= fileInfo'.positionInFile,
         rpc' \in {"wait", "open"} /\ ~readResult' =>
           fileInfo.buffer.file < found' \/ found' \in opened'
  PROVE  Buffered' /\ FilesInOrder'
BY DEF Buffered, FilesInOrder, NotAfter, InFile

LEMMA NextBuffered ==
  IInv /\ TypeInv /\ Buffered /\ FilesInOrder /\ [Next]_vars => Buffered' /\ FilesInOrder'
<1> SUFFICES ASSUME IInv, TypeInv, Buffered, FilesInOrder, [Next]_vars
             PROVE  Buffered' /\ FilesInOrder'
  OBVIOUS
<1>1. /\ fileInfo.positionInFile \in Nat /\ overlapped.internalHigh \in Nat
      /\ overlapped.asked \in Nat /\ overlapped.offset \in Nat
      /\ fileInfo \in FileInfo /\ overlapped \in Overlapped /\ found \in Nat
      /\ fileInfo.buffer \in Abs!Piece /\ fileInfo.buffer.file \in Nat
      /\ fileInfo.buffer.from \in Nat
      /\ output \in Seq(Abs!Piece)
  BY FolderFacts DEF TypeInv, TypeOK, FileInfo, Overlapped, Abs!Piece
<1>2. /\ fileInfo.buffer.file <= found
      /\ InFile /\ fileInfo.buffer.file = found => fileInfo.buffer.from <= fileInfo.positionInFile
      /\ rpc \in {"wait", "open"} /\ ~readResult => fileInfo.buffer.file < found \/ found \in opened
  BY DEF Buffered
<1>3. CASE /\ UNCHANGED <<output, fileInfo.buffer, fileInfo.positionInFile, found>>
           /\ \/ UNCHANGED <<rpc, readResult, opened>>
              \/ rpc' \in {"findFirst", "exited", "killed", "stop"}
              \/ rpc' = "open" /\ rpc = "wait" /\ UNCHANGED <<readResult, opened>>
              \/ rpc' = "reading" /\ rpc = "start"
  <2>1. InFile' => InFile \/ rpc' = "exited"
    BY <1>3 DEF InFile
  <2>2. InFile' /\ fileInfo.buffer.file = found' =>
          fileInfo.buffer.from <= fileInfo'.positionInFile
    BY <1>2, <1>3, <2>1 DEF InFile
  <2> QED
    BY <1>2, <1>3, <2>2, BufferedFrame
<1>4. CASE Main
  <2>1. /\ UNCHANGED <<output, fileInfo, found, readResult, opened>>
        /\ rpc' = rpc \/ rpc' = "findFirst"
    BY <1>4 DEF Main, Load, CreateWriter, CreateReader, Join, readerVars
  <2> QED
    BY <1>3, <2>1
<1>5. CASE FindFirst
  <2>1. /\ UNCHANGED <<output, fileInfo, readResult>> /\ ~readResult /\ found = 0
        /\ (rpc' = "wait" /\ found' = 1) \/ (rpc' = "exited" /\ found' = 0)
    BY <1>5 DEF FindFirst, TypeInv, HasEntry
  <2> QED
    BY <1>1, <1>2, <2>1, BufferedFrame DEF InFile
<1>6. CASE WaitWriter
  BY <1>3, <1>6 DEF WaitWriter
<1>7. CASE OpenInput
  <2>1. /\ rpc = "open" /\ UNCHANGED <<output, found, readResult>>
        /\ rpc' = IF fileInfo'.fileHeader = Failed THEN "stop" ELSE "start"
    BY <1>7 DEF OpenInput
  <2>2. fileInfo'.buffer = fileInfo.buffer
    BY <1>1, <1>7 DEF OpenInput, FileInfo
  <2>3. CASE readResult
    <3>1. fileInfo'.positionInFile = fileInfo.positionInFile
      BY <1>1, <1>7, <2>3 DEF OpenInput, FileInfo
    <3> QED
      BY <1>1, <1>2, <2>1, <2>2, <2>3, <3>1, BufferedFrame DEF InFile
  <2>4. CASE ~readResult
    <3>1. found \notin opened \/ readFileHandle' = Failed
      BY <1>7, <2>4 DEF OpenInput, Sharable
    <3>2. fileInfo'.fileHeader = readFileHandle'
      BY <1>1, <1>7, <2>4 DEF OpenInput, FileInfo
    <3>3. rpc' = "start" => fileInfo.buffer.file < found
      BY <1>2, <2>1, <2>4, <3>1, <3>2
    <3> QED
      BY <1>1, <1>2, <2>1, <2>2, <3>3, BufferedFrame DEF InFile
  <2> QED
    BY <2>3, <2>4
<1>8. CASE StartRead
  BY <1>3, <1>8 DEF StartRead
<1>9. CASE Crash
  BY <1>3, <1>9 DEF Crash
<1>10. CASE FinishRead
  <2>1. /\ rpc = "reading" /\ rpc' \in {"eof", "signal"} /\ UNCHANGED <<output, found>>
    BY <1>10 DEF FinishRead
  <2>2. fileInfo'.buffer = fileInfo.buffer /\ fileInfo'.positionInFile >= fileInfo.positionInFile
        /\ fileInfo'.positionInFile \in Nat
    BY <1>1, <1>10 DEF FinishRead, FileInfo
  <2> QED
    BY <1>1, <1>2, <2>1, <2>2, BufferedFrame DEF InFile
<1>11. CASE FindNext
  <2>1. /\ UNCHANGED <<output, fileInfo, readResult>> /\ ~readResult
        /\ rpc' = "wait" /\ found' = found + 1
    BY <1>11 DEF FindNext, ToNext, TypeInv, HasEntry
  <2> QED
    BY <1>1, <1>2, <2>1, BufferedFrame DEF InFile
<1>12. CASE StopRead
  BY <1>3, <1>12 DEF StopRead, Leave
<1>13. CASE SignalRead
  <2>1. /\ rpc = "signal" /\ rpc' = "wait" /\ UNCHANGED <<output, fileInfo, found, readResult, opened>>
        /\ found \in opened
    BY <1>13 DEF SignalRead, TypeInv, HasEntry, InFile
  <2> QED
    BY <1>1, <1>2, <2>1, BufferedFrame DEF InFile
<1>14. CASE OpenOutput
  <2>1. /\ output' = <<>> \/ UNCHANGED output
        /\ UNCHANGED <<fileInfo, found, rpc, readResult, opened>>
    BY <1>14 DEF OpenOutput, readerVars
  <2>2. CASE output' = <<>>
    BY <2>1, <2>2, EmptySeq DEF Buffered, FilesInOrder, InFile
  <2>3. CASE UNCHANGED output
    BY <1>3, <2>1, <2>3
  <2> QED
    BY <2>1, <2>2, <2>3
<1>15. CASE WaitReader \/ StopWrite \/ StartWrite \/ FinishWrite \/ SignalWritten
  <2>1. UNCHANGED <<output, found, rpc, readResult, opened>>
    BY <1>15 DEF WaitReader, StopWrite, StartWrite, FinishWrite, MoveOut, SignalWritten, readerVars
  <2>2. /\ fileInfo'.buffer = fileInfo.buffer
        /\ fileInfo'.positionInFile = fileInfo.positionInFile
    BY <1>1, <1>15
       DEF WaitReader, StopWrite, StartWrite, FinishWrite, MoveOut, SignalWritten, FileInfo
  <2> QED
    BY <1>3, <2>1, <2>2
<1>16. CASE CompleteRead
  <2>1. /\ UNCHANGED <<output, found, rpc, readResult, opened>> /\ rpc = "reading"
        /\ overlapped.file = found /\ overlapped.offset = fileInfo.positionInFile
    BY <1>16 DEF CompleteRead, readerVars, IInv, Operation, Token, TypeInv, HasEntry
  <2>2. CASE UNCHANGED fileInfo
    BY <1>3, <2>1, <2>2
  <2>3. CASE fileInfo' # fileInfo
    <3>1. /\ fileInfo'.buffer.file = overlapped.file
          /\ fileInfo'.buffer.from = overlapped.offset
          /\ fileInfo'.positionInFile = fileInfo.positionInFile
      <4>1. PICK n : fileInfo' = [fileInfo EXCEPT !.buffer =
                       [file |-> overlapped.file, from |-> overlapped.offset,
                        to |-> overlapped.offset + n]]
        BY <1>16, <2>3 DEF CompleteRead
      <4> QED
        BY <1>1, <4>1 DEF FileInfo
    <3>2. NotAfter(fileInfo.buffer, fileInfo'.buffer)
      BY <1>1, <1>2, <2>1, <3>1 DEF NotAfter, InFile
    <3>3. output # <<>> => NotAfter(output[Len(output)], fileInfo'.buffer)
      <4> SUFFICES ASSUME output # <<>> PROVE NotAfter(output[Len(output)], fileInfo'.buffer)
        OBVIOUS
      <4>1. output[Len(output)] \in Abs!Piece
        BY <1>1, EmptySeq
      <4>2. NotAfter(output[Len(output)], fileInfo.buffer)
        BY DEF Buffered
      <4> QED
        BY <1>1, <2>1, <3>1, <3>2, <4>1, <4>2 DEF NotAfter, Abs!Piece
    <3>4. FilesInOrder'
      BY <2>1 DEF FilesInOrder
    <3> QED
      BY <1>1, <2>1, <3>1, <3>3, <3>4 DEF Buffered, InFile
  <2> QED
    BY <2>2, <2>3
<1>17. CASE CompleteWrite
  <2>1. UNCHANGED <<fileInfo, found, rpc, readResult, opened>>
    BY <1>17 DEF CompleteWrite, readerVars
  <2>2. CASE UNCHANGED output
    BY <1>3, <2>1, <2>2
  <2>3. CASE output' # output
    <3> DEFINE piece == [fileInfo.buffer EXCEPT !.to = fileInfo.buffer.from + overlapped.asked]
    <3>1. output' = Append(output, piece)
      BY <1>17, <2>3 DEF CompleteWrite, AppendBytes
    <3>2. /\ piece \in Abs!Piece /\ piece.file = fileInfo.buffer.file
          /\ piece.from = fileInfo.buffer.from
      <4>1. fileInfo.buffer.from + overlapped.asked \in Nat
        BY <1>1
      <4> QED
        BY <1>1, <4>1 DEF Abs!Piece
    <3> HIDE DEF piece
    <3>3. /\ Len(output') = Len(output) + 1 /\ Len(output) \in Nat
          /\ output'[Len(output) + 1] = piece
          /\ \A i \in 1..Len(output) : output'[i] = output[i]
          /\ output = <<>> <=> Len(output) = 0
      BY <1>1, <3>1, <3>2, EmptySeq
    <3>4. ASSUME NEW i \in 2..Len(output') PROVE NotAfter(output'[i - 1], output'[i])
      <4>1. CASE i = Len(output) + 1
        <5>1. output # <<>> /\ output'[i - 1] = output[Len(output)] /\ output'[i] = piece
          BY <3>3, <4>1
        <5>2. NotAfter(output[Len(output)], fileInfo.buffer)
          BY <5>1 DEF Buffered
        <5> QED
          BY <3>2, <5>1, <5>2 DEF NotAfter
      <4>2. CASE i \in 2..Len(output)
        <5>1. output'[i] = output[i] /\ output'[i - 1] = output[i - 1]
          BY <3>3, <4>2
        <5> QED
          BY <4>2, <5>1 DEF FilesInOrder, NotAfter
      <4> QED
        BY <3>3, <4>1, <4>2
    <3>5. FilesInOrder'
      BY <3>4 DEF FilesInOrder, NotAfter
    <3>6. output'[Len(output')] = piece
      BY <3>3
    <3>7. NotAfter(piece, fileInfo'.buffer)
      BY <1>1, <2>1, <3>2 DEF NotAfter
    <3> QED
      BY <1>2, <2>1, <3>5, <3>6, <3>7 DEF Buffered, InFile
  <2> QED
    BY <2>2, <2>3
<1>18. CASE Ended \/ UNCHANGED vars
  <2>1. UNCHANGED <<output, fileInfo, found, rpc, readResult, opened>>
    BY <1>18 DEF Ended, vars, readerVars
  <2> QED
    BY <1>3, <2>1
<1> QED
  BY <1>4, <1>5, <1>6, <1>7, <1>8, <1>9, <1>10, <1>11, <1>12, <1>13, <1>14, <1>15,
     <1>16, <1>17, <1>18 DEF Next, Reader, Writer, System

\* Whatever fails, the files and the chunks of each of them come in order in output.txt;
\* a chunk may be missing or come twice.
THEOREM OrderKept == Spec => []FilesInOrder
BY InitBuffered, NextBuffered, Invariance, TypeInvariance, PTL DEF Spec

-----------------------------------------------------------------------------
(****************************************************************************)
(* As long as nothing fails, the output is a prefix of the concatenation.   *)
(****************************************************************************)

Emitted == IF Created THEN output ELSE <<>>
Last == Abs!LastPiece(Emitted)

\* The concatenation up to the byte number p of file f has been written.
At(f, p) ==
  /\ p \in 0..folder[f].size
  /\ \/ Last.file = f /\ Last.to = p
     \/ p = 0 /\ Abs!NextFileIs(Last, f)

\* The buffer has been written, or nothing was read into it.
Empty ==
  \/ rpc = "open"
  \/ rpc = "wait" /\ (writerCompleted \/ wpc = "signal" \/ (wpc = "writing" /\ ~overlapped.pending))

EmptyInv ==
  Empty => IF readResult THEN At(found, fileInfo.positionInFile) ELSE Abs!NextFileIs(Last, found)

\* The buffer holds what is to be written next.
Full ==
  \/ rpc = "signal"
  \/ rpc = "wait" /\ (readerCompleted \/ wpc = "start" \/ (wpc = "writing" /\ overlapped.pending))

\* The next chunk of the file begins at p and has n bytes.
ChunkIs(p, n) ==
  /\ n > 0
  /\ fileInfo.buffer = [file |-> found, from |-> p, to |-> p + n]
  /\ Abs!Follows(Last, fileInfo.buffer)

FullInv ==
  Full =>
    /\ readResult
    /\ ChunkIs(fileInfo.buffer.from, IF wpc = "writing" THEN overlapped.asked ELSE overlapped.internalHigh)
    /\ fileInfo.positionInFile = fileInfo.buffer.to

ReadingInv ==
  /\ rpc = "start" => At(found, fileInfo.positionInFile)
  /\ rpc = "reading" =>
       IF overlapped.pending
       THEN At(found, overlapped.offset) /\ overlapped.asked > 0
       ELSE IF overlapped.ok
       THEN ChunkIs(overlapped.offset, overlapped.internalHigh)
       ELSE overlapped.eof /\ At(found, folder[found].size)
  /\ rpc = "eof" => ~readResult /\ At(found, folder[found].size)

WritingInv ==
  /\ wpc \in {"wait", "start", "writing", "signal"} => outFileHandle = Out
  /\ wpc = "writing" /\ ~overlapped.pending => overlapped.ok

EndInv ==
  /\ rpc = "exited" => /\ (readerStop \/ (writerCompleted /\ folder = <<>>))
                        /\ Abs!AtEnd(Emitted)

\* What is open, and what has not happened.
SmoothInv ==
  /\ rpc # "stop" /\ mpc # "crashed" /\ (linked \/ mpc = "load")
  /\ rpc \in {"none", "findFirst"} => found = 0 /\ ~readResult /\ Emitted = <<>> /\ writerCompleted
  /\ opened = IF InFile THEN {found} ELSE {}

OrderInv ==
  /\ Abs!InOrder(Emitted)
  /\ EmptyInv /\ FullInv /\ ReadingInv /\ WritingInv /\ EndInv /\ SmoothInv

\* A step that leaves the directory and the written bytes alone leaves these facts alone.
LEMMA Frame ==
  ASSUME UNCHANGED <<folder, Emitted>>
  PROVE  /\ Last' = Last
         /\ \A f, p : At(f, p)' <=> At(f, p)
         /\ \A f : Abs!NextFileIs(Last, f)' <=> Abs!NextFileIs(Last, f)
         /\ \A q : Abs!Follows(Last, q)' <=> Abs!Follows(Last, q)
         /\ Abs!AtEnd(Emitted)' <=> Abs!AtEnd(Emitted)
         /\ Abs!InOrder(Emitted)' <=> Abs!InOrder(Emitted)
BY DEF Last, At, Sizes, Abs!LastPiece, Abs!NextFileIs, Abs!Follows, Abs!AtEnd, Abs!InOrder

\* The last piece written, if any, is a piece.
LEMMA LastIsPiece == TypeOK => Last \in Abs!Piece /\ Emitted \in Seq(Abs!Piece)
<1> SUFFICES ASSUME TypeOK PROVE Last \in Abs!Piece /\ Emitted \in Seq(Abs!Piece)
  OBVIOUS
<1>1. Emitted \in Seq(Abs!Piece)
  BY EmptySeq DEF TypeOK, Emitted
<1>2. CASE Emitted = <<>>
  BY <1>1, <1>2 DEF Last, Abs!LastPiece, Abs!Nothing, Abs!Piece
<1>3. CASE Emitted # <<>>
  <2>1. Len(Emitted) \in 1..Len(Emitted)
    BY <1>1, <1>3, EmptySeq
  <2> QED
    BY <1>1, <1>3, <2>1, ElementOfSeq DEF Last, Abs!LastPiece
<1> QED
  BY <1>2, <1>3

\* Before anything is written, the first file comes next; without a file, nothing.
LEMMA FirstFile ==
  ASSUME TypeOK, Emitted = <<>>
  PROVE  Abs!NextFileIs(Last, 1) /\ (folder = <<>> => Abs!AtEnd(Emitted))
<1>1. Last = Abs!Nothing /\ Last.file = 0
  BY DEF Last, Abs!LastPiece, Abs!Nothing
<1>2. Abs!NextFileIs(Last, 1)
  BY <1>1, FolderFacts DEF Abs!NextFileIs, Sizes
<1>3. folder = <<>> => Len(Sizes) = 0
  BY FolderFacts DEF Sizes
<1> QED
  BY <1>2, <1>3 DEF Abs!AtEnd, Last

\* At the end of a file the next one comes, and after the last one nothing.
LEMMA FileAfter ==
  ASSUME TypeOK, NEW f \in DOMAIN folder, At(f, folder[f].size)
  PROVE  /\ Abs!NextFileIs(Last, f + 1)
         /\ f = Len(folder) => Abs!AtEnd(Emitted)
<1>1. Last.file \in Nat /\ Len(Sizes) = Len(folder)
  BY LastIsPiece, FolderFacts DEF Abs!Piece, Sizes
<1>2. Abs!NextFileIs(Last, f + 1)
  BY <1>1, FolderFacts DEF At, Abs!NextFileIs, Sizes
<1> QED
  BY <1>1, <1>2 DEF Abs!AtEnd, Last

\* A chunk read where the output ends continues it.
LEMMA ChunkFollows ==
  ASSUME TypeOK, NEW f \in DOMAIN folder, NEW p, At(f, p),
         NEW n \in Nat, 0 < n, p + n <= folder[f].size
  PROVE  Abs!Follows(Last, [file |-> f, from |-> p, to |-> p + n])
BY FolderFacts DEF At, Abs!Follows, Sizes

\* A piece that follows the last one may be appended.
LEMMA AppendInOrder ==
  ASSUME NEW out \in Seq(Abs!Piece), NEW q \in Abs!Piece,
         Abs!InOrder(out), Abs!Follows(Abs!LastPiece(out), q)
  PROVE  /\ Append(out, q) \in Seq(Abs!Piece)
         /\ Abs!InOrder(Append(out, q))
         /\ Abs!LastPiece(Append(out, q)) = q
<1> DEFINE new == Append(out, q)
<1>1. /\ new \in Seq(Abs!Piece) /\ Len(out) \in Nat /\ Len(new) = Len(out) + 1
      /\ \A i \in 1..Len(out) : new[i] = out[i]
      /\ new[Len(out) + 1] = q
  OBVIOUS
<1>2. new # <<>> /\ (out = <<>> <=> Len(out) = 0)
  BY <1>1, EmptySeq
<1>3. ASSUME NEW i \in 1..Len(new)
      PROVE  Abs!Follows(IF i = 1 THEN Abs!Nothing ELSE new[i - 1], new[i])
  <2>1. CASE i = Len(out) + 1
    BY <1>1, <1>2, <2>1 DEF Abs!LastPiece
  <2>2. CASE i \in 1..Len(out)
    <3>1. new[i] = out[i] /\ (i # 1 => new[i - 1] = out[i - 1])
      BY <1>1, <2>2
    <3> QED
      BY <2>2, <3>1 DEF Abs!InOrder
  <2> QED
    BY <1>1, <2>1, <2>2
<1> QED
  BY <1>1, <1>2, <1>3 DEF Abs!InOrder, Abs!LastPiece

\* A step after which nothing has failed yet is not a fault, and does not undo one.
LEMMA SmoothBefore ==
  ASSUME TypeOK, [Next]_vars, Smooth'
  PROVE  Smooth /\ (\A kind : ~Fault(kind)) /\ UNCHANGED folder
<1>1. \A kind : ~Fault(kind)
  BY DEF Smooth, Fault, TypeOK
<1>2. UNCHANGED folder /\ faults' = faults
  <2>1. CASE Main
    BY <1>1, <2>1 DEF Main, Load, CreateWriter, CreateReader, Join
  <2>2. CASE Reader
    BY <1>1, <2>2 DEF Reader, FindFirst, WaitWriter, OpenInput, StartRead, Crash, FinishRead,
         FindNext, ToNext, StopRead, Leave, SignalRead
  <2>3. CASE Writer
    BY <1>1, <2>3 DEF Writer, OpenOutput, WaitReader, StopWrite, StartWrite, FinishWrite, MoveOut,
         SignalWritten
  <2>4. CASE System
    BY <1>1, <2>4 DEF System, CompleteRead, CompleteWrite
  <2>5. CASE Ended \/ UNCHANGED vars
    BY <2>5 DEF Ended, vars
  <2> QED
    BY <2>1, <2>2, <2>3, <2>4, <2>5 DEF Next
<1> QED
  BY <1>1, <1>2 DEF Smooth

\* When nothing fails a write adds the chunk that follows.
ChunkWritten ==
  /\ readResult /\ ChunkIs(fileInfo.buffer.from, overlapped.asked)
  /\ fileInfo.positionInFile = fileInfo.buffer.to /\ fileInfo.buffer \in Abs!Piece
  /\ Succeed(overlapped.asked)
  /\ Emitted \in Seq(Abs!Piece) /\ Emitted' = Append(Emitted, fileInfo.buffer)

LEMMA WriteCompletes ==
  ASSUME IInv, TypeInv, OrderInv, CompleteWrite, \A kind : ~Fault(kind)
  PROVE  rpc = "wait" /\ wpc = "writing" /\ ChunkWritten
<1>1. wpc = "writing" /\ overlapped.pending /\ UNCHANGED wpc
  BY DEF CompleteWrite, IInv, Operation, writerVars
<1>2. rpc = "wait"
  BY <1>1
     DEF IInv, Control, Token, WriterHolds, ReaderHolds, OrderInv, EndInv, SmoothInv, TypeInv, TypeOK
<1>3. /\ readResult /\ ChunkIs(fileInfo.buffer.from, overlapped.asked)
      /\ fileInfo.positionInFile = fileInfo.buffer.to
  BY <1>1, <1>2 DEF OrderInv, FullInv, Full
<1>4. overlapped.file = Out
  BY <1>1 DEF OrderInv, WritingInv, TypeInv, HasEntry
<1>5. Succeed(overlapped.asked) /\ AppendBytes(overlapped.asked)
  <2>1. overlapped.file # Failed
    BY <1>4 DEF Out, Failed
  <2> QED
    BY <2>1 DEF CompleteWrite
<1>6. fileInfo.buffer \in Abs!Piece /\ overlapped.asked \in Nat /\ overlapped.asked # 0
  BY <1>3 DEF TypeInv, TypeOK, FileInfo, Overlapped, ChunkIs
<1>7. fileInfo.buffer = [fileInfo.buffer EXCEPT !.to = fileInfo.buffer.from + overlapped.asked]
  BY <1>3, <1>6 DEF ChunkIs, Abs!Piece
<1>8. output' = Append(output, fileInfo.buffer)
  BY <1>5, <1>6, <1>7 DEF AppendBytes
<1>9. Emitted = output /\ Emitted' = output'
  BY <1>1 DEF Emitted, Created
<1> QED
  BY <1>1, <1>2, <1>3, <1>5, <1>6, <1>8, <1>9 DEF ChunkWritten, TypeInv, TypeOK

LEMMA InitOrder == Init => OrderInv
<1> SUFFICES ASSUME Init PROVE OrderInv
  OBVIOUS
<1>1. Emitted = <<>>
  BY DEF Init, Emitted, Created
<1>2. Abs!InOrder(Emitted)
  BY <1>1, EmptySeq DEF Abs!InOrder
<1> QED
  BY <1>1, <1>2
     DEF Init, OrderInv, EmptyInv, Empty, FullInv, Full, ReadingInv, WritingInv, EndInv,
       SmoothInv, InFile

\* As long as nothing fails, every step of either thread and of the system keeps the
\* agreement on what has been written.
LEMMA NextOrder ==
  ASSUME IInv, TypeInv, OrderInv, [Next]_vars, Smooth'
  PROVE  OrderInv'
<1>0. Smooth /\ UNCHANGED folder /\ \A kind : ~Fault(kind)
  BY SmoothBefore DEF TypeInv
<1>1. /\ fileInfo.positionInFile \in Nat /\ overlapped.internalHigh \in Nat
      /\ overlapped.asked \in Nat /\ overlapped.offset \in Nat
      /\ fileInfo \in FileInfo /\ overlapped \in Overlapped /\ found \in Nat
      /\ TypeOK
  BY FolderFacts DEF TypeInv, TypeOK, FileInfo, Overlapped
<1> USE DEF TypeInv, HasEntry, InFile, IInv, Control, Token, ReaderHolds, WriterHolds, Operation,
        events, mainVars, readerVars, writerVars
<1> USE DEF OrderInv, EmptyInv, Empty, FullInv, Full, ReadingInv, WritingInv, EndInv, SmoothInv,
        ChunkIs
<1>2. CASE Main
  <2>1. UNCHANGED <<folder, Emitted>>
    BY <1>2 DEF Main, Load, CreateWriter, CreateReader, Join, Emitted, Created
  <2>2. CASE Load
    BY <1>0, <2>1, <2>2, Frame DEF Load
  <2>3. CASE CreateWriter
    BY <2>1, <2>3, Frame DEF CreateWriter
  <2>4. CASE CreateReader
    BY <2>1, <2>4, Frame DEF CreateReader
  <2>5. CASE Join
    BY <2>1, <2>5, Frame DEF Join
  <2> QED
    BY <1>2, <2>2, <2>3, <2>4, <2>5 DEF Main
<1>3. CASE FindFirst
  <2>1. UNCHANGED <<folder, Emitted>>
    BY <1>3 DEF FindFirst, Emitted, Created
  <2>2. Abs!NextFileIs(Last, 1) /\ (folder = <<>> => Abs!AtEnd(Emitted))
    BY <1>1, <1>3, FirstFile DEF FindFirst
  <2> QED
    BY <1>3, <2>1, <2>2, Frame DEF FindFirst
<1>4. CASE WaitWriter
  <2>1. UNCHANGED <<folder, Emitted>>
    BY <1>4 DEF WaitWriter, Emitted, Created
  <2> QED
    BY <1>4, <2>1, Frame DEF WaitWriter
<1>5. CASE OpenInput
  <2>1. UNCHANGED <<folder, Emitted>>
    BY <1>5 DEF OpenInput, Emitted, Created
  <2>2. /\ rpc = "open" /\ UNCHANGED <<found, readResult, events, overlapped, mainVars, writerVars>>
        /\ rpc' = IF fileInfo'.fileHeader = Failed THEN "stop" ELSE "start"
        /\ found \in DOMAIN folder /\ found # Failed
    BY <1>1, <1>5 DEF OpenInput, Failed
  <2>3. rpc' = "start" /\ opened' = {found} /\ At(found, fileInfo'.positionInFile)
    <3>1. CASE readResult
      <4>1. fileInfo' = [fileInfo EXCEPT !.fileHeader = found] /\ opened' = opened
        BY <1>5, <3>1 DEF OpenInput
      <4> QED
        BY <1>1, <2>2, <3>1, <4>1 DEF FileInfo
    <3>2. CASE ~readResult
      <4>1. Sharable(found)
        BY <1>0, <2>2, <3>2 DEF Sharable, Smooth
      <4>2. /\ fileInfo' = [fileInfo EXCEPT !.fileHeader = found, !.positionInFile = 0]
            /\ opened' = opened \cup {found}
        BY <1>0, <1>5, <3>2, <4>1 DEF OpenInput, FirstPosition
      <4>3. Abs!NextFileIs(Last, found) /\ opened = {}
        BY <2>2, <3>2
      <4>4. At(found, 0)
        BY <1>1, <2>2, <4>3, FolderFacts DEF At
      <4> QED
        BY <1>1, <2>2, <4>2, <4>3, <4>4 DEF FileInfo
    <3> QED
      BY <3>1, <3>2
  <2> QED
    BY <2>1, <2>2, <2>3, Frame
<1>6. CASE StartRead
  <2>1. UNCHANGED <<folder, Emitted>>
    BY <1>6 DEF StartRead, Emitted, Created
  <2>2. /\ overlapped'.pending = TRUE /\ overlapped'.offset = fileInfo.positionInFile
        /\ overlapped'.asked > 0 /\ UNCHANGED fileInfo /\ rpc = "start" /\ rpc' = "reading"
    BY <1>1, <1>6, BufferAssumption DEF StartRead, Overlapped
  <2> QED
    BY <1>6, <2>1, <2>2, Frame DEF StartRead
<1>7. CASE Crash
  BY <1>7 DEF Crash
<1>8. CASE FinishRead
  <2>1. UNCHANGED <<folder, Emitted>>
    BY <1>8 DEF FinishRead, Emitted, Created
  <2>2. CASE overlapped.ok
    <3>1. /\ fileInfo'.buffer = fileInfo.buffer
          /\ fileInfo'.positionInFile = fileInfo.positionInFile + overlapped.internalHigh
          /\ rpc = "reading" /\ rpc' = "signal" /\ readResult' = TRUE /\ ~overlapped.pending
      BY <1>1, <1>8, <2>2 DEF FinishRead, FileInfo
    <3>2. /\ ChunkIs(overlapped.offset, overlapped.internalHigh)
          /\ overlapped.offset = fileInfo.positionInFile
      BY <2>2, <3>1
    <3>3. /\ fileInfo.buffer.from = overlapped.offset
          /\ fileInfo.buffer.to = overlapped.offset + overlapped.internalHigh
      BY <3>2
    <3> QED
      BY <1>8, <2>1, <3>1, <3>2, <3>3, Frame DEF FinishRead
  <2>3. CASE ~overlapped.ok
    <3>1. /\ rpc = "reading" /\ ~overlapped.pending /\ UNCHANGED fileInfo /\ ~readResult'
          /\ overlapped.eof /\ rpc' = "eof" /\ At(found, folder[found].size)
      BY <1>8, <2>3 DEF FinishRead
    <3> QED
      BY <1>8, <2>1, <3>1, Frame DEF FinishRead
  <2> QED
    BY <2>2, <2>3
<1>9. CASE FindNext
  <2>1. UNCHANGED <<folder, Emitted>>
    BY <1>9 DEF FindNext, ToNext, Emitted, Created
  <2>2. Abs!NextFileIs(Last, found + 1)
    BY <1>1, <1>9, FileAfter DEF FindNext, ToNext
  <2>3. opened' = {}
    BY <1>9 DEF FindNext, ToNext
  <2> QED
    BY <1>9, <2>1, <2>2, <2>3, Frame DEF FindNext, ToNext
<1>10. CASE StopRead
  <2>1. UNCHANGED <<folder, Emitted>>
    BY <1>10 DEF StopRead, Leave, Emitted, Created
  <2>2. Abs!AtEnd(Emitted)
    BY <1>1, <1>10, FileAfter DEF StopRead, Leave
  <2>3. opened' = {}
    BY <1>10 DEF StopRead, Leave
  <2> QED
    BY <1>10, <2>1, <2>2, <2>3, Frame DEF StopRead, Leave
<1>11. CASE SignalRead
  <2>1. UNCHANGED <<folder, Emitted>>
    BY <1>11 DEF SignalRead, Emitted, Created
  <2> QED
    BY <1>11, <2>1, Frame DEF SignalRead
<1>12. CASE OpenOutput
  <2>1. ~ \E f \in opened : folder[f].kind = "output"
    BY <1>0, <1>1 DEF Smooth, TypeOK
  <2>2. /\ outFileHandle' = Out /\ output' = <<>> /\ wpc = "open" /\ wpc' = "wait"
        /\ UNCHANGED <<folder, events, fileInfo, overlapped, mainVars, readerVars, opened>>
    BY <1>0, <1>12, <2>1 DEF OpenOutput
  <2>3. UNCHANGED <<folder, Emitted>>
    BY <2>2 DEF Emitted, Created
  <2> QED
    BY <2>2, <2>3, Frame
<1>13. CASE WaitReader
  <2>1. UNCHANGED <<folder, Emitted>>
    BY <1>13 DEF WaitReader, Emitted, Created
  <2> QED
    BY <1>13, <2>1, Frame DEF WaitReader
<1>14. CASE StopWrite
  <2>1. UNCHANGED <<folder, Emitted>>
    BY <1>14 DEF StopWrite, Emitted, Created
  <2> QED
    BY <1>14, <2>1, Frame DEF StopWrite
<1>15. CASE StartWrite
  <2>1. UNCHANGED <<folder, Emitted>>
    BY <1>15 DEF StartWrite, Emitted, Created
  <2>2. /\ fileInfo'.buffer = fileInfo.buffer
        /\ fileInfo'.positionInFile = fileInfo.positionInFile
        /\ overlapped'.pending = TRUE /\ overlapped'.asked = overlapped.internalHigh
        /\ wpc = "start" /\ wpc' = "writing"
    BY <1>1, <1>15 DEF StartWrite, FileInfo, Overlapped
  <2> QED
    BY <1>15, <2>1, <2>2, Frame DEF StartWrite
<1>16. CASE FinishWrite
  <2>1. UNCHANGED <<folder, Emitted>>
    BY <1>16 DEF FinishWrite, MoveOut, Emitted, Created
  <2>2. /\ fileInfo'.buffer = fileInfo.buffer
        /\ fileInfo'.positionInFile = fileInfo.positionInFile
    BY <1>1, <1>16 DEF FinishWrite, MoveOut, FileInfo
  <2> QED
    BY <1>16, <2>1, <2>2, Frame DEF FinishWrite, MoveOut
<1>17. CASE SignalWritten
  <2>1. UNCHANGED <<folder, Emitted>>
    BY <1>17 DEF SignalWritten, Emitted, Created
  <2> QED
    BY <1>17, <2>1, Frame DEF SignalWritten
<1>18. CASE CompleteRead
  <2>1. UNCHANGED <<folder, Emitted>>
    BY <1>18 DEF CompleteRead, Emitted, Created
  <2>2. /\ rpc = "reading" /\ overlapped.pending /\ overlapped.file = found
        /\ At(found, overlapped.offset) /\ overlapped.asked > 0
        /\ UNCHANGED <<folder, events, mainVars, readerVars, writerVars, opened>>
    BY <1>18 DEF CompleteRead
  <2>3. found \in DOMAIN folder /\ folder[found].size \in Nat
    BY <1>1, <2>2, FolderFacts
  <2> DEFINE left == folder[found].size - overlapped.offset
             n == Least(overlapped.asked, left)
  <2>4. CASE left > 0
    <3>1. n \in Nat /\ n > 0 /\ overlapped.offset + n <= folder[found].size
      BY <1>1, <2>2, <2>3, <2>4 DEF Least
    <3>2. /\ Succeed(n)
          /\ fileInfo' = [fileInfo EXCEPT !.buffer =
               [file |-> found, from |-> overlapped.offset, to |-> overlapped.offset + n]]
      <4>1. ~(folder[overlapped.file].size - overlapped.offset <= 0)
        BY <1>1, <2>2, <2>3, <2>4
      <4>2. /\ Succeed(Least(overlapped.asked, folder[overlapped.file].size - overlapped.offset))
            /\ fileInfo' = [fileInfo EXCEPT !.buffer =
                 [file |-> overlapped.file, from |-> overlapped.offset,
                  to |-> overlapped.offset + Least(overlapped.asked,
                                               folder[overlapped.file].size - overlapped.offset)]]
        BY <1>0, <1>18, <4>1 DEF CompleteRead
      <4> QED
        BY <2>2, <4>2
    <3>3. Abs!Follows(Last, [file |-> found, from |-> overlapped.offset,
                             to |-> overlapped.offset + n])
      BY <1>1, <2>2, <2>3, <3>1, ChunkFollows
    <3> HIDE DEF n
    <3>4. /\ overlapped'.pending = FALSE /\ overlapped'.ok = TRUE
          /\ overlapped'.internalHigh = n /\ overlapped'.offset = overlapped.offset
          /\ fileInfo'.buffer = [file |-> found, from |-> overlapped.offset,
                                 to |-> overlapped.offset + n]
          /\ fileInfo'.positionInFile = fileInfo.positionInFile
      BY <1>1, <3>2 DEF Succeed, Overlapped, FileInfo
    <3>5. ChunkIs(overlapped.offset, overlapped.internalHigh)'
      BY <2>1, <2>2, <3>1, <3>3, <3>4, Frame
    <3> QED
      BY <2>1, <2>2, <3>4, <3>5, Frame
  <2>5. CASE left <= 0
    <3>1. overlapped.offset = folder[found].size
      BY <2>2, <2>3, <2>5 DEF At
    <3>2. Fail(TRUE) /\ UNCHANGED fileInfo
      <4>1. ~(folder[overlapped.file].size - overlapped.offset > 0)
        BY <1>1, <2>2, <2>3, <2>5
      <4> QED
        BY <1>0, <1>18, <4>1 DEF CompleteRead
    <3>3. overlapped'.pending = FALSE /\ overlapped'.ok = FALSE /\ overlapped'.eof = TRUE
      BY <1>1, <3>2 DEF Fail, Overlapped
    <3> QED
      BY <2>1, <2>2, <3>1, <3>2, <3>3, Frame
  <2> QED
    BY <1>1, <2>3, <2>4, <2>5
<1>19. CASE CompleteWrite
  <2>1. rpc = "wait" /\ wpc = "writing" /\ ChunkWritten
    BY <1>0, <1>19, WriteCompletes
  <2>2. /\ Abs!InOrder(Emitted) /\ Abs!Follows(Last, fileInfo.buffer)
        /\ fileInfo.buffer \in Abs!Piece /\ Emitted \in Seq(Abs!Piece)
    BY <2>1 DEF ChunkWritten
  <2>3. Last' = fileInfo.buffer /\ Abs!InOrder(Emitted)'
    <3>1. Emitted' = Append(Emitted, fileInfo.buffer) /\ Sizes' = Sizes
      BY <1>0, <2>1 DEF ChunkWritten, Sizes
    <3>2. Abs!InOrder(Emitted') /\ Abs!LastPiece(Emitted') = fileInfo.buffer
      BY <2>2, <3>1, AppendInOrder DEF Last
    <3> QED
      BY <3>1, <3>2 DEF Last, Abs!InOrder, Abs!Follows, Abs!NextFileIs, Abs!LastPiece
  <2>4. /\ UNCHANGED <<folder, events, fileInfo, mainVars, readerVars, writerVars, opened>>
        /\ overlapped'.pending = FALSE /\ overlapped'.ok = TRUE
    BY <1>1, <1>19, <2>1 DEF CompleteWrite, ChunkWritten, Succeed, Overlapped
  <2>5. At(found, fileInfo.positionInFile)'
    <3>1. /\ fileInfo.buffer.file = found /\ fileInfo.buffer.to = fileInfo.positionInFile
          /\ fileInfo.positionInFile <= folder[found].size
      BY <1>1, <2>1, <2>2 DEF ChunkWritten, Abs!Follows, Sizes
    <3> QED
      BY <1>1, <2>3, <2>4, <3>1, FolderFacts DEF At
  <2> QED
    BY <2>1, <2>3, <2>4, <2>5 DEF ChunkWritten
<1>20. CASE Ended \/ UNCHANGED vars
  <2>1. UNCHANGED <<folder, Emitted>>
    BY <1>20 DEF Ended, vars, Emitted, Created
  <2> QED
    BY <1>20, <2>1, Frame DEF Ended, vars
<1> QED
  BY <1>2, <1>3, <1>4, <1>5, <1>6, <1>7, <1>8, <1>9, <1>10, <1>11, <1>12, <1>13, <1>14, <1>15,
     <1>16, <1>17, <1>18, <1>19, <1>20 DEF Next, Reader, Writer, System

LEMMA Agreement == Spec => [](Smooth => OrderInv)
<1>1. IInv /\ TypeInv /\ (Smooth => OrderInv) /\ [Next]_vars => (Smooth => OrderInv)'
  BY SmoothBefore, NextOrder DEF TypeInv
<1> QED
  BY <1>1, InitOrder, Invariance, TypeInvariance, PTL DEF Spec

\* As long as nothing has failed, output.txt is a gapless prefix of the concatenation, and
\* all of it when the writer has left its loop, for every directory and buffer size.
THEOREM WholeConcatenation == Spec => []WholeFile
<1>1. IInv /\ (Smooth => OrderInv) => WholeFile
  BY DEF IInv, Token, OrderInv, EndInv, WholeFile, Emitted, Created
<1> QED
  BY <1>1, Agreement, Invariance, PTL

\* All that is said of the chunks: types, the concatenation, no holes, no chunk abandoned,
\* the order of the files.
THEOREM ChunksKept == Spec => []Chunks
BY TypesKept, WholeConcatenation, WritesAtTheEnd, StopComesLast, OrderKept, PTL DEF Chunks

\* The pipeline refines the safety part of its promise (Concatenation) as long as nothing
\* has failed: every step appends the next bytes, or reports completion with nothing left
\* to write, or changes neither.
THEOREM Refinement == Spec => Concatenates
<1>1. Init => Abs!Init
  <2> SUFFICES ASSUME Init PROVE Abs!Init
    OBVIOUS
  <2>1. TypeOK
    BY InitTypeInv DEF TypeInv
  <2>2. Sizes \in Seq(Nat)
    BY <2>1, FolderFacts DEF Sizes
  <2> QED
    BY <2>2 DEF Init, Abs!Init, Created
<1>2. IInv /\ TypeInv /\ (Smooth => OrderInv) /\ [Next]_vars => [Smooth' => Abs!Next]_(Abs!vars)
  <2> SUFFICES ASSUME IInv, TypeInv, Smooth => OrderInv, [Next]_vars, Smooth'
               PROVE  [Abs!Next]_(Abs!vars)
    OBVIOUS
  <2>1. OrderInv /\ UNCHANGED folder /\ (\A kind : ~Fault(kind)) /\ Sizes' = Sizes
    BY SmoothBefore DEF TypeInv, Sizes
  <2>2. CASE CompleteWrite
    <3>1. ChunkWritten /\ UNCHANGED mpc /\ mpc # "done"
      <4>1. rpc = "wait" /\ wpc = "writing" /\ ChunkWritten /\ UNCHANGED mpc
        BY <2>1, <2>2, WriteCompletes DEF CompleteWrite, mainVars
      <4>2. mpc # "done"
        BY <4>1 DEF IInv, Control
      <4> QED
        BY <4>1, <4>2
    <3> DEFINE piece == fileInfo.buffer
    <3>2. /\ piece \in Abs!Piece /\ Abs!Follows(Abs!LastPiece(Emitted), piece)
          /\ Emitted' = Append(Emitted, piece)
      BY <3>1 DEF ChunkWritten, ChunkIs, Last
    <3>3. piece = [file |-> piece.file, from |-> piece.from, to |-> piece.to]
      BY <3>2 DEF Abs!Piece
    <3>4. /\ piece.file \in DOMAIN Sizes
          /\ piece.from \in 0..Sizes[piece.file] /\ piece.to \in 0..Sizes[piece.file]
      BY <3>2, FolderFacts DEF Abs!Follows, Abs!Piece, Sizes, TypeInv
    <3>5. Abs!Write
      BY <2>1, <3>1, <3>2, <3>3, <3>4 DEF Abs!Write, Emitted
    <3> QED
      BY <3>5 DEF Abs!Next
  <2>3. CASE Join
    <3>1. Abs!AtEnd(Emitted) /\ UNCHANGED <<folder, Emitted>>
      BY <2>1, <2>3 DEF Join, OrderInv, EndInv, Emitted, Created, writerVars
    <3> QED
      BY <2>1, <2>3, <3>1 DEF Join, Abs!Finish, Abs!Next, Emitted
  <2>4. CASE ~CompleteWrite /\ ~Join
    <3>1. UNCHANGED Emitted /\ (mpc' = "done" <=> mpc = "done")
      <4>1. CASE Main
        <5>1. UNCHANGED <<output, Created>> /\ mpc # "done" /\ mpc' # "done"
          BY <2>4, <4>1
             DEF Main, Load, CreateWriter, CreateReader, writerVars, Created, IInv, Control
        <5> QED
          BY <5>1 DEF Emitted
      <4>2. CASE Reader
        <5>1. ~Crash
          BY <2>1 DEF Crash, OrderInv, SmoothInv, IInv, Control
        <5> QED
          BY <4>2, <5>1
             DEF Reader, FindFirst, WaitWriter, OpenInput, StartRead, FinishRead, FindNext, ToNext,
               StopRead, Leave, SignalRead, mainVars, writerVars, Emitted, Created
      <4>3. CASE Writer
        <5>1. ASSUME OpenOutput PROVE UNCHANGED <<Emitted, mpc>>
          <6>1. ~ \E f \in opened : folder[f].kind = "output"
            BY <2>1, SmoothBefore DEF Smooth, TypeInv, TypeOK
          <6> QED
            BY <2>1, <5>1, <6>1 DEF OpenOutput, mainVars, Emitted, Created
        <5> QED
          BY <4>3, <5>1
             DEF Writer, WaitReader, StopWrite, StartWrite, FinishWrite, MoveOut, SignalWritten,
               mainVars, Emitted, Created
      <4>4. CASE System
        BY <2>4, <4>4 DEF System, CompleteRead, mainVars, writerVars, Emitted, Created
      <4>5. CASE Ended \/ UNCHANGED vars
        BY <4>5 DEF Ended, vars, mainVars, writerVars, Emitted, Created
      <4> QED
        BY <4>1, <4>2, <4>3, <4>4, <4>5 DEF Next
    <3> QED
      BY <2>1, <3>1 DEF Emitted, Abs!vars
  <2> QED
    BY <2>2, <2>3, <2>4
<1> QED
  BY <1>1, <1>2, Agreement, Invariance, TypeInvariance, PTL DEF Spec, Concatenates
=============================================================================
