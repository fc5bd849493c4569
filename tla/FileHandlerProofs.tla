-------------------------- MODULE FileHandlerProofs --------------------------
(****************************************************************************)
(* Theorems about FileHandler, for any directories, any buffer size and any *)
(* faults.  The argument: the four places where the right to use `fileInfo' *)
(* can be (writeCompleted free, the reader's stretch, readCompleted free,   *)
(* the writer's stretch) hold it one at a time.                             *)
(****************************************************************************)
EXTENDS FileHandler, SequenceTheorems, TLAPS

\* What each thread may be doing while main is at a given point.
Control ==
  /\ mpc \in {"load", "prepare"} => ~writeCompleted /\ ~readCompleted /\ ~readStop
  /\ mpc \in {"load", "prepare", "failed", "createReader"} => rpc = "none"
  /\ mpc \in {"load", "prepare", "failed", "createReader", "createWriter"} => wpc = "none"
  /\ mpc \in {"joinWriter", "done"} => rpc = "exited"
  /\ mpc = "done" => wpc = "exited"
  /\ mpc = "crashed" => rpc = "killed" /\ wpc = "killed"

Started == mpc \notin {"load", "prepare", "failed", "crashed"}

\* The right to use fileInfo is in one place; it is gone when the writer has left.
Token ==
  Started =>
    /\ ~writeCompleted \/ ReaderHolds \/ ~readCompleted \/ WriterHolds \/ wpc = "exited"
    /\ ~writeCompleted => ~ReaderHolds /\ readCompleted /\ ~WriterHolds /\ wpc # "exited"
    /\ ReaderHolds => readCompleted /\ ~WriterHolds /\ wpc # "exited"
    /\ ~readCompleted => ~WriterHolds /\ wpc # "exited"

\* readStop is freed by the reader when it leaves its loop, and by nobody else.
Stopping ==
  Started => /\ ~readStop => rpc \in {"last", "exited"}
             /\ wpc = "exited" => rpc = "exited"

\* An operation in progress is the one of the thread that waits for it.
Operation ==
  aio.pending => \/ aio.op = "read" /\ rpc = "reading"
                 \/ aio.op = "write" /\ wpc = "writing"

\* Inside its loop the reader has an entry.
HasEntry ==
  rpc \in {"lock", "start", "reading", "eof", "signal", "last"} => entry \in DOMAIN folder

TypeInv == TypeOK /\ HasEntry

Baton == Control /\ Token /\ Stopping /\ Operation

IInv == TypeInv /\ Baton

-----------------------------------------------------------------------------

\* A position or -1.
LEMMA ClampPosition ==
  ASSUME NEW p \in Int PROVE Clamp(p) \in Position
BY DEF Clamp, Position

\* The contents of output.txt before the run.
LEMMA SingletonSeq ==
  ASSUME NEW S, NEW x \in S PROVE <<>> \in Seq(S) /\ <<x>> \in Seq(S)
OBVIOUS

\* The first n bytes of a piece make a piece.
LEMMA PieceCut ==
  ASSUME NEW b \in Abs!Piece, NEW n \in Nat
  PROVE  [b EXCEPT !.to = b.from + n] \in Abs!Piece
BY DEF Abs!Piece

\* What aio_write changes in output.txt is at its end.
LEMMA WriteAppends ==
  ASSUME aio \in Aiocb, CompleteWrite, output' # output
  PROVE  \E n \in Nat :
           output' = Append(output, [fileInfo.buffer EXCEPT !.to = fileInfo.buffer.from + n])
<1>1. \E n \in Nat : AppendBytes(n)
  BY DEF CompleteWrite, Writable, Aiocb, Position
<1> QED
  BY <1>1 DEF AppendBytes

\* Entries are numbered, and may serve as descriptors.
LEMMA EntryNat ==
  ASSUME TypeOK PROVE DOMAIN folder \subseteq Nat /\ DOMAIN folder \subseteq Position
BY FoldersAssumption DEF TypeOK, Position

\* Another fault may be counted.
LEMMA FaultCounted ==
  ASSUME faults \in FaultRecord, NEW kind, Fault(kind) PROVE faults' \in FaultRecord
BY FaultsAssumption DEF FaultRecord, Fault

\* The types hold at the start,
LEMMA InitTypeInv == Init => TypeInv
<1> SUFFICES ASSUME Init PROVE TypeInv
  OBVIOUS
<1>1. Stale \in Abs!Piece
  BY DEF Stale, Abs!Piece
<1>2. output \in Seq(Abs!Piece)
  BY <1>1, SingletonSeq DEF Init
<1>3. HasEntry
  BY DEF Init, HasEntry
<1>4. fileInfo \in FileHeader
  BY <1>1 DEF Init, FileHeader, Position, Out
<1>5. aio \in Aiocb
  BY DEF Init, Aiocb, Position, Out
<1>6. faults \in FaultRecord /\ readResult \in Position
  BY FaultsAssumption DEF Init, FaultRecord, Position
<1> QED
  BY <1>2, <1>3, <1>4, <1>5, <1>6 DEF Init, TypeInv, TypeOK

\* and every step keeps them.
LEMMA NextTypeInv == TypeInv /\ [Next]_vars => TypeInv'
<1> SUFFICES ASSUME TypeInv, [Next]_vars PROVE TypeInv'
  OBVIOUS
<1> USE DEF TypeInv, TypeOK, HasEntry, mutexes, mainVars, readerVars, writerVars
<1>1. CASE Load
  BY <1>1, SymbolAssumption, FaultCounted DEF Load
<1>2. CASE Prepare
  <2>1. fileInfo' \in FileHeader /\ aio' \in Aiocb
    BY <1>2 DEF Prepare, FileHeader, Aiocb, Position
  <2> QED
    BY <1>2, <2>1 DEF Prepare
<1>3. CASE CreateReader
  BY <1>3 DEF CreateReader
<1>4. CASE CreateWriter
  BY <1>4 DEF CreateWriter
<1>5. CASE JoinReader
  BY <1>5 DEF JoinReader
<1>6. CASE JoinWriter
  BY <1>6 DEF JoinWriter
<1>7. CASE OpenFolder
  BY <1>7 DEF OpenFolder, NextEntry
<1>8. CASE LockWriteCompleted
  BY <1>8 DEF LockWriteCompleted
<1>9. CASE StartRead
  <2>1. entry \in DOMAIN folder /\ DOMAIN folder \subseteq Position
    BY <1>9, EntryNat DEF StartRead
  <2>2. readFileHeader' \in {Failed} \cup DOMAIN folder /\ opened' \subseteq DOMAIN folder
    BY <1>9, <2>1 DEF StartRead
  <2>3. readFileHeader \in Position /\ readFileHeader' \in Position /\ BufferSize \in Position
    BY <2>1, <2>2, BufferAssumption DEF Position, Failed
  <2>4. \E fd, position \in Position : SubmitRead(fd, position)
    BY <1>9, <2>3 DEF StartRead, FirstPosition, FileHeader, Position
  <2>5. fileInfo' \in FileHeader /\ aio' \in Aiocb
    <3>1. PICK fd \in Position, position \in Position : SubmitRead(fd, position)
      BY <2>4
    <3>2. fileInfo' \in FileHeader
      BY <3>1 DEF SubmitRead, FileHeader
    <3>3. aio' \in Aiocb
      BY <2>3, <3>1 DEF SubmitRead, Aiocb
    <3> QED
      BY <3>2, <3>3
  <2>6. faults' \in FaultRecord
    BY <1>9, FaultCounted DEF StartRead
  <2> QED
    BY <1>9, <2>1, <2>2, <2>5, <2>6 DEF StartRead
<1>10. CASE Crash
  BY <1>10 DEF Crash
<1>11. CASE FinishRead
  <2>1. aio.result \in Position /\ fileInfo.positionInFile \in Position
    BY DEF FileHeader, Aiocb
  <2>2. Clamp(fileInfo.positionInFile + aio.result) \in Position
    BY <2>1, ClampPosition DEF Position
  <2>3. fileInfo' \in FileHeader
    BY <1>11, <2>1, <2>2 DEF FinishRead, CollectRead, FileHeader
  <2> QED
    BY <1>11, <2>1, <2>3 DEF FinishRead, CollectRead
<1>12. CASE NextFile
  <2>1. entry' \in DOMAIN folder /\ opened' \subseteq DOMAIN folder
    BY <1>12 DEF NextFile, Advance, ToEntry, NextEntry
  <2> QED
    BY <1>12, <2>1 DEF NextFile, Advance, ToEntry
<1>13. CASE StopRead
  BY <1>13 DEF StopRead
<1>14. CASE LastSignal
  <2>1. opened' \subseteq DOMAIN folder
    BY <1>14 DEF LastSignal
  <2> QED
    BY <1>14, <2>1 DEF LastSignal
<1>15. CASE SignalRead
  BY <1>15 DEF SignalRead
<1>16. CASE CompleteRead
  <2>1. PICK n \in Position : Complete(n)
    BY <1>16 DEF CompleteRead, ReadCounts, Position
  <2>2. aio' \in Aiocb
    BY <2>1 DEF Complete, Aiocb
  <2>3. fileInfo' \in FileHeader
    <3>1. CASE UNCHANGED fileInfo
      BY <3>1
    <3>2. CASE fileInfo' # fileInfo
      <4>1. Readable
        BY <1>16, <3>2 DEF CompleteRead
      <4>2. PICK m \in ReadCounts(folder[aio.fildes].size) :
              fileInfo' = [fileInfo EXCEPT !.buffer =
                [file |-> aio.fildes, from |-> aio.offset, to |-> aio.offset + m]]
        BY <1>16, <3>2 DEF CompleteRead
      <4>3. m \in Nat /\ aio.fildes \in Nat /\ aio.offset \in Nat
        BY <4>1, <4>2 DEF ReadCounts, Readable, Aiocb, Position, Failed
      <4>4. [file |-> aio.fildes, from |-> aio.offset, to |-> aio.offset + m] \in Abs!Piece
        BY <4>3 DEF Abs!Piece
      <4> QED
        BY <4>2, <4>4 DEF FileHeader
    <3> QED
      BY <3>1, <3>2
  <2>4. faults' \in FaultRecord
    BY <1>16, FaultCounted DEF CompleteRead
  <2> QED
    BY <1>16, <2>2, <2>3, <2>4 DEF CompleteRead
<1>17. CASE OpenOutput
  <2>1. output' \in Seq(Abs!Piece)
    BY <1>17, EmptySeq DEF OpenOutput
  <2>2. faults' \in FaultRecord
    BY <1>17, FaultCounted DEF OpenOutput
  <2> QED
    BY <1>17, <2>1, <2>2 DEF OpenOutput
<1>18. CASE LockReadCompleted
  BY <1>18 DEF LockReadCompleted
<1>19. CASE StopWrite
  BY <1>19 DEF StopWrite
<1>20. CASE StartWrite
  <2>1. fileInfo' \in FileHeader /\ aio' \in Aiocb
    <3>1. outputFileHeader \in Position
      BY DEF Position, Failed, Out
    <3>2. fileInfo' \in FileHeader
      BY <1>20, <3>1 DEF StartWrite, FileHeader
    <3>3. aio' \in Aiocb
      BY <1>20, <3>1 DEF StartWrite, FileHeader, Aiocb
    <3> QED
      BY <3>2, <3>3
  <2> QED
    BY <1>20, <2>1 DEF StartWrite
<1>21. CASE FinishWrite
  <2>1. Clamp(fileInfo.positionOutFile + aio.result) \in Position
    BY ClampPosition DEF FileHeader, Aiocb, Position
  <2>2. fileInfo' \in FileHeader
    BY <1>21, <2>1 DEF FinishWrite, FileHeader
  <2> QED
    BY <1>21, <2>2 DEF FinishWrite
<1>22. CASE SignalWritten
  <2>1. writeCompleted' \in BOOLEAN /\ wpc' = "lock"
    BY <1>22 DEF SignalWritten
  <2>2. UNCHANGED <<folder, readCompleted, readStop, fileInfo, aio, mainVars,
                    readerVars, outputFileHeader, opened, output, faults>>
    BY <1>22 DEF SignalWritten
  <2> QED
    BY <2>1, <2>2
<1>23. CASE CompleteWrite
  <2>1. \E n \in Position : Complete(n)
    BY <1>23 DEF CompleteWrite, Writable, Aiocb, Position
  <2>2. aio' \in Aiocb
    BY <2>1 DEF Complete, Aiocb
  <2>3. output' \in Seq(Abs!Piece)
    <3>1. CASE UNCHANGED output
      BY <3>1
    <3>2. CASE output' # output
      <4>1. PICK n \in Nat :
              output' = Append(output, [fileInfo.buffer EXCEPT !.to = fileInfo.buffer.from + n])
        BY <1>23, <3>2, WriteAppends
      <4>2. fileInfo.buffer \in Abs!Piece
        BY DEF FileHeader
      <4>3. [fileInfo.buffer EXCEPT !.to = fileInfo.buffer.from + n] \in Abs!Piece
        BY <4>2, PieceCut
      <4> QED
        BY <4>1, <4>3
    <3> QED
      BY <3>1, <3>2
  <2>4. faults' \in FaultRecord
    BY <1>23, FaultCounted DEF CompleteWrite
  <2> QED
    BY <1>23, <2>2, <2>3, <2>4 DEF CompleteWrite
<1>24. CASE UNCHANGED vars
  BY <1>24 DEF vars
<1> QED
  BY <1>1, <1>2, <1>3, <1>4, <1>5, <1>6, <1>7, <1>8, <1>9, <1>10, <1>11, <1>12, <1>13,
     <1>14, <1>15, <1>16, <1>17, <1>18, <1>19, <1>20, <1>21, <1>22, <1>23, <1>24
     DEF Next, Main, Reader, Writer, Kernel, Ended

\* At the start no mutex is locked and no thread exists,
LEMMA InitBaton == Init => Baton
BY DEF Init, Baton, Control, Token, Started, Stopping, Operation

\* and every step passes the right to use fileInfo from one place to one other.
LEMMA NextBaton == TypeInv /\ Baton /\ [Next]_vars => Baton'
<1> SUFFICES ASSUME TypeOK, Baton, [Next]_vars PROVE Baton'
  BY DEF TypeInv
<1> aio \in Aiocb /\ writeCompleted \in BOOLEAN /\ readCompleted \in BOOLEAN /\ readStop \in BOOLEAN
  BY DEF TypeOK
<1> USE DEF Baton, Control, Token, Started, Stopping, Operation, ReaderHolds, WriterHolds,
            mutexes, mainVars, readerVars, writerVars
<1>1. CASE Load
  BY <1>1 DEF Load
<1>2. CASE Prepare
  BY <1>2 DEF Prepare, Aiocb
<1>3. CASE CreateReader
  BY <1>3 DEF CreateReader
<1>4. CASE CreateWriter
  BY <1>4 DEF CreateWriter
<1>5. CASE JoinReader
  BY <1>5 DEF JoinReader
<1>6. CASE JoinWriter
  BY <1>6 DEF JoinWriter
<1>7. CASE OpenFolder
  BY <1>7 DEF OpenFolder
<1>8. CASE LockWriteCompleted
  BY <1>8 DEF LockWriteCompleted
<1>9. CASE StartRead
  BY <1>9 DEF StartRead, SubmitRead
<1>10. CASE Crash
  BY <1>10 DEF Crash
<1>11. CASE FinishRead
  BY <1>11 DEF FinishRead, CollectRead
<1>12. CASE NextFile
  BY <1>12 DEF NextFile, Advance, ToEntry
<1>13. CASE StopRead
  BY <1>13 DEF StopRead
<1>14. CASE LastSignal
  BY <1>14 DEF LastSignal
<1>15. CASE SignalRead
  BY <1>15 DEF SignalRead
<1>16. CASE CompleteRead
  BY <1>16 DEF CompleteRead, Complete, Aiocb
<1>17. CASE OpenOutput
  BY <1>17 DEF OpenOutput
<1>18. CASE LockReadCompleted
  BY <1>18 DEF LockReadCompleted
<1>19. CASE StopWrite
  BY <1>19 DEF StopWrite
<1>20. CASE StartWrite
  BY <1>20 DEF StartWrite
<1>21. CASE FinishWrite
  BY <1>21 DEF FinishWrite
<1>22. CASE SignalWritten
  BY <1>22 DEF SignalWritten
<1>23. CASE CompleteWrite
  BY <1>23 DEF CompleteWrite, Complete, Aiocb
<1>24. CASE UNCHANGED vars
  BY <1>24 DEF vars
<1> QED
  BY <1>1, <1>2, <1>3, <1>4, <1>5, <1>6, <1>7, <1>8, <1>9, <1>10, <1>11, <1>12, <1>13,
     <1>14, <1>15, <1>16, <1>17, <1>18, <1>19, <1>20, <1>21, <1>22, <1>23, <1>24
     DEF Next, Main, Reader, Writer, Kernel, Ended

\* The inductive invariant: whatever fails, the variables keep their types, and the
\* right to use fileInfo is in one place.
THEOREM Invariance == Spec => []IInv
<1>1. Init => IInv
  BY InitTypeInv, InitBaton DEF IInv
<1>2. IInv /\ [Next]_vars => IInv'
  BY NextTypeInv, NextBaton DEF IInv
<1> QED
  BY <1>1, <1>2, PTL DEF Spec

\* Every variable of the pipeline keeps its type (file_handler.h, a_in_out.cpp).
THEOREM TypeCorrect == Spec => []TypeOK
<1>1. IInv => TypeOK
  BY DEF IInv, TypeInv
<1> QED
  BY <1>1, Invariance, PTL

\* Mutexes locked by one thread and unlocked by the other keep the two threads of
\* file_handler.h out of each other's stretch, whatever the directories hold and
\* whatever fails.
THEOREM Exclusion == Spec => []Exclusive
<1>1. IInv => Exclusive
  BY DEF IInv, Baton, Control, Token, Started, Operation, Exclusive, ReaderHolds, WriterHolds,
         TypeInv, TypeOK
<1> QED
  BY <1>1, Invariance, PTL

\* The reader leaves its loop with both of the mutexes free that keep the writer, or the
\* writer has gone on from there.
Farewell ==
  \/ ~readCompleted /\ ~readStop
  \/ wpc = "check" /\ ~readStop
  \/ wpc = "exited"

Someone ==
  /\ mpc \notin {"load", "prepare", "createReader", "failed"} => rpc # "none"
  /\ mpc \in {"joinReader", "joinWriter"} => wpc # "none"
  /\ rpc = "killed" \/ wpc = "killed" => mpc = "crashed"
  /\ rpc = "last" => ~readStop
  /\ rpc = "exited" => Farewell \/ NoEntryAfter(0)

LEMMA MainSomeone ==
  ASSUME IInv, Someone, Main PROVE Someone'
<1>1. UNCHANGED folder
  BY DEF Main, Load, Prepare, CreateReader, CreateWriter, JoinReader, JoinWriter
<1>2. NoEntryAfter(0) <=> NoEntryAfter(0)'
  BY <1>1 DEF NoEntryAfter
<1> USE DEF IInv, Baton, Control, Someone, Farewell, mutexes, readerVars, writerVars
<1>3. CASE Load \/ Prepare
  BY <1>2, <1>3 DEF Load, Prepare
<1>4. CASE CreateReader
  BY <1>2, <1>4 DEF CreateReader
<1>5. CASE CreateWriter
  BY <1>2, <1>5 DEF CreateWriter
<1>6. CASE JoinReader \/ JoinWriter
  BY <1>2, <1>6 DEF JoinReader, JoinWriter
<1>7. QED
  BY <1>3, <1>4, <1>5, <1>6 DEF Main

LEMMA ReaderSomeone ==
  ASSUME IInv, Someone, Reader PROVE Someone'
<1>1. UNCHANGED folder
  BY DEF Reader, OpenFolder, LockWriteCompleted, StartRead, Crash, FinishRead, CollectRead,
         NextFile, Advance, ToEntry, StopRead, LastSignal, SignalRead
<1>2. NoEntryAfter(0) <=> NoEntryAfter(0)'
  BY <1>1 DEF NoEntryAfter
<1> USE DEF Someone, Farewell, mutexes, mainVars, writerVars
<1>3. CASE OpenFolder
  BY <1>2, <1>3 DEF OpenFolder
<1>4. CASE LockWriteCompleted \/ StartRead \/ FinishRead \/ NextFile \/ SignalRead
  <2>1. rpc' \in {"start", "reading", "eof", "signal", "lock"} /\ rpc # "killed" /\ UNCHANGED <<mpc, wpc>>
    BY <1>4 DEF LockWriteCompleted, StartRead, FinishRead, CollectRead, NextFile, Advance, ToEntry,
       SignalRead
  <2>2. QED
    BY <2>1
<1>5. CASE Crash
  <2>1. mpc' = "crashed" /\ rpc' = "killed" /\ wpc' = "killed"
    BY <1>5 DEF Crash
  <2>2. QED
    BY <2>1
<1>6. CASE StopRead
  <2>1. ~readStop' /\ rpc = "eof" /\ rpc' = "last" /\ UNCHANGED <<mpc, wpc>>
    BY <1>6 DEF StopRead
  <2>2. QED
    BY <2>1
<1>7. CASE LastSignal
  <2>1. ~readCompleted' /\ ~readStop' /\ rpc = "last" /\ rpc' = "exited" /\ UNCHANGED <<mpc, wpc>>
    BY <1>7 DEF LastSignal
  <2>2. QED
    BY <2>1
<1>8. QED
  BY <1>3, <1>4, <1>5, <1>6, <1>7 DEF Reader

LEMMA WriterSomeone ==
  ASSUME IInv, Someone, Writer PROVE Someone'
<1>0. UNCHANGED <<folder, mpc, rpc>> /\ wpc # "none" /\ wpc # "killed"
  BY DEF Writer, OpenOutput, LockReadCompleted, StopWrite, StartWrite, FinishWrite, SignalWritten,
     mainVars, readerVars
<1>1. NoEntryAfter(0) <=> NoEntryAfter(0)'
  BY <1>0 DEF NoEntryAfter
<1>2. Started
  BY <1>0 DEF Started, IInv, Baton, Control
<1>3. ~readCompleted => wpc \notin {"check", "writing", "signal", "exited"}
  BY <1>2 DEF IInv, Baton, Token, WriterHolds
<1>4. rpc = "last" => ~WriterHolds
  BY <1>2 DEF IInv, Baton, Token, ReaderHolds
<1> USE DEF Someone, Farewell, mutexes
<1>5. CASE OpenOutput
  <2>1. wpc = "open" /\ wpc' = "lock" /\ UNCHANGED mutexes
    BY <1>5 DEF OpenOutput
  <2>2. QED
    BY <1>0, <1>1, <2>1
<1>6. CASE LockReadCompleted
  <2>1. wpc = "lock" /\ wpc' = "check" /\ ~readCompleted /\ UNCHANGED readStop
    BY <1>6 DEF LockReadCompleted
  <2>2. QED
    BY <1>0, <1>1, <2>1
<1>7. CASE StopWrite
  <2>1. wpc = "check" /\ wpc' = "exited"
    BY <1>7 DEF StopWrite
  <2>2. QED
    BY <1>0, <1>1, <1>4, <2>1 DEF WriterHolds
<1>8. CASE StartWrite
  <2>1. wpc = "check" /\ readStop /\ wpc' = "writing" /\ UNCHANGED mutexes
    BY <1>8 DEF StartWrite
  <2>2. QED
    BY <1>0, <1>1, <1>3, <2>1
<1>9. CASE FinishWrite \/ SignalWritten
  <2>1. /\ wpc \in {"writing", "signal"} /\ wpc' \in {"signal", "lock"}
        /\ UNCHANGED <<readCompleted, readStop>>
    BY <1>9 DEF FinishWrite, SignalWritten
  <2>2. QED
    BY <1>0, <1>1, <1>3, <2>1
<1>10. QED
  BY <1>5, <1>6, <1>7, <1>8, <1>9 DEF Writer

LEMMA NextSomeone == IInv /\ Someone /\ [Next]_vars => Someone'
<1>1. Kernel \/ Ended \/ UNCHANGED vars => UNCHANGED <<folder, mutexes, mpc, rpc, wpc>>
  BY DEF Kernel, CompleteRead, CompleteWrite, Ended, vars, mainVars, readerVars, writerVars
<1>2. Someone /\ UNCHANGED <<folder, mutexes, mpc, rpc, wpc>> => Someone'
  BY DEF Someone, Farewell, NoEntryAfter, mutexes
<1>3. QED
  BY <1>1, <1>2, MainSomeone, ReaderSomeone, WriterSomeone DEF Next

\* Who has the right to use fileInfo can go on, or waits for an operation; when the reader
\* has gone the writer takes both mutexes, and main is let go.
LEMMA SomeoneGoes == IInv /\ Someone => NoStandstill
<1> SUFFICES ASSUME IInv, Someone, ~Over, ~MainCanGo, ~aio.pending, ~NoEntryAfter(0)
             PROVE  ReaderCanGo \/ WriterCanGo
  BY DEF NoStandstill
<1>1. mpc \in {"joinReader", "joinWriter"}
  BY DEF Over, MainCanGo, IInv, TypeInv, TypeOK, Baton, Control
<1>2. Started /\ rpc \notin {"none", "killed"} /\ wpc \notin {"none", "killed"}
  BY <1>1 DEF Started, Someone
<1>3. CASE rpc = "exited"
  <2>1. Farewell /\ wpc # "exited"
    BY <1>1, <1>3 DEF Someone, MainCanGo
  <2>2. wpc \in {"open", "lock", "check", "signal"} \/ (wpc = "writing" /\ ~aio.pending)
    BY <1>2, <2>1 DEF IInv, TypeInv, TypeOK
  <2>3. wpc = "lock" => ~readCompleted
    BY <2>1 DEF Farewell
  <2>4. QED
    BY <2>2, <2>3 DEF WriterCanGo
<1>4. CASE rpc = "lock" /\ writeCompleted
  <2>1. (~readCompleted \/ WriterHolds) /\ wpc # "exited"
    BY <1>2, <1>4 DEF IInv, Baton, Token, Stopping, ReaderHolds
  <2>2. QED
    BY <1>2, <2>1 DEF WriterCanGo, WriterHolds, IInv, TypeInv, TypeOK
<1>5. CASE rpc \notin {"exited", "lock"} \/ (rpc = "lock" /\ ~writeCompleted)
  BY <1>2, <1>5 DEF ReaderCanGo, IInv, TypeInv, TypeOK
<1>6. QED
  BY <1>3, <1>4, <1>5

\* No thread of file_handler.h unlocks a mutex that is free already: every notification
\* reaches the other thread.  And whatever fails, as long as there is an entry and the
\* program is not over, a thread can go on or an operation is in progress.
THEOREM SignalsKept == Spec => []HandShakes
<1>1. IInv => NoLostSignal
  BY DEF IInv, Baton, Control, Token, Started, Stopping, NoLostSignal, ReaderHolds, WriterHolds,
         TypeInv, TypeOK
<1>2. Init => Someone
  BY DEF Init, Someone
<1>3. IInv /\ Someone /\ [Next]_vars => Someone'
  BY NextSomeone
<1>4. IInv /\ Someone => HandShakes
  BY <1>1, SomeoneGoes DEF HandShakes
<1> QED
  BY <1>2, <1>3, <1>4, Invariance, PTL DEF Spec

\* Where the reader is, an input file is open or not: none before the first open and
\* after the end of a file, and otherwise the one in readFileHeader.
Descriptors ==
  /\ opened \subseteq {readFileHeader}
  /\ rpc \in {"none", "opendir", "exited"} => opened = {}
  /\ rpc \in {"lock", "start"} /\ readResult = 0 => opened = {}
  /\ rpc \in {"none", "opendir", "eof"} => readResult = 0
  /\ rpc = "signal" => readResult # 0

\* Every step keeps it: a file is opened only when none is open, and closed on both
\* ways out.
LEMMA NextDescriptors == IInv /\ Descriptors /\ [Next]_vars => Descriptors'
<1> SUFFICES ASSUME IInv, Descriptors, [Next]_vars PROVE Descriptors'
  OBVIOUS
<1> USE DEF Descriptors, readerVars
<1>1. CASE Main
  BY <1>1 DEF Main, Load, Prepare, CreateReader, CreateWriter, JoinReader, JoinWriter, IInv,
       Baton, Control
<1>2. CASE Reader
  <2>1. CASE StartRead
    BY <2>1 DEF StartRead
  <2>2. CASE FinishRead
    BY <2>2 DEF FinishRead, CollectRead
  <2>3. CASE NextFile
    BY <2>3 DEF NextFile, Advance, ToEntry
  <2>4. CASE OpenFolder \/ LockWriteCompleted \/ Crash \/ StopRead \/ LastSignal \/ SignalRead
    BY <2>4 DEF OpenFolder, LockWriteCompleted, Crash, StopRead, LastSignal, SignalRead
  <2> QED
    BY <1>2, <2>1, <2>2, <2>3, <2>4 DEF Reader
<1>3. CASE Writer
  BY <1>3 DEF Writer, OpenOutput, LockReadCompleted, StopWrite, StartWrite, FinishWrite,
       SignalWritten
<1>4. CASE Kernel
  BY <1>4 DEF Kernel, CompleteRead, CompleteWrite
<1>5. CASE UNCHANGED vars
  BY <1>5 DEF vars
<1> QED
  BY <1>1, <1>2, <1>3, <1>4, <1>5 DEF Next, Ended

\* readThread holds at most one input descriptor, and none when it has returned, however
\* many files there are and whatever fails; and every variable keeps its type.
THEOREM NoLeak == Spec => []Values
<1>1. Init => Descriptors
  BY DEF Init, Descriptors
<1>2. IInv /\ Descriptors => Values
  BY DEF Descriptors, OneDescriptor, Values, IInv, TypeInv
<1> QED
  BY <1>1, <1>2, NextDescriptors, Invariance, PTL DEF Spec

-----------------------------------------------------------------------------
(****************************************************************************)
(* As long as no operation fails by chance, the pipeline writes the         *)
(* concatenation of the files, whatever their number and sizes and whatever *)
(* the buffer size.  The argument: at every point of the exchange the two   *)
(* threads agree on how much of the current file is already in output.txt.  *)
(****************************************************************************)

\* What the writer has put in the file, and the piece it ends with.
Emitted == IF Truncated THEN output ELSE <<>>
Last == Abs!LastPiece(Emitted)

IsFile(f) == folder[f].kind = "file"
IsDirectory(f) == folder[f].kind = "dir"

\* The concatenation up to the byte number p of file f has been written.
At(f, p) ==
  /\ IsFile(f) /\ p \in 0..folder[f].size
  /\ \/ Last.file = f /\ Last.to = p
     \/ p = 0 /\ Abs!NextFileIs(Last, f)

\* The buffer has been written, or nothing was ever read into it.
Empty ==
  \/ rpc = "start"
  \/ rpc = "lock" /\ (~writeCompleted \/ wpc = "signal" \/ (wpc = "writing" /\ ~aio.pending))

\* The buffer holds what is to be written next.
Full ==
  \/ rpc = "signal"
  \/ rpc = "lock" /\ (~readCompleted \/ wpc = "check" \/ (wpc = "writing" /\ aio.pending))

\* The entry is a directory that was opened, and reading it has failed and always will.
Stuck == readFileHeader = entry /\ IsDirectory(entry)

EmptyInv ==
  Empty =>
    \/ readResult = 0 /\ Abs!NextFileIs(Last, entry)
    \/ readResult > 0 /\ readFileHeader = entry /\ At(entry, fileInfo.positionInFile)
    \/ readResult = -1 /\ Stuck

\* The next chunk of the file begins at p and has n bytes.
ChunkIs(p, n) ==
  /\ n > 0 /\ IsFile(entry)
  /\ fileInfo.buffer = [file |-> entry, from |-> p, to |-> p + n]
  /\ Abs!Follows(Last, fileInfo.buffer)

FullInv ==
  Full =>
    /\ readFileHeader = entry /\ fileInfo.transferred = readResult
    /\ \/ /\ ChunkIs(fileInfo.buffer.from, readResult)
          /\ fileInfo.positionInFile = fileInfo.buffer.to
       \/ readResult = -1 /\ IsDirectory(entry)

ReadingInv ==
  rpc = "reading" =>
    /\ readFileHeader = entry /\ aio.op = "read"
    /\ aio.fildes = entry /\ aio.offset = fileInfo.positionInFile
    /\ aio.pending => IsDirectory(entry) \/ At(entry, aio.offset)
    /\ ~aio.pending =>
         \/ aio.result = -1 /\ IsDirectory(entry)
         \/ aio.result = 0 /\ At(entry, folder[entry].size)
         \/ ChunkIs(aio.offset, aio.result)

WritingInv ==
  /\ wpc \notin {"none", "open", "killed"} => outputFileHeader = Out
  /\ wpc \in {"check", "writing", "signal"} =>
       \/ rpc = "lock"
       \/ rpc = "exited" /\ wpc = "check" /\ ~readStop
  /\ wpc = "writing" =>
       /\ aio.op = "write"
       /\ aio.pending => /\ aio.fildes = Out /\ aio.offset = fileInfo.positionOutFile
                         /\ aio.nbytes = fileInfo.transferred
       /\ ~aio.pending => IsDirectory(entry) \/ aio.result >= 0
  /\ ~readCompleted /\ Started => rpc = "lock" \/ (rpc = "exited" /\ ~readStop)
  /\ (entry \in DOMAIN folder /\ IsDirectory(entry)) \/ fileInfo.positionOutFile >= 0

EndInv ==
  /\ rpc = "last" => ~readStop
  /\ rpc = "eof" => readResult = 0 /\ At(entry, folder[entry].size)
  /\ rpc = "last" \/ (rpc = "exited" /\ ~readStop) \/ wpc = "exited" => Abs!AtEnd(Emitted)
  
\* Without the library's functions nothing is ever read or written.
UnlinkedInv ==
  ~linked => /\ rpc \in {"none", "opendir", "lock", "start", "exited", "killed"}
             /\ wpc \in {"none", "open", "lock", "killed"}
             /\ Started => readCompleted
             /\ Emitted = <<>>

EntryInv ==
  /\ rpc \in {"none", "opendir"} => readResult = 0 /\ entry = 0 /\ Emitted = <<>>
  /\ entry \in DOMAIN folder => folder[entry].kind # "dot"

OrderInv ==
  /\ Abs!InOrder(Emitted)
  /\ EmptyInv /\ FullInv /\ ReadingInv /\ WritingInv /\ EndInv /\ UnlinkedInv /\ EntryInv
-----------------------------------------------------------------------------

\* A step that leaves the directory and the written bytes alone leaves these facts alone.
LEMMA Frame ==
  ASSUME UNCHANGED <<folder, Emitted>>
  PROVE  /\ Last' = Last
         /\ \A f, p : At(f, p)' <=> At(f, p)
         /\ \A f : Abs!NextFileIs(Last, f)' <=> Abs!NextFileIs(Last, f)
         /\ \A q : Abs!Follows(Last, q)' <=> Abs!Follows(Last, q)
         /\ Abs!AtEnd(Emitted)' <=> Abs!AtEnd(Emitted)
         /\ Abs!InOrder(Emitted)' <=> Abs!InOrder(Emitted)
BY
   DEF Last, At, IsFile, Sizes, Abs!LastPiece, Abs!NextFileIs, Abs!Follows, Abs!AtEnd,
     Abs!InOrder

\* What readdir may list; only files have bytes.
LEMMA FolderFacts ==
  ASSUME TypeOK
  PROVE  /\ Len(folder) \in Nat /\ DOMAIN folder = 1..Len(folder)
         /\ \A f \in DOMAIN folder : /\ folder[f].kind \in {"file", "dot", "dir"}
                                     /\ folder[f].size \in Nat
                                     /\ ~IsFile(f) => folder[f].size = 0
<1>1. folder \in Seq(Entry)
  BY FoldersAssumption DEF TypeOK
<1>2. \A f \in DOMAIN folder : folder[f] \in Entry
  BY <1>1
<1> QED
  BY <1>1, <1>2 DEF Entry, IsFile

\* The last piece of an output is a piece, or the empty one that precedes everything.
LEMMA LastPieceType ==
  ASSUME NEW out \in Seq(Abs!Piece) PROVE Abs!LastPiece(out) \in Abs!Piece
<1>1. CASE out = <<>>
  BY <1>1 DEF Abs!LastPiece, Abs!Nothing, Abs!Piece
<1>2. CASE out # <<>>
  <2>1. Len(out) \in 1..Len(out)
    BY <1>2, EmptySeq
  <2> QED
    BY <1>2, <2>1, ElementOfSeq DEF Abs!LastPiece
<1> QED
  BY <1>1, <1>2

\* The last piece written, if any, is a piece.
LEMMA LastIsPiece == TypeOK => Last \in Abs!Piece
<1> SUFFICES ASSUME TypeOK PROVE Last \in Abs!Piece
  OBVIOUS
<1>1. Emitted \in Seq(Abs!Piece)
  BY EmptySeq DEF TypeOK, Emitted
<1> QED
  BY <1>1, LastPieceType DEF Last

\* Before anything is written, the first entry comes next.
LEMMA FirstEntry ==
  ASSUME TypeOK, Emitted = <<>>, NEW j, NextEntry(0, j)
  PROVE  Abs!NextFileIs(Last, j)
BY FolderFacts DEF NextEntry, Last, Abs!LastPiece, Abs!Nothing, Abs!NextFileIs, Sizes, IsFile

\* At the end of a file only "." and ".." may lie before the next entry.
LEMMA EntryAfter ==
  ASSUME TypeOK, NEW i \in DOMAIN folder, At(i, folder[i].size), NEW j, NextEntry(i, j)
  PROVE  Abs!NextFileIs(Last, j)
<1>1. Last.file \in Nat
  BY LastIsPiece DEF Abs!Piece
<1> QED
  BY <1>1, FolderFacts DEF NextEntry, At, Abs!NextFileIs, Sizes, IsFile

\* At the end of the last file, everything has been written.
LEMMA NothingAfter ==
  ASSUME TypeOK, NEW i \in DOMAIN folder, At(i, folder[i].size), NoEntryAfter(i)
  PROVE  Abs!AtEnd(Emitted)
<1>1. Last.file \in Nat /\ Len(Sizes) = Len(folder)
  BY LastIsPiece, FolderFacts DEF Abs!Piece, Sizes
<1>2. Abs!NextFileIs(Last, Len(folder) + 1)
  BY <1>1, FolderFacts DEF NoEntryAfter, At, Abs!NextFileIs, Sizes, IsFile
<1> QED
  BY <1>1, <1>2 DEF Abs!AtEnd, Last

\* A chunk read where the output ends continues it.
LEMMA ChunkFollows ==
  ASSUME TypeOK, NEW f \in DOMAIN folder, NEW p, At(f, p),
         NEW n \in Nat, 0 < n, p + n <= folder[f].size
  PROVE  Abs!Follows(Last, [file |-> f, from |-> p, to |-> p + n])
BY FolderFacts DEF At, Abs!Follows, Abs!NextFileIs, Sizes, IsFile

\* A piece appended where the output ends is the new end, and nothing else changes.
LEMMA AppendFacts ==
  ASSUME NEW out \in Seq(Abs!Piece), NEW q \in Abs!Piece
  PROVE  /\ Abs!LastPiece(Append(out, q)) = q
         /\ Len(Append(out, q)) = Len(out) + 1 /\ Len(out) \in Nat
         /\ \A i \in 1..Len(out) : Append(out, q)[i] = out[i]
         /\ Append(out, q)[Len(out) + 1] = q
         /\ Len(out) > 0 => out[Len(out)] = Abs!LastPiece(out)
         /\ Len(out) = 0 => Abs!LastPiece(out) = Abs!Nothing
<1>1. /\ Len(Append(out, q)) = Len(out) + 1 /\ Len(out) \in Nat
      /\ \A i \in 1..Len(out) : Append(out, q)[i] = out[i]
      /\ Append(out, q)[Len(out) + 1] = q
  OBVIOUS
<1>2. Append(out, q) # <<>>
  BY <1>1, EmptySeq
<1>3. out = <<>> <=> Len(out) = 0
  BY EmptySeq
<1> QED
  BY <1>1, <1>2, <1>3 DEF Abs!LastPiece

\* A piece that follows the last one may be appended.
LEMMA AppendInOrder ==
  ASSUME NEW out \in Seq(Abs!Piece), NEW q \in Abs!Piece,
         Abs!InOrder(out), Abs!Follows(Abs!LastPiece(out), q)
  PROVE  /\ Append(out, q) \in Seq(Abs!Piece)
         /\ Abs!InOrder(Append(out, q))
         /\ Abs!LastPiece(Append(out, q)) = q
<1> DEFINE new == Append(out, q)
<1>1. ASSUME NEW i \in 1..Len(new)
      PROVE  Abs!Follows(IF i = 1 THEN Abs!Nothing ELSE new[i - 1], new[i])
  <2>1. CASE i = Len(out) + 1
    BY <2>1, AppendFacts
  <2>2. CASE i \in 1..Len(out)
    <3>1. new[i] = out[i] /\ (i # 1 => new[i - 1] = out[i - 1])
      BY <2>2, AppendFacts
    <3> QED
      BY <2>2, <3>1 DEF Abs!InOrder
  <2> QED
    BY <2>1, <2>2, AppendFacts
<1> QED
  BY <1>1, AppendFacts DEF Abs!InOrder

\* What a completed write has done: nothing, for a directory; or it has added the chunk
\* that follows.
FailedWrite ==
  /\ UNCHANGED <<folder, Emitted>>
  /\ readResult = -1 /\ aio'.result = -1 /\ Stuck

ChunkWritten ==
  /\ readResult > 0 /\ aio'.result = readResult /\ readFileHeader = entry
  /\ ChunkIs(fileInfo.buffer.from, readResult)
  /\ fileInfo.positionInFile = fileInfo.buffer.to /\ fileInfo.buffer \in Abs!Piece
  /\ Emitted \in Seq(Abs!Piece) /\ Emitted' = Append(Emitted, fileInfo.buffer)

\* A step after which nothing has failed yet is not a fault,
LEMMA NoFault == Faultless' => \A kind : ~Fault(kind)
BY DEF Faultless, Fault

\* and does not undo one.
LEMMA FaultlessBefore == [Next]_vars /\ Faultless' => Faultless
<1> SUFFICES ASSUME [Next]_vars, Faultless' PROVE faults' = faults
  BY DEF Faultless
<1>1. \A kind : ~Fault(kind)
  BY NoFault
<1>2. CASE Main
  BY <1>1, <1>2
     DEF Main, Load, Prepare, CreateReader, CreateWriter, JoinReader, JoinWriter
<1>3. CASE Reader
  BY <1>1, <1>3
     DEF Reader, OpenFolder, LockWriteCompleted, StartRead, Crash, FinishRead, CollectRead,
       NextFile, Advance, ToEntry, StopRead, LastSignal, SignalRead
<1>4. CASE Writer
  BY <1>1, <1>4
     DEF Writer, OpenOutput, LockReadCompleted, StopWrite, StartWrite, FinishWrite,
       SignalWritten
<1>5. CASE Kernel
  BY <1>1, <1>5 DEF Kernel, CompleteRead, CompleteWrite
<1> QED
  BY <1>2, <1>3, <1>4, <1>5 DEF Next, Ended, vars

\* There is no third outcome of aio_write when nothing fails.
LEMMA WriteCompletes ==
  ASSUME IInv, OrderInv, CompleteWrite, Faultless'
  PROVE  FailedWrite \/ ChunkWritten
<1>0. \A kind : ~Fault(kind)
  BY NoFault
<1> USE DEF IInv, TypeInv, TypeOK, Baton, Operation, FileHeader, Aiocb, Position
<1>1. /\ rpc = "lock" /\ wpc = "writing" /\ Full /\ aio.pending
      /\ UNCHANGED <<folder, wpc>>
  BY DEF CompleteWrite, OrderInv, WritingInv, Full, writerVars
<1>2. CASE readResult = -1
  <2>1. aio.nbytes = -1 /\ Stuck
    BY <1>1, <1>2 DEF OrderInv, WritingInv, FullInv, Stuck, ChunkIs
  <2>2. ~Writable
    BY <2>1 DEF Writable
  <2>3. Complete(-1) /\ UNCHANGED output
    BY <1>0, <1>1, <2>2 DEF CompleteWrite
  <2>4. aio'.result = -1 /\ UNCHANGED Emitted
    BY <1>1, <2>3 DEF Complete, Emitted, Truncated
  <2> QED
    BY <1>1, <1>2, <2>1, <2>4 DEF FailedWrite
<1>3. CASE readResult # -1
  <2>1. /\ readResult > 0 /\ aio.nbytes = readResult
        /\ ChunkIs(fileInfo.buffer.from, readResult)
        /\ fileInfo.positionInFile = fileInfo.buffer.to
        /\ readFileHeader = entry /\ fileInfo.buffer \in Abs!Piece
    BY <1>1, <1>3 DEF OrderInv, WritingInv, FullInv, ChunkIs
  <2>2. Writable
    BY <1>1, <2>1 DEF Writable, Out, Failed, OrderInv, WritingInv, ChunkIs, IsFile, IsDirectory
  <2>3. aio'.result = readResult /\ AppendBytes(readResult)
    BY <1>0, <2>1, <2>2 DEF CompleteWrite, Complete
  <2>4. fileInfo.buffer = [fileInfo.buffer EXCEPT !.to = fileInfo.buffer.from + readResult]
    BY <2>1 DEF Abs!Piece, ChunkIs
  <2>5. output' = Append(output, fileInfo.buffer)
    BY <2>1, <2>3, <2>4 DEF AppendBytes
  <2>6. Emitted = output /\ Emitted' = Append(output, fileInfo.buffer)
    BY <1>1, <2>5 DEF Emitted, Truncated
  <2> QED
    BY <2>1, <2>3, <2>6 DEF ChunkWritten
<1> QED
  BY <1>2, <1>3

\* Every step of either thread, and of the kernel, keeps the agreement.
LEMMA NextOrder ==
  ASSUME IInv, OrderInv, [Next]_vars, Faultless'
  PROVE  OrderInv'
<1>0. \A kind : ~Fault(kind)
  BY NoFault
<1> USE DEF IInv, TypeInv, TypeOK, HasEntry, Baton, Control, Token, Started,
        Stopping, Operation, ReaderHolds, WriterHolds, mutexes, mainVars, readerVars,
        writerVars, FileHeader, Aiocb, Position
<1> USE DEF OrderInv, EmptyInv, Empty, FullInv, Full, ReadingInv, WritingInv, EndInv,
        UnlinkedInv, EntryInv, Stuck, ChunkIs, IsFile, IsDirectory
<1>1. CASE Load
  <2>1. UNCHANGED <<folder, Emitted>>
    BY <1>0, <1>1 DEF Load, Emitted, Truncated
  <2> QED
    BY <1>0, <1>1, <2>1, Frame DEF Load
<1>2. CASE Prepare
  <2>1. UNCHANGED <<folder, Emitted>>
    BY <1>2 DEF Prepare, Aiocb, Emitted, Truncated
  <2> QED
    BY <1>2, <2>1, Frame DEF Prepare, Aiocb
<1>3. CASE CreateReader
  <2>1. UNCHANGED <<folder, Emitted>>
    BY <1>3 DEF CreateReader, Emitted, Truncated
  <2> QED
    BY <1>3, <2>1, Frame DEF CreateReader
<1>4. CASE CreateWriter
  <2>1. UNCHANGED <<folder, Emitted>>
    BY <1>4 DEF CreateWriter, Emitted, Truncated
  <2> QED
    BY <1>4, <2>1, Frame DEF CreateWriter
<1>5. CASE JoinReader
  <2>1. UNCHANGED <<folder, Emitted>>
    BY <1>5 DEF JoinReader, Emitted, Truncated
  <2> QED
    BY <1>5, <2>1, Frame DEF JoinReader
<1>6. CASE JoinWriter
  <2>1. UNCHANGED <<folder, Emitted>>
    BY <1>6 DEF JoinWriter, Emitted, Truncated
  <2> QED
    BY <1>6, <2>1, Frame DEF JoinWriter
<1>7. CASE OpenFolder
  <2>1. UNCHANGED <<folder, Emitted>>
    BY <1>7 DEF OpenFolder, Emitted, Truncated
  <2>2. CASE rpc' = "exited"
    BY <1>7, <2>1, <2>2, Frame DEF OpenFolder
  <2>3. CASE rpc' # "exited"
    <3>1. NextEntry(0, entry') /\ rpc' = "lock" /\ Emitted = <<>> /\ readResult' = 0
      BY <1>7, <2>3 DEF OpenFolder
    <3>2. Abs!NextFileIs(Last, entry')
      BY <3>1, FirstEntry
    <3>3. folder[entry'].kind # "dot"
      BY <3>1 DEF NextEntry
    <3>4. EmptyInv'
      BY <2>1, <3>1, <3>2, Frame
    <3>5. ~Full' /\ rpc' # "reading"
      BY <1>7, <3>1 DEF OpenFolder
    <3>6. WritingInv'
      BY <1>7, <2>1, <3>1, FolderFacts DEF OpenFolder
    <3>7. EndInv' /\ UnlinkedInv' /\ Abs!InOrder(Emitted)'
      BY <1>7, <2>1, <3>1, Frame DEF OpenFolder
    <3>8. EntryInv'
      BY <2>1, <3>1, <3>3 DEF OpenFolder
    <3> QED
      BY <3>4, <3>5, <3>6, <3>7, <3>8
  <2> QED
    BY <2>2, <2>3
<1>8. CASE LockWriteCompleted
  <2>1. UNCHANGED <<folder, Emitted>>
    BY <1>8 DEF LockWriteCompleted, Emitted, Truncated
  <2> QED
    BY <1>8, <2>1, Frame DEF LockWriteCompleted
<1>9. CASE StartRead
  <2>1. UNCHANGED <<folder, Emitted>>
    BY <1>9 DEF StartRead, SubmitRead, Emitted, Truncated
  <2>2. readFileHeader' = entry /\ (IsDirectory(entry) \/ At(entry, fileInfo.positionInFile'))
    <3>1. CASE readResult = 0
      <4>1. Abs!NextFileIs(Last, entry)
        BY <1>9, <3>1 DEF StartRead
      <4>2. readFileHeader' = entry /\ SubmitRead(entry, 0)
        BY <1>0, <1>9, <3>1 DEF StartRead, FirstPosition
      <4>3. fileInfo'.positionInFile = 0
        BY <4>2 DEF SubmitRead
      <4>4. entry \in DOMAIN folder /\ folder[entry].kind # "dot"
        BY <1>9 DEF StartRead
      <4> QED
        BY <4>1, <4>2, <4>3, <4>4, FolderFacts DEF At
    <3>2. CASE readResult # 0
      BY <1>9, <3>2 DEF StartRead, SubmitRead
    <3> QED
      BY <3>1, <3>2
  <2>3. ReadingInv'
    <3>1. /\ fileInfo' = [fileInfo EXCEPT !.fileHeader = entry,
                                          !.positionInFile = fileInfo'.positionInFile]
          /\ aio' = [op |-> "read", pending |-> TRUE, fildes |-> entry,
                     offset |-> fileInfo'.positionInFile, nbytes |-> BufferSize,
                     result |-> aio.result]
      BY <1>9, <2>2 DEF StartRead, SubmitRead
    <3>2. entry' = entry
      BY <1>9 DEF StartRead
    <3>3. IsDirectory(entry)' \/ At(entry, fileInfo.positionInFile)'
      BY <2>1, <2>2, <3>2, Frame
    <3> QED
      BY <2>2, <3>1, <3>2, <3>3
  <2>4. ~Empty' /\ ~Full'
    BY <1>9 DEF StartRead
  <2>5. WritingInv' /\ EndInv' /\ UnlinkedInv' /\ EntryInv' /\ Abs!InOrder(Emitted)'
    BY <1>9, <2>1, Frame DEF StartRead, SubmitRead
  <2> QED
    BY <2>3, <2>4, <2>5
<1>10. CASE Crash
  <2>1. Emitted = <<>> /\ Emitted' = <<>> /\ UNCHANGED folder
    BY <1>10 DEF Crash, Emitted, Truncated
  <2> QED
    BY <1>10, <2>1, Frame DEF Crash
<1>11. CASE FinishRead
  <2>1. UNCHANGED <<folder, Emitted>>
    BY <1>11 DEF FinishRead, CollectRead, Emitted, Truncated
  <2>2. UNCHANGED <<folder, entry, aio, fileInfo.buffer, readFileHeader, wpc, readStop,
                    readCompleted, linked, output, outputFileHeader, mpc, writeCompleted>>
    BY <1>11 DEF FinishRead, CollectRead
  <2>3. /\ rpc = "reading" /\ ~aio.pending /\ readResult' = aio.result
        /\ fileInfo'.transferred = aio.result
        /\ fileInfo'.positionInFile = Clamp(aio.offset + aio.result)
        /\ fileInfo'.positionOutFile = fileInfo.positionOutFile
        /\ rpc' = IF aio.result = 0 THEN "eof" ELSE "signal"
    BY <1>11 DEF FinishRead, CollectRead
  <2>4. FullInv'
    <3>1. CASE aio.result = -1 /\ IsDirectory(entry)
      BY <2>2, <2>3, <3>1
    <3>2. CASE ChunkIs(aio.offset, aio.result)
      <4>1. /\ aio.offset \in Nat /\ fileInfo.buffer.from = aio.offset
            /\ fileInfo.buffer.to = aio.offset + aio.result
        BY <3>2, FolderFacts DEF Abs!Follows, At, Abs!Piece
      <4>2. Clamp(aio.offset + aio.result) = fileInfo.buffer.to
        BY <3>2, <4>1 DEF Clamp
      <4> QED
        BY <2>1, <2>2, <2>3, <3>2, <4>1, <4>2, Frame
    <3>3. CASE aio.result = 0
      BY <2>2, <2>3, <3>3
    <3> QED
      BY <2>3, <3>1, <3>2, <3>3
  <2>5. ~Empty' /\ rpc' # "reading"
    BY <2>3
  <2>6. Abs!InOrder(Emitted)' /\ WritingInv' /\ EndInv' /\ UnlinkedInv' /\ EntryInv'
    BY <2>1, <2>2, <2>3, Frame
  <2> QED
    BY <2>4, <2>5, <2>6
<1>12. CASE NextFile
  <2>1. UNCHANGED <<folder, Emitted>>
    BY <1>12 DEF NextFile, Advance, ToEntry, Emitted, Truncated
  <2>2. NextEntry(entry, entry') /\ rpc' = "lock" /\ readResult' = 0 /\ rpc = "eof"
    BY <1>12 DEF NextFile, Advance, ToEntry
  <2>3. Abs!NextFileIs(Last, entry')
    BY <2>2, EntryAfter
  <2>4. EmptyInv' /\ ~Full' /\ rpc' # "reading"
    BY <1>12, <2>1, <2>2, <2>3, Frame DEF NextFile, Advance, ToEntry
  <2>5. IsFile(entry) /\ fileInfo.positionOutFile >= 0
    BY <2>2 DEF At
  <2>6. WritingInv' /\ EndInv' /\ UnlinkedInv' /\ EntryInv' /\ Abs!InOrder(Emitted)'
    BY <1>12, <2>1, <2>2, <2>5, Frame DEF NextFile, Advance, ToEntry, NextEntry
  <2> QED
    BY <2>4, <2>6
<1>13. CASE StopRead
  <2>1. UNCHANGED <<folder, Emitted>>
    BY <1>13 DEF StopRead, Emitted, Truncated
  <2>2. Abs!AtEnd(Emitted)
    BY <1>13, NothingAfter DEF StopRead
  <2> QED
    BY <1>13, <2>1, <2>2, Frame DEF StopRead
<1>14. CASE LastSignal
  <2>1. UNCHANGED <<folder, Emitted>>
    BY <1>14 DEF LastSignal, Emitted, Truncated
  <2>2. ~Empty' /\ ~Full' /\ rpc' # "reading"
    BY <1>14 DEF LastSignal
  <2>3. ~readStop
    BY <1>14 DEF LastSignal
  <2>4. WritingInv' /\ UnlinkedInv' /\ EntryInv'
    BY <1>14, <2>1, <2>3, Frame DEF LastSignal
  <2>5. EndInv' /\ Abs!InOrder(Emitted)'
    BY <1>14, <2>1, Frame DEF LastSignal
  <2> QED
    BY <2>2, <2>4, <2>5
<1>15. CASE SignalRead
  <2>1. UNCHANGED <<folder, Emitted>>
    BY <1>15 DEF SignalRead, Emitted, Truncated
  <2> QED
    BY <1>15, <2>1, Frame DEF SignalRead
<1>16. CASE CompleteRead
  <2>1. UNCHANGED <<folder, Emitted>>
    BY <1>16 DEF CompleteRead, Complete, Aiocb, Emitted, Truncated
  <2>2. /\ rpc = "reading" /\ aio.pending /\ ~aio'.pending /\ aio'.op = "read"
        /\ aio'.fildes = aio.fildes /\ aio'.offset = aio.offset
        /\ UNCHANGED <<folder, entry, readFileHeader, rpc, wpc, linked, readStop, readCompleted,
                       mpc, outputFileHeader, readResult>>
        /\ fileInfo'.positionInFile = fileInfo.positionInFile
        /\ fileInfo'.positionOutFile = fileInfo.positionOutFile
    BY <1>16 DEF CompleteRead, Complete
  <2>3. \/ aio'.result = -1 /\ IsDirectory(entry)
        \/ aio'.result = 0 /\ At(entry, folder[entry].size)
        \/ ChunkIs(aio.offset, aio.result)'
    <3>1. CASE ~Readable
      <4>1. aio'.result = -1
        BY <1>0, <1>16, <3>1 DEF CompleteRead, Complete
      <4>2. IsDirectory(entry)
        BY <2>2, <3>1, FolderFacts DEF Readable, At, Failed
      <4> QED
        BY <4>1, <4>2
    <3>2. CASE Readable
      <4>1. PICK n \in ReadCounts(folder[entry].size) :
              /\ aio'.result = n
              /\ n # 0 => fileInfo'.buffer =
                           [file |-> entry, from |-> aio.offset, to |-> aio.offset + n]
        <5>1. aio.op = "read" /\ aio.fildes = entry
          BY <1>16, <2>2 DEF CompleteRead
        <5>2. PICK n \in ReadCounts(folder[entry].size) :
                /\ Complete(n)
                /\ fileInfo' = IF n = 0 THEN fileInfo
                               ELSE [fileInfo EXCEPT !.buffer =
                                       [file |-> entry, from |-> aio.offset, to |-> aio.offset + n]]
          BY <1>0, <1>16, <3>2, <5>1 DEF CompleteRead
        <5> QED
          BY <5>2 DEF Complete
      <4>2. At(entry, aio.offset) /\ IsFile(entry) /\ aio.offset \in 0..folder[entry].size
        BY <2>2, <3>2 DEF Readable, At
      <4>3. /\ n \in Nat
            /\ IF aio.offset >= folder[entry].size
                 THEN n = 0
                 ELSE 0 < n /\ aio.offset + n <= folder[entry].size
        BY <4>1 DEF ReadCounts
      <4>4. CASE n = 0
        <5>1. folder[entry].size \in Nat
          BY <2>2, FolderFacts
        <5>2. aio.offset = folder[entry].size
          BY <4>2, <4>3, <4>4, <5>1
        <5> QED
          BY <4>1, <4>2, <4>4, <5>2
      <4>5. CASE n # 0
        <5>1. 0 < n /\ aio.offset + n <= folder[entry].size
          BY <4>3, <4>5
        <5>2. entry \in DOMAIN folder
          BY <2>2
        <5>3. Abs!Follows(Last, [file |-> entry, from |-> aio.offset, to |-> aio.offset + n])
          BY <4>2, <4>3, <5>1, <5>2, ChunkFollows
        <5> QED
          BY <2>1, <2>2, <4>1, <4>2, <4>3, <4>5, <5>1, <5>3, Frame
      <4> QED
        BY <4>4, <4>5
    <3> QED
      BY <3>1, <3>2
  <2>4. ReadingInv'
    BY <2>1, <2>2, <2>3, Frame
  <2>5. ~Empty' /\ ~Full'
    BY <2>2
  <2>6. WritingInv' /\ EndInv' /\ UnlinkedInv' /\ EntryInv' /\ Abs!InOrder(Emitted)'
    BY <2>1, <2>2, Frame
  <2> QED
    BY <2>4, <2>5, <2>6
<1>17. CASE OpenOutput
  <2>1. UNCHANGED <<folder, Emitted>>
    BY <1>0, <1>17 DEF OpenOutput, Emitted, Truncated
  <2> QED
    BY <1>0, <1>17, <2>1, Frame DEF OpenOutput
<1>18. CASE LockReadCompleted
  <2>1. UNCHANGED <<folder, Emitted>>
    BY <1>18 DEF LockReadCompleted, Emitted, Truncated
  <2> QED
    BY <1>18, <2>1, Frame DEF LockReadCompleted
<1>19. CASE StopWrite
  <2>1. UNCHANGED <<folder, Emitted>>
    BY <1>19 DEF StopWrite, Emitted, Truncated
  <2> QED
    BY <1>19, <2>1, Frame DEF StopWrite
<1>20. CASE StartWrite
  <2>1. UNCHANGED <<folder, Emitted>>
    BY <1>20 DEF StartWrite, Emitted, Truncated
  <2> QED
    BY <1>20, <2>1, Frame DEF StartWrite
<1>21. CASE FinishWrite
  <2>1. UNCHANGED <<folder, Emitted>>
    BY <1>21 DEF FinishWrite, Emitted, Truncated
  <2>2. rpc = "lock" /\ Empty /\ Empty' /\ ~Full'
    BY <1>21 DEF FinishWrite
  <2>3. IsDirectory(entry) \/ fileInfo'.positionOutFile >= 0
    BY <1>21, <2>2 DEF FinishWrite, Clamp
  <2>4. EmptyInv'
    BY <1>21, <2>1, <2>2, Frame DEF FinishWrite
  <2>5. WritingInv'
    BY <1>21, <2>2, <2>3, <2>1 DEF FinishWrite
  <2>6. ReadingInv' /\ EndInv' /\ UnlinkedInv' /\ EntryInv' /\ Abs!InOrder(Emitted)'
    BY <1>21, <2>1, <2>2, Frame DEF FinishWrite
  <2> QED
    BY <2>2, <2>4, <2>5, <2>6
<1>22. CASE SignalWritten
  <2>1. UNCHANGED <<folder, Emitted>>
    BY <1>22 DEF SignalWritten, Emitted, Truncated
  <2> QED
    BY <1>22, <2>1, Frame DEF SignalWritten
<1>23. CASE CompleteWrite
  <2>1. /\ rpc = "lock" /\ wpc = "writing" /\ Full /\ ~aio'.pending /\ aio'.op = "write"
        /\ UNCHANGED <<folder, entry, readFileHeader, rpc, wpc, linked, readStop,
                       readCompleted, writeCompleted, mpc, outputFileHeader, readResult,
                       fileInfo>>
    BY <1>23 DEF CompleteWrite, Complete
  <2>2. CASE FailedWrite
    BY <2>1, <2>2, Frame DEF FailedWrite
  <2>3. CASE ChunkWritten
    <3>1. Abs!InOrder(Emitted') /\ Last' = fileInfo.buffer
      BY <2>3, AppendInOrder DEF ChunkWritten, Last
    <3>2. Abs!InOrder(Emitted)'
      BY <2>1, <3>1 DEF Abs!InOrder, Abs!Follows, Abs!NextFileIs, Sizes
    <3>3. At(entry, fileInfo.positionInFile)'
      BY <2>1, <2>3, <3>1 DEF At, Abs!Follows, Sizes, Abs!Piece, ChunkWritten
    <3> QED
      BY <2>1, <2>3, <3>2, <3>3 DEF ChunkWritten
  <2> QED
    BY <1>23, <2>2, <2>3, WriteCompletes
<1>24. CASE UNCHANGED vars
  <2>1. UNCHANGED <<folder, Emitted>>
    BY <1>24 DEF vars, Emitted, Truncated
  <2> QED
    BY <1>24, <2>1, Frame DEF vars
<1> QED
  BY <1>1, <1>2, <1>3, <1>4, <1>5, <1>6, <1>7, <1>8, <1>9, <1>10, <1>11, <1>12, <1>13,
     <1>14, <1>15, <1>16, <1>17, <1>18, <1>19, <1>20, <1>21, <1>22, <1>23, <1>24
     DEF Next, Main, Reader, Writer, Kernel, Ended

\* At the start nothing has been written.
LEMMA InitOrder == Init => OrderInv
<1> SUFFICES ASSUME Init PROVE OrderInv
  OBVIOUS
<1>1. Emitted = <<>>
  BY DEF Init, Emitted, Truncated
<1>2. Abs!InOrder(Emitted)
  BY <1>1 DEF Abs!InOrder
<1>3. entry \notin DOMAIN folder
  BY InitTypeInv, FolderFacts DEF TypeInv, Init
<1> QED
  BY <1>1, <1>2, <1>3
     DEF Init, OrderInv, EmptyInv, Empty, FullInv, Full, ReadingInv, WritingInv,
       EndInv, UnlinkedInv, EntryInv, Started

\* As long as nothing has failed the two threads agree on what has been written.
THEOREM Agreement == Spec => [](IInv /\ (Faultless => OrderInv))
<1>1. Init => IInv /\ OrderInv
  BY InitTypeInv, InitBaton, InitOrder DEF IInv
<1>2. IInv /\ [Next]_vars => IInv'
  BY NextTypeInv, NextBaton DEF IInv
<1>3. IInv /\ (Faultless => OrderInv) /\ [Next]_vars => (Faultless' => OrderInv')
  BY NextOrder, FaultlessBefore
<1> QED
  BY <1>1, <1>2, <1>3, PTL DEF Spec

\* As long as no operation has failed by chance, output.txt is a gapless prefix of the
\* concatenation, and all of it once writeThread has left its loop, for every directory
\* and every buffer size.
THEOREM WholeConcatenation == Spec => []WholeFile
<1>1. IInv /\ (Faultless => OrderInv) => WholeFile
  BY DEF IInv, Baton, Control, Stopping, Started, OrderInv, EndInv, WholeFile, Emitted,
         Truncated
<1> QED
  BY <1>1, Agreement, PTL

\* The pipeline refines the safety part of its promise (Concatenation) as long as nothing
\* has failed: every step appends the next bytes, or reports completion with nothing left
\* to write, or changes neither.
THEOREM Refinement == Spec => Concatenates
<1>1. Init => Abs!Init
  <2> SUFFICES ASSUME Init PROVE Abs!Init
    OBVIOUS
  <2>1. TypeOK
    BY InitTypeInv DEF TypeInv
  <2>2. Sizes \in Seq(Nat)
    BY <2>1, FolderFacts DEF Sizes
  <2> QED
    BY <2>2 DEF Init, Abs!Init, Truncated
<1>2. IInv /\ (Faultless => OrderInv) /\ [Next]_vars => [Faultless' => Abs!Next]_(Abs!vars)
  <2> SUFFICES ASSUME IInv, Faultless => OrderInv, [Next]_vars, Faultless'
               PROVE  [Abs!Next]_(Abs!vars)
    OBVIOUS
  <2>0. OrderInv /\ \A kind : ~Fault(kind)
    BY FaultlessBefore, NoFault
  <2>1. folder' = folder /\ Sizes' = Sizes
    <3>1. CASE Main
      BY <3>1 DEF Main, Load, Prepare, CreateReader, CreateWriter, JoinReader, JoinWriter, Sizes
    <3>2. CASE Reader
      BY <3>2 DEF Reader, OpenFolder, LockWriteCompleted, StartRead, Crash, FinishRead,
           CollectRead, NextFile, Advance, ToEntry, StopRead, LastSignal, SignalRead, Sizes
    <3>3. CASE Writer
      BY <3>3 DEF Writer, OpenOutput, LockReadCompleted, StopWrite, StartWrite, FinishWrite,
           SignalWritten, Sizes
    <3>4. CASE Kernel
      BY <3>4 DEF Kernel, CompleteRead, CompleteWrite, Sizes
    <3>5. CASE UNCHANGED vars
      BY <3>5 DEF vars, Sizes
    <3> QED
      BY <3>1, <3>2, <3>3, <3>4, <3>5 DEF Next, Ended
  <2>2. CASE CompleteWrite
    <3>1. UNCHANGED mpc /\ mpc # "done"
      BY <2>2 DEF CompleteWrite, mainVars, IInv, Baton, Control, Operation
    <3>2. CASE FailedWrite
      BY <2>1, <3>1, <3>2 DEF FailedWrite, Emitted, Abs!vars
    <3>3. CASE ChunkWritten
      <4> DEFINE piece == fileInfo.buffer
      <4>1. /\ piece \in Abs!Piece /\ Abs!Follows(Abs!LastPiece(Emitted), piece)
            /\ Emitted' = Append(Emitted, piece)
        BY <3>3 DEF ChunkWritten, ChunkIs, Last
      <4>2. piece = [file |-> piece.file, from |-> piece.from, to |-> piece.to]
        BY <4>1 DEF Abs!Piece
      <4>3. /\ piece.file \in DOMAIN Sizes
            /\ piece.from \in 0..Sizes[piece.file] /\ piece.to \in 0..Sizes[piece.file]
        BY <4>1, FolderFacts DEF Abs!Follows, Abs!Piece, Sizes, IInv, TypeInv
      <4>4. Abs!Write
        BY <2>1, <3>1, <4>1, <4>2, <4>3 DEF Abs!Write, Emitted
      <4> QED
        BY <4>4 DEF Abs!Next
    <3> QED
      BY <2>0, <2>2, <3>2, <3>3, WriteCompletes
  <2>3. CASE JoinWriter
    <3>1. Abs!AtEnd(Emitted) /\ UNCHANGED <<folder, Emitted>>
      BY <2>0, <2>3 DEF JoinWriter, OrderInv, EndInv, Emitted, Truncated, writerVars
    <3> QED
      BY <2>1, <2>3, <3>1 DEF JoinWriter, Abs!Finish, Abs!Next, Emitted
  <2>4. CASE Crash
    <3>1. UNCHANGED Emitted /\ mpc # "done" /\ mpc' # "done"
      BY <2>0, <2>4 DEF Crash, OrderInv, UnlinkedInv, Emitted, Truncated, IInv, Baton, Control
    <3> QED
      BY <2>1, <3>1 DEF Emitted, Abs!vars
  <2>5. CASE ~CompleteWrite /\ ~JoinWriter /\ ~Crash
    <3>1. UNCHANGED Emitted /\ (mpc' = "done" <=> mpc = "done")
      <4>1. CASE Main
        <5>1. CASE CreateWriter
          BY <5>1 DEF CreateWriter, IInv, Baton, Control, Emitted, Truncated
        <5> QED
          BY <2>5, <4>1, <5>1
             DEF Main, Load, Prepare, CreateReader, CreateWriter, JoinReader, writerVars,
               Emitted, Truncated
      <4>2. CASE Reader
        BY <2>5, <4>2 DEF Reader, OpenFolder, LockWriteCompleted, StartRead, FinishRead,
             CollectRead, NextFile, Advance, ToEntry, StopRead, LastSignal, SignalRead, mainVars,
             writerVars, Emitted, Truncated
      <4>3. CASE Writer
        BY <2>0, <4>3 DEF Writer, OpenOutput, LockReadCompleted, StopWrite,
             StartWrite, FinishWrite, SignalWritten, mainVars, Emitted, Truncated
      <4>4. CASE Kernel
        BY <2>5, <4>4 DEF Kernel, CompleteRead, mainVars, writerVars, Emitted, Truncated
      <4>5. CASE UNCHANGED vars
        BY <4>5 DEF vars, mainVars, writerVars, Emitted, Truncated
      <4> QED
        BY <4>1, <4>2, <4>3, <4>4, <4>5 DEF Next, Ended
    <3> QED
      BY <2>1, <3>1 DEF Emitted, Abs!vars
  <2> QED
    BY <2>2, <2>3, <2>4, <2>5
<1> QED
  BY <1>1, <1>2, Agreement, PTL DEF Spec, Concatenates

-----------------------------------------------------------------------------
(****************************************************************************)
(* What failures may do to the output.  The argument: whatever fails, what  *)
(* the two threads hand over to each other is what was read last; the bytes *)
(* before it have been offered to the writer, unless reading failed; and    *)
(* reading goes back by one byte for each failure, in both files.           *)
(****************************************************************************)

\* The last piece in the file, whoever put it there.
Final == Abs!LastPiece(output)

\* What the threads find when it is their turn, whatever has failed.
Handover ==
  /\ rpc \in {"none", "opendir"} => readResult = 0 /\ Final.file = 0
  /\ entry \in DOMAIN folder => folder[entry].kind # "dot"
  /\ rpc = "reading" => /\ aio.op = "read" /\ aio.fildes = readFileHeader
                        /\ aio.offset = fileInfo.positionInFile
  /\ rpc = "eof" => readResult = 0
  /\ rpc = "last" => ~readStop
  /\ ~readCompleted /\ Started => rpc = "lock" \/ (rpc = "exited" /\ ~readStop)
  /\ wpc \in {"check", "writing", "signal"} =>
       rpc = "lock" \/ (rpc = "exited" /\ wpc = "check" /\ ~readStop)
  /\ Full => fileInfo.transferred = readResult /\ readResult # 0
  /\ wpc = "writing" => readResult # 0
  /\ wpc = "writing" /\ aio.pending =>
       /\ aio.op = "write" /\ aio.fildes = outputFileHeader
       /\ aio.offset = fileInfo.positionOutFile /\ aio.nbytes = fileInfo.transferred

\* The descriptor is one that cannot be read.
Refused == readFileHeader = Failed \/ IsDirectory(readFileHeader)

\* The output ends before the byte number p of file f.
Before(f, p) == p \in Nat /\ (Final.file < f \/ (Final.file = f /\ Final.to <= p))

\* The n bytes from p on of the current file are in the buffer, and not in the output.
Unwritten(p, n) ==
  /\ n > 0 /\ readFileHeader = entry /\ Before(entry, p)
  /\ fileInfo.buffer = [file |-> entry, from |-> p, to |-> p + n]

\* No piece of out overlaps the one before it, or lies before it.
Ascending(out) ==
  \A i \in 2..Len(out) :
    \/ out[i - 1].file < out[i].file
    \/ out[i - 1].file = out[i].file /\ out[i - 1].to <= out[i].from

\* Without failing reads the reader only moves forward, and the output follows it.
Forward ==
  /\ Ascending(output)
  /\ Empty => \/ readResult = 0 /\ Final.file < entry
              \/ readResult > 0 /\ readFileHeader = entry /\ Before(entry, fileInfo.positionInFile)
              \/ readResult = -1 /\ Refused
  /\ Full => \/ readResult = -1 /\ Refused
             \/ /\ Unwritten(fileInfo.buffer.from, readResult)
                /\ fileInfo.positionInFile = fileInfo.buffer.to
  /\ rpc = "reading" /\ aio.pending =>
       Refused \/ (readFileHeader = entry /\ Before(entry, aio.offset))
  /\ rpc = "reading" /\ ~aio.pending =>
       \/ aio.result = -1 /\ Refused
       \/ aio.result = 0 /\ readFileHeader = entry /\ Before(entry, aio.offset)
       \/ Unwritten(aio.offset, aio.result)
  /\ rpc = "eof" => Final.file <= entry

\* The bytes before p of file f, and of the files before it, have been written.
Covered(f, p) ==
  /\ IsFile(f) /\ p \in Nat
  /\ \/ Last.file = f /\ p <= Last.to /\ Last.to <= folder[f].size
     \/ p = 0 /\ Abs!NextFileIs(Last, f)

\* Reading file f at p fails for ever, or goes on with what has to be written next.
Resumes(f, p) == p = -1 \/ IsDirectory(f) \/ Covered(f, p)

\* Nothing is missing before the chunk in the buffer.
NextChunk(p, n) ==
  /\ n > 0 /\ Covered(entry, p) /\ p + n <= folder[entry].size
  /\ fileInfo.buffer = [file |-> entry, from |-> p, to |-> p + n]

\* After n more bytes have been written the position in output.txt is not behind the
\* one in the input file: it is not negative unless that one is.
Ahead(n) == fileInfo.positionInFile <= Clamp(fileInfo.positionOutFile + n)

\* No piece of out leaves out a byte between the one before it and itself.
Gapless(out) ==
  \A i \in 1..Len(out) :
    LET prev == IF i = 1 THEN Abs!Nothing ELSE out[i - 1]
    IN  \/ out[i].file = prev.file /\ out[i].from <= prev.to
        \/ out[i].from = 0 /\ Abs!NextFileIs(prev, out[i].file)

\* If only reads fail, the reader may go back, but the output follows it without a gap.
NothingMissing ==
  /\ Gapless(Emitted)
  /\ wpc \notin {"none", "open", "killed"} => outputFileHeader = Out
  /\ rpc \in {"none", "opendir"} => Emitted = <<>> /\ fileInfo.positionOutFile >= 0
  /\ Empty =>
       \/ readResult = 0 /\ Abs!NextFileIs(Last, entry) /\ fileInfo.positionOutFile >= 0
       \/ /\ readResult # 0 /\ readFileHeader = entry /\ Resumes(entry, fileInfo.positionInFile)
          /\ Ahead(IF wpc = "writing" THEN aio.result ELSE 0)
  /\ Full =>
       /\ readFileHeader = entry /\ Ahead(readResult)
       /\ \/ readResult = -1 /\ Resumes(entry, fileInfo.positionInFile)
          \/ /\ NextChunk(fileInfo.buffer.from, readResult)
             /\ fileInfo.positionInFile = fileInfo.buffer.to
  /\ rpc = "reading" =>
       /\ readFileHeader = entry /\ Ahead(0)
       /\ aio.pending => Resumes(entry, aio.offset)
       /\ ~aio.pending =>
            \/ aio.result = -1 /\ Resumes(entry, aio.offset)
            \/ aio.result = 0 /\ Covered(entry, aio.offset) /\ folder[entry].size <= aio.offset
            \/ NextChunk(aio.offset, aio.result)
  /\ rpc = "eof" => Covered(entry, folder[entry].size) /\ fileInfo.positionOutFile >= 0

-----------------------------------------------------------------------------

\* Faults are counted for good,
LEMMA FaultsStay == [Next]_vars => faults.kinds \subseteq faults'.kinds
<1> SUFFICES ASSUME [Next]_vars PROVE faults' = faults \/ \E kind : Fault(kind)
  BY DEF Fault
<1>1. CASE Main
  BY <1>1 DEF Main, Load, Prepare, CreateReader, CreateWriter, JoinReader, JoinWriter
<1>2. CASE Reader
  BY <1>2
     DEF Reader, OpenFolder, LockWriteCompleted, StartRead, Crash, FinishRead, CollectRead,
       NextFile, Advance, ToEntry, StopRead, LastSignal, SignalRead
<1>3. CASE Writer
  BY <1>3
     DEF Writer, OpenOutput, LockReadCompleted, StopWrite, StartWrite, FinishWrite,
       SignalWritten
<1>4. CASE Kernel
  BY <1>4 DEF Kernel, CompleteRead, CompleteWrite
<1> QED
  BY <1>1, <1>2, <1>3, <1>4 DEF Next, Ended, vars

\* and one that has not been counted does not happen.
LEMMA NotFailing == ASSUME NEW kind, kind \notin faults'.kinds PROVE ~Fault(kind)
BY DEF Fault

\* Whatever fails, each thread finds what the other one left for it.
LEMMA HandoverKept == ASSUME IInv, Handover, [Next]_vars PROVE Handover'
<1> USE DEF IInv, TypeInv, TypeOK, HasEntry, Baton, Control, Token, Started,
        Stopping, Operation, ReaderHolds, WriterHolds, mutexes, mainVars, readerVars,
        writerVars, FileHeader, Aiocb, Position
<1> USE DEF Handover, Full, Final
<1>1. CASE Load
  BY <1>1 DEF Load
<1>2. CASE Prepare
  BY <1>2 DEF Prepare, Aiocb
<1>3. CASE CreateReader
  BY <1>3 DEF CreateReader
<1>4. CASE CreateWriter
  BY <1>4 DEF CreateWriter
<1>5. CASE JoinReader
  BY <1>5 DEF JoinReader
<1>6. CASE JoinWriter
  BY <1>6 DEF JoinWriter
<1>7. CASE OpenFolder
  BY <1>7 DEF OpenFolder, NextEntry
<1>8. CASE LockWriteCompleted
  BY <1>8 DEF LockWriteCompleted
<1>9. CASE StartRead
  <2>1. /\ rpc = "start" /\ rpc' = "reading" /\ aio'.op = "read"
        /\ aio'.fildes = readFileHeader' /\ aio'.offset = fileInfo'.positionInFile
    <3>1. \E p : SubmitRead(readFileHeader', p)
      BY <1>9 DEF StartRead
    <3> QED
      BY <1>9, <3>1 DEF StartRead, SubmitRead
  <2>2. UNCHANGED <<folder, mutexes, mainVars, entry, readResult, writerVars, output>>
    BY <1>9 DEF StartRead
  <2> QED
    BY <2>1, <2>2
<1>10. CASE Crash
  BY <1>10 DEF Crash
<1>11. CASE FinishRead
  <2>1. UNCHANGED <<folder, mutexes, aio, mainVars, entry, readFileHeader, writerVars, output>>
    BY <1>11 DEF FinishRead, CollectRead
  <2>2. /\ rpc = "reading" /\ readResult' = aio.result /\ fileInfo'.transferred = aio.result
        /\ rpc' = IF aio.result = 0 THEN "eof" ELSE "signal"
    BY <1>11 DEF FinishRead, CollectRead
  <2> QED
    BY <2>1, <2>2
<1>12. CASE NextFile
  BY <1>12 DEF NextFile, Advance, ToEntry, NextEntry
<1>13. CASE StopRead
  BY <1>13 DEF StopRead
<1>14. CASE LastSignal
  BY <1>14 DEF LastSignal
<1>15. CASE SignalRead
  BY <1>15 DEF SignalRead
<1>16. CASE CompleteRead
  <2>1. UNCHANGED <<folder, mutexes, mainVars, readerVars, writerVars, output>>
    BY <1>16 DEF CompleteRead
  <2>2. /\ rpc = "reading" /\ ~aio'.pending
        /\ UNCHANGED <<aio.op, aio.fildes, aio.offset, fileInfo.positionInFile,
                       fileInfo.transferred>>
    BY <1>16 DEF CompleteRead, Complete
  <2> QED
    BY <2>1, <2>2
<1>17. CASE OpenOutput
  <2>1. Final'.file = 0 \/ UNCHANGED output
    BY <1>17 DEF OpenOutput, Abs!LastPiece, Abs!Nothing
  <2> QED
    BY <1>17, <2>1 DEF OpenOutput
<1>18. CASE LockReadCompleted
  BY <1>18 DEF LockReadCompleted
<1>19. CASE StopWrite
  BY <1>19 DEF StopWrite
<1>20. CASE StartWrite
  <2>1. UNCHANGED <<folder, mutexes, mainVars, readerVars, outputFileHeader, output>>
    BY <1>20 DEF StartWrite
  <2>2. /\ wpc = "check" /\ readStop /\ wpc' = "writing"
        /\ aio'.op = "write" /\ aio'.fildes = outputFileHeader
        /\ aio'.offset = fileInfo.positionOutFile /\ aio'.nbytes = fileInfo.transferred
        /\ UNCHANGED <<fileInfo.positionOutFile, fileInfo.transferred, fileInfo.positionInFile>>
    BY <1>20 DEF StartWrite
  <2> QED
    BY <2>1, <2>2
<1>21. CASE FinishWrite
  <2>1. UNCHANGED <<folder, mutexes, aio, mainVars, readerVars, outputFileHeader, output>>
    BY <1>21 DEF FinishWrite
  <2>2. wpc = "writing" /\ wpc' = "signal" /\ ~aio.pending /\ rpc = "lock"
    BY <1>21 DEF FinishWrite
  <2> QED
    BY <2>1, <2>2
<1>22. CASE SignalWritten
  BY <1>22 DEF SignalWritten
<1>23. CASE CompleteWrite
  <2>1. UNCHANGED <<folder, mutexes, fileInfo, mainVars, readerVars, writerVars>>
    BY <1>23 DEF CompleteWrite
  <2>2. wpc = "writing" /\ rpc = "lock" /\ ~aio'.pending
    BY <1>23 DEF CompleteWrite, Complete
  <2> QED
    BY <2>1, <2>2
<1>24. CASE UNCHANGED vars
  BY <1>24 DEF vars
<1> QED
  BY <1>1, <1>2, <1>3, <1>4, <1>5, <1>6, <1>7, <1>8, <1>9, <1>10, <1>11, <1>12, <1>13,
     <1>14, <1>15, <1>16, <1>17, <1>18, <1>19, <1>20, <1>21, <1>22, <1>23, <1>24
     DEF Next, Main, Reader, Writer, Kernel, Ended

\* The last piece is a piece, also when it is left from an earlier run.
LEMMA FinalIsPiece == TypeOK => Final \in Abs!Piece
BY LastPieceType DEF TypeOK, Final

\* A piece that lies behind the last one keeps the pieces in order.
LEMMA AppendAscending ==
  ASSUME NEW out \in Seq(Abs!Piece), NEW q \in Abs!Piece, Ascending(out),
         \/ Abs!LastPiece(out).file < q.file
         \/ Abs!LastPiece(out).file = q.file /\ Abs!LastPiece(out).to <= q.from
  PROVE  Ascending(Append(out, q))
<1> DEFINE new == Append(out, q)
<1>1. ASSUME NEW i \in 2..Len(new)
      PROVE  \/ new[i - 1].file < new[i].file
             \/ new[i - 1].file = new[i].file /\ new[i - 1].to <= new[i].from
  <2>1. CASE i = Len(out) + 1
    <3>1. new[i] = q /\ new[i - 1] = Abs!LastPiece(out)
      BY <2>1, AppendFacts
    <3> QED
      BY <3>1
  <2>2. CASE i # Len(out) + 1
    <3>1. i \in 2..Len(out) /\ i - 1 \in 1..Len(out)
      BY <2>2, AppendFacts
    <3>2. new[i] = out[i] /\ new[i - 1] = out[i - 1]
      BY <3>1, AppendFacts
    <3> QED
      BY <3>1, <3>2 DEF Ascending
  <2> QED
    BY <2>1, <2>2
<1> QED
  BY <1>1 DEF Ascending

\* A step that leaves the output alone leaves its end alone.
LEMMA FinalFrame ==
  ASSUME UNCHANGED output
  PROVE  /\ Final' = Final /\ (Ascending(output)' <=> Ascending(output))
         /\ \A f, p : Before(f, p)' <=> Before(f, p)
BY DEF Final, Ascending, Before, Abs!LastPiece

\* A write adds at most the bytes that the last read reported, from the start of the
\* buffer on, or nothing.
LEMMA WriteAddsLastRead ==
  ASSUME IInv, Handover, CompleteWrite
  PROVE  /\ rpc = "lock" /\ wpc = "writing" /\ Full /\ Empty' /\ ~Full' /\ ~aio'.pending
         /\ UNCHANGED <<folder, fileInfo, mutexes, mainVars, readerVars, writerVars>>
         /\ \/ UNCHANGED output
            \/ \E n \in 1..readResult :
                 output' = Append(output, [fileInfo.buffer EXCEPT !.to = fileInfo.buffer.from + n])
<1> USE DEF IInv, TypeInv, TypeOK, Baton, Operation, FileHeader, Aiocb, Position
<1>1. /\ rpc = "lock" /\ wpc = "writing" /\ aio.pending /\ ~aio'.pending
      /\ UNCHANGED <<folder, fileInfo, mutexes, mainVars, readerVars, writerVars>>
  BY DEF CompleteWrite, Complete, Handover
<1>2. Full /\ aio.nbytes = readResult /\ Empty' /\ ~Full'
  BY <1>1 DEF Full, Empty, Handover, mutexes, mainVars, readerVars, writerVars, Token, Started,
         Control, WriterHolds
<1>3. output' = output \/ \E n \in 1..readResult : AppendBytes(n)
  <2>1. CASE Writable /\ AppendBytes(aio.nbytes)
    <3>1. readResult \in 1..readResult /\ AppendBytes(readResult)
      BY <1>2, <2>1 DEF Writable, Handover
    <3> QED
      BY <3>1
  <2>2. CASE \E n \in 1..aio.nbytes - 1 : AppendBytes(n)
    BY <1>2, <2>2
  <2>3. CASE UNCHANGED output
    BY <2>3
  <2> QED
    BY <2>1, <2>2, <2>3, Zenon DEF CompleteWrite
<1> QED
  BY <1>1, <1>2, <1>3 DEF AppendBytes

\* As long as no read has failed by chance the output only grows towards the end of the
\* concatenation.
LEMMA ForwardKept ==
  ASSUME IInv, Handover, Forward, [Next]_vars, "read" \notin faults'.kinds
  PROVE  Forward'
<1>0. ~Fault("read")
  BY NotFailing
<1> USE DEF IInv, TypeInv, TypeOK, HasEntry, Baton, Control, Token, Started,
        Stopping, Operation, ReaderHolds, WriterHolds, mutexes, mainVars, readerVars,
        writerVars, FileHeader, Aiocb, Position
<1> USE DEF Handover, Forward, Full, Empty, Refused, Unwritten, IsFile, IsDirectory
<1>1. CASE Load
  BY <1>1, FinalFrame DEF Load
<1>2. CASE Prepare
  BY <1>2, FinalFrame DEF Prepare, Aiocb
<1>3. CASE CreateReader
  BY <1>3, FinalFrame DEF CreateReader
<1>4. CASE CreateWriter
  BY <1>4, FinalFrame DEF CreateWriter
<1>5. CASE JoinReader
  BY <1>5, FinalFrame DEF JoinReader
<1>6. CASE JoinWriter
  BY <1>6, FinalFrame DEF JoinWriter
<1>7. CASE OpenFolder
  <2>1. rpc' = "lock" => entry' \in Nat /\ 0 < entry'
    BY <1>7, FolderFacts DEF OpenFolder, NextEntry
  <2> QED
    BY <1>7, <2>1, FinalFrame DEF OpenFolder
<1>8. CASE LockWriteCompleted
  BY <1>8, FinalFrame DEF LockWriteCompleted
<1>9. CASE StartRead
  <2>1. UNCHANGED <<folder, mutexes, mainVars, entry, readResult, writerVars, output>>
    BY <1>9 DEF StartRead
  <2>2. /\ rpc = "start" /\ rpc' = "reading" /\ aio'.pending
        /\ Refused' \/ (readFileHeader' = entry /\ Before(entry, aio'.offset))
    <3>1. CASE readResult = 0
      <4>1. SubmitRead(readFileHeader', 0) /\ (readFileHeader' = entry \/ readFileHeader' = Failed)
        BY <1>9, <3>1 DEF StartRead, FirstPosition
      <4>2. aio'.offset = 0 /\ aio'.pending
        BY <4>1 DEF SubmitRead
      <4>3. Before(entry, 0)
        BY <1>9, <3>1 DEF StartRead, Before
      <4> QED
        BY <1>9, <4>1, <4>2, <4>3 DEF StartRead
    <3>2. CASE readResult # 0
      <4>1. SubmitRead(readFileHeader, fileInfo.positionInFile) /\ UNCHANGED readFileHeader
        BY <1>9, <3>2 DEF StartRead
      <4>2. aio'.offset = fileInfo.positionInFile /\ aio'.pending
        BY <4>1 DEF SubmitRead
      <4> QED
        BY <1>9, <2>1, <3>2, <4>1, <4>2 DEF StartRead
    <3> QED
      BY <3>1, <3>2
  <2> QED
    BY <2>1, <2>2, FinalFrame
<1>10. CASE Crash
  BY <1>10, FinalFrame DEF Crash
<1>11. CASE FinishRead
  <2>1. UNCHANGED <<folder, mutexes, aio, mainVars, entry, readFileHeader, writerVars, output,
                    fileInfo.buffer>>
    BY <1>11 DEF FinishRead, CollectRead
  <2>2. /\ rpc = "reading" /\ ~aio.pending /\ readResult' = aio.result
        /\ fileInfo'.positionInFile = Clamp(aio.offset + aio.result)
        /\ rpc' = IF aio.result = 0 THEN "eof" ELSE "signal"
    BY <1>11 DEF FinishRead, CollectRead
  <2>3. CASE aio.result = 0
    BY <2>1, <2>2, <2>3, FinalFrame, FinalIsPiece, FolderFacts DEF Before, Abs!Piece
  <2>4. CASE aio.result = -1 /\ Refused
    BY <2>1, <2>2, <2>4, FinalFrame
  <2>5. CASE Unwritten(aio.offset, aio.result)
    <3>1. fileInfo'.positionInFile = aio.offset + aio.result
      BY <2>2, <2>5 DEF Clamp, Before
    <3> QED
      BY <2>1, <2>2, <2>5, <3>1, FinalFrame
  <2> QED
    BY <2>2, <2>3, <2>4, <2>5
<1>12. CASE NextFile
  <2>1. entry \in Nat /\ entry' \in Nat /\ entry < entry'
    BY <1>12, FolderFacts DEF NextFile, Advance, ToEntry, NextEntry
  <2>2. Final.file \in Nat
    BY FinalIsPiece DEF Abs!Piece
  <2> QED
    BY <1>12, <2>1, <2>2, FinalFrame DEF NextFile, Advance, ToEntry
<1>13. CASE StopRead
  BY <1>13, FinalFrame DEF StopRead
<1>14. CASE LastSignal
  BY <1>14, FinalFrame DEF LastSignal
<1>15. CASE SignalRead
  BY <1>15, FinalFrame DEF SignalRead
<1>16. CASE CompleteRead
  <2>1. UNCHANGED <<folder, mutexes, mainVars, readerVars, writerVars, output>>
    BY <1>16 DEF CompleteRead
  <2>2. rpc = "reading" /\ aio.pending /\ ~aio'.pending /\ aio'.offset = aio.offset
    BY <1>16 DEF CompleteRead, Complete
  <2>3. CASE Refused
    <3>1. ~Readable
      BY <2>2, <2>3 DEF Readable
    <3>2. aio'.result = -1
      BY <1>0, <1>16, <3>1 DEF CompleteRead, Complete
    <3> QED
      BY <2>1, <2>2, <2>3, <3>2, FinalFrame
  <2>4. CASE ~Refused
    <3>1. readFileHeader = entry /\ Before(entry, aio.offset) /\ Readable
      BY <2>2, <2>4, FolderFacts DEF Readable, Before
    <3>2. PICK n \in ReadCounts(folder[entry].size) :
            /\ Complete(n)
            /\ fileInfo' = IF n = 0 THEN fileInfo
                           ELSE [fileInfo EXCEPT !.buffer =
                                   [file |-> entry, from |-> aio.offset, to |-> aio.offset + n]]
      BY <1>0, <1>16, <2>2, <3>1 DEF CompleteRead
    <3>3. aio'.result = n /\ n \in Nat
      BY <3>2 DEF Complete, ReadCounts
    <3>4. n # 0 => fileInfo'.buffer = [file |-> entry, from |-> aio.offset, to |-> aio.offset + n]
      BY <3>2
    <3> QED
      BY <2>1, <2>2, <3>1, <3>3, <3>4, FinalFrame
  <2> QED
    BY <2>3, <2>4
<1>17. CASE OpenOutput
  <2>1. CASE UNCHANGED output
    BY <1>17, <2>1, FinalFrame DEF OpenOutput
  <2>2. CASE output' = <<>>
    <3>1. Ascending(output)' /\ Final'.file = 0
      BY <2>2 DEF Ascending, Final, Abs!LastPiece, Abs!Nothing
    <3>2. entry \in DOMAIN folder => entry \in Nat /\ entry > 0
      BY FolderFacts
    <3>3. \A f \in Nat : \A p : f > 0 /\ p \in Nat => Before(f, p)'
      BY <3>1 DEF Before
    <3>4. \A p : Before(entry, p) => p \in Nat
      BY DEF Before
    <3> QED
      BY <1>17, <3>1, <3>2, <3>3, <3>4 DEF OpenOutput
  <2> QED
    BY <1>17, <2>1, <2>2 DEF OpenOutput
<1>18. CASE LockReadCompleted
  BY <1>18, FinalFrame DEF LockReadCompleted
<1>19. CASE StopWrite
  BY <1>19, FinalFrame DEF StopWrite
<1>20. CASE StartWrite
  <2>1. UNCHANGED <<folder, mutexes, mainVars, readerVars, outputFileHeader, output>>
    BY <1>20 DEF StartWrite
  <2>2. /\ wpc = "check" /\ readStop /\ wpc' = "writing" /\ aio'.pending
        /\ UNCHANGED <<fileInfo.positionInFile, fileInfo.buffer>>
    BY <1>20 DEF StartWrite
  <2> QED
    BY <2>1, <2>2, FinalFrame
<1>21. CASE FinishWrite
  <2>1. UNCHANGED <<folder, mutexes, aio, mainVars, readerVars, outputFileHeader, output>>
    BY <1>21 DEF FinishWrite
  <2>2. /\ wpc = "writing" /\ wpc' = "signal" /\ ~aio.pending /\ rpc = "lock"
        /\ UNCHANGED <<fileInfo.positionInFile, fileInfo.buffer>>
    BY <1>21 DEF FinishWrite
  <2> QED
    BY <2>1, <2>2, FinalFrame
<1>22. CASE SignalWritten
  BY <1>22, FinalFrame DEF SignalWritten
<1>23. CASE CompleteWrite
  <2>1. /\ rpc = "lock" /\ wpc = "writing" /\ Full /\ Empty' /\ ~Full' /\ ~aio'.pending
        /\ UNCHANGED <<folder, fileInfo, mutexes, mainVars, readerVars, writerVars>>
    BY <1>23, WriteAddsLastRead
  <2>2. CASE UNCHANGED output
    <3>1. Unwritten(fileInfo.buffer.from, readResult) /\ fileInfo.positionInFile = fileInfo.buffer.to
            => Before(entry, fileInfo.positionInFile)
      BY FinalIsPiece DEF Before, Abs!Piece
    <3> QED
      BY <2>1, <2>2, <3>1, FinalFrame
  <2>3. CASE output' # output
    <3>1. PICK n \in 1..readResult :
            output' = Append(output, [fileInfo.buffer EXCEPT !.to = fileInfo.buffer.from + n])
      BY <1>23, <2>3, WriteAddsLastRead
    <3> DEFINE p == fileInfo.buffer.from
               q == [file |-> entry, from |-> p, to |-> p + n]
    <3>2. Unwritten(p, readResult) /\ fileInfo.positionInFile = p + readResult /\ p \in Nat
      BY <2>1, <3>1 DEF Before
    <3>3. output' = Append(output, q)
      BY <3>1, <3>2
    <3>4. q \in Abs!Piece
      BY <3>2, FolderFacts DEF Abs!Piece
    <3>5. Ascending(output') /\ Final' = q
      BY <3>2, <3>3, <3>4, AppendAscending, AppendFacts DEF Before, Final
    <3>6. Before(entry, fileInfo.positionInFile)'
      BY <2>1, <3>2, <3>5 DEF Before
    <3>7. Ascending(output)'
      BY <3>5 DEF Ascending
    <3> HIDE DEF q, p
    <3> QED
      BY <2>1, <3>1, <3>2, <3>6, <3>7
  <2> QED
    BY <2>2, <2>3
<1>24. CASE UNCHANGED vars
  BY <1>24, FinalFrame DEF vars
<1> QED
  BY <1>1, <1>2, <1>3, <1>4, <1>5, <1>6, <1>7, <1>8, <1>9, <1>10, <1>11, <1>12, <1>13,
     <1>14, <1>15, <1>16, <1>17, <1>18, <1>19, <1>20, <1>21, <1>22, <1>23, <1>24
     DEF Next, Main, Reader, Writer, Kernel, Ended

\* A step that leaves the directory and the written bytes alone leaves these facts alone.
LEMMA CoverFrame ==
  ASSUME UNCHANGED <<folder, Emitted>>
  PROVE  /\ \A f, p : Covered(f, p)' <=> Covered(f, p)
         /\ \A f, p : Resumes(f, p)' <=> Resumes(f, p)
         /\ \A f : Abs!NextFileIs(Last, f)' <=> Abs!NextFileIs(Last, f)
         /\ Gapless(Emitted)' <=> Gapless(Emitted)
<1>1. /\ \A f : Abs!NextFileIs(Last, f)' <=> Abs!NextFileIs(Last, f)
      /\ Last' = Last /\ Sizes' = Sizes
  BY Frame DEF Sizes
<1>2. \A f, p : Covered(f, p)' <=> Covered(f, p)
  BY <1>1 DEF Covered, IsFile
<1>3. \A f, p : Resumes(f, p)' <=> Resumes(f, p)
  BY <1>2 DEF Resumes, IsDirectory
<1>4. Gapless(Emitted)' <=> Gapless(Emitted)
  BY <1>1 DEF Gapless, Abs!NextFileIs
<1> QED
  BY <1>1, <1>2, <1>3, <1>4

\* A failed read goes one byte back: to bytes that were written, or to -1 for good.
LEMMA GoesBack ==
  ASSUME TypeOK, NEW f, NEW p \in Position, Resumes(f, p)
  PROVE  Resumes(f, Clamp(p + -1))
<1>1. Last.to \in Nat
  BY LastIsPiece DEF Abs!Piece
<1> QED
  BY <1>1 DEF Resumes, Covered, Clamp, Position

\* The end of a file is reached only when all of it has been written.
LEMMA CoveredToEnd ==
  ASSUME TypeOK, NEW f \in DOMAIN folder, NEW p, Covered(f, p), folder[f].size <= p
  PROVE  p = folder[f].size /\ At(f, folder[f].size)
BY LastIsPiece, FolderFacts DEF Covered, At, Abs!Piece

\* A piece that leaves no gap behind the last one leaves none in the output.
LEMMA AppendGapless ==
  ASSUME NEW out \in Seq(Abs!Piece), NEW q \in Abs!Piece, Gapless(out),
         \/ q.file = Abs!LastPiece(out).file /\ q.from <= Abs!LastPiece(out).to
         \/ q.from = 0 /\ Abs!NextFileIs(Abs!LastPiece(out), q.file)
  PROVE  Gapless(Append(out, q))
<1> DEFINE new == Append(out, q)
           Prev(i) == IF i = 1 THEN Abs!Nothing ELSE new[i - 1]
<1>1. ASSUME NEW i \in 1..Len(new)
      PROVE  \/ new[i].file = Prev(i).file /\ new[i].from <= Prev(i).to
             \/ new[i].from = 0 /\ Abs!NextFileIs(Prev(i), new[i].file)
  <2>1. CASE i = Len(out) + 1
    <3>1. new[i] = q /\ Prev(i) = Abs!LastPiece(out)
      BY <2>1, AppendFacts
    <3> QED
      BY <3>1
  <2>2. CASE i # Len(out) + 1
    <3>1. i \in 1..Len(out) /\ (i # 1 => i - 1 \in 1..Len(out))
      BY <2>2, AppendFacts
    <3>2. new[i] = out[i] /\ Prev(i) = IF i = 1 THEN Abs!Nothing ELSE out[i - 1]
      BY <3>1, AppendFacts
    <3> QED
      BY <3>1, <3>2 DEF Gapless
  <2> QED
    BY <2>1, <2>2
<1> QED
  BY <1>1 DEF Gapless

\* If only reads fail, a write adds the whole chunk, or is refused after a failed read.
LEMMA ChunkOrRefusal ==
  ASSUME IInv, Handover, NothingMissing, CompleteWrite, ~Fault("write"), ~Fault("short")
  PROVE  \/ readResult = -1 /\ aio'.result = -1 /\ UNCHANGED output
         \/ /\ readResult > 0 /\ aio'.result = readResult
            /\ fileInfo.buffer \in Abs!Piece /\ output' = Append(output, fileInfo.buffer)
<1> USE DEF IInv, TypeInv, TypeOK, FileHeader, Aiocb, Position
<1>1. rpc = "lock" /\ wpc = "writing" /\ Full /\ aio.pending
  BY WriteAddsLastRead DEF CompleteWrite
<1>2. /\ aio.nbytes = readResult /\ aio.offset = fileInfo.positionOutFile
      /\ aio.fildes = Out /\ readResult # 0
  BY <1>1 DEF Handover, NothingMissing
<1>3. CASE readResult = -1
  <2>1. ~Writable
    BY <1>2, <1>3 DEF Writable
  <2>2. Complete(-1) /\ UNCHANGED output
    BY <2>1 DEF CompleteWrite
  <2> QED
    BY <1>3, <2>2 DEF Complete
<1>4. CASE readResult # -1
  <2>1. /\ NextChunk(fileInfo.buffer.from, readResult) /\ Ahead(readResult)
        /\ fileInfo.positionInFile = fileInfo.buffer.to
    BY <1>1, <1>4 DEF NothingMissing
  <2>2. Writable
    BY <1>2, <2>1 DEF Writable, NextChunk, Ahead, Clamp, Covered, Out, Failed
  <2>3. aio'.result = readResult /\ AppendBytes(readResult)
    BY <1>2, <2>2 DEF CompleteWrite, Complete
  <2>4. fileInfo.buffer = [fileInfo.buffer EXCEPT !.to = fileInfo.buffer.from + readResult]
    BY <2>1 DEF Abs!Piece, NextChunk
  <2>5. output' = Append(output, fileInfo.buffer)
    BY <1>2, <2>3, <2>4 DEF AppendBytes
  <2> QED
    BY <1>2, <1>4, <2>3, <2>5
<1> QED
  BY <1>3, <1>4

\* As long as nothing but reads has failed, the output has no gap.
LEMMA NothingMissingKept ==
  ASSUME IInv, Handover, NothingMissing, [Next]_vars, faults'.kinds \subseteq {"read"}
  PROVE  NothingMissing'
<1>0. ~Fault("open") /\ ~Fault("write") /\ ~Fault("short")
  BY NotFailing
<1> USE DEF IInv, TypeInv, TypeOK, HasEntry, Baton, Control, Token, Started,
        Stopping, Operation, ReaderHolds, WriterHolds, mutexes, mainVars, readerVars,
        writerVars, FileHeader, Aiocb, Position
<1> USE DEF Handover, NothingMissing, Full, Empty, NextChunk, Ahead
<1>1. CASE Load
  <2>1. UNCHANGED <<folder, Emitted>>
    BY <1>1 DEF Load, Emitted, Truncated
  <2> QED
    BY <1>1, <2>1, CoverFrame DEF Load
<1>2. CASE Prepare
  <2>1. UNCHANGED <<folder, Emitted>>
    BY <1>2 DEF Prepare, Aiocb, Emitted, Truncated
  <2> QED
    BY <1>2, <2>1, CoverFrame DEF Prepare, Aiocb
<1>3. CASE CreateReader
  <2>1. UNCHANGED <<folder, Emitted>>
    BY <1>3 DEF CreateReader, Emitted, Truncated
  <2> QED
    BY <1>3, <2>1, CoverFrame DEF CreateReader
<1>4. CASE CreateWriter
  <2>1. UNCHANGED <<folder, Emitted>>
    BY <1>4 DEF CreateWriter, Emitted, Truncated
  <2> QED
    BY <1>4, <2>1, CoverFrame DEF CreateWriter
<1>5. CASE JoinReader
  <2>1. UNCHANGED <<folder, Emitted>>
    BY <1>5 DEF JoinReader, Emitted, Truncated
  <2> QED
    BY <1>5, <2>1, CoverFrame DEF JoinReader
<1>6. CASE JoinWriter
  <2>1. UNCHANGED <<folder, Emitted>>
    BY <1>6 DEF JoinWriter, Emitted, Truncated
  <2> QED
    BY <1>6, <2>1, CoverFrame DEF JoinWriter
<1>7. CASE OpenFolder
  <2>1. UNCHANGED <<folder, Emitted>>
    BY <1>7 DEF OpenFolder, Emitted, Truncated
  <2>2. rpc' = "lock" => Abs!NextFileIs(Last, entry')
    BY <1>7, FirstEntry DEF OpenFolder
  <2> QED
    BY <1>7, <2>1, <2>2, CoverFrame DEF OpenFolder
<1>8. CASE LockWriteCompleted
  <2>1. UNCHANGED <<folder, Emitted>>
    BY <1>8 DEF LockWriteCompleted, Emitted, Truncated
  <2> QED
    BY <1>8, <2>1, CoverFrame DEF LockWriteCompleted
<1>9. CASE StartRead
  <2>1. UNCHANGED <<folder, Emitted, mutexes, mainVars, entry, readResult, writerVars>>
    BY <1>9 DEF StartRead, Emitted, Truncated
  <2>2. /\ rpc = "start" /\ rpc' = "reading" /\ aio'.pending /\ readFileHeader' = entry
        /\ aio'.offset = fileInfo'.positionInFile
        /\ fileInfo'.positionOutFile = fileInfo.positionOutFile
        /\ Resumes(entry, aio'.offset)
        /\ fileInfo'.positionInFile <= Clamp(fileInfo'.positionOutFile)
    <3>1. CASE readResult = 0
      <4>1. SubmitRead(readFileHeader', 0) /\ readFileHeader' = entry
        BY <1>0, <1>9, <3>1 DEF StartRead, FirstPosition
      <4>2. /\ aio'.offset = 0 /\ aio'.pending /\ fileInfo'.positionInFile = 0
            /\ fileInfo'.positionOutFile = fileInfo.positionOutFile
        BY <4>1 DEF SubmitRead
      <4>3. Abs!NextFileIs(Last, entry) /\ fileInfo.positionOutFile >= 0
        BY <1>9, <3>1 DEF StartRead
      <4>4. IsDirectory(entry) \/ IsFile(entry)
        BY <1>9, FolderFacts DEF StartRead, IsDirectory, IsFile
      <4>5. Resumes(entry, 0)
        BY <4>3, <4>4 DEF Resumes, Covered
      <4> QED
        BY <1>9, <4>1, <4>2, <4>3, <4>5 DEF StartRead, Clamp
    <3>2. CASE readResult # 0
      <4>1. SubmitRead(readFileHeader, fileInfo.positionInFile) /\ UNCHANGED readFileHeader
        BY <1>9, <3>2 DEF StartRead
      <4>2. /\ aio'.offset = fileInfo.positionInFile /\ aio'.pending
            /\ UNCHANGED <<fileInfo.positionInFile, fileInfo.positionOutFile>>
        BY <4>1 DEF SubmitRead
      <4> QED
        BY <1>9, <2>1, <3>2, <4>1, <4>2 DEF StartRead
    <3> QED
      BY <3>1, <3>2
  <2> QED
    BY <2>1, <2>2, CoverFrame
<1>10. CASE Crash
  <2>1. Emitted' = <<>> /\ rpc' = "killed" /\ wpc' = "killed"
    BY <1>10 DEF Crash, Emitted, Truncated
  <2>2. Gapless(Emitted)'
    BY <2>1 DEF Gapless
  <2> QED
    BY <1>10, <2>1, <2>2 DEF Crash
<1>11. CASE FinishRead
  <2>1. UNCHANGED <<folder, Emitted, mutexes, aio, mainVars, entry, readFileHeader, writerVars,
                    fileInfo.buffer, fileInfo.positionOutFile>>
    BY <1>11 DEF FinishRead, CollectRead, Emitted, Truncated
  <2>2. /\ rpc = "reading" /\ ~aio.pending /\ readResult' = aio.result
        /\ fileInfo'.positionInFile = Clamp(aio.offset + aio.result)
        /\ rpc' = IF aio.result = 0 THEN "eof" ELSE "signal"
    BY <1>11 DEF FinishRead, CollectRead
  <2>3. fileInfo'.positionInFile <= Clamp(fileInfo.positionOutFile + aio.result)
    BY <2>2 DEF Clamp
  <2>4. CASE aio.result = 0 /\ Covered(entry, aio.offset) /\ folder[entry].size <= aio.offset
    <3>1. aio.offset = folder[entry].size
      BY <2>2, <2>4, CoveredToEnd
    <3>2. fileInfo.positionOutFile >= 0
      BY <2>2, <2>4 DEF Covered, Clamp
    <3> QED
      BY <2>1, <2>2, <2>4, <3>1, <3>2, CoverFrame
  <2>5. CASE aio.result = -1 /\ Resumes(entry, aio.offset)
    <3>1. Resumes(entry, fileInfo'.positionInFile)
      BY <2>2, <2>5, GoesBack
    <3> QED
      BY <2>1, <2>2, <2>3, <2>5, <3>1, CoverFrame
  <2>6. CASE NextChunk(aio.offset, aio.result)
    <3>1. fileInfo'.positionInFile = aio.offset + aio.result
      BY <2>2, <2>6 DEF Clamp, Covered
    <3> QED
      BY <2>1, <2>2, <2>3, <2>6, <3>1, CoverFrame
  <2> QED
    BY <2>2, <2>4, <2>5, <2>6
<1>12. CASE NextFile
  <2>1. UNCHANGED <<folder, Emitted>>
    BY <1>12 DEF NextFile, Advance, ToEntry, Emitted, Truncated
  <2>2. At(entry, folder[entry].size)
    BY <1>12, FolderFacts, CoveredToEnd DEF NextFile, Advance, ToEntry
  <2>3. Abs!NextFileIs(Last, entry')
    BY <1>12, <2>2, EntryAfter DEF NextFile, Advance, ToEntry
  <2> QED
    BY <1>12, <2>1, <2>3, CoverFrame DEF NextFile, Advance, ToEntry
<1>13. CASE StopRead
  <2>1. UNCHANGED <<folder, Emitted>>
    BY <1>13 DEF StopRead, Emitted, Truncated
  <2> QED
    BY <1>13, <2>1, CoverFrame DEF StopRead
<1>14. CASE LastSignal
  <2>1. UNCHANGED <<folder, Emitted>>
    BY <1>14 DEF LastSignal, Emitted, Truncated
  <2> QED
    BY <1>14, <2>1, CoverFrame DEF LastSignal
<1>15. CASE SignalRead
  <2>1. UNCHANGED <<folder, Emitted>>
    BY <1>15 DEF SignalRead, Emitted, Truncated
  <2> QED
    BY <1>15, <2>1, CoverFrame DEF SignalRead
<1>16. CASE CompleteRead
  <2>1. UNCHANGED <<folder, Emitted, mutexes, mainVars, readerVars, writerVars>>
    BY <1>16 DEF CompleteRead, Emitted, Truncated
  <2>2. /\ rpc = "reading" /\ aio.pending /\ ~aio'.pending
        /\ UNCHANGED <<aio.offset, fileInfo.positionInFile, fileInfo.positionOutFile>>
    BY <1>16 DEF CompleteRead, Complete
  <2>3. CASE aio'.result = -1
    BY <2>1, <2>2, <2>3, CoverFrame
  <2>4. CASE aio'.result # -1
    <3>1. aio.fildes = entry /\ Readable
      BY <1>16, <2>2, <2>4 DEF CompleteRead, Complete
    <3>2. PICK n \in ReadCounts(folder[entry].size) :
            /\ Complete(n)
            /\ fileInfo' = IF n = 0 THEN fileInfo
                           ELSE [fileInfo EXCEPT !.buffer =
                                   [file |-> entry, from |-> aio.offset, to |-> aio.offset + n]]
      BY <1>16, <2>4, <3>1 DEF CompleteRead, Complete
    <3>3. /\ aio'.result = n /\ n \in Nat
          /\ IF aio.offset >= folder[entry].size THEN n = 0
                                ELSE 0 < n /\ aio.offset + n <= folder[entry].size
      BY <3>2 DEF Complete, ReadCounts
    <3>4. n # 0 => fileInfo'.buffer = [file |-> entry, from |-> aio.offset, to |-> aio.offset + n]
      BY <3>2
    <3>5. Covered(entry, aio.offset)
      BY <2>2, <3>1, FolderFacts DEF Resumes, Readable, IsDirectory
    <3>6. folder[entry].size \in Nat
      BY <2>2, FolderFacts
    <3> QED
      BY <2>1, <2>2, <3>3, <3>4, <3>5, <3>6, CoverFrame
  <2> QED
    BY <2>3, <2>4
<1>17. CASE OpenOutput
  <2>1. UNCHANGED <<folder, Emitted>> /\ outputFileHeader' = Out
    BY <1>0, <1>17 DEF OpenOutput, Emitted, Truncated
  <2> QED
    BY <1>17, <2>1, CoverFrame DEF OpenOutput
<1>18. CASE LockReadCompleted
  <2>1. UNCHANGED <<folder, Emitted>>
    BY <1>18 DEF LockReadCompleted, Emitted, Truncated
  <2> QED
    BY <1>18, <2>1, CoverFrame DEF LockReadCompleted
<1>19. CASE StopWrite
  <2>1. UNCHANGED <<folder, Emitted>>
    BY <1>19 DEF StopWrite, Emitted, Truncated
  <2> QED
    BY <1>19, <2>1, CoverFrame DEF StopWrite
<1>20. CASE StartWrite
  <2>1. UNCHANGED <<folder, Emitted, mutexes, mainVars, readerVars, outputFileHeader>>
    BY <1>20 DEF StartWrite, Emitted, Truncated
  <2>2. /\ wpc = "check" /\ readStop /\ wpc' = "writing" /\ aio'.pending
        /\ UNCHANGED <<fileInfo.positionInFile, fileInfo.positionOutFile, fileInfo.buffer>>
    BY <1>20 DEF StartWrite
  <2> QED
    BY <2>1, <2>2, CoverFrame
<1>21. CASE FinishWrite
  <2>1. UNCHANGED <<folder, Emitted, mutexes, aio, mainVars, readerVars, outputFileHeader>>
    BY <1>21 DEF FinishWrite, Emitted, Truncated
  <2>2. /\ wpc = "writing" /\ wpc' = "signal" /\ ~aio.pending /\ rpc = "lock"
        /\ UNCHANGED <<fileInfo.positionInFile, fileInfo.buffer>>
        /\ fileInfo'.positionOutFile = Clamp(fileInfo.positionOutFile + aio.result)
    BY <1>21 DEF FinishWrite
  <2>3. /\ readResult # 0 /\ readFileHeader = entry /\ Resumes(entry, fileInfo.positionInFile)
        /\ fileInfo.positionInFile <= Clamp(fileInfo.positionOutFile + aio.result)
    BY <2>2
  <2>4. fileInfo.positionInFile <= Clamp(fileInfo'.positionOutFile + 0)
    BY <2>2, <2>3 DEF Clamp
  <2> QED
    BY <2>1, <2>2, <2>3, <2>4, CoverFrame
<1>22. CASE SignalWritten
  <2>1. UNCHANGED <<folder, Emitted>>
    BY <1>22 DEF SignalWritten, Emitted, Truncated
  <2> QED
    BY <1>22, <2>1, CoverFrame DEF SignalWritten
<1>23. CASE CompleteWrite
  <2>1. /\ rpc = "lock" /\ wpc = "writing" /\ Full /\ Empty' /\ ~Full' /\ ~aio'.pending
        /\ UNCHANGED <<folder, fileInfo, mutexes, mainVars, readerVars, writerVars>>
    BY <1>23, WriteAddsLastRead
  <2>2. CASE readResult = -1 /\ aio'.result = -1 /\ UNCHANGED output
    <3>1. UNCHANGED <<folder, Emitted>>
      BY <2>1, <2>2 DEF Emitted, Truncated
    <3> QED
      BY <2>1, <2>2, <3>1, CoverFrame
  <2>3. CASE /\ readResult > 0 /\ aio'.result = readResult
             /\ fileInfo.buffer \in Abs!Piece /\ output' = Append(output, fileInfo.buffer)
    <3> DEFINE q == fileInfo.buffer
               new == Append(output, q)
    <3>1. Emitted = output /\ Emitted' = Append(output, q) /\ output \in Seq(Abs!Piece)
      BY <2>1, <2>3 DEF Emitted, Truncated
    <3>2. /\ NextChunk(q.from, readResult) /\ Ahead(readResult) /\ readFileHeader = entry
          /\ fileInfo.positionInFile = q.to
      BY <2>1, <2>3
    <3>3. Gapless(Append(output, q))
      BY <2>3, <3>1, <3>2, AppendGapless DEF Covered, Last
    <3>4. Last' = q
      BY <2>3, <3>1, AppendFacts DEF Last
    <3>5. Covered(entry, q.to)'
      BY <2>1, <2>3, <3>2, <3>4 DEF Covered, IsFile, Abs!Piece
    <3>6. Gapless(Emitted)'
      <4>1. Gapless(new) /\ Emitted' = new /\ Sizes' = Sizes
        BY <2>1, <3>1, <3>3 DEF Sizes
      <4> HIDE DEF new
      <4> QED
        BY <4>1 DEF Gapless, Abs!NextFileIs
    <3>7. Resumes(entry, fileInfo.positionInFile)'
      BY <2>1, <3>2, <3>5 DEF Resumes
    <3>8. Ahead(aio.result)'
      BY <2>1, <2>3, <3>2
    <3> HIDE DEF q, Ahead, NextChunk
    <3> QED
      BY <2>1, <2>3, <3>2, <3>6, <3>7, <3>8
  <2> QED
    BY <1>0, <1>23, <2>2, <2>3, ChunkOrRefusal
<1>24. CASE UNCHANGED vars
  <2>1. UNCHANGED <<folder, Emitted>>
    BY <1>24 DEF vars, Emitted, Truncated
  <2> QED
    BY <1>24, <2>1, CoverFrame DEF vars
<1> QED
  BY <1>1, <1>2, <1>3, <1>4, <1>5, <1>6, <1>7, <1>8, <1>9, <1>10, <1>11, <1>12, <1>13,
     <1>14, <1>15, <1>16, <1>17, <1>18, <1>19, <1>20, <1>21, <1>22, <1>23, <1>24
     DEF Next, Main, Reader, Writer, Kernel, Ended

\* At the start no piece has been written.
LEMMA InitAfterFaults == Init => Handover /\ Forward /\ NothingMissing
<1> SUFFICES ASSUME Init PROVE Handover /\ Forward /\ NothingMissing
  OBVIOUS
<1>1. Emitted = <<>>
  BY DEF Init, Emitted, Truncated
<1>2. Final.file = 0 /\ Len(output) \in {0, 1}
  BY DEF Init, Final, Abs!LastPiece, Abs!Nothing, Stale
<1>3. entry \notin DOMAIN folder
  BY InitTypeInv, FolderFacts DEF TypeInv, Init
<1>4. Gapless(Emitted) /\ Ascending(output)
  BY <1>1, <1>2 DEF Gapless, Ascending
<1> QED
  BY <1>1, <1>2, <1>3, <1>4
     DEF Init, Handover, Forward, NothingMissing, Empty, Full, Started

\* When writing fails or is cut short, output.txt has gaps, but the pieces in it are in order
\* and do not overlap; when reading fails, pieces are repeated, but no byte is missing:
\* for all directories and buffer sizes, and however often it happens.
THEOREM FailuresConfined == Spec => []AfterFaults
<1> DEFINE Inv == /\ IInv /\ Handover
                  /\ "read" \notin faults.kinds => Forward
                  /\ faults.kinds \subseteq {"read"} => NothingMissing
<1>1. Init => Inv
  BY InitTypeInv, InitBaton, InitAfterFaults DEF IInv
<1>2. Inv /\ [Next]_vars => Inv'
  BY NextTypeInv, NextBaton, HandoverKept, ForwardKept, NothingMissingKept, FaultsStay DEF IInv
<1>3. Inv => AfterFaults
  <2>1. Forward => \A i \in 2..Len(output) :
                     \/ output[i - 1].file < output[i].file
                     \/ output[i - 1].file = output[i].file /\ output[i - 1].to <= output[i].from
    BY DEF Forward, Ascending
  <2>2. NothingMissing /\ Truncated =>
          \A i \in 1..Len(output) :
            LET prev == IF i = 1 THEN Abs!Nothing ELSE output[i - 1]
            IN  \/ output[i].file = prev.file /\ output[i].from <= prev.to
                \/ output[i].from = 0 /\ Abs!NextFileIs(prev, output[i].file)
    BY DEF NothingMissing, Gapless, Emitted
  <2> QED
    BY <2>1, <2>2 DEF AfterFaults, OnceOnly, NoByteLost
<1> QED
  BY <1>1, <1>2, <1>3, PTL DEF Spec

=============================================================================
