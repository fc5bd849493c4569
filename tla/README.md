# Verification of Labs_SPO

TLA+ specifications of the programs in this repository: seven laboratory works on processes,
synchronisation, communication between processes, threads, asynchronous files, memory management
and file systems, most of them written once for Linux and once for Windows. The assignments are in
`src/SPO1.pdf` (in Russian); the reference for every definition here is the source.

Contents: 1 inventory, 2 plan, 3 modules, 4 runs, 5 fairness, 6 proofs, 7 what is left out,
8 disagreements between code and documents.

## 1. Inventory

| Part | State it keeps | Operations | Interaction | What is hard | Module |
|---|---|---|---|---|---|
| Lab_1 Linux, Windows | the process tree | fork, exec, wait; CreateProcess, wait | the parent waits for the child | which branch the exec'd program takes | `ProcessTree` |
| Lab_2 Windows | list of children, one named event each | `+`, `-`, `q`, printing rounds | events, busy waiting on both sides | an event set and reset by two processes that both poll it | `TurnTaking` |
| Lab_2_1 | list of children, one named semaphore each | the same | semaphores | the parent may take its own token; a child may start before its semaphore exists | `TurnTaking` |
| Lab_2 Linux | none | an empty `main` | | | none |
| Lab_3 Linux | two System V semaphores, a pipe | read a line, print a line, `/dis` | semaphores order the use of the pipe | undo counters, capacity of pipe and buffer, end of session | `LineServer` |
| Lab_3 Windows | two semaphores, a named pipe | the same, `\disconnect/` | named pipe between two programs | the server writes before a client is there, or is gone before the client is ready; long lines | `PipeServer` |
| Lab_4 Linux, Windows | stack of threads, one lock, mode of the terminal | `+`, `-`, `q`, printing loops | mutex or critical section | ending a thread that owns the lock; names read from memory that is gone | `Printers` |
| Lab_5 Linux | the global `fileInfo`, three mutexes | read a chunk, write a chunk, end | two threads, mutexes as semaphores, asynchronous I/O | end of file and of list, failures, stale positions | `FileHandler` |
| Lab_5 Windows | the global `fileInfo`, three events | the same | two threads, events, overlapped I/O | the same, and sharing violations | `FileThreads` |
| Lab_6 | tables of free blocks and of areas in use | Malloc, Free, Realloc, menu | none (sequential) | counters and table entries that drift apart, limits | `MemoryManager` |
| Lab_7 | none (the file system is a set of stubs) | command parser | none | a missing argument while arguments are still being read | `Shell` |
| Build directories | none | identification of the compiler, in the preprocessor | the build reads the program's strings | a group that hides a later one | `CompilerId` |

What makes each part correct: Lab 1, no process ends before its child; Labs 2 and 4, lines of
different printers never mix and every printer gets its turn; Lab 3, every line typed is printed,
in order, before the next is taken, and nobody blocks for ever; Lab 5, the output is the
concatenation of the inputs and the program says so at last; Lab 6, areas given out lie in the
memory and do not overlap, what is freed can be used again, and the books balance; Lab 7, the
command called is the one the help message promises (for arguments of one word, see section 8). The programs do not communicate with each
other: each laboratory work is a system of its own, and modules are composed within one (threads,
processes, kernel, shared state).

`PROJECT.json` lists every part with its status and every hazard with its line.

## 2. Plan

In the order of the weight of the behaviour; all of it is done.

1. Lab_5 Linux with its abstract specification `Concatenation`, safety and refinement proved.
2. Lab_5 Windows against the same `Concatenation`; safety and refinement proved.
3. Lab_3 Linux with its abstract specification `LineEcho`; safety and refinement proved.
4. Lab_6; safety proved for memories and tables of any size.
5. Lab_3 Windows against the same `LineEcho`; safety and refinement proved.
6. Lab_2 Windows and Lab_2_1 in one module, since they are one program with two kinds of kernel
   object, with the abstract specification `LinePrinter`; safety and refinement proved.
7. Lab_4 against the same `LinePrinter`; safety and refinement proved.
8. Lab_1 and its family relations proved; the parser of Lab_7, proved for any arguments; the
   identification of the compiler, by the run only.
9. For every part with processes or threads that wait for each other: that not all of them wait
   (`NoStandstill`), proved.

What is left to the runs is said at the end of section 6.

## 3. Modules

| Module | What it is |
|---|---|
| `Concatenation` | abstract: files are joined into one output, in order, every byte once, then completion is reported |
| `FileHandler` | `Lab_5/LINUX`: `file_handler.h`, `a_in_out.cpp`, `main.cpp` |
| `FileHandlerProofs` | theorems about `FileHandler`: whatever fails, and up to the first failure |
| `FileThreads`, `FileThreadsProofs` | `Lab_5/WIN`: `FileThreads.h`, `Source.cpp`, `aio.cpp` |
| `LineEcho` | abstract: a line is taken, printed, and then the next is taken |
| `LineServer`, `LineServerProofs` | `Lab_3/LINUX/src/main.cpp` |
| `PipeServer`, `PipeServerProofs` | `Lab_3/WIN`: `server/server.cpp`, `Lab_3/client.cpp`; the theorem about `Shell` is here too, since it needs the same lemmas about `FlattenSeq` |
| `LinePrinter` | abstract: printers come and go, and a line that was begun is not interrupted by another's |
| `TurnTaking`, `TurnTakingProofs` | `Lab_2/WIN/main.cpp`, `Lab_2_1/main.cpp` |
| `Printers`, `PrintersProofs` | `Lab_4/WIN/main.cpp`, `Lab_4/LINUX/main.cpp`, `getch.h` |
| `ProcessTree`, `ProcessTreeProofs` | `Lab_1/LINUX/main.cpp`, `Lab_1/WIN/main.cpp` |
| `MemoryManager`, `MemoryManagerProofs` | `Lab_6/WIN/main.cpp` |
| `Shell` | `Lab_7/WIN`: `main.cpp`, `handle_user_input.hpp`, `filesystem.hpp` |
| `CompilerId` | generated code: `CMakeCCompilerId.c`, `CMakeCXXCompilerId.cpp` in the build directories |
| `MC...` | small instances of the above |

Some definitions come with a variant, named in a comment, that has a plausible mistake in it
(`FirstPosition` and `KeptPosition`, say). No specification uses the variants; `PROJECT.json`
pairs them with the property that must then fail.

### FileHandler

One variable per thread holds the control point: `mpc` for `main`, `rpc` for `readThread`, `wpc`
for `writeThread`; the locals of the threads and the fields of the global `fileInfo` keep the
names of the source. An action ends where the code blocks or where the other thread can see a
difference: each `pthread_mutex_lock` and `pthread_mutex_unlock` that matters is a step, and each
asynchronous operation is three, the submission (`StartRead`, `StartWrite`), the completion by the
kernel (`CompleteRead`, `CompleteWrite`, external) and the collection of the result by the polling
loop (`FinishRead`, `FinishWrite`).

The mutexes are used as binary semaphores: one thread locks, the other unlocks, which the mutexes
of glibc do not check. `main` locks `readCompleted` and `readStop` before it starts the threads
(`Prepare`).

`Faults` names what may go wrong: `dlopen` (its result is not checked), `open`, `read`, `write`,
`short` (a write of fewer bytes). Reads of directories always fail, opening one does not.

Refinement to `Concatenation` (`Abs`): `sizes` are the sizes of the files in directory order, 0
for other entries; `output` is the output from the moment the writer has truncated it;
`finished` is `mpc = "done"`. Reading and all hand-shakes are stutters, a completed write is `Write`.

### FileThreads

The same structure with `threadReader` and `threadWriter`. The events `writerCompleted` and
`readerCompleted` are auto-reset, `readerStop` is manual-reset; a wait for two of them takes the
first that is set. Files are opened with share mode 0, so that a file that somebody has open cannot
be opened again: `opened` holds the entries with an open handle. `output.txt` may itself be one of
the `*.txt` files found. `InternalHigh`, from which the writer takes the number of bytes, is after
a failed read zero or what it was.

### LineServer

Parent (`ppc`) and child (`cpc`) with one action per system call; waiting for zero and changing a
semaphore are separate calls and separate actions. `AddTo` is `semop` with `SEM_UNDO`: it changes
the value and the undo total of the calling process, or leaves both alone when the total would
leave its range or the set is gone; the program ignores the result. A byte is known by its line
and its place in it, so that a text on the screen (`shown`) tells where its bytes come from. The
pipe has a capacity, the buffer is never cleared (the arguments of `memset` are exchanged), and
what `cout << buf` prints ends at the first NUL, or somewhere behind the buffer (`Past`).

Refinement to `LineEcho`: `typed` are the texts of the lines that `getline` returned, `shown` the
texts printed, and the session has ended once the parent has left its loop.

### MemoryManager

`heap` is the record of the tables and counters, with the names of the source; `Malloc`, `Free` and
`Realloc` are operators from a heap to a heap and a result, since the program is sequential and
`Realloc` calls the other two; the menu's commands are the actions. An access beyond a table leads to the state
`"undefined"`, where the model stops.

### TurnTaking

The parent (`ppc`) and each child (`cpc`) have their control point, the list `processes` gives a
child its place, and the place is the number of the kernel object: `signal` is the event's state or
the semaphore's count. Creating the process and creating its object are separate steps, in the
order of the program at hand, so that a child may find its object or not. A child that was
terminated makes no further step, but its handles, and with them the object, go away some time
later (`Vanish`), so that the next child of the same number may meet the old object. `CreateProcess`,
`CreateEvent` and `CreateSemaphore` may fail. In Lab_2 both sides poll: the parent's `SeeReset` and the
child's `SeeOwnReset` are steps that are enabled while the event is reset. A semaphore that is
released goes to the one who waits for it; with nobody waiting it stays, and the parent may take it
back (`WaitTurn`).

Refinement to `LinePrinter`: the printers are the children that live, the writer is the one in its
line.

### PipeServer

The server (`spc`), the client (`kpc`), the two semaphores and the pipe, which is first without a
client (`"listening"`), then connected, then left or closed. A write without a client is refused and the line is
remembered in `refused`; an empty line leaves a mark, since a `WriteFile` of no bytes wakes the
reader; a long line goes into the pipe in parts (`unsent`). The client opens the pipe (`Connect`) and
the semaphores (`OpenSemaphores`) in two steps; the server may close the pipe and exit in between
(`CloseServer`, `ExitServer`), the names are gone with it, and the client gives up (`OpenFails`). The client's buffer is cleared before each
read, and a full one is printed with what lies behind it (`Past`). Bytes are known by line and place, as in `LineServer`.

### Printers

One module for both systems, with the steps that only one of them has guarded by `platform`. A
thread is ended at any point on Windows (`CloseThread`); on Linux it is asked to end
(`CancelThread`) and does so at `usleep` or `putchar` only (`Cancel`), not while it waits for
the mutex. On Windows the thread reads its number from a block that `FreeParam` frees later; on Linux
it copies its name (`CopyString`) from a string of the loop body in main, which may be gone (any
number, or `Torn`). The keyboard on Linux is four steps that change the mode of the terminal
(`tty`, `saved`) and push a character back (`pushed`). When `main` is over, the process and its threads are.

Refinement to `LinePrinter`: the printers are the threads that live; the writer is whoever is
between taking and giving back the lock (`InLine`), a thread that was ended there included, and not
what the lock says: if several were there at once, the writer would be none of the printers
(`Several`), and no step of `LinePrinter` leads there. The promise goes as far as
`pthread_mutex_destroy` (`LockGone`): after it, on Linux, cancelled threads that nobody joined may
print together, and the model does so.

### ProcessTree

The chain of processes, with all that `main` looks at: the number of arguments and whether
`argv[0]` leads to a program. A wait without a child returns at once, with `ECHILD` (`Wait`). `MaxProcesses` is the limit of the system, at which `fork` and
`CreateProcess` fail.

### Shell

The arguments are joined with spaces and read again as words; an action per read, since each may
find the stream failed. An argument of the user is a sequence of words. The specification of the
result, `Promised`, is written from the help message and speaks of arguments: `cd` has one, and that is
the path. What the code makes of an argument with a space in it is not what it says; section 8.

### CompilerId

The chain of `#if` and `#elif` is a sequence of groups, each with the identification it announces, its
condition and its version; the first whose condition holds wins. This code is generated by CMake and
says nothing about how the programs behave; it is a large part of the sources by lines, and only
the chain is modelled, which is the part that can go wrong by its order.

## 4. Runs

| Run | Instance | Distinct states | Result |
|---|---|---|---|
| `FileHandler` | 26 directories, buffer of 2 bytes, up to 2 faults of any kind, functions found or not | 130165 | `Values`, `Exclusive`, `HandShakes`, `WholeFile`, `AfterFaults`, `Concatenates`, `Completes` hold |
| `FileThreads` | 26 directories of up to three files, two with `output.txt`, up to 2 faults of any kind | 23569 | `Exclusive`, `Chunks`, `NoStandstill`, `Concatenates`, `Completes` hold |
| `LineServer` | 213 sessions of up to 4 lines of 0 to 9 bytes, ended by `/dis` or by the end of the input; buffer 4, pipe 7, undo range 4 | 19220 | `TypeOK`, `Turns`, `Waits`, `Unmixed`, `Echoes`, `EveryLineShown` hold |
| `PipeServer` | 518 sessions of up to 3 lines of 0 to 9 bytes, with and without `\disconnect/`; buffer 4, pipe 6 | 20705 | `TurnInUse`, `Kept`, `Echoes`, `Serves` hold |
| `TurnTaking` | both programs, up to 3 children, any key at any time, failing calls | 9819 | `TurnInUse`, `AllClosed`, `NoLineCut`, `Implements`, `SemaphoresServe` hold |
| `TurnTakingEvents` | Lab_2, one child, nothing fails | 25 | `EveryChildPrints` is violated |
| `Printers` | both systems, up to 3 threads, any key at any time, failing calls | 169372 | `LockInLine`, `NoStray`, `OwnName`, `TerminalRestored`, `Implements`, `Prints` hold |
| `ProcessTree` | both systems, 0 to 2 arguments, up to 5 processes | 726 | `Family`, `ShortChain` hold |
| `MemoryManager` | 3 bytes, tables of 5 entries, 3 indices and one beyond, sizes 0 to 4, any sequence of commands | 446740 | `Books`, `CounterCovers`, `BlockZeroFits` hold |
| `MemoryManagerAreas` | 4 bytes, tables of 4 | about 20 until it is found | `OwnArea` is violated |
| `Shell` | all lists of up to 3 arguments out of 16 | 22718 | `Dispatches` holds |
| `CompilerId` | 1400 compilers of C and C++ | 2800 | `Recognised` holds |

What the properties say:

- `Exclusive` (both Lab_5 programs): the struct that nothing but signalling protects is used by one
  thread at a time, and the operation in progress is that thread's.
- `WholeFile`: as long as nothing has failed, the output is a gapless prefix of the concatenation, and
  all of it when the writer leaves: the stop does not overtake the last chunk, and nothing is
  written twice.
- `Concatenates` (Lab_5): up to the first failure every step is one of `Concatenation` or a stutter.
- `AfterFaults`: what is left of the promise when operations fail on Linux. `OnceOnly`: a failed write
  loses bytes but repeats none; `NoByteLost`: a failed read repeats bytes but loses none.
- `Chunks` (Windows): with the types and `WholeFile`, `TailOnly` (no write leaves a hole or
  overwrites another, after a failed write either), `NoChunkAbandoned` (none is left behind at the stop),
  `FilesInOrder`.
- `HandShakes`: no thread unlocks a mutex that is not locked, so that no notification is lost
  (`NoLostSignal`), and the threads do not all wait (`NoStandstill`). `Values`: the types, and no
  descriptor leaks (`OneDescriptor`).
- `NoStandstill` (part of `HandShakes`, `Waits`, `TurnInUse` and `Family` in other modules): some
  process or thread can go on, or an operation is in progress, or the program is over or with the
  user; the exceptions are situations of section 8. Each module lists what a process can do without the
  others (`MainCanGo`, `ServerCanGo` and so on), with the conditions of its blocking calls. Unlike
  the liveness properties it needs no fairness, and so can be proved.
- `Completes`: whatever fails, the programs end, except in the situations of section 8 that it names;
  if nothing fails, they are also as eager as `Concatenation` asks (`Proceeds`), completion included.
- `Turns`, `Waits` (Lab_3 Linux): the four `semop`s per round give strict turns although test
  and change are separate calls; the client never blocks in `read` (`ReadReady`), and the two
  processes wait for each other only when the undo range is used up or the pipe is full.
- `Unmixed`: a printed text is a stretch of one line; the buffer that is never cleared shows no
  remains, whatever the lengths.
- `Echoes`, `EveryLineShown` (Lab_3 Linux): as long as the lines fit, every step is one of
  `LineEcho` or a stutter, and every line is printed until the undo range is used up (`Answers`); with
  lines of any length the program stops for no other reasons than the end of the session, the undo
  range and a pipe that is full.
- `TurnInUse` (Lab_3 Windows): the turn is with the server, with the client, or in one semaphore, also
  when lines are typed before the client comes and after they are refused (`OneTurn`); and who has it
  can go on, unless a line was refused or the pipe is full (`NoStandstill`). `Kept`: screen, buffer, pipe and
  the bytes still to be written are together the lines sent, each byte once and in order, whatever the lengths.
  `Echoes`, `Serves`: with ordinary lines the programs refine `LineEcho`, no line is forgotten, and
  both end: the client too, though the server closes the pipe at once, except when the session was nothing but
  `\disconnect/` and over before the client had opened the semaphores (`MissedServer`).
- `TurnInUse`, `NoLineCut`, `AllClosed` (Labs 2 and 2_1): the right to print is in one place (`InTurn`),
  and while the parent waits the child whose turn it is can go on, except one with an event that is
  set again; no key ends a child in its line, although children are ended by force; `q` leaves no child. `Implements`: the
  lines never mix. `SemaphoresServe`: with semaphores every child in the list that found its semaphore prints
  again and again, although the parent may take back what it has released.
- `LockInLine`, `NoStray`, `OwnName`, `TerminalRestored` (Lab_4): no thread prints without the
  lock, also when others are ended inside it, until the mutex is destroyed, and from then on only threads that were
  cancelled before (`Guarded`); no thread owns
  it outside its line unless it was ended there (`HeldInLine`); no thread is left over by `-`, `q` or a
  failure; on Windows no number is read from a freed block; the terminal comes back to its mode on every path.
  `Implements`: until the mutex is destroyed the lines do not mix, and after a line that its thread could
  not finish no other follows. `Prints`: printing stops only if a thread was ended inside the lock.
- `Family`, `ShortChain` (Lab_1): processes end after their children, parents and no others print as
  parents, and one of them can always go on; and although each process starts the program that starts the
  next, there are never more than three, unless on Linux a program called `some_arg` exists.
- `CounterCovers`, `Books`, `BlockZeroFits` (Lab_6): the counter of areas in use never falls below the
  number of occupied entries, although Free leaves holes and Malloc overwrites entries in use, and
  so never wraps around; the counters keep to their ranges (`TypeOK`) and available and used memory
  never exceed what there is (`Accounting`); Malloc always takes
  block 0 and fails for lack of memory only.
- `Dispatches` (Lab_7): there is one call, with as many words as the command has parameters, also when a
  command turns into help while its arguments are read; and when each argument is one word, the call is
  the one the help message promises.
- `Recognised` (`CompilerId`), with nothing but the file itself to compare with: no group wins that
  asks for a part of what another group asks for whose condition is true as well, and no compiler is
  announced as one that it is said to imitate; the imitated version is the one that the imitated compiler's own
  group announces (`OwnName`); and a later release is announced with a later version, across the changes
  of the encoding (`LaterVersion`).

Bounds and why they are enough. Lab_5: all the code does with a length is compare it with zero and
with the buffer size, so a buffer of 2 bytes with files of 0 to 5 bytes has files
that are empty, smaller, equal, larger, and of several chunks; two files with an entry between
them show every transition from file to file, and one directory has two files around an empty one.
Safety and refinement are proved for all sizes and directories. `MaxFaults` bounds the faults; two
are needed for a failure that meets the traces of another. Lab_3: nothing but comparisons with the
buffer, the pipe and the undo range happens to lengths; the instances have values on both sides of
each, and three lines show a remainder of one turn meeting the next. `MaxAdjust` stands for `SEMAEM`
(32767), which only sets the round at which an operation is refused; the state space of an endless
session is finite because of it. Labs 2 and 4: `MaxStarts` bounds how many children or threads are
ever started; three let one be ended while another prints and a third takes its number; the safety properties are
proved for any number. Lab_1: the longest chain has three processes (`ShortChain`), so that `MaxProcesses = 5`
is beyond it, and `fork` may fail in any of them. Lab_6: every Free and Malloc uses up a table entry, so that the
tables end every behaviour; five entries allow two areas in use, holes before and behind them, an
overwritten entry, and further operations on what is left. Lab_7: no command has more than two
arguments; three arguments, some of several words, are more than any reads. `CompilerId`: each group
has versions on both sides of a change of its encoding, and beside its own macros every choice of those of GNU,
Clang and MSVC.

Deadlock is checked except where the program stops for good: `FileHandler` and `FileThreads` (no
file: the writer and `main` wait for ever), `LineServer` (a refused operation, a full pipe),
`PipeServer` (a line refused before the client came; the programs end), `CompilerId`, which is one step. Elsewhere the only
states without a step of the program are its ends, which have a stuttering action (`Ended`, `Over`,
`Done`). What stops must be told from what waits by a liveness property in each of these modules.

## 5. Fairness

`FileHandler` and `FileThreads` assume weak fairness of each thread (`Main`, `Reader`, `Writer`) and
of the kernel: the operating system schedules every runnable thread, nothing in the code can
disable an enabled wait of the other side (each signal has one taker), and an operation submitted
completes. `LineServer` and `PipeServer` assume weak fairness of the two processes but none of
`GetLine`: nothing makes a user type; the client of `PipeServer` is started at last. `TurnTaking`
and `Printers` assume weak fairness of the parent or `main` and of each child or thread, and none of
the keys; in `Printers` a thread may wait for the lock for ever while others take it, and `Prints`
says only that somebody prints. Strong fairness is assumed nowhere. `ProcessTree`, `MemoryManager`,
`Shell` and `CompilerId` have no liveness property and assume no fairness.

## 6. Proofs

All with TLAPS, from the assumptions on constants that the modules state. Every safety property and
every safety refinement of section 4 is a theorem, except `Recognised` of `CompilerId`.

That not everybody waits (`NoStandstill`) is proved along one line in each module. The invariants below
say where the right to go on is, and it is always somewhere; what has to be added is that whoever has
it finds what it needs: a peer that has been started and not ended, a mutex, event or semaphore in the right
state, a pipe with something in it.

`FileHandlerProofs`, for any directories, buffer size, faults, and answers of `dlsym`:

- `TypeCorrect`: `Spec => []TypeOK`;
- `Exclusion`: `Spec => []Exclusive`;
- `SignalsKept`: `Spec => []HandShakes`;
- `NoLeak`: `Spec => []Values`;
- `FailuresConfined`: `Spec => []AfterFaults`;
- `WholeConcatenation`: `Spec => []WholeFile`;
- `Refinement`: `Spec => Concatenates`: the initial states map to those of `Concatenation`, and
  every step after which nothing has failed maps to one of its steps or a stutter.

`Exclusive` is not inductive: nothing in it says why the writer is not in its stretch when the
reader enters. The strengthening `IInv` says where the right to use `fileInfo` is: with
`writeCompleted` (unlocked), in the reader's stretch, with `readCompleted` (unlocked), or in the writer's
stretch, in one of the four at a time (`Token`); that `readStop` is unlocked only by a reader that
leaves (`Stopping`); what the threads may be doing while `main` is at a given point (`Control`);
whose operation is in progress (`Operation`); and that the reader has an entry (`HasEntry`). One
lemma per action shows that it keeps `IInv`. For `HandShakes` the invariant `Someone` adds which threads have
been started, and that a reader that has left its loop has freed both mutexes, so that the writer
takes one after the other and `main` is let go.

`WholeFile` and the refinement speak of executions in which no operation has failed by chance
(`Faultless`); directories may have subdirectories all the same.
The invariant `OrderInv` says that the two threads agree, at each point of the exchange, on how
much of the current file is in the output: when the buffer is empty the output ends where the next
read starts (`EmptyInv`); when it is full its contents follow the output immediately (`FullInv`);
while a read or a write is in progress its arguments are those (`ReadingInv`, `WritingInv`); and when the
reader has left its loop the output is complete (`EndInv`).

After failures less is known, and `AfterFaults` needs other invariants. `Handover` says what the
threads find when it is their turn. Without failing reads the reader only moves
forward and the output ends before the place where it reads (`Forward`), so that no
byte is written twice. With failing reads only, the reader may go back but the output has no gap
(`NothingMissing`); that needs the position in the output to be no smaller than the one in the
input file (`Ahead`), since one that has become negative makes every further operation fail.

`FileThreadsProofs`, for any directory, buffer size and faults:

- `NeverStuck`: `Spec => []NoStandstill`;
- `NeverShared` (`Exclusive`), `StopComesLast` (`NoChunkAbandoned`), `TypesKept` (`TypeOK`),
  `WritesAtTheEnd` (`TailOnly`), `OrderKept` (`FilesInOrder`), `WholeConcatenation` (`WholeFile`), and
  with them `ChunksKept`: `Spec => []Chunks`;
- `Refinement`: `Spec => Concatenates`.

Exclusion and the order of the stop follow the argument above with two auto-reset events and one
that stays set. For `NoStandstill`, as long as there is a file, one of the events is set or one of the
threads is on its way to set it (`Someone`). `TypesKept` needs that the reader has a file (`HasEntry`, `InFile`).
`TailInv` says that the writer's position is the length of the output except between a
successful write and the addition to the position (`Unmoved`). `FilesInOrder` holds since neither
the buffer nor the output is ever ahead of the reader. For the concatenation `OrderInv` has the parts it
has on Linux, and `SmoothInv`, what is open and what cannot have happened when nothing failed.

`LineServerProofs`, for any input, any size of the buffer and of the pipe, and any range of undo
values:

- `TypeCorrect`: `Spec => []TypeOK`;
- `TurnsKept`: `Spec => []Turns`;
- `WaitsEnd`: `Spec => []Waits`;
- `StretchesPrinted`: `Spec => []Unmixed`;
- `LinesEchoed`: `Spec => Echoes`, the refinement of `LineEcho`.

`Turns` rests on the semaphores, and they on the kernel granting every operation, which it does
only while the undo totals stay in their range. The strengthening (`IInv`) therefore follows both: a
round goes through `ServerFirst(n)`, `ServerBusy(n)`, `ClientFirst(n)`, `ClientBusy(n)`, each with
the values of the semaphores and how often either process has raised and released (`Counts`).
The totals of the server are never behind those of the client, so the first operation
refused is the server's release of the client in round `MaxAdjust`; after it (`Refused`) both wait and
nobody has a turn, which is the one way to a standstill besides the full pipe. `PipeInv` says that a
line is in the pipe when the client is let through.

`Unmixed` is about the remains of long lines, which meet the next line in the pipe and in the buffer. The
reason it holds is the NUL that is written with each line: in the bytes on their way (`Sent`) one
line goes on from byte to byte unless a NUL stands between (`Running`), and outside a write
the last of them is a NUL (`SentInv`); what was read fills the buffer or ends with a NUL, and so
hides what is left from before (`BufferInv`). The refinement speaks of lines that fit, and there the turn tells
where the line typed last is (`InStep`): printed already (`Answered`), or still on its way and whole
(`Pending`).

`PipeServerProofs`, for any input and any sizes:

- `TurnKept`: `Spec => []OneTurn`, and `TurnUsed`: `Spec => []TurnInUse`;
- `StreamKept`: `Spec => []Kept`;
- `LinesEchoed`: `Spec => Echoes`, the refinement of `LineEcho`.

The sum over semaphores and control points in `OneTurn` is inductive together with what the pipe's
state says of the two programs. `Stream` is inductive together with the types and `FlowInv`, which says
what the control points and the pipe's state mean for the bytes. It is an equation between concatenations
of any number of texts: the
community module's `FlattenSeq` is a recursive function, whose equation `Joined` is shown to solve;
that it distributes over appending and concatenation is induction over the index, carried out as
the argument that there is no least index at which it fails (`LeastOfNats`). `Echoes` follows with
`InStep` as in `LineServerProofs`. `TurnUsed` rests on two observations. Until a line is refused, the
client is let in only when the pipe holds something, also for an empty line, because of its mark
(`WaitInv`). And the client ends only after the server: it ends on "\disconnect/", no line is typed after
that one, and the server leaves before it would wait again (`EndInv`); for this the bytes on
their way must be of lines that were typed (`LineInv`).

`CommandsDispatched` in the same module: `ShellSpec => []Dispatches` of `Shell`, for any words and argument
lists. Arguments of one word each are the words that are read, since joining sequences of one element
gives their elements (`FlattenSingles`, again by a least index). `ReadInv` says for each control point what is still in the stream, which command the words read so far
leave, and with which arguments.

`MemoryManagerProofs`, for any sizes of the memory, the tables and the areas:

- `TypesKept`: `Spec => []TypeOK`;
- `EntriesCounted`: `Spec => []CounterCovers`;
- `MemoryBalanced`: `Spec => []Accounting`, and `BooksBalance`: `Spec => []Books`;
- `OneBlockServes`: `Spec => []BlockZeroFits`.

The invariant `HeapInv` has the occupied entries counted and where the searches look (`Counted`),
block 0 as large as the memory for ever (`BlockZero`), and the books balanced (`Balanced`). It
is shown for the operators first: `TakeKeeps` and `GiveKeeps`, then `Malloc`, `Free` and `Realloc`, which
are built of them. What is used below is a sum over a set of entries; that it changes by one
entry's size when an entry is added, removed or changed (`SumRemove`, `SumSame`) is shown with a smallest
set of entries for which it would not.

`TurnTakingProofs`, for both programs, any number of children, with and without failing calls:

- `TypesKept`: `Spec => []TypeOK`;
- `RightInOnePlace`: `Spec => []TurnInUse`;
- `NobodyLeftBehind`: `Spec => []AllClosed`;
- `LinesWhole`: `Spec => NoLineCut`;
- `ChildrenPrintLines`: `Spec => Implements`, the refinement of `LinePrinter`.

A signal leads to one child because a child that lives has its place in the list, which is the
number of its object, or was started this moment, or is alone after a failure (`Places`); who has a
handle is said by `Handles`; and `Turns` is `InTurn` with what events add, that the event stays set
until its child resets it after the line. `OneWriter` follows, and with it the refinement. That the
turn is used needs that a child in the list is not ended (`Alive`), and that a semaphore the parent
waits for, when it is not free, is with the child that prints (`Taken`).

`PrintersProofs`, for both systems, any number of threads, with and without failing calls:

- `TypesKept`, `LineLocked` (`LockInLine`), `NoThreadLeftOver` (`NoStray`), `NumberReadInTime`
  (`OwnName`), `TerminalKept` (`TerminalRestored`);
- `ThreadsPrintLines`: `Spec => Implements`, the refinement of `LinePrinter` up to the destruction of the mutex.
  While the mutex is there, who is in its line owns it (`LockInLine`), so that there is one writer at most.

The invariant adds where `main` is and what that says of the list (`Control`), the threads not
started yet (`Fresh`) and the saved mode (`Terminal`): the mutex is destroyed only when the list is empty,
so that who prints without owning it was cancelled before.

`ProcessTreeProofs`: `TypesKept`, `FamilyKept` (`Family`), `ThreeAtMost` (`ShortChain`), for any limit of
processes. The last process of the chain that is not over has no child to wait for, and so can go on
(`LastOne`, `SomeoneGoes`). `Third` adds to `ShortChain` what a second and a third process have as arguments and
that the third can start nothing.

Only model-checked: everything temporal that rests on fairness (`Completes`, `Serves`,
`EveryLineShown`, `SemaphoresServe`, `Prints`), since liveness is beyond the prover; of these,
`NoStandstill` is the part that can be proved, that nobody is left without a next step, and not that the
steps lead to the end. And `Recognised`: it says of generated code what holds for
numbers encoded as the makers do. Induction over data is available to the
proofs only in the form of a least counterexample, and is used where a theorem needs it.

## 7. What is left out

- Console output other than lines that are printed; contents of files and memory, since no code looks at them.
- Lab_2 Linux: its `main` is empty, there is nothing to model.
- Lab_3 Linux: more than one instance (`get_key` gives one of ten keys, so that two instances may
  share a set); lines with NUL bytes in them; signals other than the `SIGKILL` at the end.
- Lab_3 Windows: the end of the user's input; more than one run of the server.
- Lab_4: a signal that arrives while the terminal is in raw mode; the locks inside the C run-time library, which a terminated thread may hold as well;
  that the non-blocking mode set on the standard input is shared with the standard output when both are one terminal.
- Lab_5: `dlclose`, error numbers, the order in which entries are listed (any order is a
  directory of its own). Negative file offsets are all kept as -1; the kernel refuses each. The
  copies of the sources in the build directories are identical and are not modelled twice.
- Lab_6: input that is not a number. What an access beyond a table does; that index 64 passes the
  check of line 47 is in the model (an index beyond), what lies there is not.
- `CompilerId`: platform, architecture, dialect, `COMPILER_VERSION_INTERNAL` and `main`; the characters around the
  announced values; a compiler for the other language.
- Build files, project files, precompiled headers: no behaviour of the programs.

## 8. Disagreements between code and documents

Two are runs (and entries under "findings", with the lines they contradict):

- `TurnTakingEvents`: after its line the child resets its event and polls it until it is reset; the
  parent may already have set it for the next turn, and both poll for ever.
- `MemoryManagerAreas`: from the second Malloc on every area has the address 1.

The models also reach the following; properties name them as exceptions, or do not speak of them:

- Lab_1 Linux: the program started by `execl` (line 24) gets one argument, not the two by which the branch
  for the child is chosen (line 14), so it takes itself for a parent and forks once more: three processes
  instead of two (`ShortChain`), of which the third fails in `execl`.
- Lab_2_1: a child that starts before its semaphore exists leaves, but stays in the list
  (`SemaphoresServe` leaves it out).
- Lab_3 Linux: `SEM_UNDO` totals grow with every line; after 32767 lines a release is refused, and
  both wait for ever (`Exhausted`). A line longer than the pipe blocks both (`PipeFull`). A line of
  `BUFSIZE` bytes or more is printed with what lies behind the buffer and delays or swallows the
  next (`Fitting`). At the end of the input the loop goes on with the line it has, or an empty one.
- Lab_3 Windows: a line typed before the client is connected is refused, the client is let through
  all the same and waits in `ReadFile` for a line that the server will not write (`Ordinary`). A line
  longer than the pipe blocks both, as on Linux. A server that is told `\disconnect/` and exits after the client
  has opened the pipe, but not yet the semaphores, leaves the client without them: it ends with
  `EXIT_FAILURE` and has not read what is in the pipe (`MissedServer`).
- Lab_4: on Linux the mutex is destroyed under cancelled threads that were not joined; until the process
  ends they may print together (`LockGone`). A thread ended inside the lock leaves it locked and no thread prints any more (`Abandoned`), on Linux
  with `pthread_cancel` as well as on Windows with `TerminateThread`. On Linux a thread may have the name of
  another, or a torn one. On Windows an entry without a thread stays in the list when a thread could not be started.
- Lab_5: with no `./files`, or nothing in it, the reader returns without a signal, and the writer
  and `main` wait for ever (`NoEntryAfter(0)`; on Windows `folder = <<>>`). On Linux
  `a_in_out.cpp` exports C++ names, `dlsym` looks for C names, and the answer is not checked
  (`SymbolFound`, `Crash`); a subdirectory is read without end (`ReadRefused`); one failed read moves
  the position back by one, and a byte is written twice. On Windows an `output.txt` among the inputs
  ends the program before the files that follow it.
- Lab_6: Realloc can overwrite the entry of another area, which then cannot be freed; repeated
  Realloc runs over the end of the tables (`"undefined"`).
- Lab_7: the result of `tolower` is dropped, so that commands in upper case are not known. The help message
  speaks of a path, a file name and so on, each of them one argument; `handle_user_input` joins the arguments with spaces and
  takes them apart at every space, so that `--cd "a b"` calls `cd` with `a`, and `--rename "a b"`, which has
  one argument, calls `rename` with two (`OneWordEach`).
