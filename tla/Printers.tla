------------------------------ MODULE Printers ------------------------------
(****************************************************************************)
(* Lab_4/WIN/main.cpp and Lab_4/LINUX/main.cpp with getch.h: threads that   *)
(* print their lines under one lock, added by '+', ended by '-' and 'q'.    *)
(*   "windows"  a critical section; a thread is ended by TerminateThread,   *)
(*              wherever it is; its number is in a block on the heap;       *)
(*   "linux"    a mutex; a thread is ended by pthread_cancel, which takes   *)
(*              effect in usleep and putchar only; its name is read from a  *)
(*              string on the stack of main.  The keyboard is read in       *)
(*              getch.h, which switches the terminal to and fro.            *)
(*                                                                          *)
(* Abstractions.  A name is its number.  A string read while main builds    *)
(* the next one in its place is Torn.  A block freed before it is read      *)
(* gives Torn as well.                                                      *)
(****************************************************************************)
EXTENDS Integers, Sequences

CONSTANTS
  Platforms,   \* which of the two programs: a subset of {"windows", "linux"}
  MaxStarts,   \* bound on how often a thread is started, or fails to
  Failures     \* may HeapAlloc, CreateThread, pthread_create, pthread_mutex_init fail?

ASSUME PlatformsAssumption == Platforms \subseteq {"windows", "linux"}
ASSUME MaxStartsAssumption == MaxStarts \in Nat
ASSUME FailuresAssumption == Failures \in BOOLEAN

Thread == 1..MaxStarts
NoThread == 0
Ghost == -1      \* the entry that new_thread leaves when it fails
NoName == -1
Torn == -2
Several == -3    \* no single thread: the lines of more than one are on the screen

Mode == [ICANON : BOOLEAN, ECHO : BOOLEAN, NONBLOCK : BOOLEAN]

VARIABLES
  platform,
  mpc,        \* main: control point
  threads,    \* main: the list
  started,    \* number of threads started, or not started because of a failure
  closing,    \* main: how many threads are still to be ended
  afterwards, \* main: where it goes then
  lock,       \* the thread that owns the critical section or the mutex
  destroyed,  \* is the mutex destroyed?
  tpc,        \* threads: control point
  number,     \* threads: the number it was started with
  name,       \* threads: the name it has read
  cancelled,  \* threads: is there a request to cancel it?
  allocated,  \* threads: is its block on the heap allocated?
  built,      \* the number of the string on the stack of main
  tty,        \* mode of the terminal
  saved,      \* getch.h: the mode to go back to
  pushed      \* getch.h: is a character pushed back?

keyboard == <<tty, saved, pushed>>
mainVars == <<mpc, threads, started, closing, afterwards>>
threadVars == <<tpc, number, name, cancelled, allocated>>
vars == <<platform, mainVars, lock, destroyed, threadVars, built, keyboard>>

Init ==
  /\ platform \in Platforms
  /\ mpc = "start" /\ threads = <<>> /\ started = 0 /\ closing = 0 /\ afterwards = "poll"
  /\ lock = NoThread /\ destroyed = FALSE
  /\ tpc = [t \in Thread |-> "none"]
  /\ number = [t \in Thread |-> 0] /\ name = [t \in Thread |-> NoName]
  /\ cancelled = [t \in Thread |-> FALSE] /\ allocated = [t \in Thread |-> FALSE]
  /\ built = NoName
  /\ tty = [ICANON |-> TRUE, ECHO |-> TRUE, NONBLOCK |-> FALSE]
  /\ saved = tty /\ pushed = FALSE

Back == threads[Len(threads)]
Rest == SubSeq(threads, 1, Len(threads) - 1)
Live(t) == tpc[t] \notin {"none", "dead"}
Over == mpc \in {"done", "failed"}

\* The threads whose line is on the screen, not finished: those that print, with the lock or
\* without, and one that was ended in its line and left the lock behind.
InLine == {t \in Thread : tpc[t] \in {"print", "unlock"} \/ lock = t}

Writer ==
  IF InLine = {} THEN NoThread
  ELSE IF \E t \in Thread : InLine = {t} THEN CHOOSE t \in InLine : TRUE ELSE Several

Abs == INSTANCE LinePrinter
         WITH Printer <- Thread, NoOne <- NoThread,
              printers <- {t \in Thread : Live(t)}, writer <- Writer

\* The mutex is destroyed under the threads that were cancelled and not joined.
LockGone == destroyed /\ platform = "linux"

-----------------------------------------------------------------------------
(* Main *)

\* InitializeCriticalSection; pthread_mutex_init.
Start ==
  /\ mpc = "start"
  /\ mpc' \in {"poll"} \cup (IF platform = "linux" /\ Failures THEN {"failed"} ELSE {})
  /\ UNCHANGED <<platform, threads, started, closing, afterwards, lock, destroyed, threadVars,
                 built, keyboard>>

\* _kbhit and _getch, when a key was pressed.
Pressed ==
  /\ mpc = "poll" /\ platform = "windows" /\ mpc' = "key"
  /\ UNCHANGED <<platform, threads, started, closing, afterwards, lock, destroyed, threadVars,
                 built, keyboard>>

\* kbhit: no line mode, no echo, no blocking for one getchar; what it reads is pushed back.
KbHitEnter ==
  /\ mpc = "poll" /\ platform = "linux" /\ mpc' = "peek"
  /\ saved' = tty
  /\ tty' = [ICANON |-> FALSE, ECHO |-> FALSE, NONBLOCK |-> TRUE]
  /\ UNCHANGED <<platform, threads, started, closing, afterwards, lock, destroyed, threadVars,
                 built, pushed>>

\* Variant: the mode is restored only when there was no key.
KbHitLeaveRaw ==
  /\ mpc = "peek"
  /\ pushed' \in BOOLEAN
  /\ tty' = IF pushed' THEN tty ELSE saved
  /\ mpc' = IF pushed' THEN "getch" ELSE "poll"
  /\ UNCHANGED <<platform, threads, started, closing, afterwards, lock, destroyed, threadVars,
                 built, saved>>

KbHitLeave ==
  /\ mpc = "peek"
  /\ pushed' \in BOOLEAN
  /\ tty' = saved
  /\ mpc' = IF pushed' THEN "getch" ELSE "poll"
  /\ UNCHANGED <<platform, threads, started, closing, afterwards, lock, destroyed, threadVars,
                 built, saved>>

\* getch: initTermios with echo, getchar, which would block had nothing been pushed back,
\* and resetTermios.
InitTermios ==
  /\ mpc = "getch" /\ mpc' = "read"
  /\ saved' = tty
  /\ tty' = [tty EXCEPT !.ICANON = FALSE, !.ECHO = TRUE]
  /\ UNCHANGED <<platform, threads, started, closing, afterwards, lock, destroyed, threadVars,
                 built, pushed>>

ResetTermios ==
  /\ mpc = "read" /\ pushed /\ mpc' = "key"
  /\ tty' = saved /\ pushed' = FALSE
  /\ UNCHANGED <<platform, threads, started, closing, afterwards, lock, destroyed, threadVars,
                 built, saved>>

\* Any other key, and '-' with an empty list.
OtherKey ==
  /\ mpc = "key" /\ mpc' = "poll"
  /\ UNCHANGED <<platform, threads, started, closing, afterwards, lock, destroyed, threadVars,
                 built, keyboard>>

StartThread(n) ==
  /\ started' = started + 1
  /\ threads' = Append(threads, started')
  /\ tpc' = [tpc EXCEPT ![started'] = "start"]
  /\ number' = [number EXCEPT ![started'] = n]
  /\ mpc' = "poll"

\* new_thread: the number in a block of its own.
NewThread ==
  /\ mpc = "key" /\ platform = "windows" /\ started < MaxStarts
  /\ StartThread(Len(threads))
  /\ allocated' = [allocated EXCEPT ![started'] = TRUE]
  /\ UNCHANGED <<platform, closing, afterwards, lock, destroyed, name, cancelled, built, keyboard>>

\* When it fails all threads are closed, and still what it has returned is put in the list.
NewThreadFails ==
  /\ mpc = "key" /\ platform = "windows" /\ Failures /\ started < MaxStarts
  /\ started' = started + 1
  /\ mpc' = "close" /\ closing' = Len(threads) /\ afterwards' = "ghost"
  /\ UNCHANGED <<platform, threads, lock, destroyed, threadVars, built, keyboard>>

PushGhost ==
  /\ mpc = "ghost" /\ mpc' = "poll"
  /\ threads' = Append(threads, Ghost)
  /\ UNCHANGED <<platform, started, closing, afterwards, lock, destroyed, threadVars, built, keyboard>>

\* The name is built in the place where the last one was.
BuildString ==
  /\ mpc = "key" /\ platform = "linux" /\ started < MaxStarts
  /\ mpc' = "create" /\ built' = Len(threads)
  /\ UNCHANGED <<platform, threads, started, closing, afterwards, lock, destroyed, threadVars, keyboard>>

\* pthread_create with a pointer to it; the program exits when it fails.
CreateThread ==
  /\ mpc = "create"
  /\ \/ StartThread(built)
     \/ Failures /\ mpc' = "failed" /\ UNCHANGED <<threads, started, tpc, number>>
  /\ UNCHANGED <<platform, closing, afterwards, lock, destroyed, name, cancelled, allocated,
                 built, keyboard>>

\* '-' ends the last thread, 'q' one after the other.
KeyEnd ==
  /\ mpc = "key" /\ threads # <<>> /\ mpc' = "close"
  /\ \/ closing' = 1 /\ afterwards' = "poll"
     \/ closing' = Len(threads) /\ afterwards' = "quit"
  /\ UNCHANGED <<platform, threads, started, lock, destroyed, threadVars, built, keyboard>>

\* close_thread: TerminateThread, then HeapFree. Variant: the other way round.
Terminate(t) == tpc' = [u \in Thread |-> IF u = t /\ Live(u) THEN "dead" ELSE tpc[u]]
Release(t) == allocated' = [u \in Thread |-> u # t /\ allocated[u]]

FreeFirst ==
  /\ mpc = "close" /\ platform = "windows" /\ closing > 0
  /\ Release(Back) /\ UNCHANGED tpc /\ mpc' = "free"
  /\ UNCHANGED <<platform, threads, started, closing, afterwards, lock, destroyed, number,
                 name, cancelled, built, keyboard>>

CloseThread ==
  /\ mpc = "close" /\ platform = "windows" /\ closing > 0
  /\ Terminate(Back) /\ UNCHANGED allocated /\ mpc' = "free"
  /\ UNCHANGED <<platform, threads, started, closing, afterwards, lock, destroyed, number,
                 name, cancelled, built, keyboard>>

FreeParam ==
  /\ mpc = "free" /\ Release(Back) /\ UNCHANGED tpc
  /\ threads' = Rest /\ closing' = closing - 1 /\ mpc' = "close"
  /\ UNCHANGED <<platform, started, afterwards, lock, destroyed, number, name, cancelled,
                 built, keyboard>>

\* pthread_cancel only asks. Variant: the thread is taken from the list, not cancelled.
PopOnly ==
  /\ mpc = "close" /\ platform = "linux" /\ closing > 0
  /\ threads' = Rest /\ closing' = closing - 1 /\ UNCHANGED cancelled
  /\ UNCHANGED <<platform, mpc, started, afterwards, lock, destroyed, tpc, number, name,
                 allocated, built, keyboard>>

CancelThread ==
  /\ mpc = "close" /\ platform = "linux" /\ closing > 0
  /\ cancelled' = [cancelled EXCEPT ![Back] = TRUE]
  /\ threads' = Rest /\ closing' = closing - 1
  /\ UNCHANGED <<platform, mpc, started, afterwards, lock, destroyed, tpc, number, name,
                 allocated, built, keyboard>>

Closed ==
  /\ mpc = "close" /\ closing = 0 /\ mpc' = afterwards
  /\ UNCHANGED <<platform, threads, started, closing, afterwards, lock, destroyed, threadVars,
                 built, keyboard>>

\* DeleteCriticalSection; pthread_mutex_destroy, which leaves a mutex that is locked alone.
\* Cancelled threads are not joined.
Quit ==
  /\ mpc = "quit" \/ (mpc = "key" /\ threads = <<>>)
  /\ destroyed' = (lock = NoThread) /\ mpc' = "exit"
  /\ UNCHANGED <<platform, threads, started, closing, afterwards, lock, threadVars, built, keyboard>>

Exit ==
  /\ mpc = "exit" /\ mpc' = "done"
  /\ UNCHANGED <<platform, threads, started, closing, afterwards, lock, destroyed, threadVars,
                 built, keyboard>>

-----------------------------------------------------------------------------
(* Threads *)

otherVars == <<platform, mainVars, destroyed, number, cancelled, allocated, built, keyboard>>
Goto(t, pc) == tpc' = [tpc EXCEPT ![t] = pc]

\* PrintFunction reads the number from the heap.
ReadParam(t) ==
  /\ tpc[t] = "start" /\ platform = "windows"
  /\ name' = [name EXCEPT ![t] = IF allocated[t] THEN number[t] ELSE Torn]
  /\ Goto(t, "lock")
  /\ UNCHANGED <<lock, otherVars>>

\* print_string copies the string that the pointer leads to, whatever is there now.
CopyString(t) ==
  /\ tpc[t] = "start" /\ platform = "linux"
  /\ \E n \in {built} \cup (IF mpc = "create" THEN {Torn} ELSE {}) :
       name' = [name EXCEPT ![t] = n]
  /\ Goto(t, "lock")
  /\ UNCHANGED <<lock, otherVars>>

\* EnterCriticalSection.
Enter(t) ==
  /\ tpc[t] = "lock" /\ platform = "windows" /\ lock = NoThread
  /\ lock' = t /\ Goto(t, "print")
  /\ UNCHANGED <<name, otherVars>>

\* pthread_mutex_lock, not a cancellation point. A destroyed mutex cannot be locked, and
\* the result is ignored. Variant: pthread_mutex_trylock.
TryLock(t) ==
  /\ tpc[t] = "lock" /\ platform = "linux"
  /\ lock' = IF lock = NoThread /\ ~destroyed THEN t ELSE lock
  /\ Goto(t, "print")
  /\ UNCHANGED <<name, otherVars>>

Lock(t) == (lock = NoThread \/ destroyed) /\ TryLock(t)

\* The characters of the line.
PrintLine(t) ==
  /\ tpc[t] = "print" /\ platform = "windows"
  /\ Goto(t, "unlock")
  /\ UNCHANGED <<lock, name, otherVars>>

\* With usleep after each but the newline.
PutChars(t) ==
  /\ tpc[t] = "print" /\ platform = "linux"
  /\ Goto(t, "unlock")
  /\ UNCHANGED <<lock, name, otherVars>>

\* LeaveCriticalSection.
Leave(t) ==
  /\ tpc[t] = "unlock" /\ platform = "windows"
  /\ lock' = NoThread /\ Goto(t, "sleep")
  /\ UNCHANGED <<name, otherVars>>

\* pthread_mutex_unlock. Variant: it is forgotten.
UnlockNot(t) ==
  /\ tpc[t] = "unlock" /\ platform = "linux"
  /\ Goto(t, "sleep")
  /\ UNCHANGED <<lock, name, otherVars>>

Unlock(t) ==
  /\ tpc[t] = "unlock" /\ platform = "linux"
  /\ lock' = (IF lock = t THEN NoThread ELSE lock) /\ Goto(t, "sleep")
  /\ UNCHANGED <<name, otherVars>>

\* Sleep; usleep, which a cancelled thread does not leave.
WakeUp(t) ==
  /\ tpc[t] = "sleep" /\ ~cancelled[t]
  /\ Goto(t, "lock")
  /\ UNCHANGED <<lock, name, otherVars>>

\* A cancelled thread ends where it calls usleep: after its line, or in the middle of it,
\* with the mutex locked.
Cancel(t) ==
  /\ tpc[t] \in {"print", "sleep"} /\ cancelled[t]
  /\ Goto(t, "dead")
  /\ UNCHANGED <<lock, name, otherVars>>

-----------------------------------------------------------------------------
(* Specification *)

Main ==
  \/ Start \/ Pressed \/ KbHitEnter \/ KbHitLeave \/ InitTermios \/ ResetTermios \/ OtherKey
  \/ NewThread \/ NewThreadFails \/ PushGhost \/ BuildString \/ CreateThread \/ KeyEnd
  \/ CloseThread \/ FreeParam \/ CancelThread \/ Closed \/ Quit \/ Exit

ThreadStep(t) ==
  /\ ~Over
  /\ \/ ReadParam(t) \/ CopyString(t) \/ Enter(t) \/ Lock(t) \/ PrintLine(t) \/ PutChars(t)
     \/ Leave(t) \/ Unlock(t) \/ WakeUp(t) \/ Cancel(t)

\* The process has ended, with all its threads.
Ended == Over /\ UNCHANGED vars

Next == Main \/ Ended \/ \E t \in Thread : ThreadStep(t)

\* All threads are scheduled, and the one that waits for the lock gets it at last.
Spec == Init /\ [][Next]_vars /\ WF_vars(Main) /\ \A t \in Thread : WF_vars(ThreadStep(t))

-----------------------------------------------------------------------------
(* Properties *)

\* Every variable holds a value of its type.
TypeOK ==
  /\ platform \in Platforms
  /\ mpc \in {"start", "poll", "peek", "getch", "read", "key", "create", "close", "free",
              "ghost", "quit", "exit", "done", "failed"}
  /\ threads \in Seq(Thread \cup {Ghost}) /\ started \in 0..MaxStarts
  /\ closing \in 0..Len(threads) /\ afterwards \in {"poll", "ghost", "quit"}
  /\ lock \in Thread \cup {NoThread} /\ destroyed \in BOOLEAN
  /\ tpc \in [Thread -> {"none", "start", "lock", "print", "unlock", "sleep", "dead"}]
  /\ number \in [Thread -> Nat] /\ name \in [Thread -> Nat \cup {NoName, Torn}]
  /\ cancelled \in [Thread -> BOOLEAN] /\ allocated \in [Thread -> BOOLEAN]
  /\ built \in Nat \cup {NoName}
  /\ tty \in Mode /\ saved \in Mode /\ pushed \in BOOLEAN

\* A thread prints only while it owns the lock, even when others are ended at that moment.
\* Once the mutex is destroyed this is left: who prints without the lock was cancelled.
Guarded ==
  \A t \in Thread : tpc[t] \in {"print", "unlock"} => lock = t \/ (destroyed /\ cancelled[t])

\* Who owns the lock is in its line, or was ended there: nobody sleeps with it, or waits for
\* what it has itself.
HeldInLine == lock # NoThread => tpc[lock] \in {"print", "unlock", "dead"}

\* The lock is owned in the line, and only there.
LockInLine == Guarded /\ HeldInLine

\* Up to pthread_mutex_destroy the lines do not mix, even when a thread is ended in the
\* middle of its line: then no other line follows.  From there to the end of the process,
\* on Linux, cancelled threads may print together, and nothing is promised.
Implements == Abs!Init /\ [][~LockGone' => Abs!Next]_(Abs!vars)

\* Every thread that still runs is in the list, or has been asked to end: no thread is left
\* over by '-', by 'q' or by a failure to start one more.
NoStray ==
  \A t \in Thread : Live(t) => cancelled[t] \/ \E i \in DOMAIN threads : threads[i] = t

\* On Windows a thread never reads its number from a block that is freed, though the block
\* is freed while the thread may just have been started.
OwnName ==
  platform = "windows" => \A t \in Thread : Live(t) => name[t] \in {NoName, number[t]}

\* The terminal is in its own mode whenever getch.h is left, whenever threads or the program
\* end, and getch never waits: there is a character when it is called.
TerminalRestored ==
  /\ mpc \notin {"peek", "read"} => tty = [ICANON |-> TRUE, ECHO |-> TRUE, NONBLOCK |-> FALSE]
  /\ mpc = "read" => pushed /\ ~tty.NONBLOCK

\* As long as no thread was ended inside the lock, somebody prints again and again while
\* there are threads.
Abandoned == lock # NoThread /\ ~Live(lock)
Prints ==
  []<>(\/ Over \/ Abandoned \/ (\A t \in Thread : ~Live(t)) \/ \E t \in Thread : tpc[t] = "print")
=============================================================================
