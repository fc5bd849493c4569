--------------------------- MODULE PrintersProofs ---------------------------
(****************************************************************************)
(* Theorems about Printers, for either system, any number of threads and    *)
(* with or without failing calls.  The argument: a thread is live only if   *)
(* it is in the list or cancelled; the mutex is destroyed only when the     *)
(* list is empty and nobody owns it; so that whoever prints without owning  *)
(* it was cancelled before.                                                 *)
(****************************************************************************)
EXTENDS Printers, SequenceTheorems, TLAPS

USE PlatformsAssumption, MaxStartsAssumption, FailuresAssumption
USE DEF keyboard, mainVars, threadVars, Thread, NoThread, Ghost, NoName, Torn

Cooked == [ICANON |-> TRUE, ECHO |-> TRUE, NONBLOCK |-> FALSE]

\* Where main is, and what that says of the list and of the mutex.
Control ==
  /\ mpc \in {"peek", "getch", "read", "create"} => platform = "linux"
  /\ mpc \in {"free", "ghost"} => platform = "windows"
  /\ mpc = "create" => started < MaxStarts /\ built \in Nat
  /\ mpc \in {"close", "free"} /\ afterwards = "quit" => closing = Len(threads)
  /\ mpc \in {"close", "free"} /\ afterwards = "ghost" => platform = "windows"
  /\ mpc = "free" => closing > 0 /\ \A t \in Thread : Back = t => ~Live(t)
  /\ mpc \in {"quit", "exit", "done"} => threads = <<>>
  /\ destroyed => mpc \in {"exit", "done"}

\* Threads not started yet, and the threads of Windows.
Fresh ==
  /\ \A t \in Thread : t > started => tpc[t] = "none" /\ name[t] = NoName
  /\ platform = "windows" =>
       \A t \in Thread : ~cancelled[t] /\ (tpc[t] = "start" => allocated[t])

\* The mode to go back to is the terminal's own.
Terminal ==
  /\ mpc \in {"peek", "read"} => saved = Cooked
  /\ mpc = "getch" => pushed

IInv ==
  /\ TypeOK /\ Control /\ Fresh /\ Guarded /\ NoStray /\ OwnName
  /\ Terminal /\ TerminalRestored

LEMMA InitTyped == Init => IInv
<1> SUFFICES ASSUME Init PROVE IInv
  OBVIOUS
<1>1. platform \in Platforms
  BY DEF Init
<1>2. threads \in Seq(Thread \cup {Ghost}) /\ Len(threads) = 0
  BY DEF Init
<1>3. started \in 0..MaxStarts /\ closing \in 0..Len(threads)
  BY <1>2 DEF Init
<1>4. /\ number \in [Thread -> Nat] /\ name \in [Thread -> Nat \cup {NoName, Torn}]
      /\ cancelled \in [Thread -> BOOLEAN] /\ allocated \in [Thread -> BOOLEAN]
      /\ tpc \in [Thread -> {"none", "start", "lock", "print", "unlock", "sleep", "dead"}]
  BY DEF Init
<1>5. tty \in Mode /\ saved \in Mode
  BY DEF Init, Mode
<1>6. TypeOK
  BY <1>1, <1>2, <1>3, <1>4, <1>5 DEF Init, TypeOK
<1>7. Control /\ Fresh /\ Guarded /\ NoStray /\ OwnName
  BY DEF Init, Control, Fresh, Guarded, NoStray, OwnName, Live
<1>8. Terminal /\ TerminalRestored
  BY DEF Init, Terminal, TerminalRestored
<1>9. QED
  BY <1>6, <1>7, <1>8 DEF IInv

-----------------------------------------------------------------------------
(* The steps of a thread *)

LEMMA ThreadKeepsType ==
  ASSUME TypeOK, NEW t \in Thread, ThreadStep(t) PROVE TypeOK'
<1> USE DEF TypeOK, Goto, otherVars
<1>1. CASE ReadParam(t)
  BY <1>1 DEF ReadParam
<1>2. CASE CopyString(t)
  BY <1>2 DEF CopyString
<1>3. CASE Enter(t)
  BY <1>3 DEF Enter
<1>4. CASE Lock(t)
  BY <1>4 DEF Lock, TryLock
<1>5. CASE PrintLine(t) \/ PutChars(t)
  BY <1>5 DEF PrintLine, PutChars
<1>6. CASE Leave(t) \/ Unlock(t)
  BY <1>6 DEF Leave, Unlock
<1>7. CASE WakeUp(t) \/ Cancel(t)
  BY <1>7 DEF WakeUp, Cancel
<1>8. QED
  BY <1>1, <1>2, <1>3, <1>4, <1>5, <1>6, <1>7 DEF ThreadStep

\* What the steps of a thread have in common.
LEMMA ThreadFrame ==
  ASSUME TypeOK, NEW t \in Thread, ThreadStep(t)
  PROVE  /\ UNCHANGED otherVars /\ ~Over /\ Live(t)
         /\ \A u \in Thread : u # t => tpc'[u] = tpc[u] /\ name'[u] = name[u]
         /\ tpc'[t] # "none" /\ tpc'[t] # "start"
  BY DEF TypeOK, ThreadStep, ReadParam, CopyString, Enter, Lock, TryLock, PrintLine, PutChars,
         Leave, Unlock, WakeUp, Cancel, Goto, otherVars, Over, Live

LEMMA ThreadKeeps ==
  ASSUME IInv, NEW t \in Thread, ThreadStep(t) PROVE IInv'
<1>1. TypeOK /\ TypeOK'
  BY ThreadKeepsType DEF IInv
<1>2. /\ UNCHANGED otherVars /\ ~Over /\ Live(t)
      /\ \A u \in Thread : u # t => tpc'[u] = tpc[u] /\ name'[u] = name[u]
      /\ tpc'[t] # "none" /\ tpc'[t] # "start"
  BY <1>1, ThreadFrame
<1>3. \A u \in Thread : Live(u)' => Live(u)
  BY <1>2 DEF Live
<1>4. Control'
  BY <1>1, <1>2, <1>3 DEF IInv, TypeOK, Control, Back, otherVars
<1>5. Fresh'
  <2>1. t <= started
    BY <1>2 DEF IInv, TypeOK, Fresh, Live
  <2>2. QED
    BY <1>1, <1>2, <2>1 DEF IInv, TypeOK, Fresh, otherVars
<1>6. NoStray'
  BY <1>2, <1>3 DEF IInv, NoStray, otherVars
<1>7. OwnName'
  <2>1. platform = "windows" => name'[t] \in {NoName, number[t]}
    BY <1>1, <1>2 DEF IInv, TypeOK, OwnName, Fresh, ThreadStep, ReadParam, CopyString, Enter, Lock,
       TryLock, PrintLine, PutChars, Leave, Unlock, WakeUp, Cancel
  <2>2. QED
    BY <1>1, <1>2, <1>3, <2>1 DEF IInv, OwnName, otherVars
<1>8. Guarded'
  <2>1. CASE Enter(t) \/ (Lock(t) /\ ~destroyed)
    BY <1>1, <1>2, <2>1 DEF IInv, TypeOK, Guarded, Enter, Lock, TryLock, Goto, otherVars
  <2>2. CASE Lock(t) /\ destroyed
    <3>1. threads = <<>>
      BY <2>2 DEF IInv, Control
    <3>2. cancelled[t]
      BY <1>2, <3>1 DEF IInv, NoStray
    <3>3. QED
      BY <1>1, <1>2, <2>2, <3>2 DEF IInv, TypeOK, Guarded, Lock, TryLock, Goto, otherVars
  <2>3. CASE Leave(t) \/ Unlock(t)
    BY <1>1, <1>2, <2>3 DEF IInv, TypeOK, Guarded, Fresh, Leave, Unlock, Goto, otherVars
  <2>4. CASE ReadParam(t) \/ CopyString(t) \/ PrintLine(t) \/ PutChars(t) \/ WakeUp(t) \/ Cancel(t)
    BY <1>1, <1>2, <2>4 DEF IInv, TypeOK, Guarded, ReadParam, CopyString, PrintLine, PutChars, WakeUp,
       Cancel, Goto, otherVars
  <2>5. QED
    BY <2>1, <2>2, <2>3, <2>4 DEF ThreadStep
<1>9. Terminal' /\ TerminalRestored'
  BY <1>2 DEF IInv, Terminal, TerminalRestored, otherVars
<1>10. QED
  BY <1>1, <1>4, <1>5, <1>6, <1>7, <1>8, <1>9 DEF IInv

-----------------------------------------------------------------------------
(* The steps of main *)

\* Steps that touch neither the list nor the threads.
LEMMA SameThreads ==
  ASSUME IInv, UNCHANGED <<platform, threads, started, lock, destroyed, threadVars>>
  PROVE  Fresh' /\ Guarded' /\ NoStray' /\ OwnName'
  BY DEF IInv, Fresh, Guarded, NoStray, OwnName, Live

LEMMA IdleKeeps ==
  ASSUME IInv,
         \/ Start \/ Pressed \/ KbHitEnter \/ KbHitLeave \/ InitTermios \/ ResetTermios
         \/ OtherKey \/ BuildString \/ Exit \/ Closed
  PROVE  IInv'
<1> USE DEF IInv
<1>1. Fresh' /\ Guarded' /\ NoStray' /\ OwnName'
  <2>1. UNCHANGED <<platform, threads, started, lock, destroyed, threadVars>>
    BY DEF Start, Pressed, KbHitEnter, KbHitLeave, InitTermios, ResetTermios, OtherKey,
           BuildString, Exit, Closed
  <2>2. QED
    BY <2>1, SameThreads
<1>2. TypeOK' /\ Terminal' /\ TerminalRestored'
  <2> USE DEF TypeOK, Terminal, TerminalRestored, Cooked
  <2>1. CASE Start \/ Pressed \/ OtherKey \/ Exit \/ Closed
    <3>1. TypeOK'
      BY <2>1 DEF Start, Pressed, OtherKey, Exit, Closed
    <3>2. mpc' \notin {"peek", "read", "getch"} /\ UNCHANGED keyboard /\ mpc \notin {"peek", "read"}
      BY <2>1 DEF Start, Pressed, OtherKey, Exit, Closed
    <3>3. QED
      BY <3>1, <3>2
  <2>2. CASE KbHitEnter
    <3>1. [ICANON |-> FALSE, ECHO |-> FALSE, NONBLOCK |-> TRUE] \in Mode
      BY DEF Mode
    <3>2. QED
      BY <2>2, <3>1 DEF KbHitEnter
  <2>3. CASE KbHitLeave
    BY <2>3 DEF KbHitLeave
  <2>4. CASE InitTermios
    <3>0. tty = Cooked /\ tty' = [tty EXCEPT !.ICANON = FALSE, !.ECHO = TRUE] /\ saved' = tty
      BY <2>4 DEF InitTermios
    <3>1. tty' = [ICANON |-> FALSE, ECHO |-> TRUE, NONBLOCK |-> FALSE] /\ saved' = Cooked
      BY <3>0
    <3>2. tty' \in Mode /\ saved' \in Mode
      BY <3>1 DEF Mode
    <3>3. QED
      BY <2>4, <3>1, <3>2 DEF InitTermios
  <2>5. CASE ResetTermios
    BY <2>5 DEF ResetTermios
  <2>6. CASE BuildString
    BY <2>6 DEF BuildString
  <2>7. QED
    BY <2>1, <2>2, <2>3, <2>4, <2>5, <2>6
<1>3. Control'
  <2> USE DEF Control
  <2>1. CASE Start \/ Pressed \/ OtherKey
    BY <2>1 DEF Start, Pressed, OtherKey
  <2>2. CASE KbHitEnter \/ KbHitLeave
    BY <2>2 DEF KbHitEnter, KbHitLeave
  <2>3. CASE InitTermios \/ ResetTermios
    BY <2>3 DEF InitTermios, ResetTermios
  <2>4. CASE Closed
    BY <2>4 DEF Closed, TypeOK
  <2>5. CASE Exit
    BY <2>5 DEF Exit
  <2>6. CASE BuildString
    BY <2>6 DEF BuildString, TypeOK
  <2>7. QED
    BY <2>1, <2>2, <2>3, <2>4, <2>5, <2>6
<1>4. QED
  BY <1>1, <1>2, <1>3

\* A thread is started and put in the list.
LEMMA StartKeeps ==
  ASSUME IInv, NEW n \in Nat, StartThread(n), started < MaxStarts, mpc \in {"key", "create"},
         UNCHANGED <<platform, closing, afterwards, lock, destroyed, name, cancelled, built, keyboard>>,
         \/ platform = "windows" /\ allocated' = [allocated EXCEPT ![started'] = TRUE]
         \/ platform = "linux" /\ UNCHANGED allocated
  PROVE  IInv'
<1> DEFINE t == started + 1
<1> USE DEF StartThread
<1>1. t \in Thread /\ tpc[t] = "none" /\ name[t] = NoName
  BY DEF IInv, TypeOK, Fresh
<1>2. /\ threads \in Seq(Thread \cup {Ghost}) /\ threads' = Append(threads, t)
      /\ threads' \in Seq(Thread \cup {Ghost}) /\ Len(threads') = Len(threads) + 1
      /\ \A i \in DOMAIN threads : i \in DOMAIN threads' /\ threads'[i] = threads[i]
      /\ Len(threads') \in DOMAIN threads' /\ threads'[Len(threads')] = t
  BY <1>1 DEF IInv, TypeOK
<1>3. TypeOK'
  <2>1. threads' \in Seq(Thread \cup {Ghost}) /\ started' \in 0..MaxStarts /\ closing' \in 0..Len(threads')
    BY <1>1, <1>2 DEF IInv, TypeOK
  <2>2. /\ tpc' \in [Thread -> {"none", "start", "lock", "print", "unlock", "sleep", "dead"}]
        /\ number' \in [Thread -> Nat] /\ allocated' \in [Thread -> BOOLEAN]
    BY <1>1 DEF IInv, TypeOK
  <2>3. QED
    BY <2>1, <2>2 DEF IInv, TypeOK
<1>4. Control' /\ Fresh'
  BY <1>1, <1>2 DEF IInv, TypeOK, Control, Fresh
<1>5. NoStray'
  BY <1>1, <1>2 DEF IInv, TypeOK, NoStray, Live
<1>6. Guarded' /\ OwnName'
  BY <1>1 DEF IInv, TypeOK, Control, Guarded, OwnName, Live
<1>7. Terminal' /\ TerminalRestored'
  BY DEF IInv, Terminal, TerminalRestored
<1>8. QED
  BY <1>3, <1>4, <1>5, <1>6, <1>7 DEF IInv

LEMMA AddKeeps ==
  ASSUME IInv, NewThread \/ NewThreadFails \/ PushGhost \/ CreateThread PROVE IInv'
<1>1. CASE NewThread
  <2>1. Len(threads) \in Nat
    BY DEF IInv, TypeOK
  <2>2. QED
    BY <1>1, <2>1, StartKeeps DEF NewThread
<1>2. CASE CreateThread
  <2>1. CASE StartThread(built)
    BY <1>2, <2>1, StartKeeps DEF CreateThread, IInv, Control
  <2>2. CASE mpc' = "failed" /\ UNCHANGED <<threads, started, tpc, number>>
    <3>1. TypeOK'
      BY <1>2, <2>2 DEF CreateThread, IInv, TypeOK
    <3>2. QED
      BY <1>2, <2>2, <3>1 DEF CreateThread, IInv, Control, Fresh, Guarded, NoStray, OwnName,
         Terminal, TerminalRestored, Live
  <2>3. QED
    BY <1>2, <2>1, <2>2 DEF CreateThread
<1>3. CASE NewThreadFails
  <2>1. TypeOK'
    BY <1>3 DEF NewThreadFails, IInv, TypeOK
  <2>2. Control' /\ Fresh' /\ Guarded' /\ NoStray' /\ OwnName' /\ Terminal' /\ TerminalRestored'
    BY <1>3 DEF NewThreadFails, IInv, TypeOK, Control, Fresh, Guarded, NoStray, OwnName, Terminal,
       TerminalRestored, Live
  <2>3. QED
    BY <2>1, <2>2 DEF IInv
<1>4. CASE PushGhost
  <2>1. /\ threads' \in Seq(Thread \cup {Ghost}) /\ Len(threads') = Len(threads) + 1
        /\ \A i \in DOMAIN threads : i \in DOMAIN threads' /\ threads'[i] = threads[i]
    BY <1>4 DEF PushGhost, IInv, TypeOK
  <2>2. TypeOK'
    BY <1>4, <2>1 DEF PushGhost, IInv, TypeOK
  <2>3. NoStray'
    BY <1>4, <2>1 DEF PushGhost, IInv, NoStray, Live
  <2>4. Control' /\ Fresh' /\ Guarded' /\ OwnName' /\ Terminal' /\ TerminalRestored'
    BY <1>4 DEF PushGhost, IInv, TypeOK, Control, Fresh, Guarded, OwnName, Terminal,
       TerminalRestored, Live
  <2>5. QED
    BY <2>2, <2>3, <2>4 DEF IInv
<1>5. QED
  BY <1>1, <1>2, <1>3, <1>4

\* '-' and 'q': a thread leaves the list after it was ended, or was asked to end.
LEMMA BackOfList ==
  ASSUME TypeOK, closing > 0
  PROVE  /\ Back \in Thread \cup {Ghost} /\ Rest \in Seq(Thread \cup {Ghost})
         /\ Len(Rest) = Len(threads) - 1
         /\ \A i \in DOMAIN threads :
              threads[i] = Back \/ (i \in DOMAIN Rest /\ Rest[i] = threads[i])
<1> DEFINE n == Len(threads)
<1>1. threads \in Seq(Thread \cup {Ghost}) /\ n \in Nat /\ n > 0 /\ DOMAIN threads = 1..n
  BY DEF TypeOK
<1>2. Back \in Thread \cup {Ghost}
  BY <1>1 DEF Back
<1>3. /\ Rest \in Seq(Thread \cup {Ghost}) /\ Len(Rest) = n - 1
      /\ \A i \in 1..n - 1 : Rest[i] = threads[i]
  BY <1>1 DEF Rest
<1>4. DOMAIN Rest = 1..n - 1
  BY <1>3
<1>5. ASSUME NEW i \in 1..n PROVE threads[i] = Back \/ (i \in DOMAIN Rest /\ Rest[i] = threads[i])
  BY <1>1, <1>3, <1>4, <1>5 DEF Back
<1>6. QED
  BY <1>1, <1>2, <1>3, <1>5

LEMMA CloseKeeps ==
  ASSUME IInv, KeyEnd \/ CloseThread \/ FreeParam \/ CancelThread \/ Quit PROVE IInv'
<1>1. CASE KeyEnd
  <2>1. Len(threads) \in Nat /\ Len(threads) > 0
    BY <1>1 DEF KeyEnd, IInv, TypeOK
  <2>2. TypeOK'
    BY <1>1, <2>1 DEF KeyEnd, IInv, TypeOK
  <2>3. Control'
    BY <1>1, <2>1 DEF KeyEnd, IInv, Control
  <2>4. Fresh' /\ Guarded' /\ NoStray' /\ OwnName'
    BY <1>1, SameThreads DEF KeyEnd
  <2>5. Terminal' /\ TerminalRestored'
    BY <1>1 DEF KeyEnd, IInv, Terminal, TerminalRestored
  <2>6. QED
    BY <2>2, <2>3, <2>4, <2>5 DEF IInv
<1>2. CASE CloseThread
  <2>1. /\ \A u \in Thread : tpc'[u] = IF u = Back /\ Live(u) THEN "dead" ELSE tpc[u]
        /\ \A u \in Thread : Live(u)' => Live(u) /\ u # Back
        /\ tpc' \in [Thread -> {"none", "start", "lock", "print", "unlock", "sleep", "dead"}]
    BY <1>2 DEF CloseThread, Terminate, Live, IInv, TypeOK
  <2>2. TypeOK'
    BY <1>2, <2>1 DEF CloseThread, IInv, TypeOK
  <2>3. Control'
    BY <1>2, <2>1 DEF CloseThread, IInv, Control, Back
  <2>4. Fresh' /\ Guarded'
    BY <1>2, <2>1 DEF CloseThread, IInv, Fresh, Guarded, Live
  <2>5. NoStray' /\ OwnName'
    BY <1>2, <2>1 DEF CloseThread, IInv, NoStray, OwnName
  <2>6. Terminal' /\ TerminalRestored'
    BY <1>2 DEF CloseThread, IInv, Terminal, TerminalRestored
  <2>7. QED
    BY <2>2, <2>3, <2>4, <2>5, <2>6 DEF IInv
<1>3. CASE FreeParam
  <2>1. closing > 0 /\ platform = "windows" /\ \A t \in Thread : Back = t => ~Live(t)
    BY <1>3 DEF FreeParam, IInv, Control
  <2>2. /\ threads' \in Seq(Thread \cup {Ghost}) /\ Len(threads') = Len(threads) - 1
        /\ \A i \in DOMAIN threads :
             threads[i] = Back \/ (i \in DOMAIN threads' /\ threads'[i] = threads[i])
    BY <1>3, <2>1, BackOfList DEF FreeParam, IInv
  <2>3. TypeOK'
    <3>1. closing' \in 0..Len(threads')
      BY <1>3, <2>1, <2>2 DEF FreeParam, IInv, TypeOK
    <3>2. allocated' \in [Thread -> BOOLEAN]
      BY <1>3 DEF FreeParam, Release, IInv, TypeOK
    <3>3. QED
      BY <1>3, <2>2, <3>1, <3>2 DEF FreeParam, IInv, TypeOK
  <2>4. Control'
    BY <1>3, <2>1, <2>2 DEF FreeParam, IInv, TypeOK, Control
  <2>5. Fresh' /\ Guarded' /\ OwnName'
    BY <1>3, <2>1 DEF FreeParam, Release, IInv, Fresh, Guarded, OwnName, Live
  <2>6. NoStray'
    BY <1>3, <2>1, <2>2 DEF FreeParam, IInv, NoStray, Live
  <2>7. Terminal' /\ TerminalRestored'
    BY <1>3 DEF FreeParam, IInv, Terminal, TerminalRestored
  <2>8. QED
    BY <2>3, <2>4, <2>5, <2>6, <2>7 DEF IInv
<1>4. CASE CancelThread
  <2>1. closing > 0 /\ platform = "linux" /\ mpc = "close" /\ mpc' = "close"
    BY <1>4 DEF CancelThread
  <2>2. /\ threads' \in Seq(Thread \cup {Ghost}) /\ Len(threads') = Len(threads) - 1
        /\ \A i \in DOMAIN threads :
             threads[i] = Back \/ (i \in DOMAIN threads' /\ threads'[i] = threads[i])
    BY <1>4, <2>1, BackOfList DEF CancelThread, IInv
  <2>3. /\ cancelled' \in [Thread -> BOOLEAN]
        /\ \A u \in Thread : cancelled[u] \/ u = Back => cancelled'[u]
    BY <1>4 DEF CancelThread, IInv, TypeOK
  <2>4. TypeOK'
    <3>1. closing' \in 0..Len(threads')
      BY <1>4, <2>1, <2>2 DEF CancelThread, IInv, TypeOK
    <3>2. QED
      BY <1>4, <2>2, <2>3, <3>1 DEF CancelThread, IInv, TypeOK
  <2>5. Control'
    BY <1>4, <2>1, <2>2 DEF CancelThread, IInv, TypeOK, Control
  <2>6. Fresh' /\ Guarded' /\ OwnName'
    BY <1>4, <2>1, <2>3 DEF CancelThread, IInv, Fresh, Guarded, OwnName, Live
  <2>7. NoStray'
    BY <1>4, <2>2, <2>3 DEF CancelThread, IInv, NoStray, Live
  <2>8. Terminal' /\ TerminalRestored'
    BY <1>4 DEF CancelThread, IInv, Terminal, TerminalRestored
  <2>9. QED
    BY <2>4, <2>5, <2>6, <2>7, <2>8 DEF IInv
<1>5. CASE Quit
  <2>1. threads = <<>> /\ ~destroyed
    BY <1>5 DEF Quit, IInv, Control
  <2>2. TypeOK'
    BY <1>5 DEF Quit, IInv, TypeOK
  <2>3. Control'
    BY <1>5, <2>1 DEF Quit, IInv, Control
  <2>4. Guarded'
    BY <1>5, <2>1 DEF Quit, IInv, Guarded
  <2>5. Fresh' /\ NoStray' /\ OwnName'
    BY <1>5 DEF Quit, IInv, Fresh, NoStray, OwnName, Live
  <2>6. Terminal' /\ TerminalRestored'
    BY <1>5 DEF Quit, IInv, Terminal, TerminalRestored
  <2>7. QED
    BY <2>2, <2>3, <2>4, <2>5, <2>6 DEF IInv
<1>6. QED
  BY <1>1, <1>2, <1>3, <1>4, <1>5

-----------------------------------------------------------------------------
(* The theorems *)

LEMMA StepKeeps == IInv /\ [Next]_vars => IInv'
<1> SUFFICES ASSUME IInv, [Next]_vars PROVE IInv'
  OBVIOUS
<1>1. CASE Main
  BY <1>1, IdleKeeps, AddKeeps, CloseKeeps DEF Main
<1>2. CASE \E t \in Thread : ThreadStep(t)
  BY <1>2, ThreadKeeps
<1>3. CASE Ended \/ UNCHANGED vars
  <2>1. UNCHANGED vars
    BY <1>3 DEF Ended
  <2>2. Fresh' /\ Guarded' /\ NoStray' /\ OwnName'
    BY <2>1, SameThreads DEF vars
  <2>3. TypeOK'
    BY <2>1 DEF vars, IInv, TypeOK
  <2>4. Control'
    BY <2>1 DEF vars, IInv, Control, Live, Back
  <2>5. Terminal' /\ TerminalRestored'
    BY <2>1 DEF vars, IInv, Terminal, TerminalRestored
  <2>6. QED
    BY <2>2, <2>3, <2>4, <2>5 DEF IInv
<1>4. QED
  BY <1>1, <1>2, <1>3 DEF Next

LEMMA Invariance == Spec => []IInv
<1>1. Init => IInv
  BY InitTyped
<1>2. IInv /\ [Next]_vars => IInv'
  BY StepKeeps
<1>3. QED
  BY <1>1, <1>2, PTL DEF Spec

\* Every variable keeps its type: in particular close_thread ends no more threads than there
\* are in the list.
THEOREM TypesKept == Spec => []TypeOK
<1>1. IInv => TypeOK
  BY DEF IInv
<1>2. QED
  BY <1>1, Invariance, PTL

\* Main starts threads that never had the lock, and ends others where they are.
LEMMA MainHolds ==
  ASSUME IInv, HeldInLine, Main PROVE HeldInLine'
<1> USE DEF IInv, TypeOK, HeldInLine
<1>1. CASE NewThread \/ CreateThread
  <2>1. started < MaxStarts /\ started' \in {started, started + 1} /\ UNCHANGED lock
    BY <1>1 DEF NewThread, CreateThread, Control, StartThread
  <2>2. \A u \in Thread : tpc'[u] = tpc[u] \/ u = started + 1
    BY <1>1, <2>1 DEF NewThread, CreateThread, StartThread
  <2>3. started + 1 \in Thread /\ tpc[started + 1] = "none"
    BY <2>1 DEF Fresh
  <2>4. QED
    BY <2>1, <2>2, <2>3
<1>2. CASE CloseThread
  <2>1. UNCHANGED lock /\ \A u \in Thread : tpc'[u] = tpc[u] \/ tpc'[u] = "dead"
    BY <1>2 DEF CloseThread, Terminate
  <2>2. QED
    BY <2>1
<1>3. CASE \/ Start \/ Pressed \/ KbHitEnter \/ KbHitLeave \/ InitTermios \/ ResetTermios
           \/ OtherKey \/ NewThreadFails \/ PushGhost \/ BuildString \/ KeyEnd \/ FreeParam
           \/ CancelThread \/ Closed \/ Quit \/ Exit
  <2>1. UNCHANGED <<lock, tpc>>
    BY <1>3 DEF Start, Pressed, KbHitEnter, KbHitLeave, InitTermios, ResetTermios, OtherKey,
       NewThreadFails, PushGhost, BuildString, KeyEnd, FreeParam, CancelThread, Closed, Quit, Exit
  <2>2. QED
    BY <2>1
<1>4. QED
  BY <1>1, <1>2, <1>3 DEF Main

\* A thread takes the lock on its way into the line, and on its way out gives it back.
LEMMA ThreadHolds ==
  ASSUME IInv, HeldInLine, NEW t \in Thread, ThreadStep(t) PROVE HeldInLine'
<1>1. \A u \in Thread : u # t => tpc'[u] = tpc[u]
  BY ThreadFrame DEF IInv
<1>2. CASE ReadParam(t) \/ CopyString(t) \/ WakeUp(t)
  <2>1. tpc[t] \in {"start", "sleep"} /\ UNCHANGED lock
    BY <1>2 DEF ReadParam, CopyString, WakeUp
  <2>2. QED
    BY <1>1, <2>1 DEF HeldInLine, IInv, TypeOK
<1>3. CASE Enter(t) \/ Lock(t)
  <2>1. tpc[t] = "lock" /\ tpc'[t] = "print" /\ lock' \in {lock, t}
    BY <1>3 DEF Enter, Lock, TryLock, Goto, IInv, TypeOK
  <2>2. QED
    BY <1>1, <2>1 DEF HeldInLine, IInv, TypeOK
<1>4. CASE PrintLine(t) \/ PutChars(t) \/ Cancel(t)
  <2>1. tpc'[t] \in {"unlock", "dead"} /\ UNCHANGED lock
    BY <1>4 DEF PrintLine, PutChars, Cancel, Goto, IInv, TypeOK
  <2>2. QED
    BY <1>1, <2>1 DEF HeldInLine, IInv, TypeOK
<1>5. CASE Leave(t) \/ Unlock(t)
  <2>1. lock' = NoThread \/ (lock # t /\ UNCHANGED lock)
    BY <1>5 DEF Leave, Unlock
  <2>2. QED
    BY <1>1, <2>1 DEF HeldInLine, IInv, TypeOK
<1>6. QED
  BY <1>2, <1>3, <1>4, <1>5 DEF ThreadStep

\* A line is printed by the owner of the critical section or of the mutex only, up to the
\* end of the program: a thread that finds the mutex destroyed was cancelled before.  And
\* nobody owns it but in its line, so that it is free as soon as the line is over.
THEOREM LineLocked == Spec => []LockInLine
<1>1. Init => HeldInLine
  BY DEF Init, HeldInLine
<1>2. IInv /\ HeldInLine /\ [Next]_vars => HeldInLine'
  <2>1. UNCHANGED vars /\ HeldInLine => HeldInLine'
    BY DEF vars, threadVars, HeldInLine
  <2>2. QED
    BY <2>1, MainHolds, ThreadHolds DEF Next, Ended
<1>3. IInv /\ HeldInLine => LockInLine
  BY DEF IInv, LockInLine
<1>4. QED
  BY <1>1, <1>2, <1>3, Invariance, PTL DEF Spec

\* '-', 'q' and a failing new_thread leave no thread behind that nobody has in a list.
THEOREM NoThreadLeftOver == Spec => []NoStray
<1>1. IInv => NoStray
  BY DEF IInv
<1>2. QED
  BY <1>1, Invariance, PTL

\* close_thread frees the number of a thread only when the thread cannot read it any more.
THEOREM NumberReadInTime == Spec => []OwnName
<1>1. IInv => OwnName
  BY DEF IInv
<1>2. QED
  BY <1>1, Invariance, PTL

\* However kbhit and getch follow each other, the mode they go back to is the terminal's own.
THEOREM TerminalKept == Spec => []TerminalRestored
<1>1. IInv => TerminalRestored
  BY DEF IInv
<1>2. QED
  BY <1>1, Invariance, PTL

-----------------------------------------------------------------------------
(* The lines do not mix: refinement of LinePrinter *)

\* Until the mutex is gone the one writer is the owner of the lock.
LEMMA WriterIsOwner == TypeOK /\ Fresh /\ Guarded /\ ~LockGone => Writer = lock
<1> SUFFICES ASSUME TypeOK, Fresh, Guarded, ~LockGone PROVE Writer = lock
  OBVIOUS
<1>1. \A t \in Thread : tpc[t] \in {"print", "unlock"} => lock = t
  BY DEF TypeOK, Fresh, Guarded, LockGone
<1>2. CASE lock = NoThread
  BY <1>1, <1>2 DEF Writer, InLine
<1>3. CASE lock \in Thread
  <2>1. InLine = {lock}
    BY <1>1, <1>3 DEF InLine
  <2>2. InLine # {} /\ \E t \in Thread : InLine = {t}
    BY <1>3, <2>1
  <2>3. (CHOOSE t \in InLine : TRUE) = lock
    BY <2>1
  <2>4. QED
    BY <2>2, <2>3 DEF Writer
<1>4. QED
  BY <1>2, <1>3 DEF TypeOK

\* The mutex does not come back.
LEMMA GoneForEver == IInv /\ [Next]_vars /\ ~LockGone' => ~LockGone
<1> SUFFICES ASSUME IInv, [Next]_vars, LockGone PROVE LockGone'
  OBVIOUS
<1>1. mpc \in {"exit", "done"}
  BY DEF IInv, Control, LockGone
<1>2. ASSUME NEW t \in Thread, ThreadStep(t) PROVE UNCHANGED <<destroyed, platform>>
  BY <1>2, ThreadFrame DEF IInv, otherVars
<1>3. ASSUME Main PROVE UNCHANGED <<destroyed, platform>>
  BY <1>1, <1>3 DEF Main, Start, Pressed, KbHitEnter, KbHitLeave, InitTermios, ResetTermios,
     OtherKey, NewThread, NewThreadFails, PushGhost, BuildString, CreateThread, KeyEnd,
     CloseThread, FreeParam, CancelThread, Closed, Quit, Exit
<1>4. QED
  BY <1>2, <1>3 DEF Next, Ended, vars, LockGone

\* The steps of LinePrinter that a thread takes.
LEMMA ThreadRefines ==
  ASSUME IInv, Writer = lock, Writer' = lock', NEW t \in Thread, ThreadStep(t)
  PROVE  Abs!Next \/ UNCHANGED Abs!vars
<1> USE DEF IInv, TypeOK, Goto, otherVars, Live
<1>1. UNCHANGED otherVars /\ ~Over /\ Live(t)
  BY ThreadFrame
<1>2. CASE Enter(t) \/ (Lock(t) /\ ~destroyed)
  <2>1. Abs!Begin(t)
    BY <1>1, <1>2 DEF Enter, Lock, TryLock, Abs!Begin
  <2>2. QED
    BY <2>1 DEF Abs!Next
<1>3. CASE (Leave(t) \/ Unlock(t)) /\ lock = t
  <2>1. Abs!End(t)
    BY <1>1, <1>3 DEF Leave, Unlock, Abs!End
  <2>2. QED
    BY <2>1 DEF Abs!Next
<1>4. CASE (Lock(t) /\ destroyed) \/ (Unlock(t) /\ lock # t)
  BY <1>1, <1>4 DEF Lock, TryLock, Unlock, Abs!vars
<1>5. CASE ReadParam(t) \/ CopyString(t)
  BY <1>1, <1>5 DEF ReadParam, CopyString, Abs!vars
<1>6. CASE PrintLine(t) \/ PutChars(t) \/ WakeUp(t)
  BY <1>1, <1>6 DEF PrintLine, PutChars, WakeUp, Abs!vars
<1>7. CASE Cancel(t)
  <2>1. Abs!Leave
    BY <1>1, <1>7 DEF Cancel, Abs!Leave
  <2>2. QED
    BY <2>1 DEF Abs!Next
<1>8. lock = t \/ ~Leave(t)
  BY DEF Leave, Fresh, Guarded
<1>9. QED
  BY <1>2, <1>3, <1>4, <1>5, <1>6, <1>7, <1>8 DEF ThreadStep

\* Those of main: a thread is added, or one is ended.
LEMMA MainRefines ==
  ASSUME IInv, Writer = lock, Writer' = lock', Main
  PROVE  Abs!Next \/ UNCHANGED Abs!vars
<1> USE DEF IInv, TypeOK, Live
<1>1. lock' = lock
  BY DEF Main, Start, Pressed, KbHitEnter, KbHitLeave, InitTermios, ResetTermios, OtherKey,
     NewThread, NewThreadFails, PushGhost, BuildString, CreateThread, KeyEnd, CloseThread,
     FreeParam, CancelThread, Closed, Quit, Exit
<1>2. ASSUME NEW n, StartThread(n), started < MaxStarts PROVE Abs!Next
  <2> DEFINE t == started + 1
  <2>1. t \in Thread /\ tpc[t] = "none" /\ tpc' = [tpc EXCEPT ![t] = "start"]
    BY <1>2 DEF StartThread, Fresh
  <2>2. Abs!Add(t)
    BY <1>1, <2>1 DEF Abs!Add
  <2> HIDE DEF t, IInv, TypeOK, Live
  <2>3. QED
    BY <2>1, <2>2 DEF Abs!Next
<1>3. CASE CloseThread
  <2>1. Abs!Leave
    BY <1>1, <1>3 DEF CloseThread, Terminate, Abs!Leave
  <2>2. QED
    BY <2>1 DEF Abs!Next
<1>4. CASE UNCHANGED tpc
  BY <1>1, <1>4 DEF Abs!vars
<1>5. \/ UNCHANGED tpc \/ CloseThread
      \/ started < MaxStarts /\ \E n \in Nat : StartThread(n)
  <2>1. CASE NewThread \/ CreateThread
    <3>1. Len(threads) \in Nat
      OBVIOUS
    <3>2. QED
      BY <2>1, <3>1 DEF NewThread, CreateThread, Control
  <2>2. CASE ~(NewThread \/ CreateThread)
    BY <2>2 DEF Main, Start, Pressed, KbHitEnter, KbHitLeave, InitTermios, ResetTermios, OtherKey,
     NewThreadFails, PushGhost, BuildString, KeyEnd, FreeParam, CancelThread, Closed, Quit, Exit
  <2>3. QED
    BY <2>1, <2>2
<1>6. QED
  BY <1>2, <1>3, <1>4, <1>5

\* The threads are line printers up to the moment when the mutex is destroyed under threads
\* that were cancelled: a line that was begun is followed by its own end or, when its thread
\* is ended in the middle of it, by no other line.
THEOREM ThreadsPrintLines == Spec => Implements
<1>1. Init => Abs!Init
  <2> SUFFICES ASSUME Init PROVE Abs!Init
    OBVIOUS
  <2>1. Writer = NoThread
    BY InitTyped, WriterIsOwner DEF Init, IInv, LockGone
  <2>2. QED
    BY <2>1 DEF Init, Abs!Init, Live
<1>2. IInv /\ IInv' /\ [Next]_vars => [~LockGone' => Abs!Next]_(Abs!vars)
  <2> SUFFICES ASSUME IInv, IInv', [Next]_vars, ~LockGone'
               PROVE  Abs!Next \/ UNCHANGED Abs!vars
    OBVIOUS
  <2>1. Writer = lock /\ Writer' = lock'
    <3>1. Writer = lock
      BY WriterIsOwner, GoneForEver DEF IInv
    <3>2. (TypeOK /\ Fresh /\ Guarded /\ ~LockGone => Writer = lock)'
      BY WriterIsOwner, PTL
    <3>3. QED
      BY <3>1, <3>2 DEF IInv
  <2>2. CASE UNCHANGED vars \/ Ended
    BY <2>2, <2>1 DEF vars, Ended, Abs!vars, Live
  <2>3. QED
    BY <2>1, <2>2, MainRefines, ThreadRefines DEF Next
<1>3. QED
  BY <1>1, <1>2, Invariance, PTL DEF Spec, Implements
=============================================================================
