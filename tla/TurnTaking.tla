----------------------------- MODULE TurnTaking -----------------------------
(****************************************************************************)
(* Lab_2/WIN/main.cpp and Lab_2_1/main.cpp: the same program with events    *)
(* and with semaphores.                                                     *)
(*                                                                          *)
(* The parent starts a child for '+', terminates the last one for '-' and   *)
(* all for 'q'; between keys it gives the next child in the list a turn to  *)
(* print its line, through a named kernel object per child, and waits until *)
(* the turn is given back.                                                  *)
(*   "events"      manual-reset event, created before the child; set by the *)
(*                 parent, reset by the child, both polling for the reset;  *)
(*   "semaphores"  semaphore (0 of 1), created after the child; released    *)
(*                 and then waited for by the parent, the other way round   *)
(*                 by the child.                                            *)
(*                                                                          *)
(* An object is known by the number in its name, which is a place in the    *)
(* list.  A process that is terminated makes no further step, but its       *)
(* handles close some time later.  Any other key is no key.                 *)
(****************************************************************************)
EXTENDS Integers, Sequences

CONSTANTS
  Versions,    \* which of the two programs: a subset of {"events", "semaphores"}
  MaxStarts,   \* bound on the number of children ever started
  Failures     \* may CreateProcess, CreateEvent and CreateSemaphore fail?

ASSUME VersionsAssumption == Versions \subseteq {"events", "semaphores"}
ASSUME MaxStartsAssumption == MaxStarts \in Nat
ASSUME FailuresAssumption == Failures \in BOOLEAN

Child == 1..MaxStarts
NoChild == 0

VARIABLES
  version,
  ppc,        \* parent: control point
  processes,  \* parent: the children it has handles of, in the order of the list
  current,    \* parent: whose turn it is, from 0
  started,    \* number of children started
  handle,     \* parent: did the last CreateEvent give it a handle?
  cpc,        \* children: control point
  number,     \* children: the number in the command line
  opened,     \* children: does it have a handle of its object?
  exists,     \* objects: does one of this name exist?
  signal      \* objects: is the event set, the count of the semaphore 1?

parentVars == <<ppc, processes, current, started, handle>>
childVars == <<cpc, number, opened>>
objects == <<exists, signal>>
vars == <<version, parentVars, childVars, objects>>

Init ==
  /\ version \in Versions
  /\ ppc = "keys" /\ processes = <<>> /\ current = 0 /\ started = 0 /\ handle = FALSE
  /\ cpc = [c \in Child |-> "none"]
  /\ number = [c \in Child |-> 0] /\ opened = [c \in Child |-> FALSE]
  /\ exists = [s \in Child |-> FALSE] /\ signal = [s \in Child |-> FALSE]

Last == processes[Len(processes)]
Rest == SubSeq(processes, 1, Len(processes) - 1)
\* The number of the next child is the length of the list, plus one with events.
NewSlot == Len(processes) + 1
Listed(c) == \E i \in DOMAIN processes : processes[i] = c
Printing(c) == cpc[c] \in {"printing", "finishing"}
Live(c) == cpc[c] \notin {"none", "exited", "dead"}

Abs == INSTANCE LinePrinter
         WITH Printer <- Child, NoOne <- NoChild,
              printers <- {c \in Child : Live(c)},
              writer <- IF \E c \in Child : cpc[c] = "printing"
                        THEN CHOOSE c \in Child : cpc[c] = "printing" ELSE NoChild

-----------------------------------------------------------------------------
(* Objects *)

\* Somebody has a handle of the object of this number; else it vanishes at last.
Held(s) ==
  \/ s <= Len(processes)
  \/ s = NewSlot /\ (ppc = "push" \/ (ppc = "spawn" /\ handle))
  \/ \E c \in Child : Live(c) /\ opened[c] /\ number[c] = s

Vanish(s) ==
  /\ exists[s] /\ ~Held(s)
  /\ exists' = [exists EXCEPT ![s] = FALSE]
  /\ signal' = [signal EXCEPT ![s] = FALSE]
  /\ UNCHANGED <<version, parentVars, childVars>>

\* CreateEvent and CreateSemaphore: an object that exists is opened as it is.
Create(s) == exists' = [exists EXCEPT ![s] = TRUE] /\ UNCHANGED signal

\* CreateProcess with the number in the command line.
Start(s) ==
  /\ started' = started + 1
  /\ cpc' = [cpc EXCEPT ![started + 1] = "starting"]
  /\ number' = [number EXCEPT ![started + 1] = s]

\* TerminateProcess.
Terminated(S) == [c \in Child |-> IF c \in S /\ Live(c) THEN "dead" ELSE cpc[c]]

-----------------------------------------------------------------------------
(* Parent: keys *)

NoKey ==
  /\ ppc = "keys" /\ ppc' = "turn"
  /\ UNCHANGED <<version, processes, current, started, handle, childVars, objects>>

KeyAdd ==
  /\ ppc = "keys" /\ started < MaxStarts
  /\ ppc' = IF version = "events" THEN "create" ELSE "spawn"
  /\ UNCHANGED <<version, processes, current, started, handle, childVars, objects>>

\* '-' with an empty list only prints a message. close_process resets the event,
\* close_handle_pair leaves the semaphore as it is.
ResetUpTo(from) ==
  signal' = [s \in Child |-> signal[s] /\ ~(version = "events" /\ s \in from..Len(processes))]

RemoveProcess ==
  /\ ppc = "keys" /\ version = "events" /\ processes # <<>> /\ ppc' = "turn"
  /\ cpc' = Terminated({Last}) /\ ResetUpTo(Len(processes))
  /\ processes' = Rest
  /\ UNCHANGED <<version, current, started, handle, number, opened, exists>>

RemoveHandlePair ==
  /\ ppc = "keys" /\ version = "semaphores" /\ processes # <<>> /\ ppc' = "turn"
  /\ cpc' = Terminated({Last}) /\ UNCHANGED signal
  /\ processes' = Rest
  /\ UNCHANGED <<version, current, started, handle, number, opened, exists>>

\* close_all_processes, close_all_handle_pairs: the list from its end. Variant: the first
\* child is forgotten.
CloseFrom(first) ==
  /\ cpc' = Terminated({processes[i] : i \in first..Len(processes)})
  /\ ResetUpTo(1)
  /\ processes' = <<>>
CloseAllButOne == CloseFrom(2)
CloseAll == CloseFrom(1)

KeyQuit ==
  /\ ppc = "keys" /\ ppc' = "done"
  /\ CloseAll
  /\ UNCHANGED <<version, current, started, handle, number, opened, exists>>

-----------------------------------------------------------------------------
(* Parent: a new child *)

\* Events: the object first. A NULL handle is looked at only after the child was started.
CreateEvent ==
  /\ ppc = "create" /\ version = "events" /\ ppc' = "spawn"
  /\ \/ Create(NewSlot) /\ handle' = TRUE
     \/ Failures /\ handle' = FALSE /\ UNCHANGED objects
  /\ UNCHANGED <<version, processes, current, started, childVars>>

SpawnAfterEvent ==
  /\ ppc = "spawn" /\ version = "events"
  /\ Start(NewSlot) /\ ppc' = IF handle THEN "push" ELSE "give up"
  /\ UNCHANGED <<version, processes, current, handle, opened, objects>>

\* new_process ends the program on the spot when it fails: nobody closes the others.
SpawnAfterEventFails ==
  /\ ppc = "spawn" /\ version = "events" /\ Failures
  /\ ppc' = "failed"
  /\ UNCHANGED <<version, processes, current, started, handle, childVars, objects>>

\* Semaphores: the child first. When it cannot be started, all are closed.
SpawnFirst ==
  /\ ppc = "spawn" /\ version = "semaphores"
  /\ Start(NewSlot) /\ ppc' = "create"
  /\ UNCHANGED <<version, processes, current, handle, opened, objects>>

SpawnFirstFails ==
  /\ ppc = "spawn" /\ version = "semaphores" /\ Failures
  /\ ppc' = "failed" /\ CloseAll
  /\ UNCHANGED <<version, current, started, handle, number, opened, exists>>

CreateSemaphore ==
  /\ ppc = "create" /\ version = "semaphores"
  /\ \/ Create(NewSlot) /\ ppc' = "push"
     \/ Failures /\ ppc' = "give up" /\ UNCHANGED objects
  /\ UNCHANGED <<version, processes, current, started, handle, childVars>>

Push ==
  /\ ppc = "push" /\ ppc' = "turn"
  /\ processes' = Append(processes, started)
  /\ UNCHANGED <<version, current, started, handle, childVars, objects>>

\* The object is missing: all are closed, but not the child just started.
GiveUp ==
  /\ ppc = "give up" /\ ppc' = "failed" /\ CloseAll
  /\ UNCHANGED <<version, current, started, handle, number, opened, exists>>

-----------------------------------------------------------------------------
(* Parent: a turn *)

\* ++current, back to 0 behind the last. Variant: the turn never moves on.
SuccessorSame(n) == IF n >= Len(processes) THEN 0 ELSE n
Successor(n) == IF n + 1 >= Len(processes) THEN 0 ELSE n + 1
Slot == current + 1

NoTurn ==
  /\ ppc = "turn" /\ processes = <<>> /\ ppc' = "keys"
  /\ UNCHANGED <<version, processes, current, started, handle, childVars, objects>>

SetEvent ==
  /\ ppc = "turn" /\ version = "events" /\ processes # <<>>
  /\ current' = Successor(current)
  /\ signal' = [signal EXCEPT ![current' + 1] = TRUE]
  /\ ppc' = "wait"
  /\ UNCHANGED <<version, processes, started, handle, childVars, exists>>

\* The parent polls until somebody has reset the event.
SeeReset ==
  /\ ppc = "wait" /\ version = "events" /\ ~signal[Slot]
  /\ ppc' = "keys"
  /\ UNCHANGED <<version, processes, current, started, handle, childVars, objects>>

\* A semaphore released while a child waits for it goes to that child.
Blocked(s) == {c \in Child : cpc[c] = "blocked" /\ number[c] = s}

ReleaseTurn ==
  /\ ppc = "turn" /\ version = "semaphores" /\ processes # <<>>
  /\ current' = Successor(current)
  /\ IF signal[current' + 1]
     THEN CloseAll /\ ppc' = "failed"
     ELSE /\ ppc' = "wait" /\ UNCHANGED processes
          /\ \/ \E c \in Blocked(current' + 1) : cpc' = [cpc EXCEPT ![c] = "printing"]
                /\ UNCHANGED signal
             \/ Blocked(current' + 1) = {}
                /\ signal' = [signal EXCEPT ![current' + 1] = TRUE] /\ UNCHANGED cpc
  /\ UNCHANGED <<version, started, handle, number, opened, exists>>

\* WaitForSingleObject on the semaphore just released: the parent takes it, perhaps its
\* own release, or is the one it will go to. Variant: it does not wait.
WaitTurnNot ==
  /\ ppc = "wait" /\ version = "semaphores" /\ ppc' = "keys"
  /\ UNCHANGED <<version, processes, current, started, handle, childVars, objects>>

WaitTurn ==
  /\ ppc = "wait" /\ version = "semaphores"
  /\ ppc' = IF signal[Slot] THEN "keys" ELSE "blocked"
  /\ signal' = [signal EXCEPT ![Slot] = FALSE]
  /\ UNCHANGED <<version, processes, current, started, handle, childVars, exists>>

-----------------------------------------------------------------------------
(* Children *)

\* OpenEvent; without the event all calls on the handle fail at once.
OpenEvent(c) ==
  /\ cpc[c] = "starting" /\ version = "events"
  /\ opened' = [opened EXCEPT ![c] = exists[number[c]]]
  /\ cpc' = [cpc EXCEPT ![c] = "waiting"]
  /\ UNCHANGED <<version, parentVars, number, objects>>

\* OpenSemaphore; without the semaphore the child exits.
OpenSemaphore(c) ==
  /\ cpc[c] = "starting" /\ version = "semaphores"
  /\ opened' = [opened EXCEPT ![c] = exists[number[c]]]
  /\ cpc' = [cpc EXCEPT ![c] = IF exists[number[c]] THEN "waiting" ELSE "exited"]
  /\ UNCHANGED <<version, parentVars, number, objects>>

WaitEvent(c) ==
  /\ cpc[c] = "waiting" /\ version = "events" /\ (opened[c] => signal[number[c]])
  /\ cpc' = [cpc EXCEPT ![c] = "printing"]
  /\ UNCHANGED <<version, parentVars, number, opened, objects>>

WaitSemaphore(c) ==
  /\ cpc[c] = "waiting" /\ version = "semaphores"
  /\ cpc' = [cpc EXCEPT ![c] = IF signal[number[c]] THEN "printing" ELSE "blocked"]
  /\ signal' = [signal EXCEPT ![number[c]] = FALSE]
  /\ UNCHANGED <<version, parentVars, number, opened, exists>>

\* The line, up to its newline, character by character. Variant: the event is reset in
\* the middle of the line.
PrintResetting(c) ==
  /\ cpc[c] = "printing" /\ version = "events"
  /\ UNCHANGED <<version, parentVars, number, opened, exists>>
  /\ \/ cpc' = [cpc EXCEPT ![c] = "finishing"] /\ UNCHANGED signal
     \/ opened[c] /\ signal[number[c]] /\ UNCHANGED cpc
        /\ signal' = [signal EXCEPT ![number[c]] = FALSE]

PrintLine(c) ==
  /\ cpc[c] = "printing" /\ version = "events"
  /\ cpc' = [cpc EXCEPT ![c] = "finishing"]
  /\ UNCHANGED <<version, parentVars, number, opened, objects>>

print_by_char(c) ==
  /\ cpc[c] = "printing" /\ version = "semaphores"
  /\ cpc' = [cpc EXCEPT ![c] = "finishing"]
  /\ UNCHANGED <<version, parentVars, number, opened, objects>>

ResetEvent(c) ==
  /\ cpc[c] = "finishing" /\ version = "events"
  /\ cpc' = [cpc EXCEPT ![c] = "polling"]
  /\ signal' = [signal EXCEPT ![number[c]] = @ /\ ~opened[c]]
  /\ UNCHANGED <<version, parentVars, number, opened, exists>>

\* The child polls until it sees the event reset, although it has just reset it itself.
SeeOwnReset(c) ==
  /\ cpc[c] = "polling" /\ (opened[c] => ~signal[number[c]])
  /\ cpc' = [cpc EXCEPT ![c] = "waiting"]
  /\ UNCHANGED <<version, parentVars, number, opened, objects>>

\* The semaphore goes to the parent if it waits already. When it is refused the child
\* exits.
ReleaseSemaphore(c) ==
  /\ cpc[c] = "finishing" /\ version = "semaphores"
  /\ cpc' = [cpc EXCEPT ![c] = IF signal[number[c]] THEN "exited" ELSE "waiting"]
  /\ IF ppc = "blocked" /\ Slot = number[c]
     THEN ppc' = "keys" /\ UNCHANGED signal
     ELSE signal' = [signal EXCEPT ![number[c]] = TRUE] /\ UNCHANGED ppc
  /\ UNCHANGED <<version, processes, current, started, handle, number, opened, exists>>

-----------------------------------------------------------------------------
(* Specification *)

Keys == KeyAdd \/ RemoveProcess \/ RemoveHandlePair \/ KeyQuit

ParentStep ==
  \/ NoKey \/ CreateEvent \/ SpawnAfterEvent \/ SpawnAfterEventFails \/ SpawnFirst
  \/ SpawnFirstFails \/ CreateSemaphore \/ Push \/ GiveUp \/ NoTurn \/ SetEvent
  \/ SeeReset \/ ReleaseTurn \/ WaitTurn

ChildStep(c) ==
  \/ OpenEvent(c) \/ OpenSemaphore(c) \/ WaitEvent(c) \/ WaitSemaphore(c) \/ PrintLine(c)
  \/ print_by_char(c) \/ ResetEvent(c) \/ SeeOwnReset(c) \/ ReleaseSemaphore(c)

\* The parent is gone; children it did not close wait for ever.
Over == ppc \in {"done", "failed"} /\ UNCHANGED vars

\* Another round of the parent's polling loop.
Poll == ppc = "wait" /\ version = "events" /\ signal[Slot] /\ UNCHANGED vars

Next == Keys \/ ParentStep \/ Poll \/ Over \/ \E c \in Child : ChildStep(c) \/ Vanish(c)

\* Parent and children are scheduled; nothing makes the user press a key.
Spec == Init /\ [][Next]_vars /\ WF_vars(ParentStep) /\ \A c \in Child : WF_vars(ChildStep(c))

-----------------------------------------------------------------------------
(* Properties *)

\* Every variable holds a value of its type, and a turn is given to a place in the list.
TypeOK ==
  /\ version \in Versions
  /\ ppc \in {"keys", "create", "spawn", "push", "give up", "turn", "wait", "blocked", "failed", "done"}
  /\ processes \in Seq(Child) /\ current \in Nat /\ started \in 0..MaxStarts
  /\ (ppc \in {"wait", "blocked"} => Slot \in DOMAIN processes)
  /\ handle \in BOOLEAN
  /\ cpc \in [Child -> {"none", "starting", "waiting", "blocked", "printing", "finishing",
                        "polling", "exited", "dead"}]
  /\ number \in [Child -> 0..MaxStarts] /\ opened \in [Child -> BOOLEAN]
  /\ exists \in [Child -> BOOLEAN] /\ signal \in [Child -> BOOLEAN]

Waiting == ppc \in {"wait", "blocked"}

\* The right to print is in one place: a child prints only in a turn that was given to it,
\* a signal that is set belongs to the turn that is given, and a semaphore that is
\* released is not with a printing child as well.
InTurn ==
  /\ \A c \in Child : Printing(c) /\ opened[c] => Waiting /\ processes[Slot] = c
  /\ \A s \in Child : signal[s] =>
       /\ ppc = "wait" /\ s = Slot
       /\ version = "semaphores" => \A c \in Child : ~Printing(c)

\* What the parent can do without the user, and what a child can do.
ParentCanGo ==
  \/ ppc \notin {"wait", "blocked", "done", "failed"}
  \/ ppc = "wait" /\ (version = "events" => ~signal[Slot])

ChildCanGo(c) ==
  \/ cpc[c] \in {"starting", "printing", "finishing"}
  \/ cpc[c] = "waiting" /\ (version = "events" /\ opened[c] => signal[number[c]])
  \/ cpc[c] = "polling" /\ (opened[c] => ~signal[number[c]])

\* While the parent waits, the child whose turn it is can go on; except for one that polls
\* the event that is set again.
NoStandstill ==
  \/ ParentCanGo \/ ppc \in {"done", "failed"}
  \/ ChildCanGo(processes[Slot])
  \/ version = "events" /\ cpc[processes[Slot]] = "polling"

\* The right to print is in one place, and there it is used.
TurnInUse == InTurn /\ NoStandstill

\* No child is terminated in the middle of a line: whatever is pressed, and when.
NoLineCut == [][\A c \in Child : cpc[c] = "printing" => cpc'[c] # "dead"]_vars

\* 'q' leaves no child behind.
AllClosed == ppc = "done" => \A c \in Child : ~Live(c)

\* The lines of the children never mix.
Implements == Abs!Spec

\* A child in the list prints, again and again.
HasTurns(c) == []<>(Printing(c) \/ ~Listed(c))
EveryChildPrints == \A c \in Child : HasTurns(c)

\* With semaphores each child in the list prints again and again, although the parent may
\* take back what it has released, if the child has found its semaphore.
SemaphoresServe ==
  \A c \in Child : []<>(version = "events" \/ cpc[c] = "exited" \/ Printing(c) \/ ~Listed(c))
=============================================================================
