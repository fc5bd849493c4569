---------------------------- MODULE ProcessTree ----------------------------
(****************************************************************************)
(* Lab_1/LINUX/main.cpp and Lab_1/WIN/main.cpp: a process starts the same   *)
(* program again, prints the time and waits for its child.                  *)
(*                                                                          *)
(* A process is known by its place in the chain: process p + 1 is the child *)
(* of process p.  What main looks at is the number of arguments, and        *)
(* whether argv[0] leads to the program: the child gets arguments of its    *)
(* own.  A text as an argument is the number of its words.                  *)
(****************************************************************************)
EXTENDS Integers, FiniteSets

CONSTANTS
  Systems,        \* which of the two programs: a subset of {"linux", "windows"}
  MaxProcesses    \* how many processes there may be: fork fails beyond

ASSUME SystemsAssumption == Systems \subseteq {"linux", "windows"}
ASSUME MaxProcessesAssumption == MaxProcesses \in Nat \ {0}

Process == 1..MaxProcesses

VARIABLES
  system,
  words,    \* argv[1] of the first process, as the number of its words
  named,    \* is there a program of the name "some_arg"?
  pc,       \* processes: control point
  argc,     \* processes: number of arguments, argv[0] included
  path,     \* processes: does argv[0] lead to the program?
  printed   \* processes: how often it has printed the time

vars == <<system, words, named, pc, argc, path, printed>>

\* The user starts the program, with arguments or without.
Init ==
  /\ system \in Systems /\ words \in 1..2 /\ named \in BOOLEAN
  /\ pc = [p \in Process |-> IF p = 1 THEN "main" ELSE "none"]
  /\ \E n \in 1..3 : argc = [p \in Process |-> IF p = 1 THEN n ELSE 0]
  /\ \E b \in BOOLEAN : path = [p \in Process |-> p = 1 /\ b]
  /\ printed = [p \in Process |-> 0]

Goto(p, l) == pc' = [pc EXCEPT ![p] = l]
ShowTime(p) == printed' = [printed EXCEPT ![p] = @ + 1]
Begin(p, n, found) ==
  /\ argc' = [argc EXCEPT ![p] = n]
  /\ path' = [path EXCEPT ![p] = found]
HasRoom(p) == p < MaxProcesses
HasChild(p) == HasRoom(p) /\ pc[p + 1] # "none"

-----------------------------------------------------------------------------
(* Linux *)

\* A process with one argument takes itself for the child.
IsChild(p) ==
  /\ pc[p] = "main" /\ system = "linux" /\ argc[p] = 2
  /\ ShowTime(p) /\ Goto(p, "over")
  /\ UNCHANGED <<system, words, named, argc, path>>

\* Parent and child go on from here; the child is a copy.
Fork(p) ==
  /\ pc[p] = "main" /\ system = "linux" /\ argc[p] # 2 /\ HasRoom(p)
  /\ pc' = [pc EXCEPT ![p] = "parent", ![p + 1] = "exec"]
  /\ argc' = [argc EXCEPT ![p + 1] = argc[p]]
  /\ path' = [path EXCEPT ![p + 1] = path[p]]
  /\ UNCHANGED <<system, words, named, printed>>

ForkFails(p) ==
  /\ pc[p] = "main" /\ system = "linux" /\ argc[p] # 2
  /\ Goto(p, "over")
  /\ UNCHANGED <<system, words, named, argc, path, printed>>

\* execl with "some_arg" as argv[0] and nothing else: the program anew, with one argument
\* less than it looks for. Variant: argv[0] is passed on, as is the custom.
ExecSamePath(p) ==
  /\ pc[p] = "exec" /\ path[p]
  /\ Goto(p, "main") /\ Begin(p, 1, path[p])
  /\ UNCHANGED <<system, words, named, printed>>

Exec(p) ==
  /\ pc[p] = "exec" /\ path[p]
  /\ Goto(p, "main") /\ Begin(p, 1, named)
  /\ UNCHANGED <<system, words, named, printed>>

\* When execl fails, the copy leaves the switch and ends. Variant: it falls through.
ExecFallsThrough(p) ==
  /\ pc[p] = "exec" /\ ~path[p]
  /\ Goto(p, "parent")
  /\ UNCHANGED <<system, words, named, argc, path, printed>>

ExecFails(p) ==
  /\ pc[p] = "exec" /\ ~path[p]
  /\ Goto(p, "over")
  /\ UNCHANGED <<system, words, named, argc, path, printed>>

ParentShows(p) ==
  /\ pc[p] = "parent"
  /\ ShowTime(p) /\ Goto(p, "wait")
  /\ UNCHANGED <<system, words, named, argc, path>>

-----------------------------------------------------------------------------
(* Windows *)

\* The time first; without an argument a pause follows, and the end.
Show(p) ==
  /\ pc[p] = "main" /\ system = "windows"
  /\ ShowTime(p) /\ Goto(p, IF argc[p] < 2 THEN "pause" ELSE "create")
  /\ UNCHANGED <<system, words, named, argc, path>>

KeyPressed(p) ==
  /\ pc[p] = "pause" /\ Goto(p, "over")
  /\ UNCHANGED <<system, words, named, argc, path, printed>>

\* CreateProcess with argv[1] as the command line: its words are the arguments of the
\* child, the first of them argv[0].
CreateProcess(p) ==
  /\ pc[p] = "create" /\ path[p] /\ HasRoom(p)
  /\ pc' = [pc EXCEPT ![p] = "wait", ![p + 1] = "main"]
  /\ Begin(p + 1, IF p = 1 THEN words ELSE 1, named)
  /\ UNCHANGED <<system, words, named, printed>>

CreateProcessFails(p) ==
  /\ pc[p] = "create" /\ (~path[p] \/ ~HasRoom(p))
  /\ Goto(p, "over")
  /\ UNCHANGED <<system, words, named, argc, path, printed>>

-----------------------------------------------------------------------------
(* Both *)

\* waitpid, which returns at once when there is no child (ECHILD); WaitForSingleObject and
\* CloseHandle.
Wait(p) ==
  /\ pc[p] = "wait" /\ (HasChild(p) => pc[p + 1] = "over")
  /\ Goto(p, "over")
  /\ UNCHANGED <<system, words, named, argc, path, printed>>

Step(p) ==
  \/ IsChild(p) \/ Fork(p) \/ ForkFails(p) \/ Exec(p) \/ ExecFails(p) \/ ParentShows(p)
  \/ Show(p) \/ KeyPressed(p) \/ CreateProcess(p) \/ CreateProcessFails(p) \/ Wait(p)

AllOver == \A p \in Process : pc[p] \in {"none", "over"}

Next == (\E p \in Process : Step(p)) \/ (AllOver /\ UNCHANGED vars)

Spec == Init /\ [][Next]_vars

-----------------------------------------------------------------------------
(* Properties *)

\* Every variable holds a value of its type.
TypeOK ==
  /\ system \in Systems /\ words \in 1..2 /\ named \in BOOLEAN
  /\ pc \in [Process -> {"none", "main", "exec", "parent", "wait", "pause", "create", "over"}]
  /\ argc \in [Process -> 0..3] /\ path \in [Process -> BOOLEAN]
  /\ printed \in [Process -> 0..1]

\* The base process ends after its child and the child after its own: none is left to
\* run, or to stay as a zombie.
ParentsLast ==
  \A p \in Process : HasRoom(p) /\ pc[p] = "over" => pc[p + 1] \in {"none", "over"}

\* On Linux the time is printed as a parent: by the processes that have a child and by no
\* other, whichever call fails; except a process that takes itself for the child.
ParentsPrint ==
  system = "linux" =>
    \A p \in Process :
      /\ printed[p] > 0 => HasChild(p) \/ argc[p] = 2
      /\ pc[p] = "over" /\ HasChild(p) => printed[p] = 1

\* What a process can do, the user included.
CanGo(p) ==
  \/ pc[p] \in {"main", "exec", "parent", "pause", "create"}
  \/ pc[p] = "wait" /\ (HasChild(p) => pc[p + 1] = "over")

\* The processes do not all wait.
NoStandstill == AllOver \/ \E p \in Process : CanGo(p)

\* What holds between parents and children.
Family == ParentsLast /\ ParentsPrint /\ NoStandstill

\* Each process starts the program that starts the next, and still there are never more than
\* three: on Windows the third has no argument left to start another with, on Linux its
\* argv[0] leads nowhere, unless there happens to be a program of that name.
ShortChain ==
  ~(system = "linux" /\ named) => \A p \in Process : p > 3 => pc[p] = "none"
=============================================================================
