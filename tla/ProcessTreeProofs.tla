------------------------- MODULE ProcessTreeProofs -------------------------
(****************************************************************************)
(* Theorems about ProcessTree, for chains of any length.  The argument: a   *)
(* process that has not started a child yet is the last of the chain, and   *)
(* the last one that is not over waits for nobody.  What ends the chain is  *)
(* said by Third.                                                           *)
(****************************************************************************)
EXTENDS ProcessTree, WellFoundedInduction, TLAPS

USE SystemsAssumption, MaxProcessesAssumption
USE DEF Process, HasRoom, HasChild

Childless == {"none", "main", "exec", "pause", "create"}

Chain == \A p \in Process : HasRoom(p) /\ pc[p] \in Childless => pc[p + 1] = "none"

\* Which system a control point belongs to, and who has printed the time.
Shown ==
  \A p \in Process :
    /\ pc[p] \in {"pause", "create"} => system = "windows"
    /\ pc[p] \in {"parent", "wait"} => HasRoom(p) /\ pc[p + 1] # "none"
    /\ pc[p] \in {"exec", "parent"} => system = "linux"
    /\ pc[p] \in {"none", "main", "exec", "parent"} => printed[p] = 0
    /\ pc[p] = "wait" /\ system = "linux" => printed[p] = 1

IInv == TypeOK /\ Chain /\ Shown /\ ParentsLast /\ ParentsPrint

LEMMA InitChain == Init => IInv
<1> SUFFICES ASSUME Init PROVE IInv
  OBVIOUS
<1>1. TypeOK
  BY DEF Init, TypeOK
<1>2. Chain /\ Shown /\ ParentsLast /\ ParentsPrint
  BY DEF Init, Chain, Shown, ParentsLast, ParentsPrint
<1>3. QED
  BY <1>1, <1>2 DEF IInv

\* A step of a process changes its own control point, or starts the next one as well.
LEMMA StepKeepsChain ==
  ASSUME IInv, NEW p \in Process, Step(p) PROVE IInv'
<1> USE DEF IInv, TypeOK, Chain, Shown, ParentsLast, ParentsPrint, Childless, Goto, ShowTime, Begin
<1>1. CASE IsChild(p)
  BY <1>1 DEF IsChild
<1>2. CASE Fork(p)
  <2>1. /\ p + 1 \in Process /\ pc[p + 1] = "none"
        /\ \A q \in Process : pc'[q] = IF q = p THEN "parent" ELSE IF q = p + 1 THEN "exec" ELSE pc[q]
    BY <1>2 DEF Fork
  <2>2. TypeOK'
    BY <1>2, <2>1 DEF Fork
  <2>3. Chain' /\ Shown'
    BY <1>2, <2>1 DEF Fork
  <2>4. ParentsLast' /\ ParentsPrint'
    BY <1>2, <2>1 DEF Fork
  <2>5. QED
    BY <2>2, <2>3, <2>4
<1>3. CASE ForkFails(p)
  BY <1>3 DEF ForkFails
<1>4. CASE Exec(p)
  BY <1>4 DEF Exec
<1>5. CASE ExecFails(p)
  <2>1. /\ pc[p] = "exec" /\ pc'[p] = "over" /\ \A q \in Process : q # p => pc'[q] = pc[q]
        /\ system = "linux" /\ UNCHANGED <<system, words, named, argc, path, printed>>
    BY <1>5 DEF ExecFails
  <2>2. TypeOK'
    BY <1>5, <2>1 DEF ExecFails
  <2>3. \A q \in Process : HasRoom(q) => ((pc[q + 1] # "none") <=> (pc'[q + 1] # "none"))
    BY <2>1
  <2>4. Chain' /\ Shown'
    BY <2>1, <2>3
  <2>5. HasRoom(p) => pc[p + 1] = "none" /\ pc'[p + 1] = "none"
    BY <2>1, <2>3
  <2>6. ParentsLast'
    BY <2>1, <2>5
  <2>7. ParentsPrint'
    BY <2>1, <2>3, <2>5
  <2>8. QED
    BY <2>2, <2>4, <2>6, <2>7
<1>6. CASE ParentShows(p)
  <2>1. \A q \in Process : q # p => pc'[q] = pc[q] /\ UNCHANGED <<printed[q], argc[q]>>
    BY <1>6 DEF ParentShows
  <2>0. /\ pc[p] = "parent" /\ pc'[p] = "wait" /\ printed[p] = 0 /\ printed'[p] = 1
        /\ HasRoom(p) /\ pc[p + 1] # "none" /\ UNCHANGED <<system, argc>>
    BY <1>6 DEF ParentShows
  <2>2. TypeOK'
    BY <1>6, <2>1 DEF ParentShows
  <2>3. Chain' /\ Shown'
    BY <1>6, <2>1 DEF ParentShows
  <2>4. ParentsLast' /\ ParentsPrint'
    <3>1. \A q \in Process : HasRoom(q) => ((pc[q + 1] # "none") <=> (pc'[q + 1] # "none"))
      BY <2>0, <2>1
    <3>2. ParentsPrint'
      BY <2>0, <2>1, <3>1
    <3>3. ParentsLast'
      BY <2>0, <2>1
    <3>4. QED
      BY <3>2, <3>3
  <2>5. QED
    BY <2>2, <2>3, <2>4
<1>7. CASE Show(p)
  <2>1. \A q \in Process : q # p => pc'[q] = pc[q] /\ UNCHANGED <<printed[q], argc[q]>>
    BY <1>7 DEF Show
  <2>2. TypeOK'
    BY <1>7, <2>1 DEF Show
  <2>3. Chain' /\ Shown'
    BY <1>7, <2>1 DEF Show
  <2>4. ParentsLast' /\ ParentsPrint'
    BY <1>7, <2>1 DEF Show
  <2>5. QED
    BY <2>2, <2>3, <2>4
<1>8. CASE CreateProcess(p)
  <2>1. /\ p + 1 \in Process /\ pc[p + 1] = "none"
        /\ \A q \in Process : pc'[q] = IF q = p THEN "wait" ELSE IF q = p + 1 THEN "main" ELSE pc[q]
    BY <1>8 DEF CreateProcess
  <2>2. TypeOK'
    <3>1. pc' \in [Process -> {"none", "main", "exec", "parent", "wait", "pause", "create", "over"}]
      BY <1>8, <2>1 DEF CreateProcess
    <3>2. words \in 0..3 /\ (IF p = 1 THEN words ELSE 1) \in 0..3
      OBVIOUS
    <3>3. argc' \in [Process -> 0..3] /\ path' \in [Process -> BOOLEAN]
      BY <1>8, <3>2 DEF CreateProcess
    <3>4. QED
      BY <1>8, <3>1, <3>3 DEF CreateProcess
  <2>3. Chain' /\ Shown'
    BY <1>8, <2>1 DEF CreateProcess
  <2>4. ParentsLast' /\ ParentsPrint'
    BY <1>8, <2>1 DEF CreateProcess
  <2>5. QED
    BY <2>2, <2>3, <2>4
<1>9. CASE CreateProcessFails(p)
  <2>1. \A q \in Process : q # p => pc'[q] = pc[q] /\ UNCHANGED <<printed[q], argc[q]>>
    BY <1>9 DEF CreateProcessFails
  <2>2. TypeOK'
    BY <1>9, <2>1 DEF CreateProcessFails
  <2>3. Chain' /\ Shown'
    BY <1>9, <2>1 DEF CreateProcessFails
  <2>4. ParentsLast' /\ ParentsPrint'
    BY <1>9, <2>1 DEF CreateProcessFails
  <2>5. QED
    BY <2>2, <2>3, <2>4
<1>10. CASE Wait(p)
  <2>1. /\ pc[p] = "wait" /\ pc'[p] = "over" /\ pc[p + 1] = "over" /\ pc'[p + 1] = "over"
        /\ HasRoom(p) /\ p + 1 \in Process
        /\ \A q \in Process : q # p => pc'[q] = pc[q]
        /\ UNCHANGED <<system, words, named, argc, path, printed>>
    BY <1>10 DEF Wait
  <2>2. TypeOK'
    BY <1>10, <2>1 DEF Wait
  <2>3. Chain' /\ Shown'
    BY <2>1
  <2>4. ParentsLast'
    BY <2>1
  <2>5. ParentsPrint'
    BY <2>1
  <2>6. QED
    BY <2>2, <2>3, <2>4, <2>5
<1>11. CASE KeyPressed(p)
  <2>1. /\ pc[p] = "pause" /\ pc'[p] = "over" /\ \A q \in Process : q # p => pc'[q] = pc[q]
        /\ system = "windows" /\ UNCHANGED <<system, words, named, argc, path, printed>>
    BY <1>11 DEF KeyPressed
  <2>2. TypeOK'
    BY <1>11, <2>1 DEF KeyPressed
  <2>0. \A q \in Process : HasRoom(q) => ((pc[q + 1] # "none") <=> (pc'[q + 1] # "none"))
    BY <2>1
  <2>3. Chain' /\ Shown'
    BY <2>0, <2>1
  <2>4. ParentsLast' /\ ParentsPrint'
    BY <2>1
  <2>5. QED
    BY <2>2, <2>3, <2>4
<1>12. QED
  BY <1>1, <1>2, <1>3, <1>4, <1>5, <1>6, <1>7, <1>8, <1>9, <1>10, <1>11 DEF Step

LEMMA Invariance == Spec => []IInv
<1>1. IInv /\ UNCHANGED vars => IInv'
  BY DEF vars, IInv, TypeOK, Chain, Shown, ParentsLast, ParentsPrint
<1>2. IInv /\ [Next]_vars => IInv'
  BY <1>1, StepKeepsChain DEF Next
<1>3. QED
  BY <1>2, InitChain, PTL DEF Spec

\* Every variable keeps its type: in particular no process prints the time twice.
THEOREM TypesKept == Spec => []TypeOK
<1>1. IInv => TypeOK
  BY DEF IInv
<1>2. QED
  BY <1>1, Invariance, PTL

\* A set of numbers of processes has a last one.
LEMMA LastOne ==
  ASSUME NEW T \in SUBSET Process, T # {}
  PROVE  \E m \in T : \A j \in T : j <= m
<1> DEFINE less == OpToRel(<, Nat)
           after == {MaxProcesses - p : p \in T}
<1>1. \A x, y \in Nat : <<x, y>> \in less <=> x < y
  BY DEF OpToRel
<1>2. IsWellFoundedOn(less, Nat)
  BY NatLessThanWellFounded
<1>3. after \in SUBSET Nat /\ after # {}
  OBVIOUS
<1> HIDE DEF less
<1>4. PICK n \in after : \A k \in after : <<k, n>> \notin less
  BY <1>2, <1>3, WFMin
<1>5. PICK m \in T : n = MaxProcesses - m
  OBVIOUS
<1>6. ASSUME NEW j \in T PROVE j <= m
  <2>1. MaxProcesses - j \in after /\ MaxProcesses - j \in Nat /\ n \in Nat
    BY <1>3
  <2>2. ~(MaxProcesses - j < n)
    BY <1>1, <1>4, <2>1
  <2>3. QED
    BY <1>5, <2>2
<1>7. QED
  BY <1>6

\* The last process that is not over does not wait for its child: that one is over, too.
LEMMA SomeoneGoes == IInv => NoStandstill
<1> DEFINE Alive == {p \in Process : pc[p] \notin {"none", "over"}}
<1> SUFFICES ASSUME IInv, ~AllOver PROVE \E p \in Process : CanGo(p)
  BY DEF NoStandstill
<1>1. Alive # {}
  BY DEF AllOver
<1>2. PICK m \in Alive : \A j \in Alive : j <= m
  BY <1>1, LastOne
<1>3. pc[m] \in {"main", "exec", "parent", "wait", "pause", "create"} /\ m \in Process
  BY DEF IInv, TypeOK
<1>4. CASE pc[m] = "wait"
  <2>1. HasRoom(m) /\ pc[m + 1] # "none" /\ m + 1 \in Process
    BY <1>3, <1>4 DEF IInv, Shown
  <2>2. m + 1 \notin Alive
    BY <1>2, <1>3
  <2>3. pc[m + 1] = "over"
    BY <2>1, <2>2
  <2>4. QED
    BY <1>3, <1>4, <2>1, <2>3 DEF CanGo
<1>5. QED
  BY <1>3, <1>4 DEF CanGo

\* However long the chain is and whichever fork, execl or CreateProcess fails, a process
\* ends after its child, on Linux the time is printed as a parent by those that have one,
\* and as long as the chain is not over a process can go on.
THEOREM FamilyKept == Spec => []Family
<1>1. IInv => Family
  BY SomeoneGoes DEF IInv, Family
<1>2. QED
  BY <1>1, Invariance, PTL

-----------------------------------------------------------------------------
(* The length of the chain *)

\* Whoever was started by execl cannot start a program in its turn; on Windows the process
\* started by one that was started has no argument.
Short ==
  \A p \in Process :
    /\ p > 1 /\ pc[p] = "main" /\ system = "linux" => ~path[p]
    /\ p > 2 => /\ pc[p] \in {"none", "main", "exec", "pause", "over"}
                /\ pc[p] = "main" => system = "windows" /\ argc[p] < 2
                /\ pc[p] = "exec" => ~path[p]
    /\ p > 3 => pc[p] = "none"

Third == ~(system = "linux" /\ named) => Short

LEMMA StepKeepsThird ==
  ASSUME IInv, Third, NEW p \in Process, Step(p) PROVE Third'
<1>s. UNCHANGED <<system, named>>
  BY DEF Step, IsChild, Fork, ForkFails, Exec, ExecFails, ParentShows, Show, KeyPressed,
         CreateProcess, CreateProcessFails, Wait
<1> SUFFICES ASSUME ~(system = "linux" /\ named) PROVE Short'
  BY <1>s DEF Third
<1>0. TypeOK /\ Shown /\ Short /\ (system = "linux" => named = FALSE)
  BY DEF IInv, Third, TypeOK
<1> USE DEF TypeOK, Goto, Begin
<1>1. CASE Fork(p)
  <2>0. p <= 2 /\ (p = 2 => ~path[p])
    BY <1>0, <1>1 DEF Fork, Short
  <2>1. /\ p + 1 \in Process
        /\ \A q \in Process : pc'[q] = IF q = p THEN "parent" ELSE IF q = p + 1 THEN "exec" ELSE pc[q]
        /\ path'[p + 1] = path[p]
        /\ \A q \in Process : q # p + 1 => path'[q] = path[q] /\ argc'[q] = argc[q]
    BY <1>0, <1>1 DEF Fork
  <2>2. QED
    BY <1>0, <1>s, <2>0, <2>1 DEF Short
<1>2. CASE Exec(p)
  <2>0. p <= 2 /\ system = "linux" /\ ~named
    BY <1>0, <1>2 DEF Exec, Shown, Short
  <2>1. /\ path'[p] = FALSE
        /\ pc'[p] = "main"
        /\ \A q \in Process : q # p => pc'[q] = pc[q] /\ path'[q] = path[q] /\ argc'[q] = argc[q]
    BY <1>0, <1>2, <2>0 DEF Exec
  <2>2. QED
    BY <1>0, <1>s, <2>0, <2>1 DEF Short
<1>3. CASE CreateProcess(p)
  <2>a. pc[p] = "create"
    BY <1>3 DEF CreateProcess
  <2>0. p <= 2 /\ system = "windows"
    BY <1>0, <2>a DEF Shown, Short
  <2>1. /\ p + 1 \in Process /\ (p = 2 => argc'[p + 1] = 1)
        /\ \A q \in Process : pc'[q] = IF q = p THEN "wait" ELSE IF q = p + 1 THEN "main" ELSE pc[q]
        /\ \A q \in Process : q # p + 1 => path'[q] = path[q] /\ argc'[q] = argc[q]
    BY <1>0, <1>3 DEF CreateProcess
  <2>2. QED
    BY <1>0, <1>s, <2>0, <2>1 DEF Short
<1>4. CASE \/ IsChild(p) \/ ForkFails(p) \/ ExecFails(p) \/ ParentShows(p) \/ Show(p)
           \/ KeyPressed(p) \/ CreateProcessFails(p) \/ Wait(p)
  <2>1. /\ \A q \in Process : q # p => pc'[q] = pc[q]
        /\ UNCHANGED <<path, argc>> /\ pc'[p] # "none"
        /\ pc'[p] # "main" /\ pc'[p] # "exec" /\ pc[p] # "none"
    BY <1>0, <1>4 DEF IsChild, ForkFails, ExecFails, ParentShows, Show, KeyPressed,
                      CreateProcessFails, Wait
  <2>2. p > 2 => pc'[p] \in {"pause", "over"}
    <3> SUFFICES ASSUME p > 2 PROVE pc'[p] \in {"pause", "over"}
      OBVIOUS
    <3>1. /\ pc[p] \in {"none", "main", "exec", "pause", "over"}
          /\ pc[p] = "main" => system = "windows" /\ argc[p] < 2
      BY <1>0 DEF Short
    <3>2. CASE ParentShows(p) \/ CreateProcessFails(p) \/ Wait(p)
      BY <3>1, <3>2 DEF ParentShows, CreateProcessFails, Wait
    <3>3. CASE IsChild(p) \/ ForkFails(p) \/ ExecFails(p) \/ KeyPressed(p)
      BY <1>0, <3>3 DEF IsChild, ForkFails, ExecFails, KeyPressed
    <3>4. CASE Show(p)
      BY <1>0, <3>1, <3>4 DEF Show
    <3>5. QED
      BY <1>4, <3>2, <3>3, <3>4
  <2>3. QED
    BY <1>0, <1>s, <2>1, <2>2 DEF Short
<1>5. QED
  BY <1>1, <1>2, <1>3, <1>4 DEF Step

\* However many processes the system has room for, the programs start no more than three,
\* unless on Linux a program of the name given to the child exists.
THEOREM ThreeAtMost == Spec => []ShortChain
<1>1. Init => Third
  BY DEF Init, Third, Short
<1>2. IInv /\ Third /\ [Next]_vars => Third'
  <2>1. UNCHANGED vars /\ Third => Third'
    BY DEF vars, Third, Short
  <2>2. QED
    BY <2>1, StepKeepsThird DEF Next
<1>3. Third => ShortChain
  BY DEF Third, Short, ShortChain
<1>4. QED
  BY <1>1, <1>2, <1>3, Invariance, PTL DEF Spec
=============================================================================
